\* Both encoders on every small input.
SPECIFICATION Spec
CONSTANTS
  Inputs <- MCInputs
  Inf = "+Inf"
  NoTime = NoTime
  Clocks <- MCClocks
CHECK_DEADLOCK FALSE
INVARIANTS
  TypeOK
  MetricsAreWhole
  SeriesAreDistinct
  HistogramsAreClosed
  TimesAreReal
