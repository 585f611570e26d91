\* The documented types, and what becomes of them.
SPECIFICATION Spec
CONSTANTS
  Inputs <- MCInputs
  Inf = "+Inf"
  NoTime = NoTime
  Clocks <- MCClocks
CHECK_DEADLOCK FALSE
INVARIANTS
  DocumentedTypesEncoded
