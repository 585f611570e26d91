\* Four calls on two fields of 3-bit integers.
SPECIFICATION Spec
CONSTANTS
  Calls = {c1, c2, c3, c4}
  Fields = {f1, f2}
  Limit = 4
  Deltas = {0, 1, 3, 7}
SYMMETRY CallSymmetry
CHECK_DEADLOCK FALSE
INVARIANTS
  TypeOK
  CountedOnce
  TotalsAreCurrent
PROPERTIES
  OnlyGrows
