\* Three goroutines on a counter that wraps.
SPECIFICATION FairSpec
CONSTANTS
  Callers = {c1, c2, c3}
  Modulus <- MCModulus
  MaxCalls = 7
CHECK_DEADLOCK FALSE
INVARIANTS
  TypeOK
  NoIdTwice
PROPERTIES
  CallersReturn
