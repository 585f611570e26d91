CONSTANTS
  Pairs <- MCPairs
  Keys = {k1, k2}
  Unset = Unset
  Nil = Nil
  TxIds = {0, 1}
  short = short
  long = long
  Data <- MCData
  Junk = Junk
  Failed = Failed
  Requests <- MCRequests
  Size <- MCSize
  MaxType = 1
  MaxLen = 3
  Overhead = 1
  Headers <- MCHeaders
  MaxFrames = 2

SPECIFICATION FairSpec
INVARIANTS
  TypeOK
  OnlyExplainedErrors
  NothingInTheClear
  RustSealsWithOneKey
PROPERTIES
  ImplementsChannel
  FramesArrive
CHECK_DEADLOCK FALSE
