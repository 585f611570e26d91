\* Two servers on one Redis hash that does not fail, both the binary.
SPECIFICATION Spec
CONSTANTS
  Servers = {s1, s2}
  Binaries = {s1, s2}
  Conns = {k1, k2}
  Types = {write}
  MessageType = write
  Unreadable = unreadable
  Statuses <- MCStatuses
  NoStatus = NoStatus
  Faults = {}
  NoConn = NoConn
  MaxTime = 1
  MaxCrashes = 0
SYMMETRY ServerSymmetry
CHECK_DEADLOCK FALSE
INVARIANTS
  AckedIsCounted
  SamplesNotAhead
