\* One server in a program that embeds it, failing externals, a crash, a restart,
\* fair scheduling.
SPECIFICATION FairSpec
CONSTANTS
  Servers = {s1}
  Binaries = {}
  Conns = {k1, k2}
  Types = {write, other, unreadable}
  MessageType = write
  Unreadable = unreadable
  Statuses <- MCStatuses
  NoStatus = NoStatus
  Faults = {"redis", "flush"}
  NoConn = NoConn
  MaxTime = 1
  MaxCrashes = 1
CHECK_DEADLOCK FALSE
INVARIANTS
  TypeOK
  AckedIsTaken
  CountsAreTaken
  SamplesMonotone
PROPERTIES
  CallsReturn
  TotalsReported
  ImplementsForwarder
