\* One probe loop, a crash, SQLite errors, a peer that may send empty labels.
SPECIFICATION Spec
CONSTANTS
  api = api
  web = web
  blank = blank
  Ips = {i1, i2}
  Infos = {api, web, blank}
  Labels <- MCLabels
  LabelsOf <- MCLabelsOf
  Queries <- MCBothOrNone
  Conns = {k1, k2}
  RawConns = {k1}
  Probers = {p1}
  RunProber = p1
  OfflineTTL = 1
  MaxAnswer = 1
  Faults = {"upsert", "list", "remove"}
  NoRow = NoRow
  NoEntry = NoEntry
  NoConn = NoConn
  NoIp = NoIp
  MaxTime = 1
  MaxCrashes = 1
SYMMETRY IpSymmetry
CHECK_DEADLOCK FALSE
INVARIANTS
  TypeOK
  RowsHaveLabels
  RowHasHealth
  HealthHasRow
  HealthySinceBoot
PROPERTIES
  FreshRegistrationNotMarked
  RowsKeptForTTL
  ImplementsDirectory
