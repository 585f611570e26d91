\* Liveness: two nodes in one probe loop, a crash, SQLite errors, a peer without
\* client.rs, and nodes so large that no answer fits in a frame.
SPECIFICATION FairSpec
CONSTANTS
  api = api
  web = web
  blank = blank
  Ips = {i1, i2}
  Infos = {web}
  Labels <- MCLabels
  LabelsOf <- MCLabelsOf
  Queries <- MCBothLabels
  Conns = {k1, k2}
  RawConns = {k1}
  Probers = {p1}
  RunProber = p1
  OfflineTTL = 1
  MaxAnswer = 0
  Faults = {"upsert", "list", "remove"}
  NoRow = NoRow
  NoEntry = NoEntry
  NoConn = NoConn
  NoIp = NoIp
  MaxTime = 1
  MaxCrashes = 1
CHECK_DEADLOCK FALSE
PROPERTIES
  CallsReturn
  SilentRowsRemoved
  LiveRowsVisible
