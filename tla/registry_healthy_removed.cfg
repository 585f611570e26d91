\* HealthyRowNotRemoved against what the code does.
SPECIFICATION Spec
CONSTANTS
  api = api
  web = web
  blank = blank
  Ips = {i1}
  Infos = {web}
  Labels <- MCLabels
  LabelsOf <- MCLabelsOf
  Queries <- MCBothLabels
  Conns = {k1, k2}
  RawConns = {}
  Probers = {p1}
  RunProber = p1
  OfflineTTL = 2
  MaxAnswer = 1
  Faults = {"upsert", "list", "remove"}
  NoRow = NoRow
  NoEntry = NoEntry
  NoConn = NoConn
  NoIp = NoIp
  MaxTime = 3
  MaxCrashes = 1
CHECK_DEADLOCK FALSE
PROPERTIES
  HealthyRowNotRemoved
