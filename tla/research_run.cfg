\* One request to the API on either client: scans, backtests and research runs.
CONSTANTS
  None = None
  Missing = Missing
  Caller = Caller
  s1 = s1
  s2 = s2
  unknown = unknown
  Offsets <- MCOffsets
  Worlds <- MCWorlds
  Requests <- MCRequests
  Clients = {"tushare", "cached"}
  Agents = {"none", "configured"}
  Numbers = {1, 2, 10}
  MaxFaults = 1
  MaxRetries = 1
SPECIFICATION Spec
INVARIANTS
  HandlersRestored
  ManifestsTellTheTruth
  SignalsIgnoreTheFuture
  LogsTellTheRun
  ScoresAreConsistent
  ReportTellsScores
  ScanKeepsStocksApart
PROPERTIES
  EveryRequestAnswered
\* A request is answered once.
CHECK_DEADLOCK FALSE
