\* An observation whose offset lies beyond the last open day.
CONSTANTS
  None = None
  Missing = Missing
  Caller = Caller
  s1 = s1
  s2 = s2
  unknown = unknown
  Offsets <- MCOffsets
  Worlds <- MCWorlds
  Requests <- MCRequests
  Clients = {"tushare", "cached"}
  Agents = {"none", "configured"}
  Numbers = {1, 2, 10}
  MaxFaults = 1
  MaxRetries = 1
SPECIFICATION Spec
INVARIANT MissingFutureIsNotAFailure
\* A request is answered once.
CHECK_DEADLOCK FALSE
