\* A write while the daemon thread dies of an exception.
CONSTANTS
  w1 = w1
  w2 = w2
  Writers = {w1}
  Modes <- AutoOnly
  Correction <- Correct
  Keys = {k1}
  Payloads = {p1}
  NoData = NoData
  NoDataKeys = {k1}
  EntryDay <- MCEntryDay
  NoEntry = NoEntry
  NoOp = NoOp
  TicksPerDay = 1
  RecentDays = 1
  NoDataTTL = 1
  MaxAttempts = 3
  MaxJobs = 2
  MaxSyncWrites = 0
  MaxUpsertFaults = 0
  MaxFlushFaults = 1
  MaxCrashes = 0
  MaxTime = 0
SPECIFICATION Spec
INVARIANTS
  NoLostWakeup
\* The bounds on jobs, faults and time stop the model, not the program.
CHECK_DEADLOCK FALSE
