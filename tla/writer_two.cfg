\* An auto-flush writer and one of another mode on the same tables.
CONSTANTS
  w1 = w1
  w2 = w2
  Writers = {w1, w2}
  Modes <- AutoAndOther
  Correction <- OnlyFirstCorrects
  Keys = {k1}
  Payloads = {p1}
  NoData = NoData
  NoDataKeys = {k1}
  EntryDay <- MCEntryDay
  NoEntry = NoEntry
  NoOp = NoOp
  TicksPerDay = 1
  RecentDays = 1
  NoDataTTL = 1
  MaxAttempts = 2
  MaxJobs = 2
  MaxSyncWrites = 1
  MaxUpsertFaults = 2
  MaxFlushFaults = 1
  MaxCrashes = 0
  MaxTime = 0
SPECIFICATION Spec
INVARIANTS
  StatusFollowsOutcome
\* The bounds on jobs, faults and time stop the model, not the program.
CHECK_DEADLOCK FALSE
