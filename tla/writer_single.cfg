\* One auto-flush writer that loses transactions, its thread and its process.
CONSTANTS
  w1 = w1
  w2 = w2
  Writers = {w1}
  Modes <- AutoOnly
  Correction <- Correct
  Keys = {k1}
  Payloads = {p1}
  NoData = NoData
  NoDataKeys = {k1}
  EntryDay <- MCEntryDay
  NoEntry = NoEntry
  NoOp = NoOp
  TicksPerDay = 1
  RecentDays = 1
  NoDataTTL = 1
  MaxAttempts = 2
  MaxJobs = 2
  MaxSyncWrites = 0
  MaxUpsertFaults = 3
  MaxFlushFaults = 1
  MaxCrashes = 1
  MaxTime = 1
SPECIFICATION Spec
INVARIANTS
  NoLostWakeupUnlessThreadRaises
PROPERTIES
  ReplayIsHarmless
  EveryJobSettles
\* The bounds on jobs, faults and time stop the model, not the program.
CHECK_DEADLOCK FALSE
