\* One connection at a time (the sync mode, a single flusher), three days of clock.
CONSTANTS
  k1 = k1
  k2 = k2
  Keys = {k1, k2}
  Payloads = {p1, p2}
  NoData = NoData
  NoDataKeys <- MCNoDataKeys
  EntryDay <- MCEntryDay
  Agents = {a1}
  NoEntry = NoEntry
  NoOp = NoOp
  TicksPerDay = 2
  RecentDays = 1
  NoDataTTL = 1
  MaxVersions = 3
  MaxDamage = 1
  MaxTime = 4
SYMMETRY Symmetry
SPECIFICATION Spec
INVARIANTS
  TypeOK
  OnlyUnknownKindsAreStuck
  CurrentIsNewest
PROPERTIES
  CorrectionsAreRecorded
  StaleOnlyCuredByWriteOrAge
\* The bounds on versions and time stop the model, not the program.
CHECK_DEADLOCK FALSE
