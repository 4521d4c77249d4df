\* Two connections whose upserts overlap.
CONSTANTS
  k1 = k1
  k2 = k2
  Keys = {k1, k2}
  Payloads = {p1, p2}
  NoData = NoData
  NoDataKeys <- MCNoDataKeys
  EntryDay <- MCEntryDay
  Agents = {a1, a2}
  NoEntry = NoEntry
  NoOp = NoOp
  TicksPerDay = 2
  RecentDays = 1
  NoDataTTL = 1
  MaxVersions = 3
  MaxDamage = 1
  MaxTime = 1
SYMMETRY Symmetry
SPECIFICATION Spec
INVARIANTS
  PointerIntegrity
  LedgerConsistent
PROPERTIES
  PayloadsImmutable
  ImplementsRegister
\* The bounds on versions and time stop the model, not the program.
CHECK_DEADLOCK FALSE
