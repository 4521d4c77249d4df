\* Two readers of one cache, whose provider changes under them.
CONSTANTS
  long = long
  short = short
  Readers = {long, short}
  Wanted <- MCWanted
  Days <- MCDays
  p1 = p1
  Worlds <- MCWorlds
  Prices = {p1}
  NoData = NoData
  NoEntry = NoEntry
  NoOp = NoOp
  Modes = {"sync", "async"}
  TicksPerDay = 1
  RecentDays = 1
  NoDataTTL = 0
  MaxStoreTicks = 1
  MaxReads = 2
  MaxQueue = 1
  MaxChanges = 1
  MaxLosses = 1
  MaxTime = 2
SPECIFICATION Spec
INVARIANTS
  CacheHoldsAnswers
  ResultsAreRecent
PROPERTIES
  QuestionsAreNotWasted
\* The bounds on time and changes stop the model, not the program.
CHECK_DEADLOCK FALSE
