\* Runs, evaluations, batches, aggregates and reviews given one after the other.
CONSTANTS
  None = None
  Missing = Missing
  Caller = Caller
  Cases <- MCCases
  Clients = {"tushare", "cached"}
  Offsets = {1, 3}
  LookbackDays = 2
  WarmupDays = 2
  ProbeDays = 6
  MaxFaults = 1
  MaxCrashes = 1
SPECIFICATION Spec
INVARIANTS
  FactorFilesAreSound
  SealsAccountForStocks
  AggregatePrefersCompleted
  ReviewsAreOfTheLatest
  HandlersReturned
PROPERTIES
  ImplementsArtifacts
  EveryCommandEnds
