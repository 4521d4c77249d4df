\* The delta of a day whose lookback anchor has a price and no chips.
CONSTANTS
  None = None
  Missing = Missing
  Caller = Caller
  Cases <- MCCases
  Clients = {"tushare", "cached"}
  Offsets = {1, 3}
  LookbackDays = 2
  WarmupDays = 2
  ProbeDays = 6
  MaxFaults = 1
  MaxCrashes = 1
SPECIFICATION Spec
INVARIANT OkDeltasHaveAnchors
