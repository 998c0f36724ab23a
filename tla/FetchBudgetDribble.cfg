SPECIFICATION FetchSpec
CONSTANTS
  FetchIntervals = {2, 3}
  BaseTimeout = 10
  Second = 4
  Delay = 1
  Guard = 2
  MinBudget = 4
  SlowOps = 4
  MaxFetchClock = 40
INVARIANTS
  GivenUpAtDeadline
CHECK_DEADLOCK FALSE
