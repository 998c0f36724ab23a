SPECIFICATION MCSpec
CONSTANTS
  Intervals = {1}
  MarkerMayFail = FALSE
  DayLen = 2
  MaxConnect = 1
  MaxSetup = 2
  MaxClock = 6
  MaxKills = 1
  Capacity = 14
  Tenth = 1
  CheckEvery = 2
  MaxWritten = 2
  MaxFailures = 1
  FetchIntervals = {2, 3}
  BaseTimeout = 10
  Second = 4
  Delay = 1
  Guard = 2
  MinBudget = 4
  SlowOps = 2
  MaxFetchClock = 40
  Cameras = {c1, c2}
  Late = c2
  SilentAfter = 2
  Stale = 1
  WatchEvery = 2
  Versions = 2
  MaxRecordLosses = 1
INVARIANTS
  OverrunBounded
  ReserveKept
  RetryCost
PROPERTIES
  PauseStopsGrabber
  SilenceToldOnce
  AlarmIsEarned
  SilenceReported
CHECK_DEADLOCK FALSE
