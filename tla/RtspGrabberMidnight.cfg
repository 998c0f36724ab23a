SPECIFICATION GrabberSpec
CONSTANTS
  Intervals = {1, 2}
  MarkerMayFail = FALSE
  DayLen = 3
  MaxConnect = 1
  MaxSetup = 1
  MaxClock = 8
  MaxKills = 0
INVARIANT BoundedToItsDay
