SPECIFICATION Spec
CONSTANTS
  Intervals = {2, 3}
  DayLen = 5
  FallBack = 4
  FoldLen = 1
  SuffixLimit = 2
  MarkerMayFail = FALSE
  MaxClock = 9
  MaxSteps = 1
INVARIANTS
  FramesMatchMarker
PROPERTIES
  TicksStayOnGrid
  NoFrameOverwritten
