SPECIFICATION MCSpec
CONSTANTS
  Sessions = {s1, s2}
  Keep = 2
  MaxSaves = 4
  MaxClock = 1
  ClockMayStepBack = FALSE
  Names = {a, b}
  LastDay = 3
  MaxEdits = 2
  MaxJobs = 4
  MaxFaults = 2
  Slots = {c1, c2}
  MaxTyping = 2
  MaxAdds = 1
INVARIANTS
  ListedInOrder
  SaidIsSo
  StrandedIsKnown
  StoppedStaysStopped
  NewSettingsRun
  EnabledIsProven
PROPERTIES
  CrashedComesBack
CHECK_DEADLOCK FALSE
