SPECIFICATION FairSpec
CONSTANTS
  Cameras = {c1}
  MaxDay = 3
  Frames = {f1}
  Garbage = garbage
  MinFrames = 1
  MaxBacklog = 1
  Runs = {r1}
  ByHand = {0, 1}
  MarkerMayFail = FALSE
  DeletionMayStop = TRUE
  LockMayFail = FALSE
  LateFrames = FALSE
  MaxCrashes = 1
PROPERTIES
  EveryDayEncoded
  EveryVideoShipped
