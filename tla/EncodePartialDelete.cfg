SPECIFICATION Spec
CONSTANTS
  Cameras = {c1}
  MaxDay = 2
  Frames = {f1, f2}
  Garbage = garbage
  MinFrames = 1
  MaxBacklog = 1
  Runs = {r1, r2}
  ByHand = {0, 1, 2}
  MarkerMayFail = FALSE
  DeletionMayStop = TRUE
  LockMayFail = FALSE
  LateFrames = FALSE
  MaxCrashes = 1
PROPERTIES
  EncodedOnce
