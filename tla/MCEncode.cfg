SPECIFICATION Spec
CONSTANTS
  Cameras = {c1}
  MaxDay = 2
  Frames = {f1, f2}
  Garbage = garbage
  MinFrames = 1
  MaxBacklog = 1
  Runs = {r1, r2}
  ByHand = {0, 1, 2}
  MarkerMayFail = TRUE
  DeletionMayStop = FALSE
  LockMayFail = TRUE
  LateFrames = TRUE
  MaxCrashes = 1
SYMMETRY Symmetry
INVARIANTS
  CustodyInv
PROPERTIES
  ImplementsCustody
