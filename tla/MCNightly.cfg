SPECIFICATION MCSpec
CONSTANTS
  Videos = {v1, v2}
  MaxEncodes = 2
  MaxLength = 1
  Slack = 1
  NasAhead = 0
  AllCameras = {c1, c2}
  Days = 2
  MaxRuns = 2
  MaxBacklog = 1
SYMMETRY AnyVideoOrCamera
INVARIANTS
  NewestIsKept
  NeverHalfThere
  RsyncProbeHonest
  IdleAnswerTrue
PROPERTIES
  CredentialsVerified
  NoFramesIsTrue
CHECK_DEADLOCK FALSE
