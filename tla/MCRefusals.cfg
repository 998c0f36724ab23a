SPECIFICATION MCSpec
CONSTANTS
  OtherClasses = {"unreachable"}
  AuthStrikes = 2
  AuthPause = 2
  AuthRetry = 4
  Lockout = 4
  StepSize = 4
  MaxSteps = 1
  StaleAfter = 1
  MaxUpsets = 2
  MaxLosses = 1
INVARIANTS
  NoHammering
  NotifiedOnce
  SilenceBounded
PROPERTIES
  Recovers
  ToldInTheEnd
