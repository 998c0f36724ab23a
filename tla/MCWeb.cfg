SPECIFICATION MCSpec
CONSTANTS
  Interval = 2
  Versions = 2
  Browsers = {b1, b2}
  Tokens = 3
  MaxSessions = 2
  Idle = 1
  Encodes = 2
  MaxSize = 2
  Limit = 3
  CountTtl = 4
  BeatEvery = 3
  StaleAfter = 7
INVARIANTS
  PanelHonest
  FramingKept
  NeverSpliced
  NeverTooGreen
PROPERTIES
  UpdateNoticed
  PagesNeedLogin
