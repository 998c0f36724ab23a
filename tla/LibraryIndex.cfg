SPECIFICATION FairSpec
CONSTANTS
  Folders = {root, f1}
  Root = root
  Names = {a}
  Versions = {v1, v2}
  Gone = gone
  RetryLimit = 2
  BatchSize = 2
  Requests = {q1}
PROPERTIES
  PruneOnlyTheGone
  Converges
