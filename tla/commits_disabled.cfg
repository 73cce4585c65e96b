SPECIFICATION Spec
CONSTANTS
  c1 = c1
  c2 = c2
  s1 = s1
  s2 = s2
  Contexts <- TwoContexts
  Services <- OneService
  StagedLimit = 2
  MaxCommits = 2
  MaxKeys = 1
PROPERTIES
  StoredOnlyWhileEnabled
CHECK_DEADLOCK FALSE
