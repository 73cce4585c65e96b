SPECIFICATION FairSpec
CONSTANTS
  c1 = c1
  c2 = c2
  s1 = s1
  s2 = s2
  Contexts <- TwoContexts
  Services <- OneService
  StagedLimit = 2
  MaxCommits = 2
  MaxKeys = 1
INVARIANTS
  TypeOK
  WithdrawalIsFinal
  OneStagedPerSource
  TextIsKept
PROPERTIES
  WrittenWhenSettled
  StagedIsSettled
CHECK_DEADLOCK FALSE
