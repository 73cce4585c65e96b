SPECIFICATION Spec
CONSTANTS
  w1 = w1
  w2 = w2
  NoTask = NoTask
  Workers <- TwoWorkers
  MaxConcurrent = 1
  MaxSessions = 2
  MaxIdleSessions = 1
  MaxOpened = 2
  MaxRequestId = 2
  MaxTasks = 4
INVARIANTS
  TypeOK
  NoPredictionAfterDestroy
  SlotsAreCounted
  NoLostWakeup
  OnePredictionPerSession
PROPERTIES
  NobodyWaitsForEver
CHECK_DEADLOCK FALSE
