SPECIFICATION Spec
CONSTANTS
  None = None
  m1=m1
  m2=m2
  p1=p1
  p2=p2
  r1=r1
  r2=r2
  Managers <- TwoManagers
  Clis <- TwoClis
  Records <- TwoRecords
  Build <- TwoBuilds
  MaxCrashes = 1
INVARIANT TrainingKeepsItsDataset
CHECK_DEADLOCK FALSE
