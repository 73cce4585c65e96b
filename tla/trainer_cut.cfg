SPECIFICATION DownloadsSpec
CONSTANTS
  v1 = v1
  v2 = v2
  NoRevision = NoRevision
  Revisions <- TwoRevisions
  Libraries <- TwoLibraries
  MaxAttempts = 2
  HasCache = TRUE
INVARIANT UsableTrainerIsWhole
CHECK_DEADLOCK FALSE
