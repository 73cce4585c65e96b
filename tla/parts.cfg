SPECIFICATION PartsSpec
CONSTANTS
  None = None
  NoRevision = NoRevision
  Absent = Absent
  Settings <- TwoSettings
  RowCounts <- ShortAndLong
  MenuRows <- ThreeThenOne
  Raws <- SomeRaws
  MaxLength = 2
  MaxPending = 3
  MaxSymbols = 2
  TopK = 2
  Contexts <- TwoWidgets
  Passwords <- OnePassword
  Services <- ThreeServices
  c1 = c1
  c2 = c2
  MaxGeneration = 2
  MaxSequence = 2
  MaxCompositions = 1
  v1 = v1
  v2 = v2
  Revisions <- TwoRevisions
  Libraries <- TwoLibraries
  HasCache = TRUE
  MaxAttempts = 2
  FrontEnds <- TwoFrontEnds
  Addon = "addon"
  Words <- TwoWords
  Characters <- WordLengths
  Keys <- TwoKeys
  Readings <- KeyLengths
  KeyOrder <- TwoKeysInOrder
  MaxLines = 1
  Requests <- Messages
  Ids <- ThreeIds
  ErrorTexts <- SomeErrors
  CandidateLists <- SomeCandidates
INVARIANTS PartsTypeOK KeysWalkTheShownList StateMatchesComposition MixedSurvives FramesAreUnderstood
  WholeTextPredatesComposition ReadyIsVerified EndpointIsKept
PROPERTY StoredPhrasesStay
CHECK_DEADLOCK FALSE
