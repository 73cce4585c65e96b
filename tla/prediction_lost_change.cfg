SPECIFICATION PairedSpec
CONSTANTS
  c1 = c1
  c2 = c2
  ba = ba
  ma = ma
  NoReading = NoReading
  Contexts <- TwoContexts
  Readings <- TwoReadings
  Phrases <- OnePhrase
  MaxSegments = 2
  MaxRevision = 3
  MaxRequests = 1
  MaxGeneration = 1
INVARIANT ChangedMeansDirty
CHECK_DEADLOCK FALSE
