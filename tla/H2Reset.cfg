CONSTANTS
  Sids = {1}
  MaxWindow = 3
  ClientFrames <- ResetFrames
  UpgradeFrames <- NoUpgrade
  ResponseSizes = {0, 1}
  InitialWindow = 1
  MaxConcurrentStreams = 3
  CompletedQueSize = 2
SPECIFICATION Spec
PROPERTIES ClosedStreamsSilent
CHECK_DEADLOCK FALSE
