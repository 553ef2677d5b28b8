CONSTANTS
  Sids = {1}
  MaxWindow = 3
  ClientFrames <- ResetFrames
  UpgradeFrames <- NoUpgrade
  ResponseSizes = {0, 1}
  InitialWindow = 0
  MaxConcurrentStreams = 3
  CompletedQueSize = 2
SPECIFICATION Spec
PROPERTIES FlowControlObserved
CHECK_DEADLOCK FALSE
