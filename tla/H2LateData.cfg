CONSTANTS
  Sids = {1}
  MaxWindow = 3
  ClientFrames <- LateDataFrames
  UpgradeFrames <- NoUpgrade
  ResponseSizes = {1}
  InitialWindow = 0
  MaxConcurrentStreams = 3
  CompletedQueSize = 2
SPECIFICATION FairSpec
PROPERTIES ConsumerStops
CHECK_DEADLOCK FALSE
