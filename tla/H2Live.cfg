CONSTANTS
  Sids = {1, 3}
  MaxWindow = 1
  ClientFrames <- LawfulFrames
  UpgradeFrames <- NoUpgrade
  ResponseSizes = {0, 1}
  InitialWindow = 0
  MaxConcurrentStreams = 3
  CompletedQueSize = 2
VIEW Canonical
SPECIFICATION FairSpec
PROPERTIES SubscribedStops RequestsServed LostConnectionEnds
CHECK_DEADLOCK FALSE
