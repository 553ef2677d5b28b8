CONSTANTS
  Sids = {1, 3}
  MaxWindow = 3
  ClientFrames <- FlowFrames
  UpgradeFrames <- NoUpgrade
  ResponseSizes = {0, 1, 2}
  InitialWindow = 1
  MaxConcurrentStreams = 3
  CompletedQueSize = 2
SPECIFICATION Spec
VIEW Canonical
INVARIANTS TypeOK NoLostWakeup
PROPERTIES SendsWithinWindow
CHECK_DEADLOCK FALSE
