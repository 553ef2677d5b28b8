CONSTANTS
  Sids = {1, 3}
  MaxWindow = 3
  ClientFrames <- BuildFrames
  UpgradeFrames <- NoUpgrade
  ResponseSizes = {0, 1}
  InitialWindow = 1
  MaxConcurrentStreams = 3
  CompletedQueSize = 2
SPECIFICATION Spec
VIEW Canonical
INVARIANTS RegistryConsistent InOrder RequestsComplete
PROPERTIES ImplementsPipeline
CHECK_DEADLOCK FALSE
