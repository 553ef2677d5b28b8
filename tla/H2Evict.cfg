CONSTANTS
  Sids = {1, 3, 5}
  MaxWindow = 3
  ClientFrames <- EvictFrames
  UpgradeFrames <- H2cUpgrade
  ResponseSizes = {0}
  InitialWindow = 1
  MaxConcurrentStreams = 3
  CompletedQueSize = 1
SPECIFICATION Spec
VIEW Canonical
INVARIANTS ClosedBounded RequestInvariant ConcurrencyBounded
PROPERTIES ImplementsPipeline
