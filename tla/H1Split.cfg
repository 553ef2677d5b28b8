CONSTANTS
  ClientStreams <- PostStreams
  MaxRead = 2
  EndpointResults = {"response"}
SPECIFICATION Spec
INVARIANTS SufficientBodyAccepted
