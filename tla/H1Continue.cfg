CONSTANTS
  ClientStreams <- ContinueStreams
  MaxRead = 2
  EndpointResults = {"response"}
SPECIFICATION Spec
INVARIANTS ContinueAnswered
