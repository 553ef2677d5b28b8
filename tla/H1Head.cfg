CONSTANTS
  ClientStreams <- GetStreams
  MaxRead = 2
  EndpointResults = {"response"}
SPECIFICATION FairSpec
PROPERTIES HeadsEnd
