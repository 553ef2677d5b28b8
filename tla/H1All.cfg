CONSTANTS
  ClientStreams <- AllStreams
  MaxRead = 2
  EndpointResults = {"response", "stream", "raise"}
SPECIFICATION FairSpec
INVARIANTS TypeOK CallsGenuine Aligned FailureIsFinal CloseIsFinal StreamsEnd
PROPERTIES ConnectionEnds
