CONSTANTS
  Pieces = {"", "a", "b", "b.c", "one", "two", "wide", "empty", "fails", "mistyped",
            "stream", "audio", "radio", "again", "anew", "blank", "live"}
  ForbiddenPieces = {"b.c"}
  Names = {"a.com", "b.com"}
  Conns = {1, 2}
  Endpoints <- AllEndpoints
  Params <- AllParams
  Programs <- AllPrograms
SPECIFICATION FairSpec
INVARIANTS TypeOK RoutesMatch ArgumentsOwn SecureServersBehindTls HostServed Framed
  Http2NotChunked ExitStopsListening
PROPERTIES ExitCompletes
