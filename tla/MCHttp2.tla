------------------------------ MODULE MCHttp2 ------------------------------
(***************************************************************************)
(* The values of the constants of Http2Connection for TLC.                 *)
(***************************************************************************)
EXTENDS Http2Properties

HEADERS(sid, endStream, endHeaders, fragment) ==
  [type |-> "HEADERS", sid |-> sid, dependsOn |-> 0, endStream |-> endStream,
   endHeaders |-> endHeaders, fragment |-> fragment, size |-> 1]
CONTINUATION(sid, endHeaders, fragment) ==
  [type |-> "CONTINUATION", sid |-> sid, endHeaders |-> endHeaders,
   fragment |-> fragment, size |-> 1]
DATA(sid, endStream, data) ==
  [type |-> "DATA", sid |-> sid, endStream |-> endStream, data |-> data, size |-> 1]
RST_STREAM(sid) == [type |-> "RST_STREAM", sid |-> sid]
PRIORITY(sid, dependsOn) == [type |-> "PRIORITY", sid |-> sid, dependsOn |-> dependsOn]
EXTENSION(sid) == [type |-> "EXTENSION", sid |-> sid]
WINDOW_UPDATE(sid, increment) ==
  [type |-> "WINDOW_UPDATE", sid |-> sid, increment |-> increment]
SETTINGS(window) ==
  [type |-> "SETTINGS", sid |-> 0, ack |-> FALSE, window |-> window,
   maxStreams |-> Absent, maxFrame |-> Absent, wellFormed |-> TRUE]
PING(ack) == [type |-> "PING", sid |-> 0, ack |-> ack]
GOAWAY == [type |-> "GOAWAY", sid |-> 0]
PUSH_PROMISE(sid) == [type |-> "PUSH_PROMISE", sid |-> sid]

NoUpgrade == <<>>
\* The two frames NeedToChangeProtocolException makes of an h2c request.
H2cUpgrade == <<SETTINGS(1), HEADERS(1, TRUE, TRUE, "pseudo")>>

\* Every way a request can be built, refused or spoiled; what does not depend
\* on the stream is only sent on stream 3.
BuildFrames ==
  UNION {{HEADERS(sid, FALSE, TRUE, "pseudo"), HEADERS(sid, TRUE, TRUE, "pseudo"),
          HEADERS(sid, TRUE, FALSE, "pseudo"), HEADERS(sid, TRUE, TRUE, "regular"),
          CONTINUATION(sid, TRUE, "regular"), DATA(sid, TRUE, "text"),
          RST_STREAM(sid), EXTENSION(sid)} : sid \in Sids}
  \cup {EXTENSION(0), HEADERS(3, FALSE, TRUE, "garbled"), CONTINUATION(3, TRUE, "length"),
        DATA(3, FALSE, "undecodable"),
        [DATA(3, FALSE, "text") EXCEPT !.size = 2],
        [HEADERS(3, TRUE, TRUE, "pseudo") EXCEPT !.dependsOn = 3],
        PRIORITY(3, 3), HEADERS(2, TRUE, TRUE, "pseudo")}

\* Complete requests, an upload with DATA behind its end, and the peer's
\* settings and window updates.
FlowFrames ==
  UNION {{HEADERS(sid, TRUE, TRUE, "pseudo"), WINDOW_UPDATE(sid, 2)} : sid \in Sids}
  \cup {HEADERS(3, FALSE, TRUE, "pseudo"), DATA(3, TRUE, "text")}
  \cup {WINDOW_UPDATE(0, 1), SETTINGS(0), SETTINGS(1), SETTINGS(2), [SETTINGS(2) EXCEPT !.wellFormed = FALSE],
        [SETTINGS(Absent) EXCEPT !.maxFrame = 2], [SETTINGS(0) EXCEPT !.ack = TRUE]}

\* Short requests on many streams, and what the peer may send around them.
EvictFrames ==
  {HEADERS(sid, TRUE, TRUE, "pseudo") : sid \in Sids}
  \cup {HEADERS(3, FALSE, TRUE, "pseudo"), DATA(3, TRUE, "text"), RST_STREAM(3),
        PRIORITY(3, 3), PRIORITY(3, 0), PING(FALSE), PING(TRUE), EXTENSION(0),
        [SETTINGS(Absent) EXCEPT !.maxStreams = 2], GOAWAY, PUSH_PROMISE(3)}

\* Whole requests and what a peer may lawfully send around them, frames of a
\* type nobody knows included.
LawfulFrames ==
  {HEADERS(sid, TRUE, TRUE, "pseudo") : sid \in Sids}
  \cup {RST_STREAM(1), EXTENSION(0), EXTENSION(1), SETTINGS(0), SETTINGS(1),
        WINDOW_UPDATE(0, 1), GOAWAY}

\* One upload, and DATA after its END_STREAM.
LateDataFrames == {HEADERS(1, FALSE, TRUE, "pseudo"), DATA(1, TRUE, "text"), SETTINGS(0), GOAWAY}

\* One request that the peer resets, or that it gives no window.
ResetFrames == {HEADERS(1, TRUE, TRUE, "pseudo"), RST_STREAM(1), SETTINGS(0), GOAWAY}

(***************************************************************************)
(* States that differ only in the numbers of the objects of a stream, or   *)
(* in objects nothing refers to, are the same state.                       *)
(***************************************************************************)
Cell(sid, inc) == IF inc = 0 THEN <<>> ELSE <<heap[sid][inc], inbox[sid][inc]>>
Owner(sid) == CASE subscriber[sid] = 0               -> "none"
                [] subscriber[sid] = processing[sid] -> "processing"
                [] subscriber[sid] = open[sid]       -> "open"
                [] OTHER                             -> "lost"
Canonical ==
  <<[sid \in Sids |-> <<Cell(sid, open[sid]), Cell(sid, processing[sid]),
                       open[sid] = processing[sid], Owner(sid)>>],
    [i \in 1..Len(queue) |-> <<queue[i].sid, queue[i].inc = processing[queue[i].sid]>>],
    reqCtx, canceled, closed, closedDeque, lastFrame, lastStreamId, settings,
    upgrade, parser, link, consumer.pc, consumer.sid, consumer.size,
    consumer.inc = IF consumer.sid = 0 THEN 0 ELSE processing[consumer.sid]>>
=============================================================================
