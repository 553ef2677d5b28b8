---------------------------- MODULE Http2Frames ----------------------------
(***************************************************************************)
(* The frames hyperframe hands to Http2Connection.parse_http2_frame, with  *)
(* the fields its handlers read, and the frames the server writes back.    *)
(* hyperframe enforces the association of a frame type with a stream while *)
(* it parses the frame header, so HEADERS, DATA, CONTINUATION, RST_STREAM, *)
(* PRIORITY and PUSH_PROMISE always name a stream here and SETTINGS, PING  *)
(* and GOAWAY never do.                                                    *)
(***************************************************************************)
EXTENDS Http2Stream

CONSTANT Sids            \* the stream ids a client may open: odd numbers

ASSUME SidsAssumption == Sids \subseteq {n \in Nat : n % 2 = 1}

\* One even id stands for all of them: the code only asks for the parity.
EvenSid == 2

FrameSids == Sids \cup {EvenSid}

Absent == -1             \* a setting that a SETTINGS frame does not carry

Sizes == 1..2            \* in units of the initial SETTINGS_MAX_FRAME_SIZE

HeadersFrame ==
  [type : {"HEADERS"}, sid : FrameSids, dependsOn : FrameSids \cup {0},
   endStream : BOOLEAN, endHeaders : BOOLEAN, fragment : Fragments, size : Sizes]

ContinuationFrame ==
  [type : {"CONTINUATION"}, sid : FrameSids, endHeaders : BOOLEAN,
   fragment : Fragments, size : Sizes]

DataFrame ==
  [type : {"DATA"}, sid : FrameSids, endStream : BOOLEAN, data : Bodies,
   size : Sizes]

RstStreamFrame == [type : {"RST_STREAM"}, sid : FrameSids]

PriorityFrame ==
  [type : {"PRIORITY"}, sid : FrameSids, dependsOn : FrameSids \cup {0}]

ExtensionFrame == [type : {"EXTENSION"}, sid : FrameSids \cup {0}]

\* hyperframe refuses a zero increment while it parses the body.
WindowUpdateFrame ==
  [type : {"WINDOW_UPDATE"}, sid : FrameSids \cup {0}, increment : 1..MaxWindow]

\* wellFormed: every setting but the window passes check_settings_if_throw.
SettingsFrame ==
  [type : {"SETTINGS"}, sid : {0}, ack : BOOLEAN, window : Nat \cup {Absent},
   maxStreams : Nat \cup {Absent}, maxFrame : Sizes \cup {Absent},
   wellFormed : BOOLEAN]

PingFrame == [type : {"PING"}, sid : {0}, ack : BOOLEAN]

\* Frames whose handler raises: the loop ends and the connection is wound up.
EndingFrame == [type : {"GOAWAY"}, sid : {0}]
               \cup [type : {"PUSH_PROMISE", "ALTSVC"}, sid : FrameSids]

Frame == HeadersFrame \cup ContinuationFrame \cup DataFrame \cup RstStreamFrame
         \cup PriorityFrame \cup ExtensionFrame \cup WindowUpdateFrame
         \cup SettingsFrame \cup PingFrame \cup EndingFrame

\* last_frame: the type and stream of the last HEADERS or DATA frame handled.
NoFrame == [type |-> "NONE", sid |-> 0]
LastFrame == {NoFrame} \cup [type : {"HEADERS", "DATA"}, sid : Sids]

-----------------------------------------------------------------------------
\* What the server writes.
GoAway(last, code) == [type |-> "GOAWAY", last |-> last, code |-> code]
SettingsAck        == [type |-> "SETTINGS_ACK"]
PingAck            == [type |-> "PING_ACK"]
ResetStream(sid)   == [type |-> "RST_STREAM", sid |-> sid]
ResponseHeaders(sid)    == [type |-> "RESPONSE_HEADERS", sid |-> sid]
ResponseData(sid, size) == [type |-> "RESPONSE_DATA", sid |-> sid, size |-> size]

ServerFrame ==
  [type : {"GOAWAY"}, last : Sids \cup {0}, code : ErrorCodes]
  \cup [type : {"SETTINGS_ACK", "PING_ACK"}]
  \cup [type : {"RST_STREAM"}, sid : {1}]
  \cup [type : {"RESPONSE_HEADERS"}, sid : Sids]
  \cup [type : {"RESPONSE_DATA"}, sid : Sids, size : Nat]
=============================================================================
