---------------------------- MODULE Http2Stream ----------------------------
(***************************************************************************)
(* One Http2Stream object of http2_object.py and the frames it receives.   *)
(* Everything here is a function of a stream record: the connection module *)
(* decides which object a frame reaches and in which order the methods     *)
(* are called.                                                             *)
(*                                                                         *)
(* Bytes are abstracted to what the code can tell apart.  A header block   *)
(* is the verdict decoding and validation would give on the concatenation  *)
(* of the fragments received so far; a body is "text" or "undecodable"; a  *)
(* frame has size 1 if it fits the protocol's initial SETTINGS_MAX_FRAME_  *)
(* SIZE and 2 if it only fits a raised one.                                *)
(***************************************************************************)
EXTENDS Integers

CONSTANT MaxWindow     \* 2^31 - 1 in the code: the largest legal window

ASSUME MaxWindowAssumption == MaxWindow \in Nat \ {0}

Statuses == {"INIT", "UPDATING", "DONE"}          \* Http2Stream.INIT, ...
States   == {"OPEN", "HALF_CLOSED", "CLOSED"}     \* Http2StreamState

ErrorCodes == {"PROTOCOL_ERROR", "FLOW_CONTROL_ERROR", "STREAM_CLOSED",
               "FRAME_SIZE_ERROR", "COMPRESSION_ERROR"}

(***************************************************************************)
(* What a HEADERS or CONTINUATION frame carries: a complete, legal set of  *)
(* pseudo headers; a content-length; other legal fields; a field that      *)
(* validate_headers rejects; bytes HPACK cannot decode.                    *)
(***************************************************************************)
Fragments == {"pseudo", "length", "regular", "illegal", "garbled"}

\* The verdicts on a concatenation of fragments.
Blocks == {"empty", "valid", "validWithLength", "invalid", "undecodable"}

ExtendBlock(block, fragment) ==
  CASE block = "undecodable" \/ fragment = "garbled" -> "undecodable"
    [] block = "empty" /\ fragment = "pseudo"        -> "valid"
    [] /\ block \in {"valid", "validWithLength"}
       /\ fragment = "length"                        -> "validWithLength"
    [] /\ block \in {"valid", "validWithLength"}
       /\ fragment = "regular"                       -> block
    [] OTHER                                         -> "invalid"

Bodies == {"text", "undecodable"}

ExtendBody(body, data) == IF data = "text" THEN body ELSE "undecodable"

Stream == [headerStatus : Statuses, streamStatus : Statuses, state : States,
           rawHeaders : Blocks, hasLength : BOOLEAN, rawBody : Bodies,
           window : Int]

\* Http2Stream.__init__
NewStream(window) ==
  [headerStatus |-> "INIT", streamStatus |-> "INIT", state |-> "OPEN",
   rawHeaders |-> "empty", hasLength |-> FALSE, rawBody |-> "text",
   window |-> window]

-----------------------------------------------------------------------------
\* is_allowed_frame: "ok", or the code of the error the frame is answered with.
IsAllowedFrame(s, type) ==
  CASE /\ s.state = "HALF_CLOSED" /\ s.headerStatus = "DONE"
       /\ type \notin {"WINDOW_UPDATE", "PRIORITY", "RST_STREAM", "SETTINGS"}
         -> "STREAM_CLOSED"
    [] /\ s.state = "HALF_CLOSED" /\ s.headerStatus # "DONE"
       /\ type \notin {"WINDOW_UPDATE", "PRIORITY", "RST_STREAM", "HEADERS",
                       "CONTINUATION", "SETTINGS"}
         -> "PROTOCOL_ERROR"
    [] s.state = "CLOSED" /\ type # "PRIORITY"
         -> "PROTOCOL_ERROR"
    [] OTHER -> "ok"

\* No frame of a request has reached the stream yet.
IsUntouched(s) == s.headerStatus = "INIT" /\ s.streamStatus = "INIT"

\* Mutant: the end of the header block is not waited for.
IsStreamDone(s) == s.streamStatus = "DONE"
\* The stream holds a whole request: header block and body are both done.
IsComplete(s) == s.headerStatus = "DONE" /\ s.streamStatus = "DONE"

UpdateRawHeaders(s, fragment) ==
  [s EXCEPT !.headerStatus = "UPDATING",
            !.rawHeaders = ExtendBlock(@, fragment)]

\* update_headers_new and complete_headers, once the block decoded and validated.
CompleteHeaders(s) ==
  [s EXCEPT !.headerStatus = "DONE",
            !.hasLength = @ \/ s.rawHeaders = "validWithLength"]

UpdateRawBody(s, data) == [s EXCEPT !.rawBody = ExtendBody(@, data)]

(***************************************************************************)
(* complete_stream compares the content-length header, a str, with         *)
(* len(self.body), an int: once a content-length has been decoded the two  *)
(* always differ.  The GoAwayFrame built for the error is given a stream   *)
(* id, which hyperframe refuses with InvalidDataError.  "bad_data" and     *)
(* "crash" name the except clause of the parser loop the exception reaches.*)
(***************************************************************************)
CompletionOutcome(s) ==
  IF s.hasLength THEN "bad_data"
  ELSE IF s.rawBody = "undecodable" THEN "crash" ELSE "ok"

CompleteStream(s) == [s EXCEPT !.streamStatus = "DONE", !.state = "HALF_CLOSED"]

CloseState(s) == [s EXCEPT !.state = "CLOSED"]

\* update_window raises instead of assigning when the sum is out of range.
WindowOverflows(s, size) == s.window + size > MaxWindow

UpdateWindow(s, size) == [s EXCEPT !.window = size]
=============================================================================
