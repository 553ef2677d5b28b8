-------------------------- MODULE Http2Connection --------------------------
(***************************************************************************)
(* One HTTP/2 connection of the server: the two tasks that server.py runs  *)
(* in a TaskGroup over one Http2Connection object.                         *)
(*                                                                         *)
(*   parser    parse_http2_frame: reads a frame, checks it, calls the      *)
(*             handler of its type (frame_handler.py) and answers errors   *)
(*   consumer  consume_complete_stream: takes completed requests one at a  *)
(*             time, calls the endpoint and writes the response            *)
(*                                                                         *)
(* asyncio switches tasks only where a coroutine really suspends.  A put   *)
(* on an unbounded queue never does, and after the last write of a handler *)
(* only the parser's own last_frame changes, so the handling of one frame  *)
(* is one step.  The consumer suspends on the empty queue, in the endpoint,*)
(* while it waits for window, and in the final drain.                      *)
(***************************************************************************)
EXTENDS Http2Frames, Sequences, FiniteSets

CONSTANTS
  ClientFrames,          \* the frames the peer may send, in any order
  UpgradeFrames,         \* the SETTINGS and HEADERS frames an h2c upgrade left
  ResponseSizes,         \* the body sizes an endpoint may answer with
  InitialWindow,         \* 65535 in the code
  MaxConcurrentStreams,  \* Http2Settings.MAX_CONCURRENT_STREAMS_COUNT
  CompletedQueSize       \* Http2StreamQueue.COMPLETED_QUE_SIZE

ASSUME FramesAssumption == /\ ClientFrames \subseteq Frame
                           /\ UpgradeFrames \in Seq(Frame)
ASSUME LimitsAssumption == /\ ResponseSizes \subseteq Nat
                           /\ InitialWindow \in 0..MaxWindow
                           /\ MaxConcurrentStreams \in Nat
                           /\ CompletedQueSize \in Nat \ {0}

VARIABLES
  heap,          \* heap[sid][inc]: the inc-th live Http2Stream object of sid
  inbox,         \* inbox[sid][inc]: what waits in that object's subscriber queue
  open,          \* streams_in_open: sid -> object, 0 when there is none
  processing,    \* streams_in_que: sid -> object, 0 when there is none
  subscriber,    \* window_update_subscriber: sid -> object, 0 when there is none
  reqCtx,        \* the keys of _req_ctx_store
  queue,         \* the streams put on Http2StreamQueue.streams, not yet taken
  canceled,      \* streams_canceled
  closed,        \* closed_stream_ids
  closedDeque,   \* closed_stream_ids_deque
  lastFrame,     \* last_frame
  lastStreamId,  \* last_stream_id: the stream dispatched last
  settings,      \* Http2Settings, the part that decisions depend on
  upgrade,       \* the frames left in _upgrade_obj
  parser,        \* "reading", "body", "done" (TERM published) or "failed"
  consumer,      \* [pc, sid, inc, size]
  link,          \* "up", or "down" once every drain raises
  wire           \* the frames the last step wrote

streamVars   == <<heap, open, subscriber, reqCtx>>
requestVars  == <<processing, queue, canceled>>
closedVars   == <<closed, closedDeque>>
parserVars   == <<lastFrame, settings, upgrade, parser>>
vars == <<streamVars, inbox, requestVars, closedVars, lastStreamId, parserVars,
          consumer, link, wire>>

(***************************************************************************)
(* Of one stream id at most three objects are alive when a frame has been  *)
(* handled (the one in processing, the one whose queue is subscribed, and  *)
(* the one in open), and a new one is only made when none is in open.      *)
(***************************************************************************)
Incarnations == 1..3

ConsumerStates == {"get", "dispatch", "window", "drain", "done"}
Idle == [pc |-> "get", sid |-> 0, inc |-> 0, size |-> 0]

Tokens == {"wake", "term"}

Init ==
  /\ heap = [sid \in Sids |-> [inc \in Incarnations |-> NewStream(InitialWindow)]]
  /\ inbox = [sid \in Sids |-> [inc \in Incarnations |-> {}]]
  /\ open = [sid \in Sids |-> 0]
  /\ processing = [sid \in Sids |-> 0]
  /\ subscriber = [sid \in Sids |-> 0]
  /\ reqCtx = {}
  /\ queue = <<>>
  /\ canceled = {}
  /\ closed = {}
  /\ closedDeque = <<>>
  /\ lastFrame = NoFrame
  /\ lastStreamId = 0
  /\ settings = [connectionWindow |-> InitialWindow,
                 maxStreams |-> MaxConcurrentStreams, maxFrame |-> 1]
  /\ upgrade = UpgradeFrames
  /\ parser = "reading"
  /\ consumer = Idle
  /\ link = "up"
  /\ wire = <<>>

-----------------------------------------------------------------------------
(* Http2StreamQueue and the lookups of Http2Connection.                    *)

IsInOpen(sid) == sid \in Sids /\ open[sid] # 0
IsInProcessing(sid) == sid \in Sids /\ processing[sid] # 0

\* Mutant: a queued request does not count.
HasBeenAnswered(sid) == sid \in closed
HasBeenClosed(sid) == sid \in closed \/ IsInProcessing(sid)

TotalQsize == Cardinality({sid \in Sids : open[sid] # 0})
              + Cardinality({sid \in Sids : processing[sid] # 0})

\* Mutant: whatever stream the frame names is marked.
CancelAlways(sid) == canceled \cup {sid}
\* cancel_stream of the connection: only a queued or running request is marked.
Cancel(sid) == IF IsInProcessing(sid) THEN canceled \cup {sid} ELSE canceled

RemoveFromOpen(sid) == IF IsInOpen(sid) THEN [open EXCEPT ![sid] = 0] ELSE open

\* The frame types for which find_stream makes a stream that is not open.
Creates(f) ==
  /\ f.type \notin {"RST_STREAM", "SETTINGS", "WINDOW_UPDATE", "EXTENSION"}
  /\ ~IsInOpen(f.sid)

FreshIncarnation(sid) ==
  CHOOSE inc \in Incarnations : inc \notin {processing[sid], subscriber[sid]}

\* The object find_stream returns for frame f, 0 when it returns None.
Found(f) == IF Creates(f) THEN FreshIncarnation(f.sid)
            ELSE IF IsInOpen(f.sid) THEN open[f.sid]
            ELSE IF IsInProcessing(f.sid) THEN processing[f.sid] ELSE 0

FoundStream(f) == IF Creates(f) THEN NewStream(settings.connectionWindow)
                  ELSE heap[f.sid][Found(f)]

\* The part of find_stream every caller shares; the object's value becomes s.
FindStream(f, s) ==
  /\ heap' = [heap EXCEPT ![f.sid][Found(f)] = s]
  /\ subscriber' = IF Creates(f) THEN [subscriber EXCEPT ![f.sid] = Found(f)]
                   ELSE subscriber
  /\ reqCtx' = IF Creates(f) THEN reqCtx \cup {f.sid} ELSE reqCtx

InboxAfterFind(f) == IF Creates(f) THEN [inbox EXCEPT ![f.sid][Found(f)] = {}]
                     ELSE inbox

-----------------------------------------------------------------------------
(* How a pass through the parser loop ends.                                *)

\* Mutants: streams that left open are not told; TERM is not published.
PublishToOpen(boxes, subs, token) ==
  [sid \in Sids |-> [inc \in Incarnations |->
     IF subs[sid] = inc /\ open[sid] = inc
     THEN boxes[sid][inc] \cup {token} ELSE boxes[sid][inc]]]
PublishWakeOnly(boxes, subs, token) ==
  [sid \in Sids |-> [inc \in Incarnations |->
     IF subs[sid] = inc /\ token = "wake"
     THEN boxes[sid][inc] \cup {token} ELSE boxes[sid][inc]]]

\* One token to every queue registered in window_update_subscriber.
Publish(boxes, subs, token) ==
  [sid \in Sids |-> [inc \in Incarnations |->
     IF subs[sid] = inc THEN boxes[sid][inc] \cup {token} ELSE boxes[sid][inc]]]

Proceed(boxes) == parser' = "reading" /\ inbox' = boxes

\* break: publish_end ends the stream queue and every subscriber queue.
Stop(boxes, subs) == parser' = "done" /\ inbox' = Publish(boxes, subs, "term")

\* A handler writes its answer: a failing drain raises and the loop breaks.
Reply(frame, boxes, subs) ==
  /\ IF link = "up" THEN Proceed(boxes) ELSE Stop(boxes, subs)
  /\ wire' = IF link = "up" THEN <<frame>> ELSE <<>>
  /\ UNCHANGED consumer

\* An except clause writes the answer: a failing drain ends the task itself,
\* publish_end is not reached and the TaskGroup cancels the consumer.
ReplyToException(frame, boxes) ==
  IF link = "up" THEN Proceed(boxes) /\ wire' = <<frame>> /\ UNCHANGED consumer
  ELSE /\ parser' = "failed" /\ inbox' = boxes
       /\ wire' = <<>>
       /\ consumer' = [Idle EXCEPT !.pc = "done"]

BreakLoop(boxes, subs) ==
  Stop(boxes, subs) /\ wire' = <<>> /\ UNCHANGED consumer

\* After a handler returned: last_frame only follows HEADERS and DATA frames.
Remember(f) ==
  lastFrame' = IF f.type \in {"HEADERS", "DATA"} /\ parser' # "done"
               THEN [type |-> f.type, sid |-> f.sid] ELSE lastFrame

\* cancel_stream, send_goaway_frame(stream_id, code), StopNextException.
Refuse(f, code, boxes, subs) ==
  /\ canceled' = Cancel(f.sid)
  /\ open' = RemoveFromOpen(f.sid)
  /\ Reply(GoAway(lastStreamId, code), boxes, subs)
  /\ Remember(f)
  /\ UNCHANGED <<processing, queue>>

\* The frame at the head of the upgrade object, else one from the peer.
Incoming == IF upgrade # <<>> THEN {Head(upgrade)} ELSE ClientFrames

Receives == /\ parser \in {"reading", "body"}
            /\ upgrade' = IF upgrade # <<>> THEN Tail(upgrade) ELSE upgrade
            /\ UNCHANGED <<closedVars, lastStreamId>>

-----------------------------------------------------------------------------
(* has_any_violation, in the order of its tests.                           *)

IsEven(f) == f.sid > 0 /\ f.sid % 2 = 0
\* Mutant: the limit may be exceeded by one.
OverloadsLate(f) == f.sid > 0 /\ settings.maxStreams < TotalQsize
Overloads(f) == f.sid > 0 /\ settings.maxStreams < TotalQsize + 1
\* Mutant: only DATA frames are ordered.
IsOutOfOrderData(f) == f.sid > 0 /\ f.type = "DATA" /\ lastFrame.sid > f.sid
IsOutOfOrder(f) == f.sid > 0 /\ lastFrame.sid > f.sid

Violates(f) == IsEven(f) \/ Overloads(f) \/ IsOutOfOrder(f)

RefuseEvenStream(f) ==
  /\ Receives
  /\ IsEven(f)
  /\ Reply(GoAway(lastStreamId, "PROTOCOL_ERROR"), inbox, subscriber)
  /\ UNCHANGED <<streamVars, requestVars, lastFrame, settings>>

\* send_rst_stream_frame drops the stream, then builds its RstStreamFrame with
\* an argument hyperframe does not take: TypeError, and the loop breaks.
RefuseStream(f) ==
  /\ Receives
  /\ ~IsEven(f) /\ Overloads(f)
  /\ open' = RemoveFromOpen(f.sid)
  /\ BreakLoop(inbox, subscriber)
  /\ UNCHANGED <<heap, subscriber, reqCtx, requestVars, lastFrame, settings>>

RefuseOldStream(f) ==
  /\ Receives
  /\ ~IsEven(f) /\ ~Overloads(f) /\ IsOutOfOrder(f)
  /\ Reply(GoAway(lastStreamId, "PROTOCOL_ERROR"), inbox, subscriber)
  /\ UNCHANGED <<streamVars, requestVars, lastFrame, settings>>

-----------------------------------------------------------------------------
(* HEADERS, CONTINUATION and DATA: the frames that build a request.        *)

\* Mutant: has_been_closed is not asked.
HeadersEarlyVerdictOpen(f) == IF f.sid = f.dependsOn THEN "PROTOCOL_ERROR" ELSE "ok"
\* The first two tests of HeadersFrameHandler.validate precede find_stream.
HeadersEarlyVerdict(f) ==
  IF f.sid = f.dependsOn THEN "PROTOCOL_ERROR"
  ELSE IF HasBeenClosed(f.sid) THEN "STREAM_CLOSED" ELSE "ok"

HeadersVerdict(f) ==
  LET s == FoundStream(f) IN
  IF IsAllowedFrame(s, f.type) # "ok" THEN IsAllowedFrame(s, f.type)
  ELSE IF s.headerStatus = "DONE" /\ ~f.endStream THEN "PROTOCOL_ERROR"
  ELSE IF settings.maxFrame < f.size THEN "FRAME_SIZE_ERROR" ELSE "ok"

\* get_last_frame() is None: the handler raises AttributeError.
ContinuationCrashes(f) == IsInOpen(f.sid) /\ lastFrame = NoFrame

ContinuationVerdict(f) ==
  IF ~IsInOpen(f.sid) THEN "PROTOCOL_ERROR"
  ELSE IF HasBeenClosed(f.sid) THEN "STREAM_CLOSED"
  ELSE IF IsAllowedFrame(FoundStream(f), f.type) # "ok"
       THEN IsAllowedFrame(FoundStream(f), f.type)
  ELSE IF ~(lastFrame.type = "HEADERS" /\ lastFrame.sid = f.sid)
       THEN "PROTOCOL_ERROR"
  ELSE IF settings.maxFrame < f.size THEN "FRAME_SIZE_ERROR" ELSE "ok"

DataVerdict(f) ==
  LET s == FoundStream(f) IN
  IF HasBeenClosed(f.sid) THEN "STREAM_CLOSED"
  ELSE IF s.headerStatus # "DONE" \/ s.streamStatus = "DONE" THEN "PROTOCOL_ERROR"
  ELSE IF settings.maxFrame < f.size THEN "FRAME_SIZE_ERROR"
  ELSE IsAllowedFrame(s, f.type)

(***************************************************************************)
(* What process() makes of stream s, and how it ends:                      *)
(*   "kept"        the request still misses a part                         *)
(*   "complete"    the request is handed to the consumer                   *)
(*   "compression" HPACK failed: COMPRESSION_ERROR, StopNextException      *)
(*   "bad_data"    InvalidDataError while the stream is still in open      *)
(*   "lost"        InvalidDataError after the stream was taken out of open *)
(*   "crash"       the body is not UTF-8: UnicodeDecodeError               *)
(***************************************************************************)
Result(s, ending) == [stream |-> s, ending |-> ending]

ProcessHeaders(s, f, endStream) ==
  LET received == UpdateRawHeaders(s, f.fragment)
      ended    == IF endStream THEN CompleteStream(received) ELSE received
      decoded  == IF f.endHeaders THEN CompleteHeaders(ended) ELSE ended
  IN IF endStream /\ CompletionOutcome(received) # "ok"
     THEN Result(received, CompletionOutcome(received))
     ELSE IF f.endHeaders /\ ended.rawHeaders = "undecodable"
     THEN Result(ended, "compression")
     ELSE IF f.endHeaders /\ ended.rawHeaders = "invalid"
     THEN Result(ended, "bad_data")
     ELSE IF ~IsComplete(decoded) THEN Result(decoded, "kept")
     ELSE IF CompletionOutcome(decoded) = "ok"
     THEN Result(decoded, "complete") ELSE Result(decoded, "lost")

\* DATA keeps the stream alive by setting it to UPDATING until END_STREAM.
ProcessData(s, f) ==
  LET received == UpdateRawBody(s, f.data)
      outcome  == CompletionOutcome(received)
  IN IF ~f.endStream
     THEN Result([received EXCEPT !.streamStatus = "UPDATING"], "kept")
     ELSE IF outcome = "ok" THEN Result(CompleteStream(received), "complete")
     ELSE Result(received, IF outcome = "bad_data" THEN "lost" ELSE "crash")

\* completed_partial_stream takes the stream out of open before anything can
\* go wrong; DataFrameHandler then puts a completed stream back (update_stream).
OpenAfter(f, ending) ==
  CASE ending = "lost"                          -> [open EXCEPT ![f.sid] = 0]
    [] ending = "crash" /\ f.type = "DATA"      -> [open EXCEPT ![f.sid] = 0]
    [] ending = "complete" /\ f.type # "DATA"   -> [open EXCEPT ![f.sid] = 0]
    [] OTHER                                    -> [open EXCEPT ![f.sid] = Found(f)]

KeepStream(f, r) ==
  /\ r.ending = "kept"
  /\ Proceed(InboxAfterFind(f)) /\ wire' = <<>> /\ UNCHANGED consumer
  /\ Remember(f)
  /\ UNCHANGED requestVars

\* Mutant: the stream is registered but never put on the queue.
RegisterRequest(f, r) ==
  /\ r.ending = "complete"
  /\ processing' = [processing EXCEPT ![f.sid] = Found(f)]
  /\ Proceed(InboxAfterFind(f)) /\ wire' = <<>> /\ UNCHANGED consumer
  /\ Remember(f)
  /\ UNCHANGED <<queue, canceled>>

\* add_new_stream_in_processing
QueueRequest(f, r) ==
  /\ r.ending = "complete"
  /\ processing' = [processing EXCEPT ![f.sid] = Found(f)]
  /\ queue' = Append(queue, [sid |-> f.sid, inc |-> Found(f)])
  /\ Proceed(InboxAfterFind(f)) /\ wire' = <<>> /\ UNCHANGED consumer
  /\ Remember(f)
  /\ UNCHANGED canceled

RefuseBlock(f, r) ==
  /\ r.ending = "compression"
  /\ Reply(GoAway(lastStreamId, "COMPRESSION_ERROR"), InboxAfterFind(f), subscriber')
  /\ Remember(f)
  /\ UNCHANGED requestVars

RefuseRequest(f, r) ==
  /\ r.ending \in {"bad_data", "lost"}
  /\ ReplyToException(GoAway(lastStreamId, "PROTOCOL_ERROR"), InboxAfterFind(f))
  /\ UNCHANGED <<requestVars, lastFrame>>

CrashOnBody(f, r) ==
  /\ r.ending = "crash"
  /\ BreakLoop(InboxAfterFind(f), subscriber')
  /\ UNCHANGED <<requestVars, lastFrame>>

\* process() of one of the three frames gave r.
Finish(f, r) ==
  /\ FindStream(f, r.stream)
  /\ open' = OpenAfter(f, r.ending)
  /\ \/ KeepStream(f, r)
     \/ QueueRequest(f, r)
     \/ RefuseBlock(f, r)
     \/ RefuseRequest(f, r)
     \/ CrashOnBody(f, r)

HandleHeaders(f) ==
  /\ Receives /\ f.type = "HEADERS" /\ ~Violates(f)
  /\ UNCHANGED settings
  /\ \/ /\ HeadersEarlyVerdict(f) # "ok"
        /\ Refuse(f, HeadersEarlyVerdict(f), inbox, subscriber)
        /\ UNCHANGED <<heap, subscriber, reqCtx>>
     \/ /\ HeadersEarlyVerdict(f) = "ok" /\ HeadersVerdict(f) # "ok"
        /\ FindStream(f, FoundStream(f))
        /\ Refuse(f, HeadersVerdict(f), InboxAfterFind(f), subscriber')
     \/ /\ HeadersEarlyVerdict(f) = "ok" /\ HeadersVerdict(f) = "ok"
        /\ Finish(f, ProcessHeaders(FoundStream(f), f, f.endStream))

HandleContinuation(f) ==
  /\ Receives /\ f.type = "CONTINUATION" /\ ~Violates(f)
  /\ UNCHANGED settings
  /\ \/ /\ ContinuationCrashes(f)
        /\ BreakLoop(inbox, subscriber)
        /\ UNCHANGED <<streamVars, requestVars, lastFrame>>
     \/ /\ ~ContinuationCrashes(f) /\ ContinuationVerdict(f) # "ok"
        /\ Refuse(f, ContinuationVerdict(f), inbox, subscriber)
        /\ UNCHANGED <<heap, subscriber, reqCtx>>
     \/ /\ ~ContinuationCrashes(f) /\ ContinuationVerdict(f) = "ok"
        /\ Finish(f, ProcessHeaders(FoundStream(f), f, FALSE))

\* find_stream comes first here, so even a refused frame may leave a new
\* subscriber and request context behind.
HandleData(f) ==
  /\ Receives /\ f.type = "DATA" /\ ~Violates(f)
  /\ UNCHANGED settings
  /\ \/ /\ DataVerdict(f) # "ok"
        /\ FindStream(f, FoundStream(f))
        /\ Refuse(f, DataVerdict(f), InboxAfterFind(f), subscriber')
     \/ /\ DataVerdict(f) = "ok"
        /\ Finish(f, ProcessData(FoundStream(f), f))

-----------------------------------------------------------------------------
(* The other frame types.                                                  *)

\* The stream is closed and taken out of open; a queued or running request
\* of that stream is not told.
HandleRstStream(f) ==
  /\ Receives /\ f.type = "RST_STREAM" /\ ~Violates(f)
  /\ UNCHANGED <<settings, subscriber, reqCtx>>
  /\ IF Found(f) = 0
     THEN UNCHANGED heap /\ Refuse(f, "PROTOCOL_ERROR", inbox, subscriber)
     ELSE /\ heap' = [heap EXCEPT ![f.sid][Found(f)] = CloseState(@)]
          /\ open' = RemoveFromOpen(f.sid)
          /\ Reply(GoAway(lastStreamId, "STREAM_CLOSED"), inbox, subscriber)
          /\ UNCHANGED <<requestVars, lastFrame>>

HandlePriority(f) ==
  /\ Receives /\ f.type = "PRIORITY" /\ ~Violates(f)
  /\ UNCHANGED <<streamVars, processing, queue, lastFrame, settings>>
  /\ IF f.sid = f.dependsOn \/ IsInOpen(f.sid)
     THEN /\ canceled' = Cancel(f.sid)
          /\ Reply(GoAway(lastStreamId, "PROTOCOL_ERROR"), inbox, subscriber)
     ELSE /\ Proceed(inbox) /\ wire' = <<>>
          /\ UNCHANGED <<canceled, consumer>>

HandlePing(f) ==
  /\ Receives /\ f.type = "PING"
  /\ UNCHANGED <<streamVars, requestVars, lastFrame, settings>>
  /\ IF f.ack THEN Proceed(inbox) /\ wire' = <<>> /\ UNCHANGED consumer
     ELSE Reply(PingAck, inbox, subscriber)

\* A stream exists for f and a part of a request has reached it.
IsTouched(f) == Found(f) # 0 /\ ~IsUntouched(FoundStream(f))

\* The stream of the last frame, as ExtensionFrameHandler.process looks it up.
LastStream == FoundStream(lastFrame)

HandleExtension(f) ==
  /\ Receives /\ f.type = "EXTENSION" /\ ~Violates(f)
  /\ UNCHANGED settings
  /\ \/ /\ Found(f) # 0 /\ ~IsUntouched(FoundStream(f))
        /\ Refuse(f, "PROTOCOL_ERROR", inbox, subscriber)
        /\ UNCHANGED <<heap, subscriber, reqCtx>>
     \/ /\ ~IsTouched(f)
        /\ lastFrame # NoFrame /\ ~IsUntouched(LastStream)
        /\ Refuse(f, "PROTOCOL_ERROR", inbox, subscriber)
        /\ UNCHANGED <<heap, subscriber, reqCtx>>
     \/ /\ ~IsTouched(f)
        /\ lastFrame # NoFrame /\ IsUntouched(LastStream)
        /\ FindStream(lastFrame, LastStream)
        /\ open' = [open EXCEPT ![lastFrame.sid] = Found(lastFrame)]
        /\ Proceed(InboxAfterFind(lastFrame)) /\ wire' = <<>>
        /\ UNCHANGED <<consumer, requestVars, lastFrame>>
     \/ /\ ~IsTouched(f)
        /\ lastFrame = NoFrame
        /\ Proceed(inbox) /\ wire' = <<>>
        /\ UNCHANGED <<streamVars, consumer, requestVars, lastFrame>>

\* update_window_size for WINDOW_UPDATE: the sum must be in 1..MaxWindow.
LegalIncrement(increment) == settings.connectionWindow + increment \in 1..MaxWindow

HandleConnectionWindow(f) ==
  /\ Receives /\ f.type = "WINDOW_UPDATE" /\ f.sid = 0
  /\ UNCHANGED <<streamVars, requestVars, lastFrame>>
  /\ \/ /\ ~LegalIncrement(f.increment)
        /\ ReplyToException(GoAway(0, "FLOW_CONTROL_ERROR"), inbox)
        /\ UNCHANGED settings
     \/ /\ LegalIncrement(f.increment)
        /\ settings' = [settings EXCEPT !.connectionWindow = @ + f.increment]
        /\ Proceed(Publish(inbox, subscriber, "wake"))
        /\ wire' = <<>> /\ UNCHANGED consumer

\* The exception of an overflowing window names stream 1, whichever it was.
ResetFirstStream(boxes) ==
  /\ canceled' = Cancel(1)
  /\ ReplyToException(ResetStream(1), boxes)

\* update_window is not a coroutine: the assignment happens, then the await
\* raises TypeError.  On a closed stream the method is missing altogether.
HandleStreamWindow(f) ==
  /\ Receives /\ f.type = "WINDOW_UPDATE" /\ f.sid > 0 /\ ~Violates(f)
  /\ UNCHANGED <<settings, subscriber, reqCtx>>
  /\ \/ /\ Found(f) = 0 /\ f.sid \notin closed
        /\ Refuse(f, "PROTOCOL_ERROR", inbox, subscriber)
        /\ UNCHANGED heap
     \/ /\ Found(f) = 0 /\ f.sid \in closed
        /\ BreakLoop(inbox, subscriber)
        /\ UNCHANGED <<heap, open, requestVars, lastFrame>>
     \/ /\ Found(f) # 0 /\ WindowOverflows(FoundStream(f), f.increment)
        /\ ResetFirstStream(inbox)
        /\ UNCHANGED <<heap, open, processing, queue, lastFrame>>
     \/ /\ Found(f) # 0 /\ ~WindowOverflows(FoundStream(f), f.increment)
        /\ heap' = [heap EXCEPT ![f.sid][Found(f)] = UpdateWindow(@, f.increment)]
        /\ BreakLoop(inbox, subscriber)
        /\ UNCHANGED <<open, requestVars, lastFrame>>

\* update_window_size for SETTINGS_INITIAL_WINDOW_SIZE.
LegalInitialWindow(window) ==
  /\ window <= MaxWindow
  /\ settings.connectionWindow + window \in 0..MaxWindow

(***************************************************************************)
(* The loop over streams_in_que sets the window of one stream after the    *)
(* other, in the order in which they were completed, and stops at the      *)
(* first one whose sum overflows.  InOrder shows that this is the order of *)
(* the stream ids.                                                         *)
(***************************************************************************)
Overflowing(window) ==
  {sid \in Sids : /\ processing[sid] # 0
                  /\ WindowOverflows(heap[sid][processing[sid]], window)}

WindowsReached(window) ==
  {sid \in Sids : /\ processing[sid] # 0
                  /\ \A bad \in Overflowing(window) : sid < bad}

ApplyWindow(window) ==
  [sid \in Sids |-> IF sid \in WindowsReached(window)
                    THEN [heap[sid] EXCEPT ![processing[sid]] = UpdateWindow(@, window)]
                    ELSE heap[sid]]

\* Mutant: a setting the frame does not carry is overwritten.
Overwrite(value, default) == value
OrElse(value, default) == IF value = Absent THEN default ELSE value

\* Http2Settings.update_settings, once check_settings_if_throw has passed.
UpdateSettings(f) ==
  [connectionWindow |-> OrElse(f.window, settings.connectionWindow),
   maxStreams       |-> OrElse(f.maxStreams, settings.maxStreams),
   maxFrame         |-> OrElse(f.maxFrame, settings.maxFrame)]

HandleSettings(f) ==
  /\ Receives /\ f.type = "SETTINGS"
  /\ UNCHANGED <<open, subscriber, reqCtx, processing, queue, lastFrame>>
  /\ \/ /\ f.ack
        /\ Proceed(inbox) /\ wire' = <<>>
        /\ UNCHANGED <<heap, canceled, settings, consumer>>
     \/ /\ ~f.ack /\ f.window # Absent /\ ~LegalInitialWindow(f.window)
        /\ ReplyToException(GoAway(0, "FLOW_CONTROL_ERROR"), inbox)
        /\ UNCHANGED <<heap, canceled, settings>>
     \/ /\ ~f.ack /\ f.window # Absent /\ LegalInitialWindow(f.window)
        /\ Overflowing(f.window) # {}
        /\ heap' = ApplyWindow(f.window)
        /\ ResetFirstStream(inbox)
        /\ UNCHANGED settings
     \/ /\ ~f.ack /\ (f.window # Absent => /\ LegalInitialWindow(f.window)
                                           /\ Overflowing(f.window) = {})
        /\ heap' = IF f.window # Absent THEN ApplyWindow(f.window) ELSE heap
        /\ UNCHANGED canceled
        /\ LET woken == Publish(inbox, subscriber, "wake") IN
           IF f.wellFormed
           THEN /\ settings' = UpdateSettings(f)
                /\ Reply(SettingsAck, woken, subscriber)
           ELSE /\ UNCHANGED settings
                /\ ReplyToException(GoAway(0, "PROTOCOL_ERROR"), woken)

\* GOAWAY and frames without a handler raise StopConnectionException, the
\* handler of PUSH_PROMISE raises NotImplementedError.
HandleEndingFrame(f) ==
  /\ Receives /\ f.type \in {"GOAWAY", "PUSH_PROMISE", "ALTSVC"} /\ ~Violates(f)
  /\ BreakLoop(inbox, subscriber)
  /\ UNCHANGED <<streamVars, requestVars, lastFrame, settings>>

HandleFrame ==
  /\ UNCHANGED link
  /\ \E f \in Incoming :
                      \/ RefuseEvenStream(f)
                      \/ RefuseStream(f)
                      \/ RefuseOldStream(f)
                      \/ HandleHeaders(f)
                      \/ HandleContinuation(f)
                      \/ HandleData(f)
                      \/ HandleRstStream(f)
                      \/ HandlePriority(f)
                      \/ HandlePing(f)
                      \/ HandleExtension(f)
                      \/ HandleConnectionWindow(f)
                      \/ HandleStreamWindow(f)
                      \/ HandleSettings(f)
                      \/ HandleEndingFrame(f)

-----------------------------------------------------------------------------
(* The rest of the parser loop: what a read may yield instead of a frame.  *)

Reads == Receives /\ upgrade = <<>>
         /\ UNCHANGED <<streamVars, requestVars, lastFrame, settings>>

\* The frame header is in; the read of its body has no timeout.
AwaitBody ==
  /\ Reads /\ UNCHANGED link
  /\ parser = "reading"
  /\ parser' = "body" /\ wire' = <<>>
  /\ UNCHANGED <<inbox, consumer>>

\* parse_body raised one of hyperframe's errors.
RefuseBody ==
  /\ Reads /\ UNCHANGED link
  /\ \E code \in {"PROTOCOL_ERROR", "FRAME_SIZE_ERROR"} :
       ReplyToException(GoAway(lastStreamId, code), inbox)

\* Mutant: the loss of the connection ends the read of a header only.
StopReadingHeader ==
  /\ Reads /\ UNCHANGED link
  /\ parser = "reading"
  /\ BreakLoop(inbox, subscriber)

\* Ten seconds without a frame header, end of stream, or a reset.
StopReading ==
  /\ Reads /\ UNCHANGED link
  /\ parser = "reading" \/ link = "down"
  /\ BreakLoop(inbox, subscriber)

\* A short frame header is answered before the loop breaks; after one that
\* hyperframe cannot parse the writer is closed as well.
RefuseFrameHeader ==
  /\ Reads
  /\ parser = "reading" /\ link = "up"
  /\ Stop(inbox, subscriber) /\ UNCHANGED consumer
  /\ wire' = <<GoAway(0, "PROTOCOL_ERROR")>>
  /\ link' \in {"up", "down"}

ParserStep == HandleFrame \/ AwaitBody \/ RefuseBody \/ StopReading
              \/ RefuseFrameHeader

-----------------------------------------------------------------------------
(* consume_complete_stream                                                 *)

\* What no step of the consumer touches.
ConsumerStep == UNCHANGED <<open, reqCtx, lastFrame, upgrade, parser, link>>

\* The object of the request being answered.
Current == heap[consumer.sid][consumer.inc]

\* is_canceled_stream: the request is dropped and its mark with it.
DropCanceled ==
  /\ ConsumerStep
  /\ consumer.pc = "get" /\ queue # <<>> /\ Head(queue).sid \in canceled
  /\ queue' = Tail(queue)
  /\ processing' = [processing EXCEPT ![Head(queue).sid] = 0]
  /\ canceled' = canceled \ {Head(queue).sid}
  /\ wire' = <<>>
  /\ UNCHANGED <<heap, subscriber, inbox, closedVars, lastStreamId, settings, consumer>>

\* The request is converted and the endpoint called.
Dispatch ==
  /\ ConsumerStep
  /\ consumer.pc = "get" /\ queue # <<>> /\ Head(queue).sid \notin canceled
  /\ queue' = Tail(queue)
  /\ lastStreamId' = Head(queue).sid
  /\ consumer' = IF Head(queue).sid \in reqCtx
                 THEN [pc |-> "dispatch", sid |-> Head(queue).sid,
                       inc |-> Head(queue).inc, size |-> 0]
                 ELSE [Idle EXCEPT !.pc = "done"]
  /\ wire' = <<>>
  /\ UNCHANGED <<heap, subscriber, inbox, processing, canceled, closedVars, settings>>

\* The TERM behind the last request.
EndConsumer ==
  /\ ConsumerStep
  /\ consumer.pc = "get" /\ queue = <<>> /\ parser = "done"
  /\ consumer' = [Idle EXCEPT !.pc = "done"]
  /\ wire' = <<>>
  /\ UNCHANGED <<heap, subscriber, inbox, requestVars, closedVars, lastStreamId, settings>>

\* An unknown method or an endpoint that raises ends the task, not the loop.
FailDispatch ==
  /\ ConsumerStep
  /\ consumer.pc = "dispatch"
  /\ consumer' = [Idle EXCEPT !.pc = "done"]
  /\ wire' = <<>>
  /\ UNCHANGED <<heap, subscriber, inbox, requestVars, closedVars, lastStreamId, settings>>

\* The DATA frame goes out: reduce_connection_window never checks its result.
SendData(size) ==
  /\ settings' = [settings EXCEPT !.connectionWindow = @ - size]
  /\ consumer' = [consumer EXCEPT !.pc = "drain", !.size = size]

\* get() on a queue that holds tokens does not suspend, so the tokens that are
\* already there are used up before the task waits for the next one.
AwaitWindow(size) ==
  /\ inbox' = [inbox EXCEPT ![consumer.sid][consumer.inc] = {}]
  /\ consumer' = [consumer EXCEPT !.pc = "window", !.size = size]
  /\ UNCHANGED settings

\* Mutant: any window will do.
MaySendAny(size) == \/ Current.window > 0
                    \/ "term" \in inbox[consumer.sid][consumer.inc]
MaySend(size) == \/ Current.window >= size
                 \/ "term" \in inbox[consumer.sid][consumer.inc]

Respond(size) ==
  /\ ConsumerStep
  /\ consumer.pc = "dispatch"
  /\ \/ /\ size = 0
        /\ consumer' = [consumer EXCEPT !.pc = "drain"]
        /\ wire' = <<ResponseHeaders(consumer.sid)>>
        /\ UNCHANGED <<inbox, settings>>
     \/ /\ size > 0 /\ MaySend(size)
        /\ SendData(size)
        /\ wire' = <<ResponseHeaders(consumer.sid), ResponseData(consumer.sid, size)>>
        /\ UNCHANGED inbox
     \/ /\ size > 0 /\ ~MaySend(size)
        /\ AwaitWindow(size)
        /\ wire' = <<ResponseHeaders(consumer.sid)>>
  /\ UNCHANGED <<heap, subscriber, requestVars, closedVars, lastStreamId>>

WakeUp ==
  /\ ConsumerStep
  /\ consumer.pc = "window" /\ inbox[consumer.sid][consumer.inc] # {}
  /\ \/ /\ MaySend(consumer.size)
        /\ SendData(consumer.size)
        /\ wire' = <<ResponseData(consumer.sid, consumer.size)>>
        /\ UNCHANGED inbox
     \/ /\ ~MaySend(consumer.size)
        /\ AwaitWindow(consumer.size)
        /\ wire' = <<>>
  /\ UNCHANGED <<heap, subscriber, requestVars, closedVars, lastStreamId>>

\* Mutant: eviction starts one id late.
AddClosedLate(sid) ==
  LET full == Cardinality(closed) > CompletedQueSize
      kept == IF full THEN Tail(closedDeque) ELSE closedDeque
      left == IF full THEN closed \ {Head(closedDeque)} ELSE closed
  IN /\ closedDeque' = Append(kept, sid)
     /\ closed' = left \cup {sid}

\* maybe_closed_que_overflows, then the new id.
AddClosed(sid) ==
  LET full == Cardinality(closed) >= CompletedQueSize
      kept == IF full THEN Tail(closedDeque) ELSE closedDeque
      left == IF full THEN closed \ {Head(closedDeque)} ELSE closed
  IN /\ closedDeque' = Append(kept, sid)
     /\ closed' = left \cup {sid}

\* The final drain: close_state, then the subscriber entry is deleted (the
\* KeyError of a missing one would end the task here), then add_closed_stream.
CompleteResponse ==
  /\ ConsumerStep
  /\ consumer.pc = "drain" /\ link = "up"
  /\ heap' = [heap EXCEPT ![consumer.sid][consumer.inc] = CloseState(@)]
  /\ subscriber' = [subscriber EXCEPT ![consumer.sid] = 0]
  /\ IF subscriber[consumer.sid] # 0
     THEN /\ AddClosed(consumer.sid)
          /\ processing' = [processing EXCEPT ![consumer.sid] = 0]
          /\ consumer' = Idle
     ELSE /\ UNCHANGED <<closedVars, processing>>
          /\ consumer' = [Idle EXCEPT !.pc = "done"]
  /\ wire' = <<>>
  /\ UNCHANGED <<inbox, queue, canceled, lastStreamId, settings>>

FailDrain ==
  /\ ConsumerStep
  /\ consumer.pc = "drain" /\ link = "down"
  /\ consumer' = [Idle EXCEPT !.pc = "done"]
  /\ wire' = <<>>
  /\ UNCHANGED <<heap, subscriber, inbox, requestVars, closedVars, lastStreamId, settings>>

ConsumeStream == \/ DropCanceled \/ Dispatch \/ EndConsumer \/ FailDispatch
                 \/ \E size \in ResponseSizes : Respond(size)
                 \/ WakeUp \/ CompleteResponse \/ FailDrain

-----------------------------------------------------------------------------
\* Both tasks have ended: the TaskGroup is left and the connection closed.
IsOver == parser \in {"done", "failed"} /\ consumer.pc = "done"

\* The peer goes away: from now on every drain raises ConnectionResetError.
LoseConnection ==
  /\ link = "up" /\ ~IsOver
  /\ link' = "down" /\ wire' = <<>>
  /\ UNCHANGED <<streamVars, inbox, requestVars, closedVars, lastStreamId,
                 parserVars, consumer>>

Finished == IsOver /\ UNCHANGED vars

Next == ParserStep \/ ConsumeStream \/ LoseConnection \/ Finished

Spec == Init /\ [][Next]_vars
=============================================================================
