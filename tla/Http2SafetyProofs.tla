------------------------- MODULE Http2SafetyProofs -------------------------
(***************************************************************************)
(* RequestInvariant is inductive, and what follows from it: the types, the *)
(* order and the bookkeeping of requests, and the refinement of            *)
(* RequestPipeline.                                                        *)
(***************************************************************************)
EXTENDS Http2ConnectionProofs, FiniteSetTheorems, SequenceTheorems

-----------------------------------------------------------------------------
(* A step of the parser, seen from the requests.                           *)

\* Subscribers and request contexts are only added.
StreamsGrow ==
  /\ reqCtx \subseteq reqCtx'
  /\ \A sid \in Sids : subscriber[sid] # 0 => subscriber'[sid] # 0

\* A stream that comes into open was registered by find_stream.
OpenGrows ==
  \A sid \in Sids : open'[sid] # 0 =>
    open[sid] # 0 \/ (sid \in reqCtx' /\ subscriber'[sid] # 0)

\* The consumer goes on or is canceled with the TaskGroup.
ConsumerLives == consumer' = consumer \/ consumer' = [Idle EXCEPT !.pc = "done"]

\* A completed request is registered and put on the queue.
NewRequest(sid, inc) ==
  /\ UNCHANGED consumer
  /\ processing[sid] = 0 /\ sid \notin closed
  /\ lastFrame.sid <= sid /\ lastFrame'.sid = sid
  /\ sid \in reqCtx' /\ subscriber'[sid] # 0
  /\ processing' = [processing EXCEPT ![sid] = inc]
  /\ queue' = Append(queue, [sid |-> sid, inc |-> inc])

ParserEffect ==
  /\ UNCHANGED <<closed, closedDeque, lastStreamId>>
  /\ lastFrame.sid <= lastFrame'.sid
  /\ StreamsGrow /\ OpenGrows
  /\ \/ UNCHANGED <<processing, queue>> /\ ConsumerLives
     \/ \E sid \in Sids, inc \in Incarnations : NewRequest(sid, inc)

\* last_frame names a stream, or 0 before the first.
LEMMA LastFrameSid == \A x \in LastFrame : x.sid \in Sids \cup {0}
  BY DEF LastFrame, NoFrame

\* Stream ids are positive numbers.
LEMMA IdsAreNumbers ==
  ASSUME TypeOK
  PROVE  /\ Sids \subseteq Nat \ {0}
         /\ lastFrame.sid \in Nat /\ lastStreamId \in Nat
<1>1. Sids \subseteq Nat \ {0}
  <2>1. 0 % 2 = 0 OBVIOUS
  <2> QED BY <2>1, SidsAssumption
<1>2. lastFrame.sid \in Sids \cup {0}
  BY LastFrameSid DEF TypeOK
<1>3. lastStreamId \in Sids \cup {0}
  BY DEF TypeOK
<1>4. \A n \in Sids \cup {0} : n \in Nat
  BY <1>1
<1> QED BY <1>1, <1>2, <1>3, <1>4

\* find_stream registers the stream it makes.
LEMMA FindStreamGrows ==
  ASSUME TypeOK, NEW f, f.sid \in Sids, NEW s, FindStream(f, s), Found(f) # 0
  PROVE  /\ StreamsGrow
         /\ Creates(f) => f.sid \in reqCtx' /\ subscriber'[f.sid] # 0
         /\ f.type \in {"HEADERS", "CONTINUATION", "DATA"} =>
              open[f.sid] # 0 \/ (f.sid \in reqCtx' /\ subscriber'[f.sid] # 0)
<1>1. subscriber \in [Sids -> Object] BY DEF TypeOK
<1>2. /\ subscriber' = IF Creates(f) THEN [subscriber EXCEPT ![f.sid] = Found(f)]
                       ELSE subscriber
      /\ reqCtx' = IF Creates(f) THEN reqCtx \cup {f.sid} ELSE reqCtx
  BY DEF FindStream
<1>3. StreamsGrow BY <1>1, <1>2 DEF StreamsGrow
<1>4. Creates(f) => f.sid \in reqCtx' /\ subscriber'[f.sid] # 0
  BY <1>1, <1>2
<1>5. f.type \in {"HEADERS", "CONTINUATION", "DATA"} => Creates(f) \/ open[f.sid] # 0
  BY DEF Creates, IsInOpen
<1> QED BY <1>3, <1>4, <1>5

\* What does not change does not disturb the requests.
LEMMA SameGrows ==
  /\ UNCHANGED <<subscriber, reqCtx>> => StreamsGrow
  /\ UNCHANGED open => OpenGrows
  /\ UNCHANGED consumer => ConsumerLives
  BY DEF StreamsGrow, OpenGrows, ConsumerLives

\* remove_stream_by_force only takes away.
LEMMA RemoveGrows ==
  ASSUME TypeOK, NEW sid, open' = RemoveFromOpen(sid)
  PROVE  OpenGrows
  BY DEF RemoveFromOpen, IsInOpen, OpenGrows, TypeOK

\* Whatever the answer, the consumer goes on or is canceled.
LEMMA AnswerLives ==
  ASSUME NEW boxes, NEW subs, NEW frame,
         \/ Reply(frame, boxes, subs) \/ ReplyToException(frame, boxes)
         \/ BreakLoop(boxes, subs)
  PROVE  ConsumerLives
  BY DEF Reply, ReplyToException, BreakLoop, ConsumerLives

\* last_frame does not go back: has_any_violation has compared it.
LEMMA RememberGrows ==
  ASSUME TypeOK, TypeOK', NEW f, f.sid \in Nat, Remember(f),
         f.type \notin {"HEADERS", "DATA"} \/ (f.sid # 0 /\ ~IsOutOfOrder(f))
  PROVE  lastFrame.sid <= lastFrame'.sid
<1>1. lastFrame.sid \in Nat
  BY IdsAreNumbers
<1>2. CASE lastFrame' = lastFrame
  BY <1>1, <1>2
<1>3. CASE f.type \in {"HEADERS", "DATA"} /\ lastFrame' = [type |-> f.type, sid |-> f.sid]
  BY <1>1, <1>3 DEF IsOutOfOrder
<1> QED BY <1>2, <1>3 DEF Remember

\* A refused frame changes no request.
LEMMA RefuseEffect ==
  ASSUME TypeOK, TypeOK', Receives, NEW f, f.sid \in Nat,
         f.type \notin {"HEADERS", "DATA"} \/ (f.sid # 0 /\ ~IsOutOfOrder(f)),
         NEW code, NEW boxes, NEW subs, Refuse(f, code, boxes, subs), StreamsGrow
  PROVE  ParserEffect
<1>1. lastFrame.sid <= lastFrame'.sid BY RememberGrows DEF Refuse
<1>2. OpenGrows BY RemoveGrows DEF Refuse
<1>3. ConsumerLives BY AnswerLives DEF Refuse
<1>4. UNCHANGED <<closed, closedDeque, lastStreamId>> BY ReceivesType
<1>5. UNCHANGED <<processing, queue>> BY DEF Refuse
<1> QED BY <1>1, <1>2, <1>3, <1>4, <1>5 DEF ParserEffect

\* The requests when last_frame, queue and dictionaries stay as they were.
LEMMA QuietEffect ==
  ASSUME TypeOK, Receives, UNCHANGED <<processing, queue>>, UNCHANGED lastFrame,
         StreamsGrow, OpenGrows, ConsumerLives
  PROVE  ParserEffect
<1>1. lastFrame.sid \in Nat
  BY IdsAreNumbers
<1> QED BY <1>1, ReceivesType DEF ParserEffect

(***************************************************************************)
(* A stream that may still be completed comes after everything dispatched: *)
(* it is at or above last_frame and has_been_closed does not know it.      *)
(***************************************************************************)
LEMMA NewStreamIsLater ==
  ASSUME TypeOK, RequestInvariant, NEW sid \in Sids,
         lastFrame.sid <= sid, ~HasBeenClosed(sid)
  PROVE  /\ lastStreamId < sid
         /\ processing[sid] = 0 /\ sid \notin closed
         /\ open[sid] # 0 => subscriber[sid] # 0 /\ sid \in reqCtx
<1>1. processing[sid] = 0 /\ sid \notin closed
  BY DEF HasBeenClosed, IsInProcessing
<1>2. sid \in Nat /\ sid # 0 /\ lastStreamId \in Nat /\ lastFrame.sid \in Nat
  BY IdsAreNumbers
<1>3. lastStreamId <= lastFrame.sid BY DEF RequestInvariant, QueueReached
<1>4. lastStreamId # sid
  BY <1>1, <1>2 DEF RequestInvariant, LastRemembered
<1>5. lastStreamId < sid BY <1>2, <1>3, <1>4
<1> QED BY <1>1, <1>2, <1>5 DEF RequestInvariant, OpenRegistered

\* process() of HEADERS, CONTINUATION and DATA.
LEMMA FinishEffect ==
  ASSUME TypeOK, TypeOK', RequestInvariant, Receives, NEW f, f.sid \in Sids,
         f.type \in {"HEADERS", "CONTINUATION", "DATA"},
         ~IsOutOfOrder(f), ~HasBeenClosed(f.sid),
         f.type = "CONTINUATION" => lastFrame.sid = f.sid,
         NEW r, Finish(f, r)
  PROVE  ParserEffect
<1>1. Found(f) # 0 /\ Found(f) \in Incarnations
  BY FoundType
<1>2. /\ StreamsGrow
      /\ open[f.sid] # 0 \/ (f.sid \in reqCtx' /\ subscriber'[f.sid] # 0)
  BY <1>1, FindStreamGrows DEF Finish
<1>3. OpenGrows
  <2>1. \/ open' = [open EXCEPT ![f.sid] = 0]
        \/ open' = [open EXCEPT ![f.sid] = Found(f)]
    BY DEF Finish, OpenAfter
  <2> QED BY <1>2, <2>1 DEF OpenGrows, TypeOK
<1>4. /\ UNCHANGED <<closed, closedDeque, lastStreamId>>
      /\ f.sid \in Nat /\ f.sid # 0 /\ lastFrame.sid \in Nat
  BY ReceivesType, IdsAreNumbers
<1>5. CASE QueueRequest(f, r)
  <2>1. lastFrame.sid <= f.sid
    BY <1>4, IdsAreNumbers DEF IsOutOfOrder
  <2>2. lastFrame'.sid = f.sid
    BY <1>5 DEF QueueRequest, Remember, Proceed
  <2>3. f.sid \in reqCtx' /\ subscriber'[f.sid] # 0
    BY <1>2, <2>1, NewStreamIsLater DEF StreamsGrow
  <2>4. NewRequest(f.sid, Found(f))
    BY <1>5, <2>1, <2>2, <2>3, NewStreamIsLater DEF NewRequest, QueueRequest
  <2> QED BY <1>1, <1>2, <1>3, <1>4, <2>1, <2>2, <2>4 DEF ParserEffect
<1>6. CASE KeepStream(f, r) \/ RefuseBlock(f, r)
  <2>1. lastFrame.sid <= lastFrame'.sid
    BY <1>4, <1>6, RememberGrows DEF KeepStream, RefuseBlock
  <2>2. ConsumerLives
    BY <1>6, AnswerLives, SameGrows DEF KeepStream, RefuseBlock
  <2> QED BY <1>2, <1>3, <1>4, <1>6, <2>1, <2>2
          DEF ParserEffect, KeepStream, RefuseBlock, requestVars
<1>7. CASE RefuseRequest(f, r) \/ CrashOnBody(f, r)
  <2>1. ConsumerLives BY <1>7, AnswerLives DEF RefuseRequest, CrashOnBody
  <2> QED BY <1>2, <1>3, <1>7, <2>1, QuietEffect
          DEF RefuseRequest, CrashOnBody, requestVars
<1> QED BY <1>5, <1>6, <1>7 DEF Finish

\* A frame on a stream of the client, found or made, is refused or processed.
LEMMA BuildEffect ==
  ASSUME TypeOK, TypeOK', RequestInvariant, NEW f \in Frame,
         HandleHeaders(f) \/ HandleContinuation(f) \/ HandleData(f)
  PROVE  ParserEffect
<1>1. /\ Receives /\ f.sid \in Sids /\ ~IsOutOfOrder(f)
      /\ f.type \in {"HEADERS", "CONTINUATION", "DATA"}
  BY FrameSid DEF HandleHeaders, HandleContinuation, HandleData, Violates
<1>2. Found(f) # 0 /\ f.sid \in Nat /\ f.sid # 0
  BY <1>1, FoundType, IdsAreNumbers
<1>3. CASE HandleHeaders(f)
  <2>1. ASSUME NEW s, FindStream(f, s) \/ UNCHANGED <<heap, subscriber, reqCtx>>,
               NEW code, NEW boxes, NEW subs, Refuse(f, code, boxes, subs)
        PROVE  ParserEffect
    <3>1. StreamsGrow BY <1>1, <1>2, <2>1, FindStreamGrows, SameGrows
    <3> QED BY <1>1, <1>2, <2>1, <3>1, RefuseEffect
  <2>2. ASSUME HeadersEarlyVerdict(f) = "ok", NEW r, Finish(f, r)
        PROVE  ParserEffect
    <3>1. ~HasBeenClosed(f.sid) BY <2>2 DEF HeadersEarlyVerdict
    <3>2. f.type = "HEADERS" BY <1>3 DEF HandleHeaders
    <3> QED BY <1>1, <2>2, <3>1, <3>2, FinishEffect
  <2> QED BY <1>3, <2>1, <2>2 DEF HandleHeaders
<1>4. CASE HandleContinuation(f)
  <2>1. CASE BreakLoop(inbox, subscriber) /\ UNCHANGED <<streamVars, requestVars, lastFrame>>
    <3>1. StreamsGrow /\ OpenGrows BY <2>1, SameGrows DEF streamVars
    <3>2. ConsumerLives BY <2>1, AnswerLives
    <3> QED BY <1>1, <2>1, <3>1, <3>2, QuietEffect DEF requestVars
  <2>2. ASSUME Refuse(f, ContinuationVerdict(f), inbox, subscriber),
               UNCHANGED <<heap, subscriber, reqCtx>>
        PROVE  ParserEffect
    <3>1. StreamsGrow BY <2>2, SameGrows
    <3> QED BY <1>1, <1>2, <2>2, <3>1, RefuseEffect
  <2>3. ASSUME ContinuationVerdict(f) = "ok", NEW r, Finish(f, r)
        PROVE  ParserEffect
    <3>1. ~HasBeenClosed(f.sid) /\ lastFrame.sid = f.sid
      BY <2>3 DEF ContinuationVerdict
    <3> QED BY <1>1, <2>3, <3>1, FinishEffect
  <2> QED BY <1>4, <2>1, <2>2, <2>3 DEF HandleContinuation
<1>5. CASE HandleData(f)
  <2>1. ASSUME FindStream(f, FoundStream(f)),
               Refuse(f, DataVerdict(f), InboxAfterFind(f), subscriber')
        PROVE  ParserEffect
    <3>1. StreamsGrow BY <1>1, <1>2, <2>1, FindStreamGrows
    <3> QED BY <1>1, <1>2, <2>1, <3>1, RefuseEffect
  <2>2. ASSUME DataVerdict(f) = "ok", NEW r, Finish(f, r)
        PROVE  ParserEffect
    <3>1. ~HasBeenClosed(f.sid) BY <2>2 DEF DataVerdict
    <3>2. f.type = "DATA" BY <1>5 DEF HandleData
    <3> QED BY <1>1, <2>2, <3>1, <3>2, FinishEffect
  <2> QED BY <1>5, <2>1, <2>2 DEF HandleData
<1> QED BY <1>3, <1>4, <1>5

\* The frames that end or refuse streams.
LEMMA EndEffect ==
  ASSUME TypeOK, TypeOK', NEW f \in Frame,
         \/ RefuseEvenStream(f) \/ RefuseStream(f) \/ RefuseOldStream(f)
         \/ HandleRstStream(f) \/ HandleEndingFrame(f)
  PROVE  ParserEffect
<1>1. Receives
  BY DEF RefuseEvenStream, RefuseStream, RefuseOldStream, HandleRstStream,
         HandleEndingFrame
<1>2. CASE RefuseEvenStream(f) \/ RefuseOldStream(f) \/ HandleEndingFrame(f)
  <2>1. StreamsGrow /\ OpenGrows
    BY <1>2, SameGrows DEF RefuseEvenStream, RefuseOldStream, HandleEndingFrame, streamVars
  <2>2. ConsumerLives
    BY <1>2, AnswerLives DEF RefuseEvenStream, RefuseOldStream, HandleEndingFrame
  <2> QED BY <1>1, <1>2, <2>1, <2>2, QuietEffect
          DEF RefuseEvenStream, RefuseOldStream, HandleEndingFrame, requestVars
<1>3. CASE RefuseStream(f)
  <2>1. StreamsGrow /\ OpenGrows
    BY <1>3, SameGrows, RemoveGrows DEF RefuseStream
  <2>2. ConsumerLives BY <1>3, AnswerLives DEF RefuseStream
  <2> QED BY <1>1, <1>3, <2>1, <2>2, QuietEffect DEF RefuseStream, requestVars
<1>4. CASE HandleRstStream(f)
  <2>1. f.sid \in Sids /\ f.type = "RST_STREAM"
    BY <1>4, FrameSid DEF HandleRstStream, Violates
  <2>2. StreamsGrow BY <1>4, SameGrows DEF HandleRstStream
  <2>3. CASE Found(f) = 0
    BY <1>1, <1>4, <2>1, <2>2, <2>3, IdsAreNumbers, RefuseEffect DEF HandleRstStream
  <2>4. CASE Found(f) # 0
    <3>1. OpenGrows BY <1>4, <2>4, RemoveGrows DEF HandleRstStream
    <3>2. ConsumerLives BY <1>4, <2>4, AnswerLives DEF HandleRstStream
    <3> QED BY <1>1, <1>4, <2>2, <2>4, <3>1, <3>2, QuietEffect
            DEF HandleRstStream, requestVars
  <2> QED BY <2>3, <2>4
<1> QED BY <1>2, <1>3, <1>4

\* PRIORITY and PING.
LEMMA PriorityPingEffect ==
  ASSUME TypeOK, NEW f \in Frame, HandlePriority(f) \/ HandlePing(f)
  PROVE  ParserEffect
<1>1. Receives /\ UNCHANGED streamVars /\ UNCHANGED <<processing, queue, lastFrame>>
  BY DEF HandlePriority, HandlePing, requestVars
<1>2. StreamsGrow /\ OpenGrows BY <1>1, SameGrows DEF streamVars
<1>3. ConsumerLives BY AnswerLives, SameGrows DEF HandlePriority, HandlePing
<1> QED BY <1>1, <1>2, <1>3, QuietEffect

\* Extension frames: process() may register a stream for the last frame.
LEMMA ExtensionEffect ==
  ASSUME TypeOK, TypeOK', NEW f \in Frame, HandleExtension(f)
  PROVE  ParserEffect
<1>1. Receives /\ f.type = "EXTENSION" /\ f.sid \in Nat
  BY FrameSid, IdsAreNumbers DEF HandleExtension, FrameSids, EvenSid
<1>2. CASE /\ Refuse(f, "PROTOCOL_ERROR", inbox, subscriber)
           /\ UNCHANGED <<heap, subscriber, reqCtx>>
  <2>1. StreamsGrow BY <1>2, SameGrows
  <2> QED BY <1>1, <1>2, <2>1, RefuseEffect
<1>3. CASE /\ lastFrame # NoFrame
           /\ FindStream(lastFrame, LastStream)
           /\ open' = [open EXCEPT ![lastFrame.sid] = Found(lastFrame)]
           /\ Proceed(InboxAfterFind(lastFrame)) /\ wire' = <<>>
           /\ UNCHANGED <<consumer, requestVars, lastFrame>>
  <2>1. lastFrame.sid \in Sids /\ lastFrame.type \in {"HEADERS", "CONTINUATION", "DATA"}
    BY <1>3 DEF TypeOK, LastFrame
  <2>2. /\ StreamsGrow
        /\ \/ open[lastFrame.sid] # 0
           \/ lastFrame.sid \in reqCtx' /\ subscriber'[lastFrame.sid] # 0
    BY <1>3, <2>1, FoundType, FindStreamGrows
  <2>3. OpenGrows BY <1>3, <2>2 DEF OpenGrows, TypeOK
  <2>4. ConsumerLives BY <1>3, SameGrows
  <2> QED BY <1>1, <1>3, <2>2, <2>3, <2>4, QuietEffect DEF requestVars
<1>4. CASE UNCHANGED <<streamVars, consumer, requestVars, lastFrame>>
  <2>1. StreamsGrow /\ OpenGrows /\ ConsumerLives BY <1>4, SameGrows DEF streamVars
  <2> QED BY <1>1, <1>4, <2>1, QuietEffect DEF requestVars
<1> QED BY <1>2, <1>3, <1>4 DEF HandleExtension

\* WINDOW_UPDATE and SETTINGS.
LEMMA WindowEffect ==
  ASSUME TypeOK, TypeOK', NEW f \in Frame,
         HandleConnectionWindow(f) \/ HandleStreamWindow(f) \/ HandleSettings(f)
  PROVE  ParserEffect
<1>1. Receives /\ StreamsGrow
  BY SameGrows DEF HandleConnectionWindow, HandleStreamWindow, HandleSettings, streamVars
<1>2. ASSUME UNCHANGED <<open, processing, queue, lastFrame>>, ConsumerLives
      PROVE  ParserEffect
  BY <1>1, <1>2, SameGrows, QuietEffect
<1>3. CASE HandleConnectionWindow(f)
  <2>1. ConsumerLives BY <1>3, AnswerLives, SameGrows DEF HandleConnectionWindow
  <2> QED BY <1>2, <1>3, <2>1 DEF HandleConnectionWindow, streamVars, requestVars
<1>4. CASE HandleStreamWindow(f)
  <2>1. f.sid \in Nat /\ f.type = "WINDOW_UPDATE"
    BY <1>4, FrameSid, IdsAreNumbers DEF HandleStreamWindow, Violates
  <2>2. CASE Refuse(f, "PROTOCOL_ERROR", inbox, subscriber)
    BY <1>1, <2>1, <2>2, RefuseEffect
  <2>3. CASE /\ BreakLoop(inbox, subscriber) \/ ResetFirstStream(inbox)
             /\ UNCHANGED <<open, processing, queue, lastFrame>>
    <3>1. ConsumerLives BY <2>3, AnswerLives DEF ResetFirstStream
    <3> QED BY <1>2, <2>3, <3>1
  <2> QED BY <1>4, <2>2, <2>3 DEF HandleStreamWindow, requestVars
<1>5. CASE HandleSettings(f)
  <2>1. ConsumerLives
    BY <1>5, AnswerLives, SameGrows DEF HandleSettings, ResetFirstStream
  <2> QED BY <1>2, <1>5, <2>1 DEF HandleSettings
<1> QED BY <1>3, <1>4, <1>5

\* Every step of the parser.
LEMMA ParserStepEffect ==
  ASSUME TypeOK, TypeOK', RequestInvariant, ParserStep
  PROVE  ParserEffect
<1>1. CASE HandleFrame
  <2>1. PICK f \in Incoming :
          \/ RefuseEvenStream(f) \/ RefuseStream(f) \/ RefuseOldStream(f)
          \/ HandleHeaders(f) \/ HandleContinuation(f) \/ HandleData(f)
          \/ HandleRstStream(f) \/ HandlePriority(f) \/ HandlePing(f)
          \/ HandleExtension(f) \/ HandleConnectionWindow(f)
          \/ HandleStreamWindow(f) \/ HandleSettings(f) \/ HandleEndingFrame(f)
    BY <1>1 DEF HandleFrame
  <2>2. f \in Frame BY IncomingFrame DEF TypeOK
  <2> QED BY <2>1, <2>2, BuildEffect, EndEffect, PriorityPingEffect,
             ExtensionEffect, WindowEffect
<1>2. CASE AwaitBody \/ RefuseBody \/ StopReading \/ RefuseFrameHeader
  <2>1. Receives /\ UNCHANGED <<streamVars, requestVars, lastFrame>>
    BY <1>2 DEF AwaitBody, RefuseBody, StopReading, RefuseFrameHeader, Reads
  <2>2. StreamsGrow /\ OpenGrows BY <2>1, SameGrows DEF streamVars
  <2>3. ConsumerLives
    BY <1>2, AnswerLives, SameGrows
       DEF AwaitBody, RefuseBody, StopReading, RefuseFrameHeader
  <2> QED BY <2>1, <2>2, <2>3, QuietEffect DEF requestVars
<1> QED BY <1>1, <1>2 DEF ParserStep

-----------------------------------------------------------------------------
(* A step of the parser, seen from the marks of canceled streams.          *)

\* At most one stream is marked, that of a request, and none with a new one.
MarkEffect ==
  \/ UNCHANGED canceled
  \/ /\ UNCHANGED <<processing, queue>>
     /\ \E sid \in Sids : processing[sid] # 0 /\ canceled' = canceled \cup {sid}

\* cancel_stream marks the stream of a request or does nothing.
LEMMA CancelMarks ==
  ASSUME NEW sid, canceled' = Cancel(sid), UNCHANGED <<processing, queue>>
  PROVE  MarkEffect
  BY DEF Cancel, IsInProcessing, MarkEffect

\* The handlers that cancel, each of the stream it names or of stream 1.
LEMMA HandlerMarks ==
  ASSUME NEW f,
         \/ HandleRstStream(f) \/ HandlePriority(f) \/ HandleExtension(f)
         \/ HandleStreamWindow(f) \/ HandleSettings(f)
  PROVE  MarkEffect
<1>1. CASE HandleRstStream(f)
  BY <1>1, CancelMarks DEF HandleRstStream, Refuse, requestVars, MarkEffect
<1>2. CASE HandlePriority(f)
  BY <1>2, CancelMarks DEF HandlePriority, MarkEffect
<1>3. CASE HandleExtension(f)
  BY <1>3, CancelMarks DEF HandleExtension, Refuse, requestVars, MarkEffect
<1>4. CASE HandleStreamWindow(f)
  BY <1>4, CancelMarks DEF HandleStreamWindow, Refuse, ResetFirstStream, requestVars, MarkEffect
<1>5. CASE HandleSettings(f)
  BY <1>5, CancelMarks DEF HandleSettings, ResetFirstStream, MarkEffect
<1> QED BY <1>1, <1>2, <1>3, <1>4, <1>5

\* A frame of a request is refused, or it cancels nothing.
LEMMA BuildMarks ==
  ASSUME NEW f, HandleHeaders(f) \/ HandleContinuation(f) \/ HandleData(f)
  PROVE  MarkEffect
<1>1. ASSUME NEW code, NEW boxes, NEW subs, Refuse(f, code, boxes, subs)
      PROVE  MarkEffect
  BY <1>1, CancelMarks DEF Refuse
<1>2. ASSUME NEW r, Finish(f, r) PROVE MarkEffect
  BY <1>2 DEF Finish, KeepStream, QueueRequest, RefuseBlock, RefuseRequest, CrashOnBody,
              requestVars, MarkEffect
<1>3. CASE HandleHeaders(f) BY <1>1, <1>2, <1>3 DEF HandleHeaders
<1>4. CASE HandleContinuation(f)
  BY <1>1, <1>2, <1>4 DEF HandleContinuation, requestVars, MarkEffect
<1>5. CASE HandleData(f) BY <1>1, <1>2, <1>5 DEF HandleData
<1> QED BY <1>3, <1>4, <1>5

\* Every step of the parser.
LEMMA ParserMarks == ASSUME ParserStep PROVE MarkEffect
<1>1. CASE HandleFrame
  <2>1. PICK f \in Incoming :
          \/ HandleHeaders(f) \/ HandleContinuation(f) \/ HandleData(f)
          \/ HandleRstStream(f) \/ HandlePriority(f) \/ HandleExtension(f)
          \/ HandleStreamWindow(f) \/ HandleSettings(f)
          \/ RefuseEvenStream(f) \/ RefuseStream(f) \/ RefuseOldStream(f)
          \/ HandlePing(f) \/ HandleConnectionWindow(f) \/ HandleEndingFrame(f)
    BY <1>1 DEF HandleFrame
  <2>2. CASE \/ RefuseEvenStream(f) \/ RefuseStream(f) \/ RefuseOldStream(f)
             \/ HandlePing(f) \/ HandleConnectionWindow(f) \/ HandleEndingFrame(f)
    BY <2>2 DEF RefuseEvenStream, RefuseStream, RefuseOldStream, HandlePing,
                HandleConnectionWindow, HandleEndingFrame, requestVars, MarkEffect
  <2> QED BY <2>1, <2>2, HandlerMarks, BuildMarks
<1>2. CASE AwaitBody \/ RefuseBody \/ StopReading \/ RefuseFrameHeader
  BY <1>2 DEF AwaitBody, RefuseBody, StopReading, RefuseFrameHeader, Reads,
              requestVars, MarkEffect
<1> QED BY <1>1, <1>2 DEF ParserStep

-----------------------------------------------------------------------------
(* RequestInvariant.                                                       *)

\* The requests that wait have a stream and an object.
LEMMA QueuedRequest ==
  ASSUME TypeOK, NEW i \in 1..Len(queue)
  PROVE  /\ queue[i] \in RefSet /\ queue[i] \in Requests
         /\ queue[i].sid \in Sids /\ queue[i].inc \in Incarnations
         /\ queue[i].inc # 0
<1>1. queue[i] \in RefSet BY DEF TypeOK
<1> QED BY <1>1 DEF RefSet, Requests, Incarnations

\* A request is queued or running.
LEMMA RequestCases ==
  ASSUME NEW r \in Requests
  PROVE  \/ \E i \in 1..Len(queue) : r = queue[i]
         \/ IsRunning /\ r = [sid |-> consumer.sid, inc |-> consumer.inc]
  BY DEF Requests

\* A step of the parser that makes no request.
LEMMA QuietKeepsInvariant ==
  ASSUME TypeOK, RequestInvariant, UNCHANGED <<closed, closedDeque, lastStreamId>>,
         lastFrame.sid <= lastFrame'.sid, lastFrame'.sid \in Nat,
         StreamsGrow, OpenGrows, UNCHANGED <<processing, queue>>, ConsumerLives
  PROVE  RequestInvariant'
<1>1. consumer' = consumer \/ (~IsRunning' /\ consumer'.pc = "done")
  <2>1. [Idle EXCEPT !.pc = "done"].pc = "done" BY DEF Idle
  <2> QED BY <2>1 DEF ConsumerLives, IsRunning
<1>2. RunningRequest'
  BY <1>1 DEF RequestInvariant, RunningRequest, IsRunning
<1>3. QueueReached'
  <2>1. \A n \in Nat : n <= lastFrame.sid => n <= lastFrame'.sid
    BY IdsAreNumbers
  <2>2. lastStreamId <= lastFrame'.sid
    BY <2>1, IdsAreNumbers DEF RequestInvariant, QueueReached
  <2>3. ASSUME NEW i \in 1..Len(queue) PROVE queue[i].sid <= lastFrame'.sid
    BY <2>1, QueuedRequest, IdsAreNumbers DEF RequestInvariant, QueueReached
  <2> QED BY <2>2, <2>3 DEF QueueReached
<1>4. LastRemembered' /\ ClosedNotProcessing' /\ InOrder' /\ ClosedBounded'
  BY DEF RequestInvariant, LastRemembered, ClosedNotProcessing, InOrder, ClosedBounded
<1>5. OpenRegistered'
  BY DEF RequestInvariant, OpenRegistered, OpenGrows, StreamsGrow
<1>6. RegistryConsistent'
  <2>1. Requests' \subseteq Requests
    BY <1>1 DEF Requests, IsRunning
  <2>2. ASSUME NEW r \in Requests
        PROVE  processing'[r.sid] = r.inc /\ subscriber'[r.sid] # 0 /\ r.sid \in reqCtx'
    <3>1. r.sid \in Sids
      BY RequestCases, QueuedRequest DEF RequestInvariant, RunningRequest
    <3> QED BY <3>1 DEF RequestInvariant, RegistryConsistent, StreamsGrow
  <2>3. ASSUME NEW sid \in Sids, processing'[sid] # 0, consumer'.pc # "done"
        PROVE  \E r \in Requests' : r.sid = sid
    <3>1. Requests' = Requests BY <1>1, <2>3 DEF Requests, IsRunning
    <3> QED BY <1>1, <2>3, <3>1 DEF RequestInvariant, RegistryConsistent
  <2> QED BY <2>1, <2>2, <2>3 DEF RegistryConsistent
<1> QED BY <1>2, <1>3, <1>4, <1>5, <1>6 DEF RequestInvariant

\* A completed request: it is later than everything that waits.
LEMMA NewRequestIsLast ==
  ASSUME TypeOK, RequestInvariant, NEW sid \in Sids, NEW inc \in Incarnations,
         NewRequest(sid, inc)
  PROVE  /\ lastStreamId < sid
         /\ \A i \in 1..Len(queue) : queue[i].sid < sid
         /\ \A r \in Requests : r.sid \in Sids /\ r.sid # sid
<1>1. lastStreamId < sid
  BY NewStreamIsLater DEF NewRequest, HasBeenClosed, IsInProcessing
<1>2. \A i \in 1..Len(queue) : queue[i].sid # sid
  BY QueuedRequest DEF NewRequest, RequestInvariant, RegistryConsistent
<1>3. ASSUME NEW i \in 1..Len(queue) PROVE queue[i].sid < sid
  <2>1. queue[i].sid <= lastFrame.sid /\ lastFrame.sid <= sid
    BY DEF RequestInvariant, QueueReached, NewRequest
  <2>2. queue[i].sid \in Nat /\ lastFrame.sid \in Nat /\ sid \in Nat
    BY QueuedRequest, IdsAreNumbers
  <2> QED BY <1>2, <2>1, <2>2
<1>4. ASSUME NEW r \in Requests PROVE r.sid \in Sids /\ r.sid # sid
  <2>1. r.sid \in Sids
    BY RequestCases, QueuedRequest DEF RequestInvariant, RunningRequest
  <2>2. IsRunning => consumer.sid # sid
    BY <1>1, IdsAreNumbers DEF RequestInvariant, RunningRequest
  <2> QED BY <1>2, <2>1, <2>2, RequestCases
<1> QED BY <1>1, <1>3, <1>4

\* The queue with a request at its end.
LEMMA AppendedQueue ==
  ASSUME TypeOK, NEW r, queue' = Append(queue, r)
  PROVE  /\ Len(queue') = Len(queue) + 1 /\ Len(queue) \in Nat
         /\ \A i \in 1..Len(queue) : queue'[i] = queue[i]
         /\ queue'[Len(queue) + 1] = r
  BY DEF TypeOK

\* A step of the parser that completes a request.
LEMMA NewRequestKeepsInvariant ==
  ASSUME TypeOK, RequestInvariant, UNCHANGED <<closed, closedDeque, lastStreamId>>,
         StreamsGrow, OpenGrows,
         NEW sid \in Sids, NEW inc \in Incarnations, NewRequest(sid, inc)
  PROVE  RequestInvariant'
<1> DEFINE new == [sid |-> sid, inc |-> inc]
<1>1. /\ lastStreamId < sid /\ sid \in Nat /\ lastStreamId \in Nat
      /\ \A i \in 1..Len(queue) : queue[i].sid < sid /\ queue[i].sid \in Nat
      /\ \A r \in Requests : r.sid \in Sids /\ r.sid # sid
  BY NewRequestIsLast, QueuedRequest, IdsAreNumbers
<1>2. /\ Len(queue') = Len(queue) + 1 /\ Len(queue) \in Nat
      /\ \A i \in 1..Len(queue) : queue'[i] = queue[i]
      /\ queue'[Len(queue) + 1] = new
      /\ \A i \in 1..Len(queue') : i \in 1..Len(queue) \/ i = Len(queue) + 1
  <2>1. queue' = Append(queue, new) BY DEF NewRequest
  <2> QED BY <2>1, AppendedQueue
<1>3. /\ processing' = [processing EXCEPT ![sid] = inc]
      /\ processing \in [Sids -> Object] /\ inc # 0 /\ UNCHANGED consumer
  BY DEF NewRequest, TypeOK, Incarnations
<1>4. RunningRequest'
  BY <1>3 DEF RequestInvariant, RunningRequest, IsRunning
<1>5. QueueReached'
  <2>1. lastFrame'.sid = sid BY DEF NewRequest
  <2> QED BY <1>1, <1>2, <2>1 DEF QueueReached
<1>6. LastRemembered'
  BY <1>3, NewRequestIsLast DEF RequestInvariant, LastRemembered, TypeOK
<1>7. OpenRegistered'
  BY DEF RequestInvariant, OpenRegistered, OpenGrows, StreamsGrow
<1>8. ClosedNotProcessing'
  BY <1>3 DEF RequestInvariant, ClosedNotProcessing, NewRequest, TypeOK
<1>9. InOrder'
  <2>1. \A i \in 1..Len(queue) : lastStreamId < queue[i].sid
    BY DEF RequestInvariant, InOrder
  <2>2. \A i, j \in 1..Len(queue) : i < j => queue[i].sid < queue[j].sid
    BY DEF RequestInvariant, InOrder
  <2>3. ASSUME NEW i \in 1..Len(queue'), NEW j \in 1..Len(queue'), i < j
        PROVE  queue'[i].sid < queue'[j].sid
    BY <1>1, <1>2, <2>2, <2>3
  <2> QED BY <1>1, <1>2, <2>1, <2>3 DEF InOrder
<1>10. RegistryConsistent'
  <2>1. Requests' = Requests \cup {new}
    <3>1. {queue'[i] : i \in 1..Len(queue')} = {queue[i] : i \in 1..Len(queue)} \cup {new}
      BY <1>2
    <3> QED BY <1>3, <3>1 DEF Requests, IsRunning
  <2>2. ASSUME NEW r \in Requests
        PROVE  processing'[r.sid] = r.inc /\ subscriber'[r.sid] # 0 /\ r.sid \in reqCtx'
    BY <1>1, <1>3 DEF RequestInvariant, RegistryConsistent, StreamsGrow
  <2>3. processing'[sid] = inc /\ subscriber'[sid] # 0 /\ sid \in reqCtx'
    BY <1>3 DEF NewRequest
  <2>4. ASSUME NEW s \in Sids, processing'[s] # 0, consumer'.pc # "done"
        PROVE  \E r \in Requests' : r.sid = s
    <3>1. CASE s = sid
      <4>1. new \in Requests' /\ new.sid = s BY <2>1, <3>1
      <4> QED BY <4>1
    <3>2. CASE s # sid
      <4>1. processing[s] # 0 /\ consumer.pc # "done" BY <1>3, <2>4, <3>2
      <4> QED BY <2>1, <4>1 DEF RequestInvariant, RegistryConsistent
    <3> QED BY <3>1, <3>2
  <2> QED BY <2>1, <2>2, <2>3, <2>4 DEF RegistryConsistent
<1>11. ClosedBounded'
  BY DEF RequestInvariant, ClosedBounded
<1> QED BY <1>4, <1>5, <1>6, <1>7, <1>8, <1>9, <1>10, <1>11 DEF RequestInvariant

\* The queue without its first request.
LEMMA ShiftedQueue ==
  ASSUME TypeOK, queue # <<>>, queue' = Tail(queue)
  PROVE  /\ Len(queue) \in Nat \ {0} /\ Len(queue') = Len(queue) - 1
         /\ Head(queue) = queue[1] /\ 1 \in 1..Len(queue)
         /\ \A i \in 1..Len(queue') : i + 1 \in 1..Len(queue) /\ queue'[i] = queue[i + 1]
         /\ \A i \in 2..Len(queue) : i - 1 \in 1..Len(queue') /\ queue'[i - 1] = queue[i]
         /\ {queue[i] : i \in 1..Len(queue)} = {queue'[i] : i \in 1..Len(queue')} \cup {Head(queue)}
<1>1. queue \in Seq(RefSet) BY DEF TypeOK
<1>2. /\ Len(queue) \in Nat \ {0} /\ Len(queue') = Len(queue) - 1
      /\ Head(queue) = queue[1] /\ 1 \in 1..Len(queue)
  BY <1>1
<1>3. \A i \in 1..Len(queue') : i + 1 \in 1..Len(queue) /\ queue'[i] = queue[i + 1]
  BY <1>1
<1>4. ASSUME NEW i \in 2..Len(queue)
      PROVE  i - 1 \in 1..Len(queue') /\ queue'[i - 1] = queue[i]
  <2>1. i - 1 \in 1..Len(queue') /\ (i - 1) + 1 = i BY <1>2
  <2> QED BY <1>3, <2>1
<1>5. \A i \in 1..Len(queue) : i = 1 \/ i \in 2..Len(queue) BY <1>2
<1> QED BY <1>2, <1>3, <1>4, <1>5

\* The first request leaves the queue: it is before all the others.
LEMMA TakenRequest ==
  ASSUME TypeOK, RequestInvariant, queue # <<>>, queue' = Tail(queue)
  PROVE  /\ Head(queue) \in Requests /\ lastStreamId < Head(queue).sid
         /\ \A i \in 1..Len(queue') : /\ Head(queue).sid < queue'[i].sid
                                      /\ queue'[i].sid \in Sids
                                      /\ queue'[i].sid <= lastFrame.sid
                                      /\ lastStreamId < queue'[i].sid
         /\ \A i, j \in 1..Len(queue') : i < j => queue'[i].sid < queue'[j].sid
<1>1. /\ Len(queue) \in Nat \ {0} /\ Len(queue') = Len(queue) - 1
      /\ Head(queue) = queue[1] /\ 1 \in 1..Len(queue)
      /\ \A i \in 1..Len(queue') : i + 1 \in 1..Len(queue) /\ queue'[i] = queue[i + 1]
  BY ShiftedQueue
<1>2. /\ \A i, j \in 1..Len(queue) : i < j => queue[i].sid < queue[j].sid
      /\ \A i \in 1..Len(queue) : lastStreamId < queue[i].sid
      /\ \A i \in 1..Len(queue) : queue[i].sid <= lastFrame.sid
  BY DEF RequestInvariant, InOrder, QueueReached
<1>3. Head(queue) \in Requests /\ lastStreamId < Head(queue).sid
  BY <1>1, <1>2, QueuedRequest
<1>4. ASSUME NEW i \in 1..Len(queue')
      PROVE  /\ Head(queue).sid < queue'[i].sid /\ queue'[i].sid \in Sids
             /\ queue'[i].sid <= lastFrame.sid /\ lastStreamId < queue'[i].sid
  BY <1>1, <1>2, QueuedRequest
<1>5. ASSUME NEW i \in 1..Len(queue'), NEW j \in 1..Len(queue'), i < j
      PROVE  queue'[i].sid < queue'[j].sid
  <2>1. i + 1 \in 1..Len(queue) /\ j + 1 \in 1..Len(queue) /\ i + 1 < j + 1
    BY <1>1, <1>5
  <2> QED BY <1>1, <1>2, <2>1
<1> QED BY <1>3, <1>4, <1>5

\* A canceled request is dropped.
LEMMA DropKeepsInvariant ==
  ASSUME TypeOK, RequestInvariant, DropCanceled
  PROVE  RequestInvariant'
<1> DEFINE head == Head(queue)
<1>1. /\ queue # <<>> /\ queue' = Tail(queue) /\ consumer.pc = "get"
      /\ processing' = [processing EXCEPT ![head.sid] = 0]
      /\ UNCHANGED <<subscriber, closed, closedDeque, lastStreamId, consumer,
                     open, reqCtx, lastFrame>>
  BY DEF DropCanceled, ConsumerStep, closedVars
<1>2. /\ lastStreamId < head.sid /\ head.sid \in Sids
      /\ lastStreamId \in Nat /\ head.sid \in Nat
      /\ processing \in [Sids -> Object]
  BY <1>1, TakenRequest, QueueType, IdsAreNumbers DEF TypeOK
<1>3. ~IsRunning /\ ~IsRunning' BY <1>1 DEF IsRunning
<1>4. RunningRequest' /\ OpenRegistered' /\ ClosedBounded'
  BY <1>1, <1>3 DEF RequestInvariant, RunningRequest, OpenRegistered, ClosedBounded
<1>5. QueueReached' /\ InOrder'
  <2>1. lastStreamId <= lastFrame.sid BY DEF RequestInvariant, QueueReached
  <2> QED BY <1>1, <2>1, TakenRequest DEF QueueReached, InOrder
<1>6. LastRemembered' /\ ClosedNotProcessing'
  BY <1>1, <1>2 DEF RequestInvariant, LastRemembered, ClosedNotProcessing, TypeOK
<1>7. RegistryConsistent'
  <2>1. Requests = Requests' \cup {head}
    BY <1>1, <1>3, ShiftedQueue DEF Requests
  <2>2. ASSUME NEW r \in Requests' PROVE r.sid # head.sid /\ r.sid \in Sids
    <3>1. PICK i \in 1..Len(queue') : r = queue'[i] BY <1>3 DEF Requests
    <3>2. head.sid < queue'[i].sid /\ queue'[i].sid \in Sids BY <1>1, TakenRequest
    <3> QED BY <1>2, <3>1, <3>2, IdsAreNumbers
  <2>3. ASSUME NEW r \in Requests'
        PROVE  processing'[r.sid] = r.inc /\ subscriber'[r.sid] # 0 /\ r.sid \in reqCtx'
    BY <1>1, <1>2, <2>1, <2>2 DEF RequestInvariant, RegistryConsistent
  <2>4. ASSUME NEW s \in Sids, processing'[s] # 0, consumer'.pc # "done"
        PROVE  \E r \in Requests' : r.sid = s
    <3>1. processing[s] # 0 /\ s # head.sid /\ consumer.pc # "done"
      BY <1>1, <1>2, <2>4
    <3> QED BY <2>1, <3>1 DEF RequestInvariant, RegistryConsistent
  <2> QED BY <2>3, <2>4 DEF RegistryConsistent
<1> QED BY <1>4, <1>5, <1>6, <1>7 DEF RequestInvariant

\* The first request is given to the endpoint.
LEMMA DispatchKeepsInvariant ==
  ASSUME TypeOK, RequestInvariant, Dispatch
  PROVE  RequestInvariant'
<1> DEFINE head == Head(queue)
<1>1. /\ queue # <<>> /\ queue' = Tail(queue) /\ consumer.pc = "get"
      /\ lastStreamId' = head.sid
      /\ UNCHANGED <<subscriber, closed, closedDeque, processing, open, reqCtx, lastFrame>>
  BY DEF Dispatch, ConsumerStep, closedVars
<1>2. /\ lastStreamId < head.sid /\ head.sid \in Sids /\ head.inc \in Incarnations
      /\ lastStreamId \in Nat /\ head.sid \in Nat /\ head \in Requests
      /\ head = [sid |-> head.sid, inc |-> head.inc]
  BY <1>1, TakenRequest, QueueType, IdsAreNumbers DEF RefSet
<1>3. processing[head.sid] = head.inc /\ head.sid \in reqCtx
  BY <1>2 DEF RequestInvariant, RegistryConsistent
<1>4. /\ consumer'.pc = "dispatch" /\ consumer'.sid = head.sid
      /\ consumer'.inc = head.inc
  BY <1>3 DEF Dispatch
<1>5. IsRunning' /\ ~IsRunning BY <1>1, <1>4 DEF IsRunning
<1>6. RunningRequest'
  BY <1>1, <1>2, <1>4 DEF RunningRequest
<1>7. QueueReached'
  <2>1. head.sid <= lastFrame.sid
    BY <1>1, ShiftedQueue DEF RequestInvariant, QueueReached
  <2> QED BY <1>1, <2>1, TakenRequest DEF QueueReached
<1>8. LastRemembered' /\ ClosedNotProcessing' /\ ClosedBounded'
  BY <1>1, <1>2, <1>3
     DEF RequestInvariant, LastRemembered, ClosedNotProcessing, ClosedBounded, Incarnations
<1>9. OpenRegistered'
  <2>1. \A sid \in Sids : sid <= lastStreamId => sid <= head.sid
    BY <1>2, IdsAreNumbers
  <2> QED BY <1>1, <2>1 DEF RequestInvariant, OpenRegistered
<1>10. InOrder'
  BY <1>1, TakenRequest DEF InOrder
<1>11. RegistryConsistent'
  <2>1. Requests' = Requests
    <3>1. Requests = {queue[i] : i \in 1..Len(queue)} BY <1>5 DEF Requests
    <3>2. Requests' = {queue'[i] : i \in 1..Len(queue')} \cup {head}
      BY <1>2, <1>4, <1>5 DEF Requests
    <3> QED BY <1>1, <3>1, <3>2, ShiftedQueue
  <2>2. consumer.pc # "done" BY <1>1
  <2> QED BY <1>1, <2>1, <2>2 DEF RequestInvariant, RegistryConsistent
<1> QED BY <1>6, <1>7, <1>8, <1>9, <1>10, <1>11 DEF RequestInvariant

\* The consumer goes on with its request or ends.
LEMMA AnsweringKeepsInvariant ==
  ASSUME TypeOK, RequestInvariant,
         UNCHANGED <<subscriber, closed, closedDeque, processing, open, reqCtx,
                     lastFrame, queue, lastStreamId>>,
         \/ consumer' = [Idle EXCEPT !.pc = "done"]
         \/ /\ IsRunning /\ IsRunning'
            /\ consumer'.sid = consumer.sid /\ consumer'.inc = consumer.inc
         \/ UNCHANGED consumer
  PROVE  RequestInvariant'
<1>1. QueueReached' /\ LastRemembered' /\ OpenRegistered' /\ ClosedNotProcessing'
      /\ InOrder' /\ ClosedBounded'
  BY DEF RequestInvariant, QueueReached, LastRemembered, OpenRegistered,
         ClosedNotProcessing, InOrder, ClosedBounded
<1>2. CASE consumer' = [Idle EXCEPT !.pc = "done"]
  <2>1. consumer'.pc = "done" /\ ~IsRunning' BY <1>2 DEF Idle, IsRunning
  <2>2. Requests' \subseteq Requests BY <2>1 DEF Requests
  <2>3. RegistryConsistent' BY <2>1, <2>2 DEF RequestInvariant, RegistryConsistent
  <2>4. RunningRequest' BY <2>1 DEF RunningRequest
  <2> QED BY <1>1, <2>3, <2>4 DEF RequestInvariant
<1>3. CASE /\ IsRunning /\ IsRunning'
           /\ consumer'.sid = consumer.sid /\ consumer'.inc = consumer.inc
  <2>1. Requests' = Requests BY <1>3 DEF Requests
  <2>2. consumer.pc # "done" BY <1>3 DEF IsRunning
  <2>3. RegistryConsistent' BY <2>1, <2>2 DEF RequestInvariant, RegistryConsistent
  <2>4. RunningRequest' BY <1>3 DEF RequestInvariant, RunningRequest
  <2> QED BY <1>1, <2>3, <2>4 DEF RequestInvariant
<1>4. CASE UNCHANGED consumer
  <2>1. RegistryConsistent' /\ RunningRequest'
    BY <1>4 DEF RequestInvariant, RegistryConsistent, RunningRequest, Requests, IsRunning
  <2> QED BY <1>1, <2>1 DEF RequestInvariant
<1> QED BY <1>2, <1>3, <1>4

\* The ids in the deque are those in the set, each once, and finitely many.
LEMMA ClosedDequeInjective ==
  ASSUME TypeOK, ClosedBounded
  PROVE  /\ IsFiniteSet(closed)
         /\ \A i, j \in 1..Len(closedDeque) :
              closedDeque[i] = closedDeque[j] => i = j
<1>1. closedDeque \in Seq(Sids) /\ Len(closedDeque) \in Nat
  BY DEF TypeOK
<1>2. DOMAIN closedDeque = 1..Len(closedDeque) BY <1>1
<1>3. closedDeque \in Surjection(1..Len(closedDeque), closed)
  <2>1. closedDeque \in [1..Len(closedDeque) -> closed]
    BY <1>1, <1>2 DEF ClosedBounded
  <2>2. \A x \in closed : \E i \in 1..Len(closedDeque) : closedDeque[i] = x
    BY DEF ClosedBounded
  <2> QED BY <2>1, <2>2 DEF Surjection
<1>4. /\ IsFiniteSet(1..Len(closedDeque))
      /\ Cardinality(1..Len(closedDeque)) = Len(closedDeque)
  <2>1. 1 \in Int /\ Len(closedDeque) \in Int BY <1>1
  <2>2. /\ IsFiniteSet(1..Len(closedDeque))
        /\ Cardinality(1..Len(closedDeque))
             = IF 1 > Len(closedDeque) THEN 0 ELSE Len(closedDeque) - 1 + 1
    BY <2>1, FS_Interval
  <2> QED BY <1>1, <2>2
<1>5. IsFiniteSet(closed) /\ closedDeque \in Injection(1..Len(closedDeque), closed)
  BY <1>3, <1>4, FS_Surjection DEF ClosedBounded
<1>6. \A i, j \in 1..Len(closedDeque) : closedDeque[i] = closedDeque[j] => i = j
  BY <1>2, <1>5 DEF Injection, IsInjective
<1> QED BY <1>5, <1>6

\* add_closed_stream evicts exactly the oldest id, and only when it must.
LEMMA AddClosedKeepsBound ==
  ASSUME TypeOK, ClosedBounded, NEW sid \in Sids, sid \notin closed, AddClosed(sid)
  PROVE  ClosedBounded' /\ closed' \subseteq closed \cup {sid} /\ sid \in closed'
<1> DEFINE full == Cardinality(closed) >= CompletedQueSize
           kept == IF full THEN Tail(closedDeque) ELSE closedDeque
           left == IF full THEN closed \ {Head(closedDeque)} ELSE closed
<1>1. /\ closedDeque' = Append(kept, sid) /\ closed' = left \cup {sid}
  BY DEF AddClosed
<1>2. /\ closedDeque \in Seq(Sids) /\ Len(closedDeque) \in Nat
      /\ CompletedQueSize \in Nat /\ CompletedQueSize > 0
      /\ Cardinality(closed) = Len(closedDeque) /\ Len(closedDeque) <= CompletedQueSize
  BY LimitsAssumption DEF TypeOK, ClosedBounded
<1>3. /\ kept \in Seq(Sids) /\ IsFiniteSet(left)
      /\ left = {kept[i] : i \in 1..Len(kept)}
      /\ Cardinality(left) = Len(kept) /\ Len(kept) + 1 <= CompletedQueSize
  <2>1. CASE ~full
    BY <1>2, <2>1, ClosedDequeInjective DEF ClosedBounded
  <2>2. CASE full
    <3>1. /\ Len(closedDeque) > 0 /\ closedDeque # <<>>
          /\ kept = Tail(closedDeque) /\ left = closed \ {Head(closedDeque)}
      BY <1>2, <2>2
    <3>2. /\ Tail(closedDeque) \in Seq(Sids)
          /\ Len(Tail(closedDeque)) = Len(closedDeque) - 1
          /\ Head(closedDeque) = closedDeque[1] /\ 1 \in 1..Len(closedDeque)
          /\ \A i \in 1..Len(Tail(closedDeque)) :
               /\ i + 1 \in 1..Len(closedDeque) /\ i + 1 # 1
               /\ Tail(closedDeque)[i] = closedDeque[i + 1]
      BY <1>2, <3>1
    <3>3. closed = {closedDeque[i] : i \in 1..Len(closedDeque)}
      BY DEF ClosedBounded
    <3>4. Head(closedDeque) \in closed BY <3>2, <3>3
    <3>5. ASSUME NEW x \in left
          PROVE  \E i \in 1..Len(Tail(closedDeque)) : x = Tail(closedDeque)[i]
      <4>1. PICK j \in 1..Len(closedDeque) : x = closedDeque[j] BY <3>1, <3>3
      <4>2. j # 1 BY <3>1, <3>2, <4>1
      <4>3. j - 1 \in 1..Len(Tail(closedDeque)) /\ (j - 1) + 1 = j BY <1>2, <3>2, <4>2
      <4> QED BY <3>2, <4>1, <4>3
    <3>6. ASSUME NEW i \in 1..Len(Tail(closedDeque))
          PROVE  Tail(closedDeque)[i] \in left
      <4>1. closedDeque[i + 1] # closedDeque[1]
        BY <3>2, ClosedDequeInjective
      <4> QED BY <3>1, <3>2, <3>3, <4>1
    <3>7. left = {kept[i] : i \in 1..Len(kept)} BY <3>1, <3>5, <3>6
    <3>8. /\ IsFiniteSet(left) /\ Cardinality(left) = Cardinality(closed) - 1
      BY <3>1, <3>4, ClosedDequeInjective, FS_RemoveElement
    <3>9. kept \in Seq(Sids) /\ Len(kept) = Len(closedDeque) - 1 BY <3>1, <3>2
    <3> HIDE DEF kept, left
    <3> QED BY <1>2, <3>7, <3>8, <3>9
  <2> QED BY <2>1, <2>2
<1>4. sid \notin left OBVIOUS
<1> HIDE DEF kept, left
<1>5. Cardinality(closed') = Cardinality(left) + 1
  BY <1>1, <1>3, <1>4, FS_AddElement
<1>6. /\ Len(closedDeque') = Len(kept) + 1 /\ Len(kept) \in Nat
      /\ \A i \in 1..Len(kept) : closedDeque'[i] = kept[i]
      /\ closedDeque'[Len(kept) + 1] = sid
  <2>1. kept \in Seq(Sids) BY <1>3
  <2>2. closedDeque' = Append(kept, sid) BY <1>1
  <2> QED BY <2>1, <2>2
<1>7. closed' = {closedDeque'[i] : i \in 1..Len(closedDeque')}
  <2>1. \A i \in 1..Len(closedDeque') : i \in 1..Len(kept) \/ i = Len(kept) + 1
    BY <1>6
  <2>2. \A i \in 1..Len(kept) : i \in 1..Len(closedDeque') BY <1>6
  <2>3. Len(kept) + 1 \in 1..Len(closedDeque') BY <1>6
  <2> QED BY <1>1, <1>3, <1>6, <2>1, <2>2, <2>3
<1>8. ClosedBounded'
  BY <1>3, <1>5, <1>6, <1>7 DEF ClosedBounded
<1> QED BY <1>1, <1>8 DEF left

\* A response is finished: its id is remembered before it leaves processing.
LEMMA CompleteKeepsInvariant ==
  ASSUME TypeOK, RequestInvariant, CompleteResponse
  PROVE  RequestInvariant'
<1> DEFINE sid == consumer.sid
<1>1. IsRunning /\ sid \in Sids /\ consumer.inc \in Incarnations /\ sid = lastStreamId
  BY DEF CompleteResponse, RequestInvariant, RunningRequest, IsRunning
<1>2. [sid |-> sid, inc |-> consumer.inc] \in Requests
  BY <1>1 DEF Requests
<1>3. processing[sid] # 0 /\ subscriber[sid] # 0 /\ sid \notin closed
  <2>1. processing[sid] = consumer.inc /\ subscriber[sid] # 0
    BY <1>2 DEF RequestInvariant, RegistryConsistent
  <2> QED BY <1>1, <2>1 DEF RequestInvariant, ClosedNotProcessing, Incarnations
<1>4. /\ AddClosed(sid) /\ consumer' = Idle
      /\ processing' = [processing EXCEPT ![sid] = 0]
      /\ subscriber' = [subscriber EXCEPT ![sid] = 0]
      /\ UNCHANGED <<open, reqCtx, lastFrame, queue, lastStreamId>>
  BY <1>3 DEF CompleteResponse, ConsumerStep
<1>5. /\ processing \in [Sids -> Object] /\ subscriber \in [Sids -> Object]
      /\ sid \in Nat /\ sid # 0
  BY <1>1, IdsAreNumbers DEF TypeOK
<1>6. ~IsRunning' /\ consumer'.pc = "get"
  BY <1>4 DEF IsRunning, Idle
<1>7. ClosedBounded' /\ closed' \subseteq closed \cup {sid} /\ sid \in closed'
  BY <1>1, <1>3, <1>4, AddClosedKeepsBound DEF RequestInvariant
<1>8. RunningRequest' BY <1>6 DEF RunningRequest
<1>9. QueueReached' /\ InOrder'
  BY <1>4 DEF RequestInvariant, QueueReached, InOrder
<1>10. LastRemembered'
  BY <1>1, <1>4, <1>7 DEF LastRemembered
<1>11. OpenRegistered'
  <2>1. sid <= lastStreamId BY <1>1, <1>5
  <2> QED BY <1>4, <1>5, <2>1 DEF RequestInvariant, OpenRegistered
<1>12. ClosedNotProcessing'
  BY <1>4, <1>5, <1>7 DEF RequestInvariant, ClosedNotProcessing, TypeOK
<1>13. RegistryConsistent'
  <2>1. Requests' = {queue[i] : i \in 1..Len(queue)}
    BY <1>4, <1>6 DEF Requests
  <2>2. Requests = Requests' \cup {[sid |-> sid, inc |-> consumer.inc]}
    BY <1>1, <2>1 DEF Requests
  <2>3. ASSUME NEW r \in Requests' PROVE r.sid \in Sids /\ r.sid # sid
    <3>1. PICK i \in 1..Len(queue) : r = queue[i] BY <2>1
    <3>2. queue[i].sid \in Sids BY QueuedRequest
    <3>3. lastStreamId < queue[i].sid BY DEF RequestInvariant, InOrder
    <3> QED BY <1>1, <1>5, <3>1, <3>2, <3>3, IdsAreNumbers
  <2>4. ASSUME NEW r \in Requests'
        PROVE  processing'[r.sid] = r.inc /\ subscriber'[r.sid] # 0 /\ r.sid \in reqCtx'
    BY <1>4, <1>5, <2>2, <2>3 DEF RequestInvariant, RegistryConsistent
  <2>5. ASSUME NEW s \in Sids, processing'[s] # 0 PROVE \E r \in Requests' : r.sid = s
    <3>1. processing[s] # 0 /\ s # sid /\ consumer.pc # "done"
      BY <1>1, <1>4, <1>5, <2>5 DEF IsRunning
    <3>2. PICK r \in Requests : r.sid = s
      BY <3>1 DEF RequestInvariant, RegistryConsistent
    <3> QED BY <2>2, <3>1, <3>2
  <2> QED BY <2>4, <2>5 DEF RegistryConsistent
<1> QED BY <1>7, <1>8, <1>9, <1>10, <1>11, <1>12, <1>13 DEF RequestInvariant

\* What the steps that write a response, end a task or lose the connection share.
QuietStep ==
  /\ UNCHANGED <<subscriber, closed, closedDeque, processing, open, reqCtx,
                 lastFrame, queue, lastStreamId, canceled>>
  /\ \/ consumer' = [Idle EXCEPT !.pc = "done"]
     \/ /\ IsRunning /\ IsRunning'
        /\ consumer'.sid = consumer.sid /\ consumer'.inc = consumer.inc
     \/ UNCHANGED consumer

\* Every other step of the consumer leaves queue and dictionaries alone.
LEMMA QuietSteps ==
  ASSUME TypeOK,
         \/ EndConsumer \/ FailDispatch \/ FailDrain \/ WakeUp
         \/ \E size \in ResponseSizes : Respond(size)
         \/ LoseConnection \/ UNCHANGED vars
  PROVE  QuietStep
<1>1. CASE EndConsumer \/ FailDispatch \/ FailDrain
  BY <1>1 DEF EndConsumer, FailDispatch, FailDrain, ConsumerStep, QuietStep,
              requestVars, closedVars
<1>2. CASE WakeUp \/ \E size \in ResponseSizes : Respond(size)
  <2>1. UNCHANGED <<subscriber, closed, closedDeque, processing, open, reqCtx,
                    lastFrame, queue, lastStreamId, canceled>>
    BY <1>2 DEF WakeUp, Respond, ConsumerStep, requestVars, closedVars
  <2>2. consumer \in ConsumerType BY DEF TypeOK, ConsumerType
  <2>3. ASSUME NEW size, SendData(size) \/ AwaitWindow(size)
        PROVE  /\ consumer'.pc \in {"drain", "window"}
               /\ consumer'.sid = consumer.sid /\ consumer'.inc = consumer.inc
    BY <2>2, <2>3 DEF SendData, AwaitWindow, ConsumerType
  <2>4. /\ consumer.pc \in {"dispatch", "window"}
        /\ \/ consumer' = [consumer EXCEPT !.pc = "drain"]
           \/ \E size : SendData(size) \/ AwaitWindow(size)
    BY <1>2 DEF WakeUp, Respond
  <2>5. /\ consumer'.pc \in {"drain", "window"}
        /\ consumer'.sid = consumer.sid /\ consumer'.inc = consumer.inc
    BY <2>2, <2>3, <2>4 DEF ConsumerType
  <2> QED BY <2>1, <2>4, <2>5 DEF QuietStep, IsRunning
<1>3. CASE LoseConnection \/ UNCHANGED vars
  BY <1>3 DEF LoseConnection, vars, streamVars, requestVars, closedVars, parserVars,
              QuietStep
<1> QED BY <1>1, <1>2, <1>3

(***************************************************************************)
(* The steps of the connection, as the requests see them.                  *)
(***************************************************************************)
LEMMA StepCases ==
  ASSUME TypeOK, TypeOK', RequestInvariant, [Next]_vars
  PROVE  \/ ParserEffect /\ MarkEffect
         \/ QuietStep \/ DropCanceled \/ Dispatch \/ CompleteResponse
<1>1. \/ ParserStep \/ ConsumeStream \/ LoseConnection \/ UNCHANGED vars
  BY DEF Next, Finished
<1> QED BY <1>1, ParserStepEffect, ParserMarks, QuietSteps DEF ConsumeStream

\* RequestInvariant is inductive.
LEMMA InvariantStep ==
  ASSUME TypeOK, RequestInvariant, [Next]_vars
  PROVE  TypeOK' /\ RequestInvariant'
<1>1. TypeOK' BY NextType
<1>2. CASE ParserEffect
  <2>1. lastFrame'.sid \in Nat
    <3>1. lastFrame'.sid \in Sids \cup {0} BY <1>1, LastFrameSid DEF TypeOK
    <3>2. \A n \in Sids \cup {0} : n \in Nat BY IdsAreNumbers
    <3> QED BY <3>1, <3>2
  <2>2. /\ UNCHANGED <<closed, closedDeque, lastStreamId>>
        /\ lastFrame.sid <= lastFrame'.sid /\ StreamsGrow /\ OpenGrows
    BY <1>2 DEF ParserEffect
  <2>3. CASE UNCHANGED <<processing, queue>> /\ ConsumerLives
    BY <1>1, <2>1, <2>2, <2>3, QuietKeepsInvariant
  <2>4. CASE \E sid \in Sids, inc \in Incarnations : NewRequest(sid, inc)
    BY <1>1, <2>2, <2>4, NewRequestKeepsInvariant
  <2> QED BY <1>2, <2>3, <2>4 DEF ParserEffect
<1>3. CASE QuietStep
  <2>1. UNCHANGED <<subscriber, closed, closedDeque, processing, open, reqCtx,
                    lastFrame, queue, lastStreamId>>
    BY <1>3 DEF QuietStep
  <2>2. \/ consumer' = [Idle EXCEPT !.pc = "done"]
        \/ /\ IsRunning /\ IsRunning'
           /\ consumer'.sid = consumer.sid /\ consumer'.inc = consumer.inc
        \/ UNCHANGED consumer
    BY <1>3 DEF QuietStep
  <2> QED BY <1>1, <2>1, <2>2, AnsweringKeepsInvariant
<1> QED BY <1>1, <1>2, <1>3, StepCases, DropKeepsInvariant, DispatchKeepsInvariant,
           CompleteKeepsInvariant

\* A new connection has neither requests nor streams.
LEMMA InvariantInit == ASSUME Init PROVE RequestInvariant
<1>1. ~IsRunning /\ Requests = {} /\ Len(queue) = 0
  BY DEF Init, Idle, IsRunning, Requests
<1>2. ClosedBounded
  <2>1. {closedDeque[i] : i \in 1..Len(closedDeque)} = {} /\ Len(closedDeque) = 0
    BY DEF Init
  <2> QED BY <2>1, FS_EmptySet, LimitsAssumption DEF Init, ClosedBounded
<1>3. RunningRequest /\ InOrder BY <1>1 DEF RunningRequest, InOrder
<1>4. QueueReached /\ LastRemembered
  BY <1>1 DEF Init, QueueReached, LastRemembered, NoFrame
<1>5. OpenRegistered /\ ClosedNotProcessing /\ RegistryConsistent
  BY <1>1 DEF Init, OpenRegistered, ClosedNotProcessing, RegistryConsistent
<1> QED BY <1>2, <1>3, <1>4, <1>5 DEF RequestInvariant

-----------------------------------------------------------------------------
(***************************************************************************)
(* The bookkeeping of streams and requests is consistent and typed in      *)
(* every state of every connection: for all stream ids, frames, window and *)
(* response sizes, limits on streams and sizes of the closed set.          *)
(***************************************************************************)
THEOREM RequestSafety == Spec => [](TypeOK /\ RequestInvariant)
<1>1. Init => TypeOK /\ RequestInvariant
  BY InitType, InvariantInit
<1>2. TypeOK /\ RequestInvariant /\ [Next]_vars => (TypeOK /\ RequestInvariant)'
  BY InvariantStep
<1> QED BY <1>1, <1>2, PTL DEF Spec

\* Every variable of the connection keeps its type.
THEOREM TypeCorrect == Spec => []TypeOK
  BY RequestSafety, PTL

\* Requests wait in the order of their stream ids, after the one dispatched last.
THEOREM RequestsInOrder == Spec => []InOrder
<1>1. TypeOK /\ RequestInvariant => InOrder BY DEF RequestInvariant
<1> QED BY <1>1, RequestSafety, PTL

\* No lookup of a waiting or running request can fail, and none is forgotten.
THEOREM RegistryIsConsistent == Spec => []RegistryConsistent
<1>1. TypeOK /\ RequestInvariant => RegistryConsistent BY DEF RequestInvariant
<1> QED BY <1>1, RequestSafety, PTL

\* The closed ids are bounded and their deque and set never come apart.
THEOREM ClosedIdsBounded == Spec => []ClosedBounded
<1>1. TypeOK /\ RequestInvariant => ClosedBounded BY DEF RequestInvariant
<1> QED BY <1>1, RequestSafety, PTL

-----------------------------------------------------------------------------
(* The refinement of RequestPipeline.                                      *)

\* What the pipeline sees of the queue, the consumer and the last request.
Pending == [i \in 1..Len(queue) |-> queue[i].sid]
Running == IF IsRunning THEN consumer.sid ELSE 0
Serving == consumer.pc # "done"

\* The ids of a sequence of requests.
Ids(q) == [i \in 1..Len(q) |-> q[i].sid]

\* The sequence of ids follows the queue.
LEMMA IdSequence ==
  ASSUME NEW q \in Seq(RefSet)
  PROVE  /\ Ids(q) \in Seq(Sids) /\ Len(Ids(q)) = Len(q) /\ Len(q) \in Nat
         /\ \A i \in 1..Len(q) : Ids(q)[i] = q[i].sid
<1>1. Len(q) \in Nat OBVIOUS
<1>2. ASSUME NEW i \in 1..Len(q) PROVE q[i].sid \in Sids
  <2>1. q[i] \in RefSet BY <1>1
  <2> QED BY <2>1 DEF RefSet
<1>3. Ids(q) \in [1..Len(q) -> Sids] BY <1>2 DEF Ids
<1>4. Ids(q) \in Seq(Sids) /\ Len(Ids(q)) = Len(q) BY <1>1, <1>3
<1> QED BY <1>1, <1>4 DEF Ids

\* A request is queued: its id is appended.
LEMMA IdsAppend ==
  ASSUME NEW q \in Seq(RefSet), NEW r \in RefSet
  PROVE  Ids(Append(q, r)) = Append(Ids(q), r.sid)
<1> DEFINE s == Ids(Append(q, r))
           t == Append(Ids(q), r.sid)
<1>1. /\ Append(q, r) \in Seq(RefSet) /\ Len(Append(q, r)) = Len(q) + 1
      /\ \A i \in 1..Len(q) : Append(q, r)[i] = q[i]
      /\ Append(q, r)[Len(q) + 1] = r
  OBVIOUS
<1>2. /\ Ids(q) \in Seq(Sids) /\ Len(Ids(q)) = Len(q) /\ Len(q) \in Nat
      /\ \A i \in 1..Len(q) : Ids(q)[i] = q[i].sid
  BY IdSequence
<1>3. /\ s \in Seq(Sids) /\ Len(s) = Len(q) + 1
      /\ \A i \in 1..(Len(q) + 1) : s[i] = Append(q, r)[i].sid
  BY <1>1, IdSequence
<1>4. r.sid \in Sids BY DEF RefSet
<1>5. /\ t \in Seq(Sids) /\ Len(t) = Len(q) + 1
      /\ \A i \in 1..Len(q) : t[i] = Ids(q)[i]
      /\ t[Len(q) + 1] = r.sid
  BY <1>2, <1>4
<1>6. ASSUME NEW i \in 1..Len(s) PROVE s[i] = t[i]
  <2>1. i \in 1..(Len(q) + 1) /\ (i \in 1..Len(q) \/ i = Len(q) + 1)
    BY <1>2, <1>3
  <2> HIDE DEF s, t
  <2> QED BY <1>1, <1>2, <1>3, <1>5, <2>1
<1> HIDE DEF s, t
<1>7. s = t BY <1>3, <1>5, <1>6, SeqEqual
<1> QED BY <1>7 DEF s, t

\* A request leaves the queue: its id is the first.
LEMMA IdsTail ==
  ASSUME NEW q \in Seq(RefSet), q # <<>>
  PROVE  Ids(q) # <<>> /\ Head(Ids(q)) = Head(q).sid /\ Ids(Tail(q)) = Tail(Ids(q))
<1> DEFINE s == Ids(Tail(q))
           t == Tail(Ids(q))
<1>1. /\ Tail(q) \in Seq(RefSet) /\ Len(Tail(q)) = Len(q) - 1 /\ Len(q) > 0
      /\ \A i \in 1..Len(Tail(q)) : Tail(q)[i] = q[i + 1] /\ i + 1 \in 1..Len(q)
      /\ Head(q) = q[1] /\ 1 \in 1..Len(q)
  BY HeadTailProperties
<1>2. /\ Ids(q) \in Seq(Sids) /\ Len(Ids(q)) = Len(q) /\ Len(q) \in Nat
      /\ \A i \in 1..Len(q) : Ids(q)[i] = q[i].sid
  BY IdSequence
<1>3. Ids(q) # <<>> /\ Head(Ids(q)) = Head(q).sid BY <1>1, <1>2
<1>4. /\ s \in Seq(Sids) /\ Len(s) = Len(q) - 1
      /\ \A i \in 1..Len(s) : s[i] = Tail(q)[i].sid
  BY <1>1, IdSequence
<1>5. /\ t \in Seq(Sids) /\ Len(t) = Len(q) - 1
      /\ \A i \in 1..Len(t) : t[i] = Ids(q)[i + 1]
  BY <1>2, <1>3, HeadTailProperties
<1>6. ASSUME NEW i \in 1..Len(s) PROVE s[i] = t[i]
  <2> HIDE DEF s, t
  <2>1. i \in 1..Len(Tail(q)) /\ i \in 1..Len(t) BY <1>1, <1>4, <1>5
  <2> QED BY <1>1, <1>2, <1>4, <1>5, <2>1
<1> HIDE DEF s, t
<1>7. s = t BY <1>4, <1>5, <1>6, SeqEqual
<1> QED BY <1>3, <1>7 DEF s, t

\* The pending ids are those of the queue.
LEMMA PendingIds ==
  ASSUME TypeOK
  PROVE  /\ queue \in Seq(RefSet) /\ Pending = Ids(queue)
         /\ Len(Pending) = Len(queue)
         /\ \A i \in 1..Len(queue) : Pending[i] = queue[i].sid
<1>1. queue \in Seq(RefSet) /\ Pending = Ids(queue) BY DEF TypeOK, Pending, Ids
<1> QED BY <1>1, IdSequence

\* The ids of the queue without the first, and with one more behind.
LEMMA OtherIds ==
  ASSUME NEW q \in Seq(RefSet), NEW s
  PROVE  /\ q # <<>> /\ s # Head(q).sid =>
              ((\E i \in 1..Len(q) : q[i].sid = s)
                 <=> (\E i \in 1..Len(Tail(q)) : Tail(q)[i].sid = s))
         /\ \A r \in RefSet : s # r.sid =>
              ((\E i \in 1..Len(q) : q[i].sid = s)
                 <=> (\E i \in 1..Len(Append(q, r)) : Append(q, r)[i].sid = s))
<1>1. ASSUME q # <<>>, s # Head(q).sid
      PROVE  (\E i \in 1..Len(q) : q[i].sid = s)
               <=> (\E i \in 1..Len(Tail(q)) : Tail(q)[i].sid = s)
  <2>1. /\ Len(Tail(q)) = Len(q) - 1 /\ Len(q) \in Nat \ {0} /\ Head(q) = q[1]
        /\ \A i \in 1..Len(Tail(q)) : Tail(q)[i] = q[i + 1] /\ i + 1 \in 1..Len(q)
    BY <1>1, HeadTailProperties
  <2>2. ASSUME NEW i \in 1..Len(q), q[i].sid = s
        PROVE  \E j \in 1..Len(Tail(q)) : Tail(q)[j].sid = s
    <3>1. i # 1 /\ i \in Int BY <1>1, <2>1, <2>2
    <3>2. i - 1 \in 1..Len(Tail(q)) /\ (i - 1) + 1 = i BY <2>1, <3>1
    <3> QED BY <2>1, <2>2, <3>2
  <2> QED BY <2>1, <2>2
<1>2. ASSUME NEW r \in RefSet, s # r.sid
      PROVE  (\E i \in 1..Len(q) : q[i].sid = s)
               <=> (\E i \in 1..Len(Append(q, r)) : Append(q, r)[i].sid = s)
  <2>1. /\ Len(Append(q, r)) = Len(q) + 1 /\ Len(q) \in Nat
        /\ \A i \in 1..Len(q) : Append(q, r)[i] = q[i]
        /\ Append(q, r)[Len(q) + 1] = r
    OBVIOUS
  <2>2. \A i \in 1..(Len(q) + 1) : i \in 1..Len(q) \/ i = Len(q) + 1 BY <2>1
  <2>3. \A i \in 1..Len(q) : i \in 1..(Len(q) + 1) BY <2>1
  <2> QED BY <1>2, <2>1, <2>2, <2>3
<1> QED BY <1>1, <1>2

\* A request that is completed has no mark yet.
LEMMA NewRequestUnmarked ==
  ASSUME TypeOK, TypeOK', RequestInvariant, MarksKnown, MarkEffect,
         NEW sid \in Sids, NEW inc \in Incarnations, NewRequest(sid, inc)
  PROVE  UNCHANGED canceled /\ sid \notin canceled
<1>1. processing[sid] = 0 /\ processing'[sid] = inc /\ inc # 0
  BY DEF NewRequest, TypeOK, Incarnations
<1>2. UNCHANGED canceled BY <1>1 DEF MarkEffect
<1>3. lastStreamId < sid /\ lastStreamId \in Nat /\ sid \in Nat
  BY NewRequestIsLast, IdsAreNumbers
<1>4. ~(sid <= lastStreamId) BY <1>3
<1> QED BY <1>1, <1>2, <1>4 DEF MarksKnown

\* MarksKnown is inductive: a request loses its registration only with its mark
\* or once it was dispatched.
LEMMA MarksStep ==
  ASSUME TypeOK, TypeOK', RequestInvariant, MarksKnown, [Next]_vars
  PROVE  MarksKnown'
<1>1. CASE ParserEffect /\ MarkEffect
  <2>1. UNCHANGED lastStreamId BY <1>1 DEF ParserEffect
  <2>2. CASE UNCHANGED <<processing, queue>>
    BY <1>1, <2>1, <2>2 DEF MarkEffect, MarksKnown
  <2>3. CASE \E sid \in Sids, inc \in Incarnations : NewRequest(sid, inc)
    <3>1. PICK sid \in Sids, inc \in Incarnations : NewRequest(sid, inc) BY <2>3
    <3>2. UNCHANGED canceled BY <1>1, <3>1, NewRequestUnmarked
    <3>3. \A s \in Sids : processing[s] # 0 => processing'[s] # 0
      BY <3>1 DEF NewRequest, TypeOK, Incarnations
    <3>4. canceled \subseteq Sids BY DEF TypeOK
    <3> QED BY <2>1, <3>2, <3>3, <3>4 DEF MarksKnown
  <2> QED BY <1>1, <2>2, <2>3 DEF ParserEffect
<1>2. CASE QuietStep BY <1>2 DEF QuietStep, MarksKnown
<1>3. CASE DropCanceled
  <2>1. canceled' = canceled \ {Head(queue).sid} /\ UNCHANGED lastStreamId
        /\ processing' = [processing EXCEPT ![Head(queue).sid] = 0]
    BY <1>3 DEF DropCanceled
  <2> QED BY <2>1 DEF MarksKnown, TypeOK
<1>4. CASE Dispatch
  <2>1. queue # <<>> /\ lastStreamId' = Head(queue).sid /\ UNCHANGED <<processing, canceled>>
    BY <1>4 DEF Dispatch
  <2>2. lastStreamId < Head(queue).sid
    BY <2>1, HeadTailProperties DEF TypeOK, RequestInvariant, InOrder
  <2>3. /\ lastStreamId \in Nat /\ Sids \subseteq Nat /\ canceled \subseteq Sids
        /\ lastStreamId' \in Nat
    <3>1. lastStreamId' \in Sids \cup {0} BY DEF TypeOK
    <3>2. lastStreamId \in Nat /\ Sids \subseteq Nat /\ canceled \subseteq Sids
      BY IdsAreNumbers DEF TypeOK
    <3> QED BY <3>1, <3>2
  <2>4. ASSUME NEW sid \in canceled, sid <= lastStreamId PROVE sid <= lastStreamId'
    <3>1. lastStreamId < lastStreamId' BY <2>1, <2>2
    <3>2. sid \in Nat BY <2>3
    <3> QED BY <2>3, <2>4, <3>1, <3>2
  <2> QED BY <2>1, <2>4 DEF MarksKnown
<1>5. CASE CompleteResponse
  <2>1. consumer.sid = lastStreamId /\ lastStreamId \in Nat /\ UNCHANGED <<canceled, lastStreamId>>
    BY <1>5, IdsAreNumbers DEF CompleteResponse, RequestInvariant, RunningRequest, IsRunning
  <2>2. \A s \in Sids : processing'[s] = processing[s] \/ s = lastStreamId
    BY <1>5, <2>1 DEF CompleteResponse, TypeOK
  <2>3. lastStreamId <= lastStreamId BY <2>1
  <2>4. canceled \subseteq Sids BY DEF TypeOK
  <2> QED BY <2>1, <2>2, <2>3, <2>4 DEF MarksKnown
<1> QED BY <1>1, <1>2, <1>3, <1>4, <1>5, StepCases

(***************************************************************************)
(* A mark of a canceled stream never waits for a request still to come.    *)
(***************************************************************************)
THEOREM MarksAreKnown == Spec => []MarksKnown
<1>1. Init => MarksKnown BY DEF Init, MarksKnown
<1>2. /\ TypeOK /\ RequestInvariant /\ (TypeOK /\ RequestInvariant)'
      /\ MarksKnown /\ [Next]_vars
      => MarksKnown'
  BY MarksStep
<1> QED BY <1>1, <1>2, RequestSafety, PTL DEF Spec

\* A request gets a mark, is marked already, or the mark is of none on the queue.
LEMMA MarkRefines ==
  ASSUME TypeOK, MarkEffect, UNCHANGED <<queue, consumer, lastStreamId>>
  PROVE  [Pipeline!Next]_(Pipeline!vars)
<1>1. UNCHANGED <<Pending, Running, Serving>>
  BY DEF Pending, Running, Serving, IsRunning
<1>2. CASE Marked' = Marked
  BY <1>1, <1>2 DEF Pipeline!vars, Pending, Running, Serving
<1>3. CASE Marked' # Marked
  <2>1. PICK sid \in Sids : canceled' = canceled \cup {sid}
    <3>1. canceled' # canceled BY <1>3 DEF Marked
    <3> QED BY <3>1 DEF MarkEffect
  <2>2. Marked' = Marked \cup {sid} /\ sid \in Marked'
    <3>1. \A s : s \in Marked' <=> s \in Marked \/ (s = sid /\ sid \in Marked')
      BY <2>1 DEF Marked
    <3>2. sid \in Marked' BY <1>3, <3>1
    <3> QED BY <3>1, <3>2
  <2>3. consumer.pc # "done" /\ \E i \in 1..Len(queue) : queue[i].sid = sid
    BY <2>2 DEF Marked
  <2>4. \E i \in 1..Len(Pending) : sid = Pending[i] BY <2>3, PendingIds
  <2>5. Pipeline!Refuse(sid)
    BY <1>1, <2>2, <2>3, <2>4 DEF Pipeline!Refuse, Pending, Running, Serving
  <2> QED BY <2>5 DEF Pipeline!Next
<1> QED BY <1>2, <1>3

\* A consumer that ends, whatever was marked with it.
LEMMA EndRefines ==
  ASSUME UNCHANGED <<queue, lastStreamId>>, consumer' = [Idle EXCEPT !.pc = "done"]
  PROVE  [Pipeline!Next]_(Pipeline!vars)
<1>1. consumer'.pc = "done" /\ ~IsRunning' /\ Marked' = {}
  BY DEF Idle, IsRunning, Marked
<1>2. CASE consumer.pc = "done"
  <2>1. ~IsRunning /\ Marked = {} BY <1>2 DEF IsRunning, Marked
  <2> QED BY <1>1, <1>2, <2>1 DEF Pipeline!vars
<1>3. CASE consumer.pc # "done"
  <2>1. Pipeline!End BY <1>1, <1>3 DEF Pipeline!End
  <2> QED BY <2>1 DEF Pipeline!Next
<1> QED BY <1>2, <1>3

\* A step of the parser accepts or refuses a request, ends the consumer or stutters.
LEMMA ParserRefines ==
  ASSUME TypeOK, TypeOK', RequestInvariant, MarksKnown, ParserEffect, MarkEffect
  PROVE  [Pipeline!Next]_(Pipeline!vars)
<1>1. UNCHANGED lastStreamId BY DEF ParserEffect
<1>2. CASE UNCHANGED <<processing, queue>> /\ ConsumerLives
  BY <1>1, <1>2, MarkRefines, EndRefines DEF ConsumerLives
<1>3. CASE \E sid \in Sids, inc \in Incarnations : NewRequest(sid, inc)
  <2>1. PICK sid \in Sids, inc \in Incarnations : NewRequest(sid, inc) BY <1>3
  <2>2. lastStreamId < sid /\ \A i \in 1..Len(queue) : queue[i].sid < sid
    BY <2>1, NewRequestIsLast
  <2>3. /\ Pending' = Append(Pending, sid) /\ UNCHANGED consumer
        /\ Len(Pending) = Len(queue)
        /\ \A i \in 1..Len(queue) : Pending[i] = queue[i].sid
    <3>1. [sid |-> sid, inc |-> inc] \in RefSet BY DEF RefSet
    <3>2. Pending' = Ids(queue') BY DEF Pending, Ids
    <3> QED BY <2>1, <3>1, <3>2, PendingIds, IdsAppend DEF NewRequest
  <2>4. /\ sid \in Nat /\ lastStreamId \in Nat
        /\ \A i \in 1..Len(queue) : queue[i].sid \in Nat
    BY QueuedRequest, IdsAreNumbers
  <2>5. Marked' = Marked
    <3>1. UNCHANGED <<canceled, consumer>> /\ sid \notin canceled
      BY <2>1, <2>3, NewRequestUnmarked
    <3>2. \A s \in canceled : (\E i \in 1..Len(queue) : queue[i].sid = s)
                               <=> (\E i \in 1..Len(queue') : queue'[i].sid = s)
      <4>1. [sid |-> sid, inc |-> inc] \in RefSet BY DEF RefSet
      <4> QED BY <2>1, <3>1, <4>1, OtherIds DEF NewRequest, TypeOK
    <3> QED BY <3>1, <3>2 DEF Marked
  <2>6. Pipeline!Accept(sid)
    <3>1. sid > lastStreamId BY <2>2, <2>4
    <3>2. \A i \in 1..Len(Pending) : sid > Pending[i] BY <2>2, <2>3, <2>4
    <3>3. UNCHANGED <<Running, lastStreamId, Serving>>
      BY <1>1, <2>3 DEF Running, Serving, IsRunning
    <3> QED BY <2>3, <2>5, <3>1, <3>2, <3>3 DEF Pipeline!Accept, Pending, Running, Serving
  <2> QED BY <2>6 DEF Pipeline!Next
<1> QED BY <1>2, <1>3 DEF ParserEffect

\* The steps of the consumer drop, take or answer a request, or end it.
LEMMA ConsumerRefines ==
  ASSUME TypeOK, TypeOK', RequestInvariant,
         QuietStep \/ DropCanceled \/ Dispatch \/ CompleteResponse
  PROVE  [Pipeline!Next]_(Pipeline!vars)
<1>1. CASE QuietStep
  <2>1. UNCHANGED <<queue, lastStreamId, canceled>> BY <1>1 DEF QuietStep
  <2>2. CASE UNCHANGED consumer
    BY <2>1, <2>2 DEF Pipeline!vars, IsRunning, Marked
  <2>3. CASE IsRunning /\ IsRunning' /\ consumer'.sid = consumer.sid
    <3>1. consumer.pc # "done" /\ consumer'.pc # "done" BY <2>3 DEF IsRunning
    <3> QED BY <2>1, <2>3, <3>1 DEF Pipeline!vars, Marked
  <2>4. CASE consumer' = [Idle EXCEPT !.pc = "done"]
    BY <2>1, <2>4, EndRefines
  <2> QED BY <1>1, <2>2, <2>3, <2>4 DEF QuietStep
<1>2. CASE DropCanceled
  <2>1. /\ queue # <<>> /\ queue' = Tail(queue) /\ consumer.pc = "get"
        /\ UNCHANGED <<consumer, lastStreamId>>
    BY <1>2 DEF DropCanceled
  <2>2. ~IsRunning /\ ~IsRunning' BY <2>1 DEF IsRunning
  <2>3. Pending # <<>> /\ Pending' = Tail(Pending)
    <3>1. Pending' = Ids(queue') BY DEF Pending, Ids
    <3> QED BY <2>1, <3>1, PendingIds, IdsTail
  <2>4. Head(queue).sid \in canceled /\ canceled' = canceled \ {Head(queue).sid}
    BY <1>2 DEF DropCanceled
  <2>5. Head(Pending) = Head(queue).sid BY <2>1, PendingIds, IdsTail
  <2>6. Head(queue).sid \in Marked
    <3>1. 1 \in 1..Len(queue) /\ Head(queue) = queue[1]
      BY <2>1, HeadTailProperties DEF TypeOK
    <3> QED BY <2>1, <2>4, <3>1 DEF Marked
  <2>7. Marked' = Marked \ {Head(queue).sid}
    <3>1. ASSUME NEW s, s # Head(queue).sid
          PROVE  (\E i \in 1..Len(queue) : queue[i].sid = s)
                   <=> (\E i \in 1..Len(queue') : queue'[i].sid = s)
      <4>1. queue \in Seq(RefSet) BY DEF TypeOK
      <4>2. (\E i \in 1..Len(queue) : queue[i].sid = s)
              <=> (\E i \in 1..Len(Tail(queue)) : Tail(queue)[i].sid = s)
        BY <2>1, <3>1, <4>1, OtherIds
      <4> QED BY <2>1, <4>2
    <3> QED BY <2>1, <2>4, <3>1 DEF Marked
  <2>8. Pipeline!Drop
    BY <2>1, <2>2, <2>3, <2>5, <2>6, <2>7 DEF Pipeline!Drop, Pending
  <2> QED BY <2>8 DEF Pipeline!Next
<1>3. CASE Dispatch
  <2>1. /\ queue # <<>> /\ queue' = Tail(queue) /\ consumer.pc = "get"
        /\ lastStreamId' = Head(queue).sid
    BY <1>3 DEF Dispatch
  <2>2. Head(queue) \in Requests
    BY <2>1, TakenRequest
  <2>3. Head(queue).sid \in reqCtx
    BY <2>2 DEF RequestInvariant, RegistryConsistent
  <2>4. consumer'.pc = "dispatch" /\ consumer'.sid = Head(queue).sid
    BY <1>3, <2>3 DEF Dispatch
  <2>5. ~IsRunning /\ IsRunning' BY <2>1, <2>4 DEF IsRunning
  <2>6. Pending # <<>> /\ Head(Pending) = Head(queue).sid /\ Pending' = Tail(Pending)
    <3>1. Pending' = Ids(queue') BY DEF Pending, Ids
    <3> QED BY <2>1, <3>1, PendingIds, IdsTail
  <2>7. Head(queue).sid \notin Marked /\ Marked' = Marked
    <3>1. Head(queue).sid \notin canceled /\ UNCHANGED canceled BY <1>3 DEF Dispatch
    <3>2. ASSUME NEW s, s # Head(queue).sid
          PROVE  (\E i \in 1..Len(queue) : queue[i].sid = s)
                   <=> (\E i \in 1..Len(queue') : queue'[i].sid = s)
      <4>1. queue \in Seq(RefSet) BY DEF TypeOK
      <4>2. (\E i \in 1..Len(queue) : queue[i].sid = s)
              <=> (\E i \in 1..Len(Tail(queue)) : Tail(queue)[i].sid = s)
        BY <2>1, <3>2, <4>1, OtherIds
      <4> QED BY <2>1, <4>2
    <3> QED BY <2>1, <2>4, <3>1, <3>2 DEF Marked
  <2>8. Pipeline!Take
    BY <2>1, <2>4, <2>5, <2>6, <2>7 DEF Pipeline!Take, Pending
  <2> QED BY <2>8 DEF Pipeline!Next
<1>4. CASE CompleteResponse
  <2>1. IsRunning /\ consumer.sid \in Sids /\ consumer.pc # "done"
    BY <1>4 DEF CompleteResponse, RequestInvariant, RunningRequest, IsRunning
  <2>2. [sid |-> consumer.sid, inc |-> consumer.inc] \in Requests
    BY <2>1 DEF Requests
  <2>3. subscriber[consumer.sid] # 0
    BY <2>2 DEF RequestInvariant, RegistryConsistent
  <2>4. consumer' = Idle /\ UNCHANGED <<queue, lastStreamId>>
    BY <1>4, <2>3 DEF CompleteResponse
  <2>5. ~IsRunning' /\ consumer'.pc # "done" BY <2>4 DEF Idle, IsRunning
  <2>6. consumer.sid # 0 BY <2>1, IdsAreNumbers
  <2>7. Marked' = Marked
    BY <1>4, <2>1, <2>4, <2>5 DEF CompleteResponse, Marked
  <2>8. Pipeline!Answer
    BY <2>1, <2>4, <2>5, <2>6, <2>7 DEF Pipeline!Answer
  <2> QED BY <2>8 DEF Pipeline!Next
<1> QED BY <1>1, <1>2, <1>3, <1>4

(***************************************************************************)
(* Completed requests reach the endpoint at most once, one at a time and   *)
(* in the order of the stream ids, for every peer and every failure; only  *)
(* those marked while they wait are dropped.                               *)
(***************************************************************************)
THEOREM Refinement == Spec => ImplementsPipeline
<1>1. Init => Pipeline!Init
  <2> SUFFICES ASSUME Init PROVE Pipeline!Init OBVIOUS
  <2>1. ~IsRunning /\ consumer.pc # "done" /\ queue = <<>> /\ lastStreamId = 0
    BY DEF Init, Idle, IsRunning
  <2>2. [i \in 1..Len(queue) |-> queue[i].sid] = <<>>
    BY <2>1
  <2>3. Marked = {} BY DEF Init, Marked
  <2> QED BY <2>1, <2>2, <2>3 DEF Pipeline!Init
<1>2. /\ TypeOK /\ RequestInvariant /\ (TypeOK /\ RequestInvariant)'
      /\ MarksKnown /\ [Next]_vars
      => [Pipeline!Next]_(Pipeline!vars)
  BY StepCases, ParserRefines, ConsumerRefines
<1> QED BY <1>1, <1>2, RequestSafety, MarksAreKnown, PTL
        DEF Spec, ImplementsPipeline, Pipeline!Spec
=============================================================================
