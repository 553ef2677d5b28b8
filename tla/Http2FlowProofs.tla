-------------------------- MODULE Http2FlowProofs --------------------------
(***************************************************************************)
(* SendsWithinWindow and NoLostWakeup: the flow control of responses.      *)
(* The proof follows the queues of the subscribers: a step of the parser   *)
(* tells every subscriber, or changes no window of a registered request,   *)
(* or is the loop over the windows that raised half way.                   *)
(***************************************************************************)
EXTENDS Http2RequestProofs

-----------------------------------------------------------------------------
(* How a pass through the parser loop ends, seen from the queues.          *)

\* The queues are boxes, or the loop is over and TERM was added to them; and
\* nothing but the parser's own answer was written.
Answered(boxes, subs) ==
  /\ inbox' = boxes \/ (parser' = "done" /\ inbox' = Publish(boxes, subs, "term"))
  /\ wire' = <<>> \/ \E frame : wire' = <<frame>> /\ frame.type # "RESPONSE_DATA"

\* What the parser answers with is no part of a response.
LEMMA AnswerTypes ==
  /\ \A last, code : GoAway(last, code).type # "RESPONSE_DATA"
  /\ SettingsAck.type # "RESPONSE_DATA" /\ PingAck.type # "RESPONSE_DATA"
  /\ \A sid : ResetStream(sid).type # "RESPONSE_DATA"
  BY DEF GoAway, SettingsAck, PingAck, ResetStream

\* The ways a pass ends.
LEMMA EndsAnswered ==
  ASSUME NEW boxes, NEW subs, NEW frame, frame.type # "RESPONSE_DATA",
         \/ Reply(frame, boxes, subs) \/ ReplyToException(frame, boxes)
         \/ BreakLoop(boxes, subs) \/ (Proceed(boxes) /\ wire' = <<>>)
  PROVE  Answered(boxes, subs)
  BY DEF Reply, ReplyToException, BreakLoop, Proceed, Stop, Answered

\* A frame was refused.
LEMMA RefuseAnswered ==
  ASSUME NEW f, NEW code, NEW boxes, NEW subs, Refuse(f, code, boxes, subs)
  PROVE  Answered(boxes, subs)
  BY AnswerTypes, EndsAnswered DEF Refuse

\* The exception of an overflowing window was answered.
LEMMA ResetAnswered ==
  ASSUME NEW boxes, NEW subs, ResetFirstStream(boxes)
  PROVE  Answered(boxes, subs)
<1>1. ReplyToException(ResetStream(1), boxes) BY DEF ResetFirstStream
<1>2. ResetStream(1).type # "RESPONSE_DATA" BY AnswerTypes
<1> QED BY <1>1, <1>2, EndsAnswered

\* Tokens are added to the queues of the subscribers and to no other.
LEMMA PublishAdds ==
  ASSUME NEW boxes, NEW subs, NEW token, NEW sid \in Sids, NEW inc \in Incarnations
  PROVE  /\ boxes[sid][inc] \subseteq Publish(boxes, subs, token)[sid][inc]
         /\ Publish(boxes, subs, token)[sid][inc] \subseteq boxes[sid][inc] \cup {token}
         /\ subs[sid] = inc => token \in Publish(boxes, subs, token)[sid][inc]
  BY DEF Publish

\* The queues at the end of a pass hold at least what was in boxes.
LEMMA AnsweredAdds ==
  ASSUME NEW boxes, NEW subs, Answered(boxes, subs),
         NEW sid \in Sids, NEW inc \in Incarnations
  PROVE  /\ boxes[sid][inc] \subseteq inbox'[sid][inc]
         /\ parser' # "done" => inbox'[sid][inc] = boxes[sid][inc]
  BY PublishAdds DEF Answered

-----------------------------------------------------------------------------
(* A step of the parser, seen from the registered requests.                *)

\* Every subscriber has a token to wake up for.
SubscribersTold ==
  \A sid \in Sids : \A inc \in Incarnations :
    subscriber'[sid] = inc => inbox'[sid][inc] # {}

\* No registered request lost a token, its window, or its subscription anew.
RequestsKept(boxes) ==
  \A sid \in Sids : processing[sid] # 0 =>
    /\ heap'[sid][processing[sid]].window = heap[sid][processing[sid]].window
    /\ inbox[sid][processing[sid]] \subseteq boxes[sid][processing[sid]]
    /\ subscriber'[sid] = processing[sid] => subscriber[sid] = processing[sid]

\* update_window_size raised at a registered request, after it had changed
\* the windows of those before it.
StoppedHalfway ==
  /\ UNCHANGED <<inbox, subscriber, processing>>
  /\ \E w \in Nat : Overflowing(w) # {} /\ heap' = ApplyWindow(w)

\* TERM comes with the end of the loop only.
NoTermYet(boxes) ==
  \A sid \in Sids : \A inc \in Incarnations :
    boxes[sid][inc] \subseteq inbox[sid][inc] \cup {"wake"}

FlowEffect ==
  /\ wire' = <<>> \/ \E frame : wire' = <<frame>> /\ frame.type # "RESPONSE_DATA"
  /\ parser' # "done" => NoTermYet(inbox')
  /\ SubscribersTold \/ RequestsKept(inbox') \/ StoppedHalfway

\* A pass that kept the windows of the requests.
LEMMA KeptEffect ==
  ASSUME TypeOK, NEW boxes, NEW subs, Answered(boxes, subs), NoTermYet(boxes),
         RequestsKept(boxes)
  PROVE  FlowEffect
<1>1. parser' # "done" => NoTermYet(inbox')
  BY AnsweredAdds DEF NoTermYet
<1>2. RequestsKept(inbox')
  BY AnsweredAdds, RegisteredObject DEF RequestsKept
<1> QED BY <1>1, <1>2 DEF FlowEffect, Answered

\* A pass that told all subscribers.
LEMMA ToldEffect ==
  ASSUME NEW boxes, boxes = Publish(inbox, subscriber', "wake"),
         NEW subs, Answered(boxes, subs)
  PROVE  FlowEffect
<1>1. parser' # "done" => NoTermYet(inbox')
  BY AnsweredAdds, PublishAdds DEF NoTermYet
<1>2. SubscribersTold
  <2>1. ASSUME NEW sid \in Sids, NEW inc \in Incarnations, subscriber'[sid] = inc
        PROVE  "wake" \in inbox'[sid][inc]
    BY <2>1, AnsweredAdds, PublishAdds
  <2> QED BY <2>1 DEF SubscribersTold
<1> QED BY <1>1, <1>2 DEF FlowEffect, Answered

\* A pass that ended the loop.
LEMMA BreakEffect ==
  ASSUME BreakLoop(inbox, subscriber), UNCHANGED subscriber
  PROVE  FlowEffect
<1>1. parser' = "done" /\ inbox' = Publish(inbox, subscriber, "term") /\ wire' = <<>>
  BY DEF BreakLoop, Stop
<1>2. SubscribersTold
  <2>1. ASSUME NEW sid \in Sids, NEW inc \in Incarnations, subscriber'[sid] = inc
        PROVE  "term" \in inbox'[sid][inc]
    BY <1>1, <2>1, PublishAdds
  <2> QED BY <2>1 DEF SubscribersTold
<1> QED BY <1>1, <1>2 DEF FlowEffect

\* The queues as they were.
LEMMA SameBoxes ==
  /\ NoTermYet(inbox)
  /\ UNCHANGED <<heap, subscriber>> => RequestsKept(inbox)
  BY DEF NoTermYet, RequestsKept

\* A pass that touched neither objects nor subscribers.
LEMMA QuietFlow ==
  ASSUME TypeOK, UNCHANGED <<heap, subscriber>>, NEW subs, Answered(inbox, subs)
  PROVE  FlowEffect
  BY SameBoxes, KeptEffect

\* find_stream with a value for an object that no registered request has.
LEMMA FoundKept ==
  ASSUME TypeOK, NEW f, f.sid \in Sids, Found(f) # 0, NEW s, FindStream(f, s),
         processing[f.sid] = 0 \/ s = FoundStream(f)
  PROVE  NoTermYet(InboxAfterFind(f)) /\ RequestsKept(InboxAfterFind(f))
<1> DEFINE boxes == InboxAfterFind(f)
<1>1. Found(f) \in Incarnations BY FoundType
<1>2. /\ ~Creates(f) => boxes = inbox
      /\ Creates(f) => boxes = [inbox EXCEPT ![f.sid][Found(f)] = {}]
  BY DEF InboxAfterFind
<1>3. /\ ~Creates(f) => subscriber' = subscriber
      /\ Creates(f) => subscriber' = [subscriber EXCEPT ![f.sid] = Found(f)]
  BY DEF FindStream
<1>4. ~Creates(f) => FoundStream(f) = heap[f.sid][Found(f)] BY DEF FoundStream
<1> HIDE DEF boxes
<1>5. ASSUME NEW sid \in Sids, NEW inc \in Incarnations
      PROVE  /\ boxes[sid][inc] \subseteq inbox[sid][inc]
             /\ boxes[sid][inc] = inbox[sid][inc] \/ (Creates(f) /\ sid = f.sid /\ inc = Found(f))
  BY <1>1, <1>2 DEF TypeOK
<1>6. NoTermYet(boxes) BY <1>5 DEF NoTermYet
<1>7. ASSUME NEW sid \in Sids, processing[sid] # 0
      PROVE  /\ heap'[sid][processing[sid]] = heap[sid][processing[sid]]
             /\ inbox[sid][processing[sid]] \subseteq boxes[sid][processing[sid]]
             /\ subscriber'[sid] = processing[sid] => subscriber[sid] = processing[sid]
  <2>1. processing[sid] \in Incarnations BY <1>7, RegisteredObject
  <2>2. Creates(f) => Found(f) # processing[f.sid] BY FindStreamCell
  <2>3. heap'[sid][processing[sid]] = heap[sid][processing[sid]]
    BY <1>4, <1>7, <2>1, <2>2, FindStreamCell
  <2>4. inbox[sid][processing[sid]] \subseteq boxes[sid][processing[sid]]
    BY <1>5, <2>1, <2>2
  <2>5. subscriber'[sid] = processing[sid] => subscriber[sid] = processing[sid]
    BY <1>3, <2>2 DEF TypeOK
  <2> QED BY <2>3, <2>4, <2>5
<1>8. RequestsKept(boxes) BY <1>7 DEF RequestsKept
<1> QED BY <1>6, <1>8 DEF boxes

-----------------------------------------------------------------------------
(* The handlers.                                                           *)

\* process() gave r for a stream without a registered request.
LEMMA FinishFlow ==
  ASSUME TypeOK, NEW f, f.sid \in Sids, Found(f) # 0, ~HasBeenClosed(f.sid),
         NEW r, Finish(f, r)
  PROVE  FlowEffect
<1>1. processing[f.sid] = 0 BY DEF HasBeenClosed, IsInProcessing
<1>2. NoTermYet(InboxAfterFind(f)) /\ RequestsKept(InboxAfterFind(f))
  BY <1>1, FoundKept DEF Finish
<1>3. Answered(InboxAfterFind(f), subscriber')
  <2>1. GoAway(lastStreamId, "COMPRESSION_ERROR").type # "RESPONSE_DATA"
        /\ GoAway(lastStreamId, "PROTOCOL_ERROR").type # "RESPONSE_DATA"
    BY AnswerTypes
  <2>2. CASE KeepStream(f, r) \/ QueueRequest(f, r)
    BY <2>1, <2>2, EndsAnswered DEF KeepStream, QueueRequest
  <2>3. CASE RefuseBlock(f, r) BY <2>1, <2>3, EndsAnswered DEF RefuseBlock
  <2>4. CASE RefuseRequest(f, r) BY <2>1, <2>4, EndsAnswered DEF RefuseRequest
  <2>5. CASE CrashOnBody(f, r) BY <2>1, <2>5, EndsAnswered DEF CrashOnBody
  <2> QED BY <2>2, <2>3, <2>4, <2>5 DEF Finish
<1> QED BY <1>2, <1>3, KeptEffect

\* A frame that is refused after its stream was looked up.
LEMMA LookupFlow ==
  ASSUME TypeOK, NEW f, f.sid \in Sids, Found(f) # 0, FindStream(f, FoundStream(f)),
         NEW code, Refuse(f, code, InboxAfterFind(f), subscriber')
  PROVE  FlowEffect
<1>1. NoTermYet(InboxAfterFind(f)) /\ RequestsKept(InboxAfterFind(f))
  BY FoundKept
<1> QED BY <1>1, RefuseAnswered, KeptEffect

\* HEADERS, CONTINUATION and DATA.
LEMMA BuildFlow ==
  ASSUME TypeOK, NEW f \in Frame,
         HandleHeaders(f) \/ HandleContinuation(f) \/ HandleData(f)
  PROVE  FlowEffect
<1>1. f.sid \in Sids /\ f.type \in {"HEADERS", "CONTINUATION", "DATA"}
  BY FrameSid DEF HandleHeaders, HandleContinuation, HandleData, Violates
<1>2. Found(f) # 0 BY <1>1, FoundType
<1>3. ASSUME UNCHANGED <<heap, subscriber>>,
             NEW code, Refuse(f, code, inbox, subscriber)
      PROVE  FlowEffect
  BY <1>3, RefuseAnswered, QuietFlow
<1>4. ASSUME ~HasBeenClosed(f.sid), NEW r, Finish(f, r)
      PROVE  FlowEffect
  BY <1>1, <1>2, <1>4, FinishFlow
<1>5. CASE HandleHeaders(f)
  <2>1. HeadersEarlyVerdict(f) = "ok" => ~HasBeenClosed(f.sid)
    BY DEF HeadersEarlyVerdict
  <2> QED BY <1>1, <1>2, <1>3, <1>4, <1>5, <2>1, LookupFlow DEF HandleHeaders
<1>6. CASE HandleContinuation(f)
  <2>1. ContinuationVerdict(f) = "ok" => ~HasBeenClosed(f.sid)
    BY DEF ContinuationVerdict
  <2>2. CASE BreakLoop(inbox, subscriber) /\ UNCHANGED subscriber
    BY <2>2, BreakEffect
  <2> QED BY <1>3, <1>4, <1>6, <2>1, <2>2 DEF HandleContinuation, streamVars
<1>7. CASE HandleData(f)
  <2>1. DataVerdict(f) = "ok" => ~HasBeenClosed(f.sid) BY DEF DataVerdict
  <2> QED BY <1>1, <1>2, <1>4, <1>7, <2>1, LookupFlow DEF HandleData
<1> QED BY <1>5, <1>6, <1>7

\* The frames that end or refuse streams, and PRIORITY and PING.
LEMMA RefusalFlow ==
  ASSUME TypeOK, NEW f \in Frame,
         \/ RefuseEvenStream(f) \/ RefuseStream(f) \/ RefuseOldStream(f)
         \/ HandlePriority(f) \/ HandlePing(f) \/ HandleEndingFrame(f)
  PROVE  FlowEffect
<1>1. UNCHANGED <<heap, subscriber>>
  BY DEF RefuseEvenStream, RefuseStream, RefuseOldStream, HandlePriority, HandlePing,
         HandleEndingFrame, streamVars
<1>2. CASE RefuseStream(f) \/ HandleEndingFrame(f)
  BY <1>1, <1>2, BreakEffect DEF RefuseStream, HandleEndingFrame
<1>3. CASE \/ RefuseEvenStream(f) \/ RefuseOldStream(f)
           \/ HandlePriority(f) \/ HandlePing(f)
  <2>1. GoAway(lastStreamId, "PROTOCOL_ERROR").type # "RESPONSE_DATA"
        /\ PingAck.type # "RESPONSE_DATA"
    BY AnswerTypes
  <2>2. Answered(inbox, subscriber)
    BY <1>3, <2>1, EndsAnswered
       DEF RefuseEvenStream, RefuseOldStream, HandlePriority, HandlePing
  <2> QED BY <1>1, <2>2, QuietFlow
<1> QED BY <1>2, <1>3

\* RST_STREAM: close_state leaves the window alone.
LEMMA ResetFlow ==
  ASSUME TypeOK, NEW f \in Frame, HandleRstStream(f)
  PROVE  FlowEffect
<1>1. f.sid \in Sids /\ UNCHANGED subscriber
  BY FrameSid DEF HandleRstStream, Violates
<1>2. CASE Found(f) = 0
  BY <1>1, <1>2, RefuseAnswered, QuietFlow DEF HandleRstStream
<1>3. CASE Found(f) # 0
  <2>1. Found(f) \in Incarnations BY <1>1, <1>3, FoundType
  <2>2. heap' = [heap EXCEPT ![f.sid][Found(f)] = CloseState(heap[f.sid][Found(f)])]
    BY <1>3 DEF HandleRstStream
  <2>3. CloseState(heap[f.sid][Found(f)]).window = heap[f.sid][Found(f)].window
    BY <1>1, <2>1, HeapType DEF CloseState, Stream
  <2>4. ASSUME NEW sid \in Sids, processing[sid] # 0
        PROVE  heap'[sid][processing[sid]].window = heap[sid][processing[sid]].window
    <3>1. processing[sid] \in Incarnations BY <2>4, RegisteredObject
    <3> QED BY <1>1, <2>1, <2>2, <2>3, <3>1 DEF TypeOK
  <2>5. RequestsKept(inbox) BY <1>1, <2>4 DEF RequestsKept
  <2>6. GoAway(lastStreamId, "STREAM_CLOSED").type # "RESPONSE_DATA" BY AnswerTypes
  <2>7. Answered(inbox, subscriber)
    BY <1>3, <2>6, EndsAnswered DEF HandleRstStream
  <2> QED BY <2>5, <2>7, SameBoxes, KeptEffect
<1> QED BY <1>2, <1>3

\* EXTENSION: the stream of the last frame is looked up like any other.
LEMMA ExtensionFlow ==
  ASSUME TypeOK, NEW f \in Frame, HandleExtension(f)
  PROVE  FlowEffect
<1>1. CASE Refuse(f, "PROTOCOL_ERROR", inbox, subscriber)
           /\ UNCHANGED <<heap, subscriber, reqCtx>>
  BY <1>1, RefuseAnswered, QuietFlow
<1>2. CASE /\ lastFrame # NoFrame /\ FindStream(lastFrame, LastStream)
           /\ Proceed(InboxAfterFind(lastFrame)) /\ wire' = <<>>
  <2>1. lastFrame.sid \in Sids /\ lastFrame.type \in {"HEADERS", "CONTINUATION", "DATA"}
    BY <1>2 DEF TypeOK, LastFrame
  <2>2. Found(lastFrame) # 0 BY <2>1, FoundType
  <2>3. NoTermYet(InboxAfterFind(lastFrame)) /\ RequestsKept(InboxAfterFind(lastFrame))
    BY <1>2, <2>1, <2>2, FoundKept DEF LastStream
  <2>4. Answered(InboxAfterFind(lastFrame), subscriber')
    BY <1>2, AnswerTypes, EndsAnswered
  <2> QED BY <2>3, <2>4, KeptEffect
<1>3. CASE Proceed(inbox) /\ wire' = <<>> /\ UNCHANGED <<streamVars, consumer, requestVars, lastFrame>>
  <2>1. Answered(inbox, subscriber) BY <1>3, AnswerTypes, EndsAnswered
  <2> QED BY <1>3, <2>1, QuietFlow DEF streamVars
<1> QED BY <1>1, <1>2, <1>3 DEF HandleExtension

\* WINDOW_UPDATE: a window of the connection wakes everybody, one of a stream
\* ends the loop.
LEMMA WindowUpdateFlow ==
  ASSUME TypeOK, NEW f \in Frame, HandleConnectionWindow(f) \/ HandleStreamWindow(f)
  PROVE  FlowEffect
<1>1. CASE HandleConnectionWindow(f)
  <2>1. UNCHANGED <<heap, subscriber>> BY <1>1 DEF HandleConnectionWindow, streamVars
  <2>2. CASE ReplyToException(GoAway(0, "FLOW_CONTROL_ERROR"), inbox)
    <3>1. GoAway(0, "FLOW_CONTROL_ERROR").type # "RESPONSE_DATA" BY AnswerTypes
    <3>2. Answered(inbox, subscriber) BY <2>2, <3>1, EndsAnswered
    <3> QED BY <2>1, <3>2, QuietFlow
  <2>3. CASE Proceed(Publish(inbox, subscriber, "wake")) /\ wire' = <<>>
    <3>1. PICK boxes : boxes = Publish(inbox, subscriber, "wake") OBVIOUS
    <3>2. Answered(boxes, subscriber) BY <2>3, <3>1, AnswerTypes, EndsAnswered
    <3>3. subscriber' = subscriber BY <2>1
    <3> QED BY <3>1, <3>2, <3>3, ToldEffect
  <2> QED BY <1>1, <2>2, <2>3 DEF HandleConnectionWindow
<1>2. CASE HandleStreamWindow(f)
  <2>1. UNCHANGED subscriber BY <1>2 DEF HandleStreamWindow
  <2>2. CASE BreakLoop(inbox, subscriber) BY <2>1, <2>2, BreakEffect
  <2>3. CASE UNCHANGED heap /\ Refuse(f, "PROTOCOL_ERROR", inbox, subscriber)
    BY <2>1, <2>3, RefuseAnswered, QuietFlow
  <2>4. CASE UNCHANGED heap /\ ResetFirstStream(inbox)
    BY <2>1, <2>4, ResetAnswered, QuietFlow
  <2> QED BY <1>2, <2>2, <2>3, <2>4 DEF HandleStreamWindow
<1> QED BY <1>1, <1>2

\* SETTINGS.
LEMMA SettingsFlow ==
  ASSUME TypeOK, NEW f \in Frame, HandleSettings(f)
  PROVE  FlowEffect
<1>1. UNCHANGED <<subscriber, processing>> BY DEF HandleSettings
<1>2. CASE Proceed(inbox) /\ wire' = <<>> /\ UNCHANGED heap
  <2>1. Answered(inbox, subscriber) BY <1>2, AnswerTypes, EndsAnswered
  <2> QED BY <1>1, <1>2, <2>1, QuietFlow
<1>3. CASE ReplyToException(GoAway(0, "FLOW_CONTROL_ERROR"), inbox) /\ UNCHANGED heap
  <2>1. GoAway(0, "FLOW_CONTROL_ERROR").type # "RESPONSE_DATA" BY AnswerTypes
  <2>2. Answered(inbox, subscriber) BY <1>3, <2>1, EndsAnswered
  <2> QED BY <1>1, <1>3, <2>2, QuietFlow
<1>4. CASE /\ f.window \in Nat /\ Overflowing(f.window) # {}
           /\ heap' = ApplyWindow(f.window) /\ ResetFirstStream(inbox)
  <2>1. Answered(inbox, subscriber) BY <1>4, ResetAnswered
  <2>2. parser' # "done" => NoTermYet(inbox')
    BY <2>1, AnsweredAdds, SameBoxes DEF NoTermYet
  <2>3. UNCHANGED inbox
    BY <1>4 DEF ResetFirstStream, ReplyToException, Proceed
  <2>4. StoppedHalfway BY <1>1, <1>4, <2>3 DEF StoppedHalfway
  <2> QED BY <2>1, <2>2, <2>4 DEF FlowEffect, Answered
<1>5. ASSUME NEW woken, woken = Publish(inbox, subscriber, "wake"),
             \/ Reply(SettingsAck, woken, subscriber)
             \/ ReplyToException(GoAway(0, "PROTOCOL_ERROR"), woken)
      PROVE  FlowEffect
  <2>1. /\ GoAway(0, "PROTOCOL_ERROR").type # "RESPONSE_DATA"
        /\ SettingsAck.type # "RESPONSE_DATA"
    BY AnswerTypes
  <2>2. Answered(woken, subscriber) BY <1>5, <2>1, EndsAnswered
  <2> QED BY <1>1, <1>5, <2>2, ToldEffect
<1>6. f.window # Absent => f.window \in Nat
  BY FrameFields DEF HandleSettings, SettingsFrame
<1> QED BY <1>2, <1>3, <1>4, <1>5, <1>6 DEF HandleSettings

\* Every step of the parser.
LEMMA ParserFlow ==
  ASSUME TypeOK, ParserStep
  PROVE  FlowEffect
<1>1. CASE HandleFrame
  <2>1. PICK f \in Incoming :
          \/ RefuseEvenStream(f) \/ RefuseStream(f) \/ RefuseOldStream(f)
          \/ HandleHeaders(f) \/ HandleContinuation(f) \/ HandleData(f)
          \/ HandleRstStream(f) \/ HandlePriority(f) \/ HandlePing(f)
          \/ HandleExtension(f) \/ HandleConnectionWindow(f)
          \/ HandleStreamWindow(f) \/ HandleSettings(f) \/ HandleEndingFrame(f)
    BY <1>1 DEF HandleFrame
  <2>2. f \in Frame BY IncomingFrame DEF TypeOK
  <2> QED BY <2>1, <2>2, BuildFlow, RefusalFlow, ResetFlow, ExtensionFlow,
             WindowUpdateFlow, SettingsFlow
<1>2. CASE AwaitBody \/ RefuseBody \/ StopReading \/ RefuseFrameHeader
  <2>1. UNCHANGED <<heap, subscriber>>
    BY <1>2 DEF AwaitBody, RefuseBody, StopReading, RefuseFrameHeader, Reads, streamVars
  <2>2. CASE AwaitBody
    <3>1. Answered(inbox, subscriber) BY <2>2 DEF AwaitBody, Answered
    <3> QED BY <2>1, <3>1, QuietFlow
  <2>3. CASE RefuseBody
    <3>1. PICK code : ReplyToException(GoAway(lastStreamId, code), inbox)
      BY <2>3 DEF RefuseBody
    <3>2. GoAway(lastStreamId, code).type # "RESPONSE_DATA" BY AnswerTypes
    <3>3. Answered(inbox, subscriber) BY <3>1, <3>2, EndsAnswered
    <3> QED BY <2>1, <3>3, QuietFlow
  <2>4. CASE StopReading BY <2>1, <2>4, BreakEffect DEF StopReading
  <2>5. CASE RefuseFrameHeader
    <3>1. parser' = "done" /\ inbox' = Publish(inbox, subscriber, "term")
      BY <2>5 DEF RefuseFrameHeader, Stop
    <3>2. wire' = <<GoAway(0, "PROTOCOL_ERROR")>> BY <2>5 DEF RefuseFrameHeader
    <3>3. Answered(inbox, subscriber) BY <3>1, <3>2, AnswerTypes DEF Answered
    <3> QED BY <2>1, <3>3, QuietFlow
  <2> QED BY <1>2, <2>2, <2>3, <2>4, <2>5
<1> QED BY <1>1, <1>2 DEF ParserStep

-----------------------------------------------------------------------------
(* TERM, the window and the wake-ups.                                      *)

\* A step of the consumer adds no token, and the parser's state is the same.
LEMMA ConsumerBoxes ==
  ASSUME TypeOK, ConsumeStream \/ LoseConnection \/ UNCHANGED vars
  PROVE  /\ UNCHANGED parser
         /\ \A sid \in Sids : \A inc \in Incarnations :
              inbox'[sid][inc] \subseteq inbox[sid][inc]
<1>1. CASE ConsumeStream
  <2>1. UNCHANGED parser
    BY <1>1 DEF ConsumeStream, ConsumerStep, DropCanceled, Dispatch, EndConsumer,
                FailDispatch, Respond, WakeUp, CompleteResponse, FailDrain
  <2>2. \/ UNCHANGED inbox
        \/ inbox' = [inbox EXCEPT ![consumer.sid][consumer.inc] = {}]
    BY <1>1 DEF ConsumeStream, DropCanceled, Dispatch, EndConsumer, FailDispatch,
                Respond, WakeUp, CompleteResponse, FailDrain, AwaitWindow
  <2>3. ASSUME NEW sid \in Sids, NEW inc \in Incarnations
        PROVE  inbox'[sid][inc] \subseteq inbox[sid][inc]
    <3>1. inbox[sid] \in [Incarnations -> SUBSET Tokens]
      BY DEF TypeOK
    <3>2. \/ inbox'[sid] = inbox[sid]
          \/ inbox'[sid] = [inbox[sid] EXCEPT ![consumer.inc] = {}]
      BY <2>2 DEF TypeOK
    <3> QED BY <3>1, <3>2
  <2> QED BY <2>1, <2>3
<1>2. CASE LoseConnection \/ UNCHANGED vars
  BY <1>2 DEF LoseConnection, vars, parserVars
<1> QED BY <1>1, <1>2

\* TERM is only published with the end of the parser loop.
LEMMA TermStep ==
  ASSUME TypeOK, TermIsLast, [Next]_vars
  PROVE  TermIsLast'
<1>1. CASE ParserStep
  <2>1. parser \in {"reading", "body"}
    <3>1. Receives => parser \in {"reading", "body"}
      BY DEF Receives
    <3>2. ASSUME NEW f,
                 \/ RefuseEvenStream(f) \/ RefuseStream(f) \/ RefuseOldStream(f)
                 \/ HandleHeaders(f) \/ HandleContinuation(f) \/ HandleData(f)
                 \/ HandleRstStream(f)
          PROVE  Receives
      BY <3>2 DEF RefuseEvenStream, RefuseStream, RefuseOldStream, HandleHeaders,
                  HandleContinuation, HandleData, HandleRstStream
    <3>3. ASSUME NEW f,
                 \/ HandlePriority(f) \/ HandlePing(f) \/ HandleExtension(f)
                 \/ HandleConnectionWindow(f) \/ HandleStreamWindow(f)
                 \/ HandleSettings(f) \/ HandleEndingFrame(f)
          PROVE  Receives
      BY <3>3 DEF HandlePriority, HandlePing, HandleExtension, HandleConnectionWindow,
                  HandleStreamWindow, HandleSettings, HandleEndingFrame
    <3>4. CASE HandleFrame
      BY <3>1, <3>2, <3>3, <3>4 DEF HandleFrame
    <3>5. CASE AwaitBody \/ RefuseBody \/ StopReading \/ RefuseFrameHeader
      BY <3>1, <3>5 DEF AwaitBody, RefuseBody, StopReading, RefuseFrameHeader, Reads
    <3> QED BY <1>1, <3>4, <3>5 DEF ParserStep
  <2>2. parser' # "done" => NoTermYet(inbox')
    BY <1>1, ParserFlow DEF FlowEffect
  <2> QED BY <2>1, <2>2 DEF TermIsLast, NoTermYet
<1>2. CASE ConsumeStream \/ LoseConnection \/ UNCHANGED vars
  BY <1>2, ConsumerBoxes DEF TermIsLast
<1> QED BY <1>1, <1>2 DEF Next, Finished

\* The frames of a response's body are written by two steps of the consumer.
LEMMA DataWriter ==
  ASSUME TypeOK, [Next]_vars, ~UNCHANGED vars,
         NEW i \in 1..Len(wire'), wire'[i].type = "RESPONSE_DATA"
  PROVE  IsRunning /\ MaySend(wire'[i].size)
<1>1. ASSUME NEW frame, frame.type # "RESPONSE_DATA" PROVE wire' # <<frame>>
  BY <1>1
<1>2. wire' # <<>> OBVIOUS
<1>3. CASE ParserStep
  BY <1>1, <1>2, <1>3, ParserFlow DEF FlowEffect
<1>4. CASE LoseConnection BY <1>2, <1>4 DEF LoseConnection
<1>5. CASE ConsumeStream
  <2>1. ASSUME NEW size \in ResponseSizes, Respond(size)
        PROVE  IsRunning /\ MaySend(wire'[i].size)
    <3>1. wire' # <<ResponseHeaders(consumer.sid)>>
      BY <1>1 DEF ResponseHeaders
    <3>2. /\ MaySend(size)
          /\ wire' = <<ResponseHeaders(consumer.sid), ResponseData(consumer.sid, size)>>
      BY <2>1, <3>1 DEF Respond
    <3>3. wire'[i] = ResponseHeaders(consumer.sid) \/ wire'[i] = ResponseData(consumer.sid, size)
      BY <3>2
    <3>4. wire'[i].size = size BY <3>3 DEF ResponseHeaders, ResponseData
    <3> QED BY <2>1, <3>2, <3>4 DEF Respond, IsRunning
  <2>2. CASE WakeUp
    <3>1. /\ MaySend(consumer.size) /\ wire' = <<ResponseData(consumer.sid, consumer.size)>>
      BY <1>2, <2>2 DEF WakeUp
    <3>2. wire'[i].size = consumer.size BY <3>1 DEF ResponseData
    <3> QED BY <2>2, <3>1, <3>2 DEF WakeUp, IsRunning
  <2> QED BY <1>2, <1>5, <2>1, <2>2
          DEF ConsumeStream, DropCanceled, Dispatch, EndConsumer, FailDispatch,
              CompleteResponse, FailDrain
<1> QED BY <1>3, <1>4, <1>5 DEF Next, Finished

\* A step of the parser leaves the registered requests registered.
LEMMA StaysRegistered ==
  ASSUME TypeOK, TypeOK', RequestInvariant, ParserStep
  PROVE  /\ consumer'.pc # "done" => UNCHANGED consumer
         /\ \A sid \in Sids : processing[sid] # 0 => processing'[sid] = processing[sid]
<1>1. ParserEffect BY ParserStepEffect
<1>2. CASE UNCHANGED <<processing, queue>> /\ ConsumerLives
  BY <1>2 DEF ConsumerLives, Idle
<1>3. ASSUME NEW sid \in Sids, NEW inc \in Incarnations, NewRequest(sid, inc)
      PROVE  /\ UNCHANGED consumer
             /\ \A s \in Sids : processing[s] # 0 => processing'[s] = processing[s]
  BY <1>3 DEF NewRequest, TypeOK
<1> QED BY <1>1, <1>2, <1>3 DEF ParserEffect

\* A later request that stops the loop over the windows is still there.
LEMMA StaysBehind ==
  ASSUME TypeOK, NEW sid \in Sids, processing[sid] # 0,
         processing'[sid] = processing[sid],
         heap'[sid][processing[sid]].window = heap[sid][processing[sid]].window,
         NEW w, WindowOverflows(heap[sid][processing[sid]], w)
  PROVE  processing'[sid] # 0 /\ WindowOverflows(heap'[sid][processing'[sid]], w)
  BY DEF WindowOverflows

\* A step of the parser while a response waits for window.
LEMMA ParserKeepsWakeup ==
  ASSUME TypeOK, TypeOK', RequestInvariant, NoLostWakeup, ParserStep
  PROVE  NoLostWakeup'
<1> SUFFICES ASSUME consumer'.pc = "window", Current'.window >= consumer'.size,
                    IsSubscribed', ~StoppedBehind'
             PROVE  inbox'[consumer'.sid][consumer'.inc] # {}
  BY DEF NoLostWakeup
<1> DEFINE sid == consumer.sid
           inc == consumer.inc
<1>1. /\ UNCHANGED consumer /\ consumer.pc = "window" /\ sid \in Sids
      /\ inc \in Incarnations /\ processing[sid] = inc /\ inc # 0
  <2>1. UNCHANGED consumer BY StaysRegistered
  <2>2. IsRunning /\ [sid |-> sid, inc |-> inc] \in Requests
    BY <2>1 DEF IsRunning, Requests
  <2> QED BY <2>1, <2>2, RequestRegistered
<1>2. subscriber'[sid] = inc BY <1>1 DEF IsSubscribed
<1>3. \A s \in Sids : processing[s] # 0 => processing'[s] = processing[s]
  BY StaysRegistered
<1>4. FlowEffect BY ParserFlow
<1>5. CASE SubscribersTold BY <1>1, <1>2, <1>5 DEF SubscribersTold
<1>6. CASE RequestsKept(inbox')
  <2>1. /\ heap'[sid][inc].window = heap[sid][inc].window
        /\ inbox[sid][inc] \subseteq inbox'[sid][inc] /\ subscriber[sid] = inc
    BY <1>1, <1>2, <1>6 DEF RequestsKept
  <2>2. ~StoppedBehind
    <3>1. ASSUME NEW s \in Sids, s > sid, processing[s] # 0,
                 WindowOverflows(heap[s][processing[s]], Current.window)
          PROVE  FALSE
      <4>1. heap'[s][processing[s]].window = heap[s][processing[s]].window
        BY <1>6, <3>1 DEF RequestsKept
      <4>2. Current'.window = Current.window BY <1>1, <2>1 DEF Current
      <4>3. processing'[s] # 0 /\ WindowOverflows(heap'[s][processing'[s]], Current.window)
        BY <1>3, <3>1, <4>1, StaysBehind
      <4> QED BY <1>1, <3>1, <4>2, <4>3 DEF StoppedBehind
    <3> QED BY <3>1 DEF StoppedBehind
  <2>3. Current.window >= consumer.size BY <1>1, <2>1 DEF Current
  <2>4. inbox[sid][inc] # {}
    BY <1>1, <2>1, <2>2, <2>3 DEF NoLostWakeup, IsSubscribed
  <2> QED BY <1>1, <2>1, <2>4
<1>7. CASE StoppedHalfway
  <2>1. PICK w \in Nat : Overflowing(w) # {} /\ heap' = ApplyWindow(w)
    BY <1>7 DEF StoppedHalfway
  <2>2. UNCHANGED <<inbox, subscriber, processing>> BY <1>7 DEF StoppedHalfway
  <2>3. \A s \in Sids : heap'[s] = IF s \in WindowsReached(w)
                     THEN [heap[s] EXCEPT ![processing[s]] = UpdateWindow(@, w)]
                     ELSE heap[s]
    BY <2>1 DEF ApplyWindow
  <2>4. Sids \subseteq Nat BY IdsAreNumbers
  <2>5. CASE sid \in WindowsReached(w)
    <3>1. Current'.window = w
      <4>1. heap[sid][inc] \in Stream /\ heap[sid] \in [Incarnations -> Stream]
        BY <1>1, HeapType DEF TypeOK
      <4>2. heap'[sid][inc] = UpdateWindow(heap[sid][inc], w)
        BY <1>1, <2>3, <2>5, <4>1
      <4> QED BY <1>1, <4>1, <4>2 DEF Current, UpdateWindow, Stream
    <3>2. PICK bad \in Overflowing(w) : TRUE BY <2>1
    <3>3. /\ bad \in Sids /\ processing[bad] # 0 /\ sid < bad
          /\ WindowOverflows(heap[bad][processing[bad]], w)
      BY <2>5, <3>2 DEF WindowsReached, Overflowing
    <3>4. bad \notin WindowsReached(w)
      BY <2>4, <3>2, <3>3 DEF WindowsReached
    <3>5. heap'[bad] = heap[bad] BY <2>3, <3>3, <3>4
    <3>6. StoppedBehind'
      BY <1>1, <2>2, <2>4, <3>1, <3>3, <3>5 DEF StoppedBehind
    <3> QED BY <3>6
  <2>6. CASE sid \notin WindowsReached(w)
    <3>1. heap'[sid] = heap[sid] BY <1>1, <2>3, <2>6
    <3>2. Current' = Current BY <1>1, <3>1 DEF Current
    <3>3. PICK bad \in Overflowing(w) : ~(sid < bad)
      BY <1>1, <2>6 DEF WindowsReached
    <3>4. ASSUME NEW s \in Sids, s > sid PROVE heap'[s] = heap[s]
      <4>1. bad \in Nat /\ s \in Nat /\ sid \in Nat
        BY <1>1, <2>4, <3>3 DEF Overflowing
      <4>2. ~(s < bad) BY <3>3, <3>4, <4>1
      <4>3. s \notin WindowsReached(w) BY <3>3, <4>2 DEF WindowsReached
      <4> QED BY <2>3, <4>3
    <3>5. ~StoppedBehind
      BY <1>1, <2>2, <3>2, <3>4 DEF StoppedBehind
    <3>6. inbox[sid][inc] # {}
      BY <1>1, <1>2, <2>2, <3>2, <3>5 DEF NoLostWakeup, IsSubscribed
    <3> QED BY <1>1, <2>2, <3>6
  <2> QED BY <2>5, <2>6
<1> QED BY <1>4, <1>5, <1>6, <1>7 DEF FlowEffect

\* A response only begins to wait, or waits again, for window it does not have.
LEMMA ConsumerKeepsWakeup ==
  ASSUME TypeOK, NoLostWakeup, ConsumeStream \/ LoseConnection \/ UNCHANGED vars
  PROVE  NoLostWakeup'
<1>1. CASE LoseConnection \/ UNCHANGED vars
  <2>1. UNCHANGED <<heap, subscriber, processing, inbox, consumer>>
    BY <1>1 DEF LoseConnection, vars, streamVars, requestVars
  <2> QED BY <2>1 DEF NoLostWakeup, Current, IsSubscribed, StoppedBehind
<1>2. ASSUME NEW size, AwaitWindow(size), ~MaySend(size), UNCHANGED heap, size \in Nat
      PROVE  NoLostWakeup'
  <2>1. consumer \in ConsumerType BY DEF TypeOK, ConsumerType
  <2>2. /\ consumer'.size = size
        /\ consumer'.sid = consumer.sid /\ consumer'.inc = consumer.inc
    BY <1>2, <2>1 DEF AwaitWindow, ConsumerType
  <2>3. ~(Current.window >= size) BY <1>2 DEF MaySend
  <2>4. Current' = Current BY <1>2, <2>2 DEF Current
  <2> QED BY <2>2, <2>3, <2>4 DEF NoLostWakeup
<1>3. CASE consumer'.pc # "window" BY <1>3 DEF NoLostWakeup
<1>4. CASE ConsumeStream
  <2>1. consumer \in ConsumerType BY DEF TypeOK, ConsumerType
  <2>2. ASSUME NEW size, SendData(size) \/ consumer' = [consumer EXCEPT !.pc = "drain"]
        PROVE  consumer'.pc # "window"
    BY <2>1, <2>2 DEF SendData, ConsumerType
  <2>3. ASSUME NEW size \in ResponseSizes, Respond(size) PROVE NoLostWakeup'
    BY <1>2, <1>3, <2>2, <2>3, LimitsAssumption DEF Respond
  <2>4. CASE WakeUp
    BY <1>2, <1>3, <2>1, <2>2, <2>4 DEF WakeUp, ConsumerType
  <2>5. CASE DropCanceled \/ Dispatch \/ EndConsumer \/ FailDispatch
             \/ CompleteResponse \/ FailDrain
    <3>1. consumer'.pc # "window"
      BY <2>5 DEF DropCanceled, Dispatch, EndConsumer, FailDispatch,
                  CompleteResponse, FailDrain, Idle
    <3> QED BY <1>3, <3>1
  <2> QED BY <1>4, <2>3, <2>4, <2>5 DEF ConsumeStream
<1> QED BY <1>1, <1>4

-----------------------------------------------------------------------------
FlowInvariant == TypeOK /\ RequestInvariant /\ TermIsLast /\ NoLostWakeup

\* The invariant is inductive.
LEMMA FlowStep ==
  ASSUME FlowInvariant, [Next]_vars
  PROVE  FlowInvariant'
<1> USE DEF FlowInvariant
<1>1. TypeOK' /\ RequestInvariant' BY InvariantStep
<1>2. TermIsLast' BY TermStep
<1>3. NoLostWakeup'
  BY <1>1, ParserKeepsWakeup, ConsumerKeepsWakeup DEF Next, Finished
<1> QED BY <1>1, <1>2, <1>3

\* A new connection has empty queues and no response that waits.
LEMMA FlowInit == ASSUME Init PROVE FlowInvariant
<1>1. TypeOK /\ RequestInvariant BY InitType, InvariantInit
<1>2. TermIsLast /\ NoLostWakeup BY DEF Init, Idle, TermIsLast, NoLostWakeup
<1> QED BY <1>1, <1>2 DEF FlowInvariant

\* TERM is the last token, and no wake-up is lost, in every reachable state.
THEOREM FlowSafety == Spec => []FlowInvariant
  BY FlowInit, FlowStep, PTL DEF Spec

(***************************************************************************)
(* No wake-up is lost between the test of the window and the await, nor    *)
(* while the response sleeps, whatever the peer sends in between, unless   *)
(* one of the two things happens that IsSubscribed and StoppedBehind name. *)
(***************************************************************************)
THEOREM WakeupsArrive == Spec => []NoLostWakeup
<1>1. FlowInvariant => NoLostWakeup BY DEF FlowInvariant
<1> QED BY <1>1, FlowSafety, PTL

(***************************************************************************)
(* As long as the parser reads, no body goes out that is larger than the   *)
(* window of its stream at that moment: only TERM lets a response pass     *)
(* without window, and TERM is published with the end of the loop.         *)
(***************************************************************************)
THEOREM SendsWithinTheWindow == Spec => SendsWithinWindow
<1>1. ASSUME FlowInvariant, [Next]_vars, ~UNCHANGED vars,
             NEW i \in 1..Len(wire'), wire'[i].type = "RESPONSE_DATA",
             parser \in {"reading", "body"}
      PROVE  wire'[i].size <= Current.window
  <2>1. IsRunning /\ MaySend(wire'[i].size) /\ TypeOK /\ RequestInvariant /\ TermIsLast
    BY <1>1, DataWriter DEF FlowInvariant
  <2>2. consumer.sid \in Sids /\ consumer.inc \in Incarnations
    BY <2>1 DEF RequestInvariant, RunningRequest
  <2>3. "term" \notin inbox[consumer.sid][consumer.inc]
    BY <1>1, <2>1, <2>2 DEF TermIsLast
  <2>4. Current.window >= wire'[i].size BY <2>1, <2>3 DEF MaySend
  <2> QED BY <2>4
<1>2. FlowInvariant /\ [Next]_vars =>
        [\A i \in 1..Len(wire') :
           wire'[i].type = "RESPONSE_DATA" /\ parser \in {"reading", "body"}
             => wire'[i].size <= Current.window]_vars
  BY <1>1
<1> QED BY <1>2, FlowSafety, PTL DEF Spec, SendsWithinWindow
=============================================================================
