-------------------------- MODULE Http2Properties --------------------------
(***************************************************************************)
(* What is checked of Http2Connection.  The first part are invariants and  *)
(* action properties of every connection; the second part needs fairness;  *)
(* the third states what comments of the code say and the code does not do.*)
(***************************************************************************)
EXTENDS Http2Connection

Object == 0..3         \* an incarnation, or 0 for none
RefSet == [sid : Sids, inc : Incarnations]

(***************************************************************************)
(* Types of the variables.                                                 *)
(***************************************************************************)
TypeOK ==
  /\ heap \in [Sids -> [Incarnations -> Stream]]
  /\ inbox \in [Sids -> [Incarnations -> SUBSET Tokens]]
  /\ open \in [Sids -> Object]
  /\ processing \in [Sids -> Object]
  /\ subscriber \in [Sids -> Object]
  /\ reqCtx \subseteq Sids
  /\ queue \in Seq(RefSet)
  /\ canceled \subseteq Sids
  /\ closed \subseteq Sids
  /\ closedDeque \in Seq(Sids)
  /\ lastFrame \in LastFrame
  /\ lastStreamId \in Sids \cup {0}
  /\ settings \in [connectionWindow : Int, maxStreams : Nat, maxFrame : Sizes]
  /\ upgrade \in Seq(Frame)
  /\ parser \in {"reading", "body", "done", "failed"}
  /\ consumer \in [pc : ConsumerStates, sid : Sids \cup {0}, inc : Object, size : Nat]
  /\ link \in {"up", "down"}
  /\ wire \in Seq(ServerFrame)

IsRunning == consumer.pc \in {"dispatch", "window", "drain"}

\* The requests that wait for the endpoint or are being answered.
Requests == {queue[i] : i \in 1..Len(queue)}
            \cup (IF IsRunning THEN {[sid |-> consumer.sid, inc |-> consumer.inc]} ELSE {})

(***************************************************************************)
(* The dictionaries keyed by stream id stay in step with the queue that    *)
(* really holds the requests: each waiting or running request is the very  *)
(* object streams_in_que has for its id, with a request context and a      *)
(* subscriber, so neither _req_ctx_store.get() returns None nor a del      *)
(* raises KeyError, both of which would silently end the consumer task.    *)
(* And while the consumer lives streams_in_que holds nothing else.         *)
(***************************************************************************)
RegistryConsistent ==
  /\ \A r \in Requests : /\ processing[r.sid] = r.inc
                         /\ subscriber[r.sid] # 0
                         /\ r.sid \in reqCtx
  /\ \A sid \in Sids :
       processing[sid] # 0 /\ consumer.pc # "done" => \E r \in Requests : r.sid = sid

(***************************************************************************)
(* The queue is in the order of the stream ids and everything in it comes  *)
(* after the stream dispatched last: update_window_size relies on it for   *)
(* the order of its loop, last_stream_id of a GOAWAY frame for its meaning.*)
(***************************************************************************)
InOrder ==
  /\ \A i, j \in 1..Len(queue) : i < j => queue[i].sid < queue[j].sid
  /\ \A i \in 1..Len(queue) : lastStreamId < queue[i].sid

\* A whole, legal and readable request.
HoldsRequest(s) ==
  /\ s.headerStatus = "DONE" /\ s.streamStatus = "DONE"
  /\ s.rawHeaders = "valid" /\ ~s.hasLength /\ s.rawBody = "text"

(***************************************************************************)
(* Nothing that arrives after END_STREAM, on the object itself or through  *)
(* the second reference to it that DataFrameHandler leaves in open, makes  *)
(* a request that waits or runs incomplete, unreadable or illegal again.   *)
(***************************************************************************)
RequestsComplete == \A r \in Requests : HoldsRequest(heap[r.sid][r.inc])

(***************************************************************************)
(* closed_stream_ids and its deque hold the same ids, each once, and never *)
(* more than COMPLETED_QUE_SIZE of them: popleft and remove always succeed.*)
(***************************************************************************)
ClosedBounded ==
  /\ closed = {closedDeque[i] : i \in 1..Len(closedDeque)}
  /\ Cardinality(closed) = Len(closedDeque)
  /\ Len(closedDeque) <= CompletedQueSize

\* SETTINGS_MAX_CONCURRENT_STREAMS of the peer, which the code takes for its
\* own limit, is never more than what the server announced.
LimitKept ==
  /\ \A f \in ClientFrames :
       f.type = "SETTINGS" => f.maxStreams <= MaxConcurrentStreams
  /\ \A i \in 1..Len(UpgradeFrames) :
       UpgradeFrames[i].type = "SETTINGS"
         => UpgradeFrames[i].maxStreams <= MaxConcurrentStreams

(***************************************************************************)
(* As long as the peer does not raise the limit, whether it lowers it or   *)
(* not, the streams held open or queued, completed uploads that went back  *)
(* to open included, never exceed what the server announced in its own     *)
(* SETTINGS frame by more than one: the stream that an EXTENSION frame on  *)
(* stream 0, which has_any_violation does not count, makes for the last    *)
(* frame.                                                                  *)
(***************************************************************************)
ConcurrencyBounded == LimitKept => TotalQsize <= MaxConcurrentStreams + 1

(***************************************************************************)
(* A response body larger than the window its stream has at that moment is *)
(* only written once the connection is being wound up.                     *)
(***************************************************************************)
SendsWithinWindow ==
  [][\A i \in 1..Len(wire') :
       wire'[i].type = "RESPONSE_DATA" /\ parser \in {"reading", "body"}
         => wire'[i].size <= Current.window]_vars

\* No later frame has taken over the running response's subscription, as
\* find_stream does when it makes another object for its stream id: for a frame
\* on that stream, or for an EXTENSION frame on stream 0 while the last frame
\* was on that stream.
IsSubscribed == subscriber[consumer.sid] = consumer.inc

\* The loop of update_window_size changed the running response's window, then
\* raised at a later request and sent no token.
StoppedBehind ==
  \E sid \in Sids : /\ sid > consumer.sid /\ processing[sid] # 0
                    /\ WindowOverflows(heap[sid][processing[sid]], Current.window)

(***************************************************************************)
(* A response that waits for window is never left sleeping although its    *)
(* window suffices: a token that will wake it is on its way, unless its    *)
(* subscription was taken over or the loop over the windows raised half    *)
(* way.  Nothing else that may happen between the test of the window and   *)
(* the await, or while the task sleeps, loses a wake-up.                   *)
(***************************************************************************)
NoLostWakeup ==
  consumer.pc = "window" /\ Current.window >= consumer.size
  /\ IsSubscribed /\ ~StoppedBehind
    => inbox[consumer.sid][consumer.inc] # {}

\* The queued requests that is_canceled_stream will drop, while it is asked.
Marked == {sid \in canceled : /\ consumer.pc # "done"
                              /\ \E i \in 1..Len(queue) : queue[i].sid = sid}

\* The requests of the connection as the pipeline sees them.
Pipeline == INSTANCE RequestPipeline WITH
  pending <- [i \in 1..Len(queue) |-> queue[i].sid],
  refused <- Marked,
  current <- IF IsRunning THEN consumer.sid ELSE 0,
  last    <- lastStreamId,
  serving <- consumer.pc # "done"

(***************************************************************************)
(* The connection implements RequestPipeline: completed requests reach the *)
(* endpoint at most once, one at a time, in stream order, across canceled, *)
(* reset and repeated streams, evicted ids and failing tasks; a mark that  *)
(* a canceled stream left never drops another request than its own.        *)
(***************************************************************************)
ImplementsPipeline == Pipeline!Spec

-----------------------------------------------------------------------------
(* The inductive invariant behind the safety properties.                   *)

\* The consumer answers the stream it dispatched last, a registered request.
RunningRequest ==
  IsRunning => /\ consumer.sid \in Sids /\ consumer.inc \in Incarnations
               /\ consumer.sid = lastStreamId

\* has_any_violation compares with last_frame: nothing queued is beyond it.
QueueReached ==
  /\ lastStreamId <= lastFrame.sid
  /\ \A i \in 1..Len(queue) : queue[i].sid <= lastFrame.sid

\* The stream dispatched last is still known to has_been_closed, whatever was
\* evicted: this is what a second HEADERS frame on it is refused for.
LastRemembered ==
  lastStreamId # 0 => lastStreamId \in closed \/ processing[lastStreamId] # 0

\* An open stream that can still become a request has its request context and
\* its subscriber; one that was answered may have lost the subscriber.
OpenRegistered ==
  \A sid \in Sids : open[sid] # 0 =>
    sid \in reqCtx /\ (subscriber[sid] # 0 \/ sid <= lastStreamId)

ClosedNotProcessing == \A sid \in closed : processing[sid] = 0

(***************************************************************************)
(* has_been_closed, has_any_violation and the eviction of closed ids work  *)
(* together: no id that was queued once can be queued again, although the  *)
(* set of closed ids forgets.  Every conjunct is needed for another one.   *)
(***************************************************************************)
RequestInvariant ==
  /\ RunningRequest /\ QueueReached /\ LastRemembered /\ OpenRegistered
  /\ ClosedNotProcessing /\ InOrder /\ RegistryConsistent /\ ClosedBounded

\* A mark in streams_canceled is that of a request, or was left behind by one
\* dispatched before: none waits for a request still to come.
MarksKnown == \A sid \in canceled : processing[sid] # 0 \/ sid <= lastStreamId

-----------------------------------------------------------------------------
(* What RequestsComplete, the flow control and the limit rest on.          *)

\* A header block that is done was legal, or it set a content-length.
BlockDecoded(s) == s.headerStatus = "DONE" => s.rawHeaders = "valid" \/ s.hasLength
BlocksDecoded ==
  \A sid \in Sids : \A inc \in Incarnations : BlockDecoded(heap[sid][inc])

\* TERM is only in the queues of the streams once the parser loop is over.
TermIsLast ==
  parser # "done" =>
    \A sid \in Sids : \A inc \in Incarnations : "term" \notin inbox[sid][inc]

\* Without the stream of the last frame the limit is kept exactly, also by
\* the frames that an upgrade left and that wait to be handled.
UpgradeKept == \A i \in 1..Len(upgrade) :
                 upgrade[i].type = "SETTINGS"
                   => upgrade[i].maxStreams <= MaxConcurrentStreams
OpenIds       == {sid \in Sids : open[sid] # 0}
ProcessingIds == {sid \in Sids : processing[sid] # 0}
LimitObserved ==
  /\ IsFiniteSet(OpenIds) /\ IsFiniteSet(ProcessingIds)
  /\ LimitKept =>
       /\ UpgradeKept /\ settings.maxStreams <= MaxConcurrentStreams
       /\ Cardinality(OpenIds \ {lastFrame.sid}) + Cardinality(ProcessingIds)
            <= MaxConcurrentStreams

-----------------------------------------------------------------------------
(***************************************************************************)
(* asyncio resumes the consumer whenever it is runnable: when there is a   *)
(* request to take, a token or TERM in the queue it waits for, or an error *)
(* for its drain.  Of the peer nothing is assumed, it may send nothing and *)
(* read nothing; of an endpoint neither that it returns nor that it        *)
(* raises, only that it does not block the event loop.  But what a lost    *)
(* connection has left in the buffer of the reader is finite, behind it    *)
(* every read returns.                                                     *)
(***************************************************************************)
ResumeConsumer == DropCanceled \/ Dispatch \/ EndConsumer \/ WakeUp \/ FailDrain

FairSpec == /\ Spec /\ WF_vars(ResumeConsumer)
            /\ WF_vars(StopReading /\ link = "down")

ParserEnded == parser \in {"done", "failed"}
ConsumerEnded == consumer.pc = "done"

\* What has no timeout: the endpoint, and a drain whose peer does not read.
InEndpoint == consumer.pc = "dispatch"
Held == InEndpoint \/ (consumer.pc = "drain" /\ link = "up")

\* A response that waits for window in a queue no token is sent to any more.
Orphaned == consumer.pc = "window" /\ ~IsSubscribed

(***************************************************************************)
(* When the parser loop is over the consumer ends too, so the TaskGroup is *)
(* left and the connection closed: publish_end, or the cancelation behind  *)
(* a failed answer, reaches it whatever it waits for, unless an endpoint   *)
(* or a peer that does not read keeps it.                                  *)
(***************************************************************************)
ConsumerStops == <>[](ParserEnded => ConsumerEnded \/ Held)

\* The same, but for a response whose subscription was taken over.
SubscribedStops == <>[](ParserEnded => ConsumerEnded \/ Held \/ Orphaned)

(***************************************************************************)
(* The read of a frame's body has no timeout, a response may wait for      *)
(* window and for a drain without one: a silent peer can hold a connection,*)
(* but only while its link lasts.  Whichever of the two tasks the loss     *)
(* reaches first, also behind a consumer that has died, the parser ends;   *)
(* and with it the consumer, unless an endpoint does not return or another *)
(* object took the response's subscription over.                           *)
(***************************************************************************)
LostConnectionEnds ==
  <>[](link = "down" => ParserEnded /\ (ConsumerEnded \/ InEndpoint \/ Orphaned))

\* A response whose window does not suffice, or that missed its wake-up.
LacksWindow == /\ consumer.pc = "window"
               /\ Current.window < consumer.size \/ ~IsSubscribed \/ StoppedBehind

(***************************************************************************)
(* A completed request is eventually answered or dropped, unless the task  *)
(* has died or is kept for ever: by an endpoint, by a peer that does not   *)
(* read, or by one that again and again takes the window from a response.  *)
(* A consumer that goes on forgets none.  (It is kept only by requests in  *)
(* front, each of which is answered once: not by ever new ones.)           *)
(***************************************************************************)
RequestsServed ==
  \A sid \in Sids :
    []<>(processing[sid] = 0 \/ ConsumerEnded \/ Held \/ LacksWindow)

-----------------------------------------------------------------------------
(***************************************************************************)
(* http2_object.py says of the state CLOSED that "Both can't send any      *)
(* request at all", frame_handler.py that a stream enters it "after an     *)
(* endpoint either sends or receives a RST_STREAM frame": no response is   *)
(* begun on a stream whose object is CLOSED.                               *)
(***************************************************************************)
ClosedStreamsSilent ==
  [][\A i \in 1..Len(wire') :
       wire'[i].type = "RESPONSE_HEADERS" => Current.state # "CLOSED"]_vars

(***************************************************************************)
(* http2_object.py says that in the state half-closed (remote) "the        *)
(* endpoint continues to observe advertised stream-level flow-control      *)
(* limits".                                                                *)
(***************************************************************************)
FlowControlObserved ==
  [][\A i \in 1..Len(wire') :
       wire'[i].type = "RESPONSE_DATA" => wire'[i].size <= Current.window]_vars
=============================================================================
