----------------------- MODULE Http2ConnectionProofs -----------------------
(***************************************************************************)
(* Proofs about Http2Connection for every set of streams, every set of     *)
(* frames the peer may send, every limit and every window size.            *)
(***************************************************************************)
EXTENDS Http2Properties, TLAPS

-----------------------------------------------------------------------------
(* The operators of Http2Stream keep a stream a stream.                    *)

\* A new Http2Stream object.
LEMMA NewStreamType ==
  ASSUME NEW w \in Int
  PROVE  NewStream(w) \in Stream
  BY DEF NewStream, Stream, Statuses, States, Blocks, Bodies

\* A fragment leaves one of the verdicts on the concatenation.
LEMMA ExtendBlockType ==
  ASSUME NEW b \in Blocks, NEW x \in Fragments
  PROVE  ExtendBlock(b, x) \in Blocks
  BY DEF ExtendBlock, Blocks, Fragments

\* The methods of Http2Stream that assign to the object.
LEMMA StreamUpdateType ==
  ASSUME NEW s \in Stream
  PROVE  /\ \A x \in Fragments : UpdateRawHeaders(s, x) \in Stream
         /\ CompleteHeaders(s) \in Stream
         /\ \A d \in Bodies : UpdateRawBody(s, d) \in Stream
         /\ CompleteStream(s) \in Stream
         /\ CloseState(s) \in Stream
         /\ \A w \in Int : UpdateWindow(s, w) \in Stream
         /\ [s EXCEPT !.streamStatus = "UPDATING"] \in Stream
<1>1. ASSUME NEW x \in Fragments PROVE UpdateRawHeaders(s, x) \in Stream
  <2>1. ExtendBlock(s.rawHeaders, x) \in Blocks
    BY ExtendBlockType DEF Stream
  <2> QED BY <2>1 DEF UpdateRawHeaders, Stream, Statuses
<1>2. ASSUME NEW d \in Bodies PROVE UpdateRawBody(s, d) \in Stream
  BY DEF UpdateRawBody, ExtendBody, Stream, Bodies
<1>3. CompleteHeaders(s) \in Stream
  BY DEF CompleteHeaders, Stream, Statuses
<1>4. /\ CompleteStream(s) \in Stream /\ CloseState(s) \in Stream
      /\ [s EXCEPT !.streamStatus = "UPDATING"] \in Stream
  BY DEF CompleteStream, CloseState, Stream, Statuses, States
<1>5. ASSUME NEW w \in Int PROVE UpdateWindow(s, w) \in Stream
  BY DEF UpdateWindow, Stream
<1> QED BY <1>1, <1>2, <1>3, <1>4, <1>5

Endings == {"kept", "complete", "compression", "bad_data", "lost", "crash"}

\* process() of HEADERS and CONTINUATION.
LEMMA ProcessHeadersType ==
  ASSUME NEW s \in Stream, NEW f, f.fragment \in Fragments,
         f.endHeaders \in BOOLEAN, NEW endStream \in BOOLEAN
  PROVE  /\ ProcessHeaders(s, f, endStream).stream \in Stream
         /\ ProcessHeaders(s, f, endStream).ending \in Endings
<1> DEFINE received == UpdateRawHeaders(s, f.fragment)
           ended    == IF endStream THEN CompleteStream(received) ELSE received
           decoded  == IF f.endHeaders THEN CompleteHeaders(ended) ELSE ended
<1>1. received \in Stream BY StreamUpdateType
<1>2. ended \in Stream BY <1>1, StreamUpdateType
<1>3. decoded \in Stream BY <1>2, StreamUpdateType
<1>4. CompletionOutcome(received) \in {"ok", "bad_data", "crash"}
  BY DEF CompletionOutcome
<1> HIDE DEF received, ended, decoded
<1> QED BY <1>1, <1>2, <1>3, <1>4 DEF ProcessHeaders, Result, Endings, received, ended, decoded

\* process() of DATA.
LEMMA ProcessDataType ==
  ASSUME NEW s \in Stream, NEW f, f.data \in Bodies, f.endStream \in BOOLEAN
  PROVE  /\ ProcessData(s, f).stream \in Stream
         /\ ProcessData(s, f).ending \in Endings
<1> DEFINE received == UpdateRawBody(s, f.data)
<1>1. received \in Stream BY StreamUpdateType
<1>2. CompletionOutcome(received) \in {"ok", "bad_data", "crash"}
  BY DEF CompletionOutcome
<1>3. CompleteStream(received) \in Stream /\ [received EXCEPT !.streamStatus = "UPDATING"] \in Stream
  BY <1>1, StreamUpdateType
<1> HIDE DEF received
<1> QED BY <1>1, <1>2, <1>3 DEF ProcessData, Result, Endings, received

-----------------------------------------------------------------------------
(* Frames.                                                                 *)

\* The type of a frame determines its fields.
LEMMA FrameFields ==
  ASSUME NEW f \in Frame
  PROVE  /\ f.type = "HEADERS" => f \in HeadersFrame
         /\ f.type = "CONTINUATION" => f \in ContinuationFrame
         /\ f.type = "DATA" => f \in DataFrame
         /\ f.type = "RST_STREAM" => f \in RstStreamFrame
         /\ f.type = "PRIORITY" => f \in PriorityFrame
         /\ f.type = "EXTENSION" => f \in ExtensionFrame
         /\ f.type = "WINDOW_UPDATE" => f \in WindowUpdateFrame
         /\ f.type = "SETTINGS" => f \in SettingsFrame
         /\ f.type = "PING" => f \in PingFrame
         /\ f.type \in {"GOAWAY", "PUSH_PROMISE", "ALTSVC"} => f \in EndingFrame
  BY DEF Frame, HeadersFrame, ContinuationFrame, DataFrame, RstStreamFrame,
         PriorityFrame, ExtensionFrame, WindowUpdateFrame, SettingsFrame,
         PingFrame, EndingFrame

\* has_any_violation leaves only the client's own streams and stream 0.
LEMMA FrameSid ==
  ASSUME NEW f \in Frame
  PROVE  /\ f.sid \in FrameSids \cup {0}
         /\ f.type \in {"HEADERS", "CONTINUATION", "DATA", "RST_STREAM", "PRIORITY"}
               => f.sid \in FrameSids
         /\ f.sid \in FrameSids /\ ~IsEven(f) => f.sid \in Sids
         /\ f.sid > 0 /\ ~IsEven(f) => f.sid \in Sids
<1>1. f.sid \in FrameSids \cup {0}
  BY DEF Frame, HeadersFrame, ContinuationFrame, DataFrame, RstStreamFrame,
         PriorityFrame, ExtensionFrame, WindowUpdateFrame, SettingsFrame,
         PingFrame, EndingFrame
<1>2. f.type \in {"HEADERS", "CONTINUATION", "DATA", "RST_STREAM", "PRIORITY"}
        => f.sid \in FrameSids
  BY FrameFields DEF HeadersFrame, ContinuationFrame, DataFrame, RstStreamFrame,
                     PriorityFrame
<1>3. f.sid \in FrameSids /\ ~IsEven(f) => f.sid \in Sids
  BY SidsAssumption DEF FrameSids, EvenSid, IsEven
<1> QED BY <1>1, <1>2, <1>3

\* A frame is taken from the upgrade object or from the peer.
LEMMA IncomingFrame ==
  ASSUME upgrade \in Seq(Frame), NEW f \in Incoming
  PROVE  f \in Frame
<1>1. CASE upgrade # <<>>
  BY <1>1 DEF Incoming
<1>2. CASE upgrade = <<>>
  BY <1>2, FramesAssumption DEF Incoming
<1> QED BY <1>1, <1>2

-----------------------------------------------------------------------------
(* find_stream.                                                            *)

\* There is a number for a new object that no live object of the stream has.
LEMMA FreshIncarnationExists ==
  ASSUME TypeOK, NEW sid \in Sids
  PROVE  /\ FreshIncarnation(sid) \in Incarnations
         /\ FreshIncarnation(sid) # processing[sid]
         /\ FreshIncarnation(sid) # subscriber[sid]
<1>1. \E inc \in Incarnations : inc \notin {processing[sid], subscriber[sid]}
  <2>1. 1 \in Incarnations /\ 2 \in Incarnations /\ 3 \in Incarnations
    BY DEF Incarnations
  <2> QED BY <2>1
<1> QED BY <1>1 DEF FreshIncarnation

\* The object find_stream returns.
LEMMA FoundType ==
  ASSUME TypeOK, NEW f, f.sid \in Sids
  PROVE  /\ Found(f) \in Object
         /\ Creates(f) => Found(f) \in Incarnations
         /\ Found(f) # 0 => Found(f) \in Incarnations
         /\ Found(f) # 0 => FoundStream(f) \in Stream
         /\ f.type \in {"HEADERS", "CONTINUATION", "DATA"} => Found(f) # 0
<1>1. FreshIncarnation(f.sid) \in Incarnations
  BY FreshIncarnationExists
<1>2. Found(f) \in Object
  BY <1>1 DEF Found, TypeOK, Object, Incarnations
<1>3. Found(f) # 0 => Found(f) \in Incarnations
  BY <1>2 DEF Object, Incarnations
<1>4. Creates(f) => Found(f) \in Incarnations
  BY <1>1 DEF Found
<1>5. ASSUME Found(f) # 0 PROVE FoundStream(f) \in Stream
  <2>1. NewStream(settings.connectionWindow) \in Stream
    BY NewStreamType DEF TypeOK
  <2>2. heap[f.sid][Found(f)] \in Stream
    BY <1>3, <1>5 DEF TypeOK
  <2> QED BY <2>1, <2>2 DEF FoundStream
<1>6. f.type \in {"HEADERS", "CONTINUATION", "DATA"} => Found(f) # 0
  BY <1>1 DEF Found, Creates, IsInOpen, Incarnations
<1> QED BY <1>2, <1>3, <1>4, <1>5, <1>6

\* An object of the heap, and the heap after one of its objects changed.
LEMMA HeapType ==
  ASSUME TypeOK, NEW sid \in Sids, NEW inc \in Incarnations
  PROVE  /\ heap[sid][inc] \in Stream
         /\ \A s \in Stream : [heap EXCEPT ![sid][inc] = s]
                                \in [Sids -> [Incarnations -> Stream]]
  BY DEF TypeOK

\* find_stream keeps the types of everything it changes.
LEMMA FindStreamType ==
  ASSUME TypeOK, NEW f, f.sid \in Sids, NEW s \in Stream, Found(f) # 0,
         FindStream(f, s)
  PROVE  /\ heap' \in [Sids -> [Incarnations -> Stream]]
         /\ subscriber' \in [Sids -> Object]
         /\ reqCtx' \subseteq Sids
         /\ InboxAfterFind(f) \in [Sids -> [Incarnations -> SUBSET Tokens]]
<1>1. Found(f) \in Incarnations /\ Found(f) \in Object
  BY FoundType
<1>2. heap' \in [Sids -> [Incarnations -> Stream]]
  BY <1>1 DEF FindStream, TypeOK
<1>3. subscriber' \in [Sids -> Object]
  BY <1>1 DEF FindStream, TypeOK
<1>4. reqCtx' \subseteq Sids
  BY DEF FindStream, TypeOK
<1>5. InboxAfterFind(f) \in [Sids -> [Incarnations -> SUBSET Tokens]]
  BY <1>1 DEF InboxAfterFind, TypeOK
<1> QED BY <1>2, <1>3, <1>4, <1>5

-----------------------------------------------------------------------------
(* The ways a pass through the parser loop ends.                           *)

InboxType    == [Sids -> [Incarnations -> SUBSET Tokens]]
ConsumerType == [pc : ConsumerStates, sid : Sids \cup {0}, inc : Object, size : Nat]
ParserType   == {"reading", "body", "done", "failed"}

\* publish_end and publish_window_update only add tokens.
LEMMA PublishType ==
  ASSUME NEW boxes \in InboxType, NEW subs, NEW token \in Tokens
  PROVE  Publish(boxes, subs, token) \in InboxType
  BY DEF Publish, InboxType

\* What the handlers answer with.
LEMMA ServerFrameType ==
  ASSUME TypeOK
  PROVE  /\ \A code \in ErrorCodes : /\ GoAway(lastStreamId, code) \in ServerFrame
                                    /\ GoAway(0, code) \in ServerFrame
         /\ SettingsAck \in ServerFrame /\ PingAck \in ServerFrame
         /\ ResetStream(1) \in ServerFrame
  BY DEF TypeOK, GoAway, SettingsAck, PingAck, ResetStream, ServerFrame

\* The consumer after it ended.
LEMMA IdleType == Idle \in ConsumerType /\ [Idle EXCEPT !.pc = "done"] \in ConsumerType
  BY DEF Idle, ConsumerType, ConsumerStates, Object

\* break: the loop is left and TERM published.
LEMMA BreakLoopType ==
  ASSUME TypeOK, NEW boxes \in InboxType, NEW subs, BreakLoop(boxes, subs)
  PROVE  /\ inbox' \in InboxType /\ parser' \in ParserType
         /\ wire' \in Seq(ServerFrame) /\ consumer' \in ConsumerType
<1>1. "term" \in Tokens BY DEF Tokens
<1>2. Publish(boxes, subs, "term") \in InboxType BY <1>1, PublishType
<1> QED BY <1>2 DEF BreakLoop, Stop, ParserType, ConsumerType, TypeOK

\* A handler answered.
LEMMA ReplyType ==
  ASSUME TypeOK, NEW boxes \in InboxType, NEW subs, NEW frame \in ServerFrame,
         Reply(frame, boxes, subs)
  PROVE  /\ inbox' \in InboxType /\ parser' \in ParserType
         /\ wire' \in Seq(ServerFrame) /\ consumer' \in ConsumerType
<1>1. "term" \in Tokens BY DEF Tokens
<1>2. Publish(boxes, subs, "term") \in InboxType BY <1>1, PublishType
<1>3. <<frame>> \in Seq(ServerFrame) OBVIOUS
<1> QED BY <1>2, <1>3 DEF Reply, Stop, Proceed, ParserType, ConsumerType, TypeOK

\* An except clause answered.
LEMMA ReplyToExceptionType ==
  ASSUME TypeOK, NEW boxes \in InboxType, NEW frame \in ServerFrame,
         ReplyToException(frame, boxes)
  PROVE  /\ inbox' \in InboxType /\ parser' \in ParserType
         /\ wire' \in Seq(ServerFrame) /\ consumer' \in ConsumerType
<1>1. <<frame>> \in Seq(ServerFrame) /\ <<>> \in Seq(ServerFrame) OBVIOUS
<1>2. consumer \in ConsumerType BY DEF TypeOK, ConsumerType
<1>3. CASE link = "up"
  BY <1>1, <1>2, <1>3 DEF ReplyToException, Proceed, ParserType
<1>4. CASE link # "up"
  <2>1. consumer' \in ConsumerType BY <1>4, IdleType DEF ReplyToException
  <2> QED BY <1>1, <1>4, <2>1 DEF ReplyToException, ParserType
<1> QED BY <1>3, <1>4

\* Nothing was answered.
LEMMA ProceedType ==
  ASSUME TypeOK, NEW boxes \in InboxType, Proceed(boxes), wire' = <<>>,
         UNCHANGED consumer
  PROVE  /\ inbox' \in InboxType /\ parser' \in ParserType
         /\ wire' \in Seq(ServerFrame) /\ consumer' \in ConsumerType
  BY DEF Proceed, ParserType, ConsumerType, TypeOK

\* last_frame names a stream of the client.
LEMMA RememberType ==
  ASSUME TypeOK, NEW f, f.sid \in Sids, Remember(f)
  PROVE  lastFrame' \in LastFrame
  BY DEF Remember, LastFrame, TypeOK

\* cancel_stream and remove_stream_by_force.
LEMMA CancelType ==
  ASSUME TypeOK, NEW sid
  PROVE  Cancel(sid) \subseteq Sids /\ RemoveFromOpen(sid) \in [Sids -> Object]
  BY DEF Cancel, RemoveFromOpen, IsInProcessing, IsInOpen, TypeOK, Object

\* A frame was refused; EXTENSION frames may name stream 0.
LEMMA RefuseType ==
  ASSUME TypeOK, NEW f, f.sid \in Sids \/ f.type \notin {"HEADERS", "DATA"},
         NEW code \in ErrorCodes, NEW boxes \in InboxType, NEW subs,
         Refuse(f, code, boxes, subs)
  PROVE  /\ inbox' \in InboxType /\ parser' \in ParserType
         /\ wire' \in Seq(ServerFrame) /\ consumer' \in ConsumerType
         /\ lastFrame' \in LastFrame
         /\ canceled' \subseteq Sids /\ open' \in [Sids -> Object]
         /\ UNCHANGED <<processing, queue>>
<1>1. GoAway(lastStreamId, code) \in ServerFrame BY ServerFrameType
<1>2. Reply(GoAway(lastStreamId, code), boxes, subs) BY DEF Refuse
<1>3. /\ inbox' \in InboxType /\ parser' \in ParserType
      /\ wire' \in Seq(ServerFrame) /\ consumer' \in ConsumerType
  BY <1>1, <1>2, ReplyType
<1>4. lastFrame' \in LastFrame
  BY DEF Refuse, Remember, LastFrame, TypeOK
<1>5. canceled' \subseteq Sids /\ open' \in [Sids -> Object]
  BY CancelType DEF Refuse
<1> QED BY <1>3, <1>4, <1>5 DEF Refuse

\* The parser took a frame.
LEMMA ReceivesType ==
  ASSUME TypeOK, Receives
  PROVE  /\ upgrade' \in Seq(Frame)
         /\ UNCHANGED <<closed, closedDeque, lastStreamId>>
<1>1. upgrade # <<>> => Tail(upgrade) \in Seq(Frame) BY DEF TypeOK
<1> QED BY <1>1 DEF Receives, closedVars, TypeOK

(***************************************************************************)
(* What a step of the parser has to show: the parts of the state it may    *)
(* touch keep their types, the rest is unchanged.                          *)
(***************************************************************************)
ParserPart ==
  /\ inbox' \in InboxType /\ parser' \in ParserType
  /\ wire' \in Seq(ServerFrame) /\ consumer' \in ConsumerType
StreamPart ==
  /\ heap' \in [Sids -> [Incarnations -> Stream]]
  /\ open' \in [Sids -> Object] /\ subscriber' \in [Sids -> Object]
  /\ reqCtx' \subseteq Sids
RequestPart ==
  /\ processing' \in [Sids -> Object] /\ queue' \in Seq(RefSet)
  /\ canceled' \subseteq Sids
SettingsType == [connectionWindow : Int, maxStreams : Nat, maxFrame : Sizes]

\* The parts make up the type invariant.
LEMMA ParserStepType ==
  ASSUME TypeOK, Receives, ParserPart, StreamPart, RequestPart,
         lastFrame' \in LastFrame, settings' \in SettingsType,
         link' \in {"up", "down"}
  PROVE  TypeOK'
  BY ReceivesType DEF TypeOK, ParserPart, StreamPart, RequestPart, SettingsType,
                      InboxType, ConsumerType, ParserType

\* What stays as it was keeps its type.
LEMMA UnchangedType ==
  ASSUME TypeOK
  PROVE  /\ UNCHANGED streamVars => StreamPart
         /\ UNCHANGED requestVars => RequestPart
         /\ UNCHANGED lastFrame => lastFrame' \in LastFrame
         /\ UNCHANGED settings => settings' \in SettingsType
         /\ UNCHANGED link => link' \in {"up", "down"}
         /\ inbox \in InboxType
  BY DEF TypeOK, streamVars, requestVars, StreamPart, RequestPart, SettingsType,
         InboxType

-----------------------------------------------------------------------------
(* Each handler keeps the types.                                           *)

\* process() of the three frames that build a request.
LEMMA FinishType ==
  ASSUME TypeOK, Receives, NEW f, f.sid \in Sids,
         f.type \in {"HEADERS", "CONTINUATION", "DATA"},
         NEW r, r.stream \in Stream, r.ending \in Endings,
         Finish(f, r), UNCHANGED settings, UNCHANGED link
  PROVE  TypeOK'
<1>1. Found(f) # 0 /\ Found(f) \in Incarnations /\ Found(f) \in Object
  BY FoundType
<1>2. FindStream(f, r.stream)
  BY DEF Finish
<1>3. /\ heap' \in [Sids -> [Incarnations -> Stream]]
      /\ subscriber' \in [Sids -> Object] /\ reqCtx' \subseteq Sids
      /\ InboxAfterFind(f) \in InboxType
  BY <1>1, <1>2, FindStreamType DEF InboxType
<1>4. open' \in [Sids -> Object]
  <2>1. [open EXCEPT ![f.sid] = 0] \in [Sids -> Object]
    BY DEF TypeOK, Object
  <2>2. [open EXCEPT ![f.sid] = Found(f)] \in [Sids -> Object]
    BY <1>1 DEF TypeOK
  <2> QED BY <2>1, <2>2 DEF Finish, OpenAfter
<1>5. StreamPart
  BY <1>3, <1>4 DEF StreamPart
<1>6. ParserPart /\ RequestPart /\ lastFrame' \in LastFrame
  <2>1. CASE KeepStream(f, r)
    <3>1. ParserPart
      BY <2>1, <1>3, ProceedType DEF KeepStream, ParserPart
    <3> QED BY <3>1, <2>1, RememberType, UnchangedType DEF KeepStream
  <2>2. CASE QueueRequest(f, r)
    <3>1. ParserPart
      BY <2>2, <1>3, ProceedType DEF QueueRequest, ParserPart
    <3>2. [sid |-> f.sid, inc |-> Found(f)] \in RefSet
      BY <1>1 DEF RefSet
    <3>3. RequestPart
      BY <2>2, <1>1, <3>2 DEF QueueRequest, RequestPart, TypeOK
    <3> QED BY <3>1, <3>3, <2>2, RememberType DEF QueueRequest
  <2>3. CASE RefuseBlock(f, r)
    <3>1. GoAway(lastStreamId, "COMPRESSION_ERROR") \in ServerFrame
      BY ServerFrameType DEF ErrorCodes
    <3>2. ParserPart
      BY <2>3, <3>1, <1>3, ReplyType DEF RefuseBlock, ParserPart
    <3> QED BY <3>2, <2>3, RememberType, UnchangedType DEF RefuseBlock
  <2>4. CASE RefuseRequest(f, r)
    <3>1. GoAway(lastStreamId, "PROTOCOL_ERROR") \in ServerFrame
      BY ServerFrameType DEF ErrorCodes
    <3>2. ParserPart
      BY <2>4, <3>1, <1>3, ReplyToExceptionType DEF RefuseRequest, ParserPart
    <3> QED BY <3>2, <2>4, UnchangedType DEF RefuseRequest, requestVars
  <2>5. CASE CrashOnBody(f, r)
    <3>1. ParserPart
      BY <2>5, <1>3, BreakLoopType DEF CrashOnBody, ParserPart
    <3> QED BY <3>1, <2>5, UnchangedType DEF CrashOnBody, requestVars
  <2> QED BY <2>1, <2>2, <2>3, <2>4, <2>5 DEF Finish
<1> QED BY <1>5, <1>6, ParserStepType, UnchangedType

\* The verdicts are codes of the frames they are answered with.
LEMMA VerdictType ==
  ASSUME NEW f
  PROVE  /\ HeadersEarlyVerdict(f) \in ErrorCodes \cup {"ok"}
         /\ HeadersVerdict(f) \in ErrorCodes \cup {"ok"}
         /\ ContinuationVerdict(f) \in ErrorCodes \cup {"ok"}
         /\ DataVerdict(f) \in ErrorCodes \cup {"ok"}
<1>1. IsAllowedFrame(FoundStream(f), f.type) \in ErrorCodes \cup {"ok"}
  BY DEF IsAllowedFrame, ErrorCodes
<1>2. HeadersEarlyVerdict(f) \in ErrorCodes \cup {"ok"}
  BY DEF HeadersEarlyVerdict, ErrorCodes
<1>3. HeadersVerdict(f) \in ErrorCodes \cup {"ok"}
  BY <1>1 DEF HeadersVerdict, ErrorCodes
<1>4. ContinuationVerdict(f) \in ErrorCodes \cup {"ok"}
  BY <1>1 DEF ContinuationVerdict, ErrorCodes
<1>5. DataVerdict(f) \in ErrorCodes \cup {"ok"}
  BY <1>1 DEF DataVerdict, ErrorCodes
<1> QED BY <1>2, <1>3, <1>4, <1>5

\* A refused frame changes nothing beyond what find_stream and Refuse do.
LEMMA RefusedType ==
  ASSUME TypeOK, Receives, NEW f, f.sid \in Sids \/ f.type \notin {"HEADERS", "DATA"},
         NEW code \in ErrorCodes, NEW boxes \in InboxType, NEW subs,
         Refuse(f, code, boxes, subs),
         heap' \in [Sids -> [Incarnations -> Stream]],
         subscriber' \in [Sids -> Object], reqCtx' \subseteq Sids,
         UNCHANGED settings, UNCHANGED link
  PROVE  TypeOK'
<1>1. /\ ParserPart /\ lastFrame' \in LastFrame
      /\ canceled' \subseteq Sids /\ open' \in [Sids -> Object]
      /\ UNCHANGED <<processing, queue>>
  BY RefuseType DEF ParserPart
<1>2. StreamPart BY <1>1 DEF StreamPart
<1>3. RequestPart BY <1>1 DEF RequestPart, TypeOK
<1> QED BY <1>1, <1>2, <1>3, ParserStepType, UnchangedType

\* HEADERS.
LEMMA HandleHeadersType ==
  ASSUME TypeOK, NEW f \in Frame, HandleHeaders(f), UNCHANGED link
  PROVE  TypeOK'
<1>1. f \in HeadersFrame /\ f.sid \in Sids /\ f.type = "HEADERS"
  BY FrameFields, FrameSid DEF HandleHeaders, Violates
<1>2. Receives /\ UNCHANGED settings
  BY DEF HandleHeaders
<1>3. inbox \in InboxType /\ Found(f) # 0 /\ FoundStream(f) \in Stream
  BY <1>1, FoundType, UnchangedType
<1>4. CASE /\ HeadersEarlyVerdict(f) # "ok"
           /\ Refuse(f, HeadersEarlyVerdict(f), inbox, subscriber)
           /\ UNCHANGED <<heap, subscriber, reqCtx>>
  <2>1. HeadersEarlyVerdict(f) \in ErrorCodes BY <1>4, VerdictType
  <2>2. /\ heap' \in [Sids -> [Incarnations -> Stream]]
        /\ subscriber' \in [Sids -> Object] /\ reqCtx' \subseteq Sids
    BY <1>4 DEF TypeOK
  <2> QED BY <1>1, <1>2, <1>3, <1>4, <2>1, <2>2, RefusedType
<1>5. CASE /\ HeadersVerdict(f) # "ok"
           /\ FindStream(f, FoundStream(f))
           /\ Refuse(f, HeadersVerdict(f), InboxAfterFind(f), subscriber')
  <2>1. HeadersVerdict(f) \in ErrorCodes BY <1>5, VerdictType
  <2>2. /\ heap' \in [Sids -> [Incarnations -> Stream]]
        /\ subscriber' \in [Sids -> Object] /\ reqCtx' \subseteq Sids
        /\ InboxAfterFind(f) \in InboxType
    BY <1>1, <1>3, <1>5, FindStreamType DEF InboxType
  <2> QED BY <1>1, <1>2, <1>5, <2>1, <2>2, RefusedType
<1>6. CASE Finish(f, ProcessHeaders(FoundStream(f), f, f.endStream))
  <2>1. /\ f.fragment \in Fragments /\ f.endHeaders \in BOOLEAN
        /\ f.endStream \in BOOLEAN
    BY <1>1 DEF HeadersFrame
  <2>2. /\ ProcessHeaders(FoundStream(f), f, f.endStream).stream \in Stream
        /\ ProcessHeaders(FoundStream(f), f, f.endStream).ending \in Endings
    BY <1>3, <2>1, ProcessHeadersType
  <2> QED BY <1>1, <1>2, <1>6, <2>2, FinishType
<1> QED BY <1>4, <1>5, <1>6 DEF HandleHeaders

\* CONTINUATION.
LEMMA HandleContinuationType ==
  ASSUME TypeOK, NEW f \in Frame, HandleContinuation(f), UNCHANGED link
  PROVE  TypeOK'
<1>1. f \in ContinuationFrame /\ f.sid \in Sids /\ f.type = "CONTINUATION"
  BY FrameFields, FrameSid DEF HandleContinuation, Violates
<1>2. Receives /\ UNCHANGED settings
  BY DEF HandleContinuation
<1>3. inbox \in InboxType /\ Found(f) # 0 /\ FoundStream(f) \in Stream
  BY <1>1, FoundType, UnchangedType
<1>4. CASE /\ BreakLoop(inbox, subscriber)
           /\ UNCHANGED <<streamVars, requestVars, lastFrame>>
  <2>1. ParserPart BY <1>3, <1>4, BreakLoopType DEF ParserPart
  <2> QED BY <1>2, <1>4, <2>1, ParserStepType, UnchangedType
<1>5. CASE /\ ContinuationVerdict(f) # "ok"
           /\ Refuse(f, ContinuationVerdict(f), inbox, subscriber)
           /\ UNCHANGED <<heap, subscriber, reqCtx>>
  <2>1. ContinuationVerdict(f) \in ErrorCodes BY <1>5, VerdictType
  <2>2. /\ heap' \in [Sids -> [Incarnations -> Stream]]
        /\ subscriber' \in [Sids -> Object] /\ reqCtx' \subseteq Sids
    BY <1>5 DEF TypeOK
  <2> QED BY <1>1, <1>2, <1>3, <1>5, <2>1, <2>2, RefusedType
<1>6. CASE Finish(f, ProcessHeaders(FoundStream(f), f, FALSE))
  <2>1. f.fragment \in Fragments /\ f.endHeaders \in BOOLEAN
    BY <1>1 DEF ContinuationFrame
  <2>2. /\ ProcessHeaders(FoundStream(f), f, FALSE).stream \in Stream
        /\ ProcessHeaders(FoundStream(f), f, FALSE).ending \in Endings
    BY <1>3, <2>1, ProcessHeadersType
  <2> QED BY <1>1, <1>2, <1>6, <2>2, FinishType
<1> QED BY <1>4, <1>5, <1>6 DEF HandleContinuation

\* DATA.
LEMMA HandleDataType ==
  ASSUME TypeOK, NEW f \in Frame, HandleData(f), UNCHANGED link
  PROVE  TypeOK'
<1>1. f \in DataFrame /\ f.sid \in Sids /\ f.type = "DATA"
  BY FrameFields, FrameSid DEF HandleData, Violates
<1>2. Receives /\ UNCHANGED settings
  BY DEF HandleData
<1>3. Found(f) # 0 /\ FoundStream(f) \in Stream
  BY <1>1, FoundType
<1>4. CASE /\ DataVerdict(f) # "ok"
           /\ FindStream(f, FoundStream(f))
           /\ Refuse(f, DataVerdict(f), InboxAfterFind(f), subscriber')
  <2>1. DataVerdict(f) \in ErrorCodes BY <1>4, VerdictType
  <2>2. /\ heap' \in [Sids -> [Incarnations -> Stream]]
        /\ subscriber' \in [Sids -> Object] /\ reqCtx' \subseteq Sids
        /\ InboxAfterFind(f) \in InboxType
    BY <1>1, <1>3, <1>4, FindStreamType DEF InboxType
  <2> QED BY <1>1, <1>2, <1>4, <2>1, <2>2, RefusedType
<1>5. CASE Finish(f, ProcessData(FoundStream(f), f))
  <2>1. f.data \in Bodies /\ f.endStream \in BOOLEAN
    BY <1>1 DEF DataFrame
  <2>2. /\ ProcessData(FoundStream(f), f).stream \in Stream
        /\ ProcessData(FoundStream(f), f).ending \in Endings
    BY <1>3, <2>1, ProcessDataType
  <2> QED BY <1>1, <1>2, <1>5, <2>2, FinishType
<1> QED BY <1>4, <1>5 DEF HandleData

\* has_any_violation.
LEMMA ViolationType ==
  ASSUME TypeOK, NEW f \in Frame, UNCHANGED link,
         RefuseEvenStream(f) \/ RefuseStream(f) \/ RefuseOldStream(f)
  PROVE  TypeOK'
<1>1. inbox \in InboxType /\ GoAway(lastStreamId, "PROTOCOL_ERROR") \in ServerFrame
  BY UnchangedType, ServerFrameType DEF ErrorCodes
<1>2. CASE RefuseEvenStream(f) \/ RefuseOldStream(f)
  <2>1. ParserPart
    BY <1>1, <1>2, ReplyType DEF RefuseEvenStream, RefuseOldStream, ParserPart
  <2> QED BY <1>2, <2>1, ParserStepType, UnchangedType
          DEF RefuseEvenStream, RefuseOldStream
<1>3. CASE RefuseStream(f)
  <2>1. ParserPart
    BY <1>1, <1>3, BreakLoopType DEF RefuseStream, ParserPart
  <2>2. StreamPart
    BY <1>3, CancelType DEF RefuseStream, StreamPart, TypeOK
  <2> QED BY <1>3, <2>1, <2>2, ParserStepType, UnchangedType DEF RefuseStream
<1> QED BY <1>2, <1>3

\* RST_STREAM.
LEMMA HandleRstStreamType ==
  ASSUME TypeOK, NEW f \in Frame, HandleRstStream(f), UNCHANGED link
  PROVE  TypeOK'
<1>1. f.sid \in Sids /\ f.type = "RST_STREAM"
  BY FrameSid DEF HandleRstStream, Violates
<1>2. Receives /\ UNCHANGED settings /\ UNCHANGED <<subscriber, reqCtx>>
  BY DEF HandleRstStream
<1>3. inbox \in InboxType /\ "PROTOCOL_ERROR" \in ErrorCodes
      /\ GoAway(lastStreamId, "STREAM_CLOSED") \in ServerFrame
  BY UnchangedType, ServerFrameType DEF ErrorCodes
<1>4. subscriber' \in [Sids -> Object] /\ reqCtx' \subseteq Sids
  BY <1>2 DEF TypeOK
<1>5. CASE Found(f) = 0
  <2>1. heap' \in [Sids -> [Incarnations -> Stream]]
    BY <1>5 DEF HandleRstStream, TypeOK
  <2>2. Refuse(f, "PROTOCOL_ERROR", inbox, subscriber)
    BY <1>5 DEF HandleRstStream
  <2> QED BY <1>1, <1>2, <1>3, <1>4, <2>1, <2>2, RefusedType
<1>6. CASE Found(f) # 0
  <2>1. Found(f) \in Incarnations BY <1>1, <1>6, FoundType
  <2>2. CloseState(heap[f.sid][Found(f)]) \in Stream
    BY <1>1, <2>1, HeapType, StreamUpdateType
  <2>3. heap' = [heap EXCEPT ![f.sid][Found(f)] = CloseState(heap[f.sid][Found(f)])]
    BY <1>6 DEF HandleRstStream
  <2>4. heap' \in [Sids -> [Incarnations -> Stream]]
    <3> HIDE DEF CloseState, Found
    <3> QED BY <1>1, <2>1, <2>2, <2>3, HeapType
  <2>5. StreamPart
    BY <1>4, <1>6, <2>4, CancelType DEF HandleRstStream, StreamPart
  <2>6. ParserPart
    BY <1>3, <1>6, ReplyType DEF HandleRstStream, ParserPart
  <2> QED BY <1>2, <1>6, <2>5, <2>6, ParserStepType, UnchangedType DEF HandleRstStream
<1> QED BY <1>5, <1>6

\* PRIORITY and PING.
LEMMA HandlePriorityPingType ==
  ASSUME TypeOK, NEW f \in Frame, UNCHANGED link,
         HandlePriority(f) \/ HandlePing(f)
  PROVE  TypeOK'
<1>1. /\ inbox \in InboxType /\ PingAck \in ServerFrame
      /\ GoAway(lastStreamId, "PROTOCOL_ERROR") \in ServerFrame
  BY UnchangedType, ServerFrameType DEF ErrorCodes
<1>2. CASE HandlePriority(f)
  <2>1. ParserPart
    BY <1>1, <1>2, ReplyType, ProceedType DEF HandlePriority, ParserPart
  <2>2. RequestPart
    BY <1>2, CancelType DEF HandlePriority, RequestPart, TypeOK
  <2> QED BY <1>2, <2>1, <2>2, ParserStepType, UnchangedType DEF HandlePriority
<1>3. CASE HandlePing(f)
  <2>1. ParserPart
    BY <1>1, <1>3, ReplyType, ProceedType DEF HandlePing, ParserPart
  <2> QED BY <1>3, <2>1, ParserStepType, UnchangedType DEF HandlePing
<1> QED BY <1>2, <1>3

\* Extension frames: process() may make a stream for the last frame.
LEMMA HandleExtensionType ==
  ASSUME TypeOK, NEW f \in Frame, HandleExtension(f), UNCHANGED link
  PROVE  TypeOK'
<1>1. Receives /\ UNCHANGED settings /\ f.type = "EXTENSION"
  BY DEF HandleExtension
<1>2. inbox \in InboxType /\ "PROTOCOL_ERROR" \in ErrorCodes
  BY UnchangedType DEF ErrorCodes
<1>3. CASE /\ Refuse(f, "PROTOCOL_ERROR", inbox, subscriber)
           /\ UNCHANGED <<heap, subscriber, reqCtx>>
  <2>1. /\ heap' \in [Sids -> [Incarnations -> Stream]]
        /\ subscriber' \in [Sids -> Object] /\ reqCtx' \subseteq Sids
    BY <1>3 DEF TypeOK
  <2> QED BY <1>1, <1>2, <1>3, <2>1, RefusedType
<1>4. CASE /\ lastFrame # NoFrame
           /\ FindStream(lastFrame, LastStream)
           /\ open' = [open EXCEPT ![lastFrame.sid] = Found(lastFrame)]
           /\ Proceed(InboxAfterFind(lastFrame)) /\ wire' = <<>>
           /\ UNCHANGED <<consumer, requestVars, lastFrame>>
  <2>1. lastFrame.sid \in Sids /\ lastFrame.type \in {"HEADERS", "DATA"}
    BY <1>4 DEF TypeOK, LastFrame
  <2>2. Found(lastFrame) # 0 /\ Found(lastFrame) \in Object /\ LastStream \in Stream
    BY <2>1, FoundType DEF LastStream
  <2>3. /\ heap' \in [Sids -> [Incarnations -> Stream]]
        /\ subscriber' \in [Sids -> Object] /\ reqCtx' \subseteq Sids
        /\ InboxAfterFind(lastFrame) \in InboxType
    BY <1>4, <2>1, <2>2, FindStreamType DEF InboxType
  <2>4. StreamPart
    BY <1>4, <2>1, <2>2, <2>3 DEF StreamPart, TypeOK
  <2>5. ParserPart
    BY <1>4, <2>3, ProceedType DEF ParserPart
  <2> QED BY <1>1, <1>4, <2>4, <2>5, ParserStepType, UnchangedType
<1>5. CASE /\ Proceed(inbox) /\ wire' = <<>>
           /\ UNCHANGED <<streamVars, consumer, requestVars, lastFrame>>
  <2>1. ParserPart BY <1>2, <1>5, ProceedType DEF ParserPart
  <2> QED BY <1>1, <1>5, <2>1, ParserStepType, UnchangedType
<1> QED BY <1>3, <1>4, <1>5 DEF HandleExtension

\* WINDOW_UPDATE for the connection.
LEMMA HandleConnectionWindowType ==
  ASSUME TypeOK, NEW f \in Frame, HandleConnectionWindow(f), UNCHANGED link
  PROVE  TypeOK'
<1>1. Receives /\ UNCHANGED <<streamVars, requestVars, lastFrame>>
  BY DEF HandleConnectionWindow
<1>2. /\ inbox \in InboxType /\ GoAway(0, "FLOW_CONTROL_ERROR") \in ServerFrame
      /\ Publish(inbox, subscriber, "wake") \in InboxType
  BY UnchangedType, ServerFrameType, PublishType DEF ErrorCodes, Tokens
<1>3. ParserPart
  BY <1>2, ReplyToExceptionType, ProceedType DEF HandleConnectionWindow, ParserPart
<1>4. settings' \in SettingsType
  <2>1. f \in WindowUpdateFrame
    BY FrameFields DEF HandleConnectionWindow
  <2>2. settings \in SettingsType /\ f.increment \in Int
    BY <2>1, MaxWindowAssumption DEF TypeOK, SettingsType, WindowUpdateFrame
  <2> QED BY <2>2 DEF HandleConnectionWindow, SettingsType
<1> QED BY <1>1, <1>3, <1>4, ParserStepType, UnchangedType

\* The exception of an overflowing window.
LEMMA ResetFirstStreamType ==
  ASSUME TypeOK, NEW boxes \in InboxType, ResetFirstStream(boxes),
         UNCHANGED <<processing, queue>>
  PROVE  ParserPart /\ RequestPart
<1>1. ParserPart
  BY ServerFrameType, ReplyToExceptionType DEF ResetFirstStream, ParserPart
<1>2. RequestPart
  BY CancelType DEF ResetFirstStream, RequestPart, TypeOK
<1> QED BY <1>1, <1>2

\* WINDOW_UPDATE for a stream.
LEMMA HandleStreamWindowType ==
  ASSUME TypeOK, NEW f \in Frame, HandleStreamWindow(f), UNCHANGED link
  PROVE  TypeOK'
<1>1. /\ Receives /\ UNCHANGED settings /\ UNCHANGED <<subscriber, reqCtx>>
      /\ f.type = "WINDOW_UPDATE" /\ f.sid \in Sids /\ f \in WindowUpdateFrame
  BY FrameFields, FrameSid DEF HandleStreamWindow, Violates
<1>2. inbox \in InboxType /\ "PROTOCOL_ERROR" \in ErrorCodes
  BY UnchangedType DEF ErrorCodes
<1>3. subscriber' \in [Sids -> Object] /\ reqCtx' \subseteq Sids
  BY <1>1 DEF TypeOK
<1>4. CASE /\ Refuse(f, "PROTOCOL_ERROR", inbox, subscriber)
           /\ UNCHANGED heap
  <2>1. heap' \in [Sids -> [Incarnations -> Stream]] BY <1>4 DEF TypeOK
  <2> QED BY <1>1, <1>2, <1>3, <1>4, <2>1, RefusedType
<1>5. CASE /\ BreakLoop(inbox, subscriber)
           /\ UNCHANGED <<heap, open, requestVars, lastFrame>>
  <2>1. ParserPart BY <1>2, <1>5, BreakLoopType DEF ParserPart
  <2> QED BY <1>1, <1>5, <2>1, ParserStepType, UnchangedType DEF streamVars
<1>6. CASE /\ ResetFirstStream(inbox)
           /\ UNCHANGED <<heap, open, processing, queue, lastFrame>>
  <2>1. ParserPart /\ RequestPart BY <1>2, <1>6, ResetFirstStreamType
  <2> QED BY <1>1, <1>6, <2>1, ParserStepType, UnchangedType DEF streamVars
<1>7. CASE /\ Found(f) # 0
           /\ heap' = [heap EXCEPT ![f.sid][Found(f)] = UpdateWindow(@, f.increment)]
           /\ BreakLoop(inbox, subscriber)
           /\ UNCHANGED <<open, requestVars, lastFrame>>
  <2>1. ParserPart BY <1>2, <1>7, BreakLoopType DEF ParserPart
  <2>2. Found(f) \in Incarnations /\ f.increment \in Int
    BY <1>1, <1>7, FoundType, MaxWindowAssumption DEF WindowUpdateFrame
  <2>3. UpdateWindow(heap[f.sid][Found(f)], f.increment) \in Stream
    BY <1>1, <2>2, HeapType, StreamUpdateType
  <2>4. StreamPart
    BY <1>1, <1>3, <1>7, <2>2, <2>3 DEF StreamPart, TypeOK
  <2> QED BY <1>1, <1>7, <2>1, <2>4, ParserStepType, UnchangedType
<1> QED BY <1>4, <1>5, <1>6, <1>7 DEF HandleStreamWindow

\* SETTINGS: the new window is given to the streams that are not open.
LEMMA ApplyWindowType ==
  ASSUME TypeOK, NEW w \in Int
  PROVE  ApplyWindow(w) \in [Sids -> [Incarnations -> Stream]]
<1> SUFFICES ASSUME NEW sid \in Sids, sid \in WindowsReached(w)
             PROVE  [heap[sid] EXCEPT ![processing[sid]] = UpdateWindow(@, w)]
                      \in [Incarnations -> Stream]
  BY DEF ApplyWindow, TypeOK
<1>1. processing[sid] \in Incarnations
  BY DEF WindowsReached, TypeOK, Object, Incarnations
<1>2. UpdateWindow(heap[sid][processing[sid]], w) \in Stream
  BY <1>1, HeapType, StreamUpdateType
<1>3. heap[sid] \in [Incarnations -> Stream]
  BY DEF TypeOK
<1> QED BY <1>1, <1>2, <1>3

\* Settings that are well formed stay in their types.
LEMMA UpdateSettingsType ==
  ASSUME TypeOK, NEW f \in SettingsFrame
  PROVE  UpdateSettings(f) \in SettingsType
<1>1. /\ f.window \in Nat \cup {Absent} /\ f.maxStreams \in Nat \cup {Absent}
      /\ f.maxFrame \in Sizes \cup {Absent}
  BY DEF SettingsFrame
<1>2. OrElse(f.window, settings.connectionWindow) \in Int
  BY <1>1 DEF OrElse, TypeOK
<1>3. OrElse(f.maxStreams, settings.maxStreams) \in Nat
  BY <1>1 DEF OrElse, TypeOK
<1>4. OrElse(f.maxFrame, settings.maxFrame) \in Sizes
  BY <1>1 DEF OrElse, TypeOK
<1> QED BY <1>2, <1>3, <1>4 DEF UpdateSettings, SettingsType

\* SETTINGS.
LEMMA HandleSettingsType ==
  ASSUME TypeOK, NEW f \in Frame, HandleSettings(f), UNCHANGED link
  PROVE  TypeOK'
<1>1. /\ Receives /\ f.type = "SETTINGS" /\ f \in SettingsFrame
      /\ UNCHANGED <<open, subscriber, reqCtx, processing, queue, lastFrame>>
  BY FrameFields DEF HandleSettings
<1>2. /\ inbox \in InboxType /\ Publish(inbox, subscriber, "wake") \in InboxType
      /\ GoAway(0, "FLOW_CONTROL_ERROR") \in ServerFrame
      /\ GoAway(0, "PROTOCOL_ERROR") \in ServerFrame /\ SettingsAck \in ServerFrame
  BY UnchangedType, ServerFrameType, PublishType DEF ErrorCodes, Tokens
<1>3. f.window # Absent => f.window \in Int
  BY <1>1 DEF SettingsFrame
<1>4. CASE /\ Proceed(inbox) /\ wire' = <<>>
           /\ UNCHANGED <<heap, canceled, settings, consumer>>
  <2>1. ParserPart BY <1>2, <1>4, ProceedType DEF ParserPart
  <2> QED BY <1>1, <1>4, <2>1, ParserStepType, UnchangedType DEF streamVars, requestVars
<1>5. CASE /\ ReplyToException(GoAway(0, "FLOW_CONTROL_ERROR"), inbox)
           /\ UNCHANGED <<heap, canceled, settings>>
  <2>1. ParserPart BY <1>2, <1>5, ReplyToExceptionType DEF ParserPart
  <2> QED BY <1>1, <1>5, <2>1, ParserStepType, UnchangedType DEF streamVars, requestVars
<1>6. CASE /\ f.window # Absent /\ heap' = ApplyWindow(f.window)
           /\ ResetFirstStream(inbox) /\ UNCHANGED settings
  <2>1. ParserPart /\ RequestPart BY <1>1, <1>2, <1>6, ResetFirstStreamType
  <2>2. StreamPart BY <1>1, <1>3, <1>6, ApplyWindowType DEF StreamPart, TypeOK
  <2> QED BY <1>1, <1>6, <2>1, <2>2, ParserStepType, UnchangedType
<1>7. CASE /\ heap' = IF f.window # Absent THEN ApplyWindow(f.window) ELSE heap
           /\ UNCHANGED canceled
           /\ LET woken == Publish(inbox, subscriber, "wake") IN
              IF f.wellFormed
              THEN /\ settings' = UpdateSettings(f)
                   /\ Reply(SettingsAck, woken, subscriber)
              ELSE /\ UNCHANGED settings
                   /\ ReplyToException(GoAway(0, "PROTOCOL_ERROR"), woken)
  <2>1. heap' \in [Sids -> [Incarnations -> Stream]]
    BY <1>3, <1>7, ApplyWindowType DEF TypeOK
  <2>2. StreamPart BY <1>1, <2>1 DEF StreamPart, TypeOK
  <2>3. RequestPart BY <1>1, <1>7, UnchangedType DEF requestVars
  <2>4. ParserPart BY <1>2, <1>7, ReplyType, ReplyToExceptionType DEF ParserPart
  <2>5. settings' \in SettingsType BY <1>1, <1>7, UpdateSettingsType, UnchangedType
  <2> QED BY <1>1, <2>2, <2>3, <2>4, <2>5, ParserStepType, UnchangedType
<1> QED BY <1>4, <1>5, <1>6, <1>7 DEF HandleSettings

\* A frame was handled.
LEMMA HandleFrameType == ASSUME TypeOK, HandleFrame PROVE TypeOK'
<1>1. PICK f \in Incoming :
        \/ RefuseEvenStream(f) \/ RefuseStream(f) \/ RefuseOldStream(f)
        \/ HandleHeaders(f) \/ HandleContinuation(f) \/ HandleData(f)
        \/ HandleRstStream(f) \/ HandlePriority(f) \/ HandlePing(f)
        \/ HandleExtension(f) \/ HandleConnectionWindow(f)
        \/ HandleStreamWindow(f) \/ HandleSettings(f) \/ HandleEndingFrame(f)
  BY DEF HandleFrame
<1>2. f \in Frame /\ UNCHANGED link
  BY IncomingFrame DEF TypeOK, HandleFrame
<1>3. CASE HandleEndingFrame(f)
  <2>1. ParserPart
    BY <1>3, UnchangedType, BreakLoopType DEF HandleEndingFrame, ParserPart
  <2> QED BY <1>2, <1>3, <2>1, ParserStepType, UnchangedType DEF HandleEndingFrame
<1> QED BY <1>1, <1>2, <1>3, ViolationType, HandleHeadersType, HandleContinuationType,
           HandleDataType, HandleRstStreamType, HandlePriorityPingType,
           HandleExtensionType, HandleConnectionWindowType,
           HandleStreamWindowType, HandleSettingsType

\* A read ended without a frame.
LEMMA ReadType ==
  ASSUME TypeOK, AwaitBody \/ RefuseBody \/ StopReading \/ RefuseFrameHeader
  PROVE  TypeOK'
<1>1. /\ Receives /\ UNCHANGED <<streamVars, requestVars, lastFrame, settings>>
      /\ link' \in {"up", "down"}
  BY DEF AwaitBody, RefuseBody, StopReading, RefuseFrameHeader, Reads, TypeOK
<1>2. inbox \in InboxType BY UnchangedType
<1>3. ParserPart
  <2>1. CASE AwaitBody
    BY <1>2, <2>1 DEF AwaitBody, ParserPart, ParserType, ConsumerType, TypeOK
  <2>2. CASE RefuseBody
    <3>1. PICK code \in {"PROTOCOL_ERROR", "FRAME_SIZE_ERROR"} :
            ReplyToException(GoAway(lastStreamId, code), inbox)
      BY <2>2 DEF RefuseBody
    <3>2. GoAway(lastStreamId, code) \in ServerFrame
      BY ServerFrameType DEF ErrorCodes
    <3> QED BY <1>2, <3>1, <3>2, ReplyToExceptionType DEF ParserPart
  <2>3. CASE StopReading
    BY <1>2, <2>3, BreakLoopType DEF StopReading, ParserPart
  <2>4. CASE RefuseFrameHeader
    <3>1. Publish(inbox, subscriber, "term") \in InboxType
      BY <1>2, PublishType DEF Tokens
    <3>2. GoAway(0, "PROTOCOL_ERROR") \in ServerFrame
      BY ServerFrameType DEF ErrorCodes
    <3>3. <<GoAway(0, "PROTOCOL_ERROR")>> \in Seq(ServerFrame)
      BY <3>2
    <3> QED BY <2>4, <3>1, <3>3
            DEF RefuseFrameHeader, Stop, ParserPart, ParserType, ConsumerType, TypeOK
  <2> QED BY <2>1, <2>2, <2>3, <2>4
<1> QED BY <1>1, <1>3, ParserStepType, UnchangedType

-----------------------------------------------------------------------------
(* The consumer.                                                           *)

\* The task ends: nothing but the consumer's own state changes.
LEMMA ConsumerEndsType ==
  ASSUME TypeOK, ConsumerStep, consumer' = [Idle EXCEPT !.pc = "done"], wire' = <<>>,
         UNCHANGED <<heap, subscriber, inbox, requestVars, closedVars,
                     lastStreamId, settings>>
  PROVE  TypeOK'
<1>1. consumer' \in ConsumerType BY IdleType
<1>2. wire' \in Seq(ServerFrame) OBVIOUS
<1> QED BY <1>1, <1>2 DEF TypeOK, ConsumerStep, requestVars, closedVars, ConsumerType

\* The first element of a queue that is not empty, and the others.
LEMMA QueueType ==
  ASSUME TypeOK, queue # <<>>
  PROVE  /\ Head(queue) \in RefSet /\ Head(queue).sid \in Sids
         /\ Head(queue).inc \in Incarnations
         /\ Tail(queue) \in Seq(RefSet)
<1>1. queue \in Seq(RefSet) BY DEF TypeOK
<1>2. Head(queue) \in RefSet /\ Tail(queue) \in Seq(RefSet) BY <1>1
<1> QED BY <1>2 DEF RefSet

\* A request leaves the queue.
LEMMA TakeRequestType == ASSUME TypeOK, DropCanceled \/ Dispatch PROVE TypeOK'
<1>1. queue # <<>> BY DEF DropCanceled, Dispatch
<1>2. /\ Head(queue).sid \in Sids /\ Head(queue).inc \in Incarnations
      /\ Tail(queue) \in Seq(RefSet) /\ <<>> \in Seq(ServerFrame)
  BY <1>1, QueueType
<1>3. CASE DropCanceled
  BY <1>2, <1>3 DEF DropCanceled, ConsumerStep, closedVars, TypeOK, Object
<1>4. CASE Dispatch
  <2>1. [pc |-> "dispatch", sid |-> Head(queue).sid, inc |-> Head(queue).inc,
         size |-> 0] \in ConsumerType
    BY <1>2 DEF ConsumerType, ConsumerStates, Object, Incarnations
  <2>2. consumer' \in ConsumerType
    BY <1>4, <2>1, IdleType DEF Dispatch
  <2> QED BY <1>2, <1>4, <2>2 DEF Dispatch, ConsumerStep, closedVars, TypeOK, ConsumerType
<1> QED BY <1>3, <1>4

\* What a response writes and how it leaves the consumer.
LEMMA SendType ==
  ASSUME TypeOK, RunningRequest, NEW size \in Nat,
         consumer.pc \in {"dispatch", "window"}
  PROVE  /\ SendData(size) => settings' \in SettingsType /\ consumer' \in ConsumerType
         /\ AwaitWindow(size) => /\ settings' \in SettingsType
                                 /\ consumer' \in ConsumerType
                                 /\ inbox' \in InboxType
         /\ [consumer EXCEPT !.pc = "drain"] \in ConsumerType
         /\ <<ResponseData(consumer.sid, size)>> \in Seq(ServerFrame)
         /\ <<ResponseHeaders(consumer.sid)>> \in Seq(ServerFrame)
         /\ <<ResponseHeaders(consumer.sid), ResponseData(consumer.sid, size)>>
               \in Seq(ServerFrame)
<1>1. consumer.sid \in Sids /\ consumer.inc \in Incarnations
  BY DEF RunningRequest, IsRunning
<1>2. consumer \in ConsumerType /\ settings \in SettingsType /\ inbox \in InboxType
  BY DEF TypeOK, ConsumerType, SettingsType, InboxType
<1>3. SendData(size) => settings' \in SettingsType /\ consumer' \in ConsumerType
  <2>1. [settings EXCEPT !.connectionWindow = @ - size] \in SettingsType
    BY <1>2 DEF SettingsType
  <2>2. [consumer EXCEPT !.pc = "drain", !.size = size] \in ConsumerType
    BY <1>2 DEF ConsumerType, ConsumerStates
  <2> QED BY <2>1, <2>2 DEF SendData
<1>4. AwaitWindow(size) => settings' \in SettingsType /\ consumer' \in ConsumerType
  BY <1>2 DEF AwaitWindow, ConsumerType, ConsumerStates
<1>5. AwaitWindow(size) => inbox' \in InboxType
  BY <1>1, <1>2 DEF AwaitWindow, InboxType
<1>6. [consumer EXCEPT !.pc = "drain"] \in ConsumerType
  BY <1>2 DEF ConsumerType, ConsumerStates
<1>7. ResponseData(consumer.sid, size) \in ServerFrame
      /\ ResponseHeaders(consumer.sid) \in ServerFrame
  BY <1>1 DEF ResponseData, ResponseHeaders, ServerFrame
<1> QED BY <1>3, <1>4, <1>5, <1>6, <1>7

\* send_response up to the final drain.
LEMMA RespondType ==
  ASSUME TypeOK, RunningRequest, (\E size \in ResponseSizes : Respond(size)) \/ WakeUp
  PROVE  TypeOK'
<1>1. /\ ConsumerStep
      /\ UNCHANGED <<heap, subscriber, requestVars, closedVars, lastStreamId>>
  BY DEF Respond, WakeUp
<1>2. /\ settings' \in SettingsType /\ consumer' \in ConsumerType
      /\ inbox' \in InboxType /\ wire' \in Seq(ServerFrame)
  <2>1. inbox \in InboxType /\ settings \in SettingsType /\ <<>> \in Seq(ServerFrame)
    BY DEF TypeOK, InboxType, SettingsType
  <2>2. CASE \E size \in ResponseSizes : Respond(size)
    <3>1. PICK size \in ResponseSizes : Respond(size) BY <2>2
    <3>2. size \in Nat BY LimitsAssumption
    <3> QED BY <2>1, <3>1, <3>2, SendType DEF Respond
  <2>3. CASE WakeUp
    <3>1. consumer.size \in Nat /\ consumer.pc = "window" BY <2>3 DEF WakeUp, TypeOK
    <3> QED BY <2>1, <2>3, <3>1, SendType DEF WakeUp
  <2> QED BY <2>2, <2>3
<1> QED BY <1>1, <1>2 DEF TypeOK, ConsumerStep, requestVars, closedVars,
                          SettingsType, ConsumerType, InboxType

\* add_closed_stream: the deque is not empty when the ids in it are counted.
LEMMA AddClosedType ==
  ASSUME TypeOK, ClosedBounded, NEW sid \in Sids, AddClosed(sid)
  PROVE  closed' \subseteq Sids /\ closedDeque' \in Seq(Sids)
<1> DEFINE full == Cardinality(closed) >= CompletedQueSize
<1>1. full => closedDeque # <<>>
  BY LimitsAssumption DEF ClosedBounded, TypeOK
<1>2. (IF full THEN Tail(closedDeque) ELSE closedDeque) \in Seq(Sids)
  BY <1>1 DEF TypeOK
<1>3. closedDeque' \in Seq(Sids)
  BY <1>2 DEF AddClosed
<1>4. closed' \subseteq Sids
  BY DEF AddClosed, TypeOK
<1> QED BY <1>3, <1>4

\* The final drain and what follows it.
LEMMA CompleteResponseType ==
  ASSUME TypeOK, RunningRequest, ClosedBounded, CompleteResponse
  PROVE  TypeOK'
<1>1. consumer.sid \in Sids /\ consumer.inc \in Incarnations
  BY DEF CompleteResponse, RunningRequest, IsRunning
<1>2. CloseState(Current) \in Stream
  BY <1>1, HeapType, StreamUpdateType DEF Current
<1>3. heap' \in [Sids -> [Incarnations -> Stream]]
  BY <1>1, <1>2, HeapType DEF CompleteResponse, Current
<1>4. ASSUME NEW g \in [Sids -> Object]
      PROVE  [g EXCEPT ![consumer.sid] = 0] \in [Sids -> Object]
  <2>1. 0 \in Object BY DEF Object
  <2> QED BY <1>1, <2>1
<1>8. subscriber \in [Sids -> Object] /\ processing \in [Sids -> Object]
  BY DEF TypeOK
<1>9. subscriber' \in [Sids -> Object] /\ processing' \in [Sids -> Object]
  <2>1. subscriber' = [subscriber EXCEPT ![consumer.sid] = 0]
    BY DEF CompleteResponse
  <2>2. processing' = [processing EXCEPT ![consumer.sid] = 0] \/ processing' = processing
    BY DEF CompleteResponse
  <2> QED BY <1>4, <1>8, <2>1, <2>2
<1>5. closed' \subseteq Sids /\ closedDeque' \in Seq(Sids)
  <2>1. CASE subscriber[consumer.sid] # 0
    BY <1>1, <2>1, AddClosedType DEF CompleteResponse
  <2>2. CASE subscriber[consumer.sid] = 0
    BY <2>2 DEF CompleteResponse, closedVars, TypeOK
  <2> QED BY <2>1, <2>2
<1>6. consumer' \in ConsumerType /\ wire' \in Seq(ServerFrame)
  BY IdleType DEF CompleteResponse
<1>7. /\ ConsumerStep
      /\ UNCHANGED <<inbox, queue, canceled, lastStreamId, settings>>
  BY DEF CompleteResponse
<1> QED BY <1>3, <1>4, <1>5, <1>6, <1>7, <1>9 DEF TypeOK, ConsumerStep, ConsumerType

\* Every step keeps the types.
LEMMA NextType ==
  ASSUME TypeOK, RequestInvariant, [Next]_vars
  PROVE  TypeOK'
<1>1. RunningRequest /\ ClosedBounded BY DEF RequestInvariant
<1>2. CASE ParserStep
  BY <1>2, HandleFrameType, ReadType DEF ParserStep
<1>3. CASE ConsumeStream
  <2>1. CASE EndConsumer \/ FailDispatch \/ FailDrain
    BY <2>1, ConsumerEndsType DEF EndConsumer, FailDispatch, FailDrain
  <2> QED BY <1>1, <1>3, <2>1, TakeRequestType, RespondType, CompleteResponseType
          DEF ConsumeStream
<1>4. CASE LoseConnection
  BY <1>4 DEF LoseConnection, TypeOK, streamVars, requestVars, closedVars, parserVars
<1>5. CASE UNCHANGED vars
  BY <1>5 DEF TypeOK, vars, streamVars, requestVars, closedVars, parserVars
<1> QED BY <1>2, <1>3, <1>4, <1>5 DEF Next, Finished

\* The initial state has the types.
LEMMA InitType == ASSUME Init PROVE TypeOK
<1>1. InitialWindow \in Int BY LimitsAssumption, MaxWindowAssumption
<1>2. NewStream(InitialWindow) \in Stream BY <1>1, NewStreamType
<1>3. /\ heap \in [Sids -> [Incarnations -> Stream]]
      /\ inbox \in [Sids -> [Incarnations -> SUBSET Tokens]]
      /\ open \in [Sids -> Object] /\ processing \in [Sids -> Object]
      /\ subscriber \in [Sids -> Object]
  BY <1>2 DEF Init, Object
<1>4. settings \in SettingsType
  BY <1>1, LimitsAssumption DEF Init, SettingsType, Sizes
<1>5. upgrade \in Seq(Frame)
  BY FramesAssumption DEF Init
<1>6. consumer \in ConsumerType
  BY IdleType DEF Init
<1> QED BY <1>3, <1>4, <1>5, <1>6
        DEF Init, TypeOK, LastFrame, SettingsType, ConsumerType
=============================================================================
