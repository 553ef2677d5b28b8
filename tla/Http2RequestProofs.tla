------------------------- MODULE Http2RequestProofs -------------------------
(***************************************************************************)
(* RequestsComplete: what the endpoint gets is whole, legal and readable.  *)
(* The proof follows the stream objects: what process() makes of one, that *)
(* a frame only reaches the object of a waiting or running request through *)
(* methods that leave the request in it alone, and that a new object never *)
(* takes the place of such a one.                                          *)
(***************************************************************************)
EXTENDS Http2SafetyProofs

-----------------------------------------------------------------------------
(* One object.                                                             *)

\* The part of an object that a request is made of is the same in s and t.
SameRequest(s, t) ==
  /\ t.headerStatus = s.headerStatus /\ t.streamStatus = s.streamStatus
  /\ t.rawHeaders = s.rawHeaders /\ t.hasLength = s.hasLength
  /\ t.rawBody = s.rawBody

\* Equal parts make equal requests.
LEMMA SameRequestHolds ==
  ASSUME NEW s, NEW t, SameRequest(s, t)
  PROVE  /\ HoldsRequest(s) => HoldsRequest(t)
         /\ BlockDecoded(s) => BlockDecoded(t)
  BY DEF SameRequest, HoldsRequest, BlockDecoded

\* close_state and update_window do not touch the request.
LEMMA StateAndWindow ==
  ASSUME NEW s \in Stream
  PROVE  /\ SameRequest(s, CloseState(s))
         /\ \A w : SameRequest(s, UpdateWindow(s, w))
  BY DEF Stream, SameRequest, CloseState, UpdateWindow

\* A new object has no header block yet.
LEMMA NewStreamDecoded == ASSUME NEW w PROVE BlockDecoded(NewStream(w))
  BY DEF BlockDecoded, NewStream

\* Bytes that were received leave a block that is not empty.
LEMMA ExtendedBlock ==
  ASSUME NEW b \in Blocks, NEW x \in Fragments
  PROVE  ExtendBlock(b, x) # "empty"
  BY DEF ExtendBlock, Blocks, Fragments

(***************************************************************************)
(* process() of HEADERS and CONTINUATION: the block is only ever marked    *)
(* done when it was decoded and is legal, and what completed_partial_      *)
(* stream hands on is a whole request without a content-length.            *)
(***************************************************************************)
LEMMA ProcessHeadersDecodes ==
  ASSUME NEW s \in Stream, NEW f, f.fragment \in Fragments,
         f.endHeaders \in BOOLEAN, NEW endStream \in BOOLEAN,
         NEW r, r = ProcessHeaders(s, f, endStream)
  PROVE  /\ BlockDecoded(r.stream)
         /\ r.ending = "complete" => HoldsRequest(r.stream)
<1> DEFINE received == UpdateRawHeaders(s, f.fragment)
           ended    == IF endStream THEN CompleteStream(received) ELSE received
           decoded  == IF f.endHeaders THEN CompleteHeaders(ended) ELSE ended
<1>1. received \in Stream /\ received.headerStatus = "UPDATING"
      /\ received.rawHeaders # "empty"
  BY StreamUpdateType, ExtendedBlock DEF UpdateRawHeaders, Stream
<1>2. /\ ended \in Stream /\ ended.headerStatus = "UPDATING"
      /\ ended.rawHeaders = received.rawHeaders
  <2> HIDE DEF received
  <2> QED BY <1>1, StreamUpdateType DEF CompleteStream, Stream
<1>3. BlockDecoded(received) /\ BlockDecoded(ended)
  BY <1>1, <1>2 DEF BlockDecoded
<1>4. ASSUME f.endHeaders => ended.rawHeaders \notin {"undecodable", "invalid"}
      PROVE  /\ BlockDecoded(decoded)
             /\ IsComplete(decoded) /\ CompletionOutcome(decoded) = "ok"
                  => HoldsRequest(decoded)
  <2> HIDE DEF received, ended
  <2>1. CASE ~f.endHeaders
    <3>1. decoded = ended BY <2>1
    <3> QED BY <1>2, <1>3, <3>1 DEF IsComplete
  <2>2. CASE f.endHeaders
    <3>1. decoded = CompleteHeaders(ended) /\ ended.rawHeaders \in {"valid", "validWithLength"}
      BY <1>1, <1>2, <1>4, <2>2 DEF Stream, Blocks
    <3>2. /\ decoded.rawHeaders = ended.rawHeaders
          /\ decoded.hasLength = (ended.hasLength \/ ended.rawHeaders = "validWithLength")
          /\ decoded.rawBody = ended.rawBody /\ ended.rawBody \in Bodies
      BY <1>2, <3>1 DEF CompleteHeaders, Stream
    <3> HIDE DEF decoded
    <3>3. BlockDecoded(decoded) BY <3>1, <3>2 DEF BlockDecoded
    <3>4. ASSUME IsComplete(decoded), CompletionOutcome(decoded) = "ok"
          PROVE  HoldsRequest(decoded)
      BY <3>1, <3>2, <3>4 DEF IsComplete, CompletionOutcome, HoldsRequest, Bodies
    <3> QED BY <3>3, <3>4
  <2> QED BY <2>1, <2>2
<1>5. r = IF endStream /\ CompletionOutcome(received) # "ok"
          THEN Result(received, CompletionOutcome(received))
          ELSE IF f.endHeaders /\ ended.rawHeaders = "undecodable"
          THEN Result(ended, "compression")
          ELSE IF f.endHeaders /\ ended.rawHeaders = "invalid"
          THEN Result(ended, "bad_data")
          ELSE IF ~IsComplete(decoded) THEN Result(decoded, "kept")
          ELSE IF CompletionOutcome(decoded) = "ok"
          THEN Result(decoded, "complete") ELSE Result(decoded, "lost")
  BY DEF ProcessHeaders
<1>6. CompletionOutcome(received) \in {"ok", "bad_data", "crash"}
  BY DEF CompletionOutcome
<1> HIDE DEF received, ended, decoded
<1>7. CASE endStream /\ CompletionOutcome(received) # "ok"
  <2>1. r = Result(received, CompletionOutcome(received)) BY <1>5, <1>7
  <2>2. r.stream = received /\ r.ending = CompletionOutcome(received)
    BY <2>1 DEF Result
  <2>3. r.ending # "complete" BY <1>6, <2>2
  <2> QED BY <1>3, <2>2, <2>3
<1>8. CASE f.endHeaders /\ ended.rawHeaders \in {"undecodable", "invalid"}
  <2>1. \/ r = Result(received, CompletionOutcome(received))
           /\ CompletionOutcome(received) # "ok"
        \/ r = Result(ended, "compression") \/ r = Result(ended, "bad_data")
    BY <1>5, <1>8
  <2>2. BlockDecoded(r.stream) /\ r.ending # "complete"
    BY <1>3, <1>6, <2>1 DEF Result
  <2> QED BY <2>2
<1>9. CASE /\ ~(endStream /\ CompletionOutcome(received) # "ok")
           /\ ~(f.endHeaders /\ ended.rawHeaders \in {"undecodable", "invalid"})
  <2>1. \/ r = Result(decoded, "kept") \/ r = Result(decoded, "lost")
        \/ /\ r = Result(decoded, "complete")
           /\ IsComplete(decoded) /\ CompletionOutcome(decoded) = "ok"
    BY <1>5, <1>9
  <2> QED BY <1>4, <1>9, <2>1 DEF Result
<1> QED BY <1>7, <1>8, <1>9

\* process() of DATA, which the verdict only lets through behind a block.
LEMMA ProcessDataDecodes ==
  ASSUME NEW s \in Stream, BlockDecoded(s), s.headerStatus = "DONE",
         NEW f, f.data \in Bodies, f.endStream \in BOOLEAN,
         NEW r, r = ProcessData(s, f)
  PROVE  /\ BlockDecoded(r.stream)
         /\ r.ending = "complete" => HoldsRequest(r.stream)
<1> DEFINE received == UpdateRawBody(s, f.data)
<1>1. /\ received \in Stream /\ received.headerStatus = "DONE"
      /\ received.rawHeaders = s.rawHeaders /\ received.hasLength = s.hasLength
  BY StreamUpdateType DEF UpdateRawBody, Stream
<1>2. received.rawHeaders = "valid" \/ received.hasLength
  BY <1>1 DEF BlockDecoded
<1> HIDE DEF received
<1>3. CASE ~f.endStream
  <2>1. r = Result([received EXCEPT !.streamStatus = "UPDATING"], "kept")
    BY <1>3 DEF ProcessData, received
  <2> QED BY <1>1, <1>2, <2>1 DEF Result, BlockDecoded, Stream
<1>4. CASE f.endStream /\ CompletionOutcome(received) = "ok"
  <2>1. r = Result(CompleteStream(received), "complete")
    BY <1>4 DEF ProcessData, received
  <2>2. ~received.hasLength /\ received.rawBody = "text"
    BY <1>1, <1>4 DEF CompletionOutcome, Stream, Bodies
  <2>3. /\ CompleteStream(received).headerStatus = "DONE"
        /\ CompleteStream(received).streamStatus = "DONE"
        /\ CompleteStream(received).rawHeaders = "valid"
        /\ ~CompleteStream(received).hasLength
        /\ CompleteStream(received).rawBody = "text"
    BY <1>1, <1>2, <2>2 DEF CompleteStream, Stream
  <2> QED BY <2>1, <2>3 DEF Result, BlockDecoded, HoldsRequest
<1>5. CASE f.endStream /\ CompletionOutcome(received) # "ok"
  <2>1. r = Result(received, "lost") \/ r = Result(received, "crash")
    BY <1>5 DEF ProcessData, CompletionOutcome, received
  <2> QED BY <1>1, <1>2, <2>1 DEF Result, BlockDecoded
<1> QED BY <1>3, <1>4, <1>5

-----------------------------------------------------------------------------
(* A step of the parser, seen from the objects.                            *)

\* Whatever a frame does, it leaves the registered requests as they were.
ObjectsKept ==
  \A sid \in Sids : processing[sid] # 0 =>
    SameRequest(heap[sid][processing[sid]], heap'[sid][processing[sid]])

\* The only request that may be put on the queue is a whole one.
QueuesWhole ==
  queue' = queue \/ \E sid \in Sids, inc \in Incarnations :
                       /\ queue' = Append(queue, [sid |-> sid, inc |-> inc])
                       /\ HoldsRequest(heap'[sid][inc])

HeapEffect == (BlocksDecoded => BlocksDecoded') /\ ObjectsKept /\ QueuesWhole

\* A registered object has a number.
LEMMA RegisteredObject ==
  ASSUME TypeOK, NEW sid \in Sids, processing[sid] # 0
  PROVE  processing[sid] \in Incarnations
  BY DEF TypeOK, Object, Incarnations

\* A method that leaves the request alone was called on one object.
LEMMA CellEffect ==
  ASSUME TypeOK, NEW sid \in Sids, NEW inc \in Incarnations, NEW t,
         SameRequest(heap[sid][inc], t), heap' = [heap EXCEPT ![sid][inc] = t]
  PROVE  (BlocksDecoded => BlocksDecoded') /\ ObjectsKept
<1>1. ASSUME NEW i \in Sids, NEW k \in Incarnations
      PROVE  SameRequest(heap[i][k], heap'[i][k])
  <2>1. heap'[i][k] = heap[i][k] \/ (i = sid /\ k = inc /\ heap'[i][k] = t)
    BY DEF TypeOK
  <2> QED BY <2>1 DEF SameRequest
<1>2. ObjectsKept BY <1>1, RegisteredObject DEF ObjectsKept
<1>3. BlocksDecoded => BlocksDecoded'
  BY <1>1, SameRequestHolds DEF BlocksDecoded
<1> QED BY <1>2, <1>3

\* The objects are not touched at all.
LEMMA SameHeapEffect ==
  ASSUME UNCHANGED heap, UNCHANGED queue
  PROVE  HeapEffect
  BY DEF HeapEffect, BlocksDecoded, ObjectsKept, SameRequest, QueuesWhole

\* What find_stream writes, and that a new object replaces none in use.
LEMMA FindStreamCell ==
  ASSUME TypeOK, NEW f, f.sid \in Sids, Found(f) # 0, NEW s, FindStream(f, s)
  PROVE  /\ heap'[f.sid][Found(f)] = s
         /\ \A sid \in Sids : \A inc \in Incarnations :
              sid # f.sid \/ inc # Found(f) => heap'[sid][inc] = heap[sid][inc]
         /\ Creates(f) => /\ Found(f) # processing[f.sid]
                          /\ Found(f) # subscriber[f.sid]
<1>1. Found(f) \in Incarnations BY FoundType
<1>2. heap' = [heap EXCEPT ![f.sid][Found(f)] = s] BY DEF FindStream
<1>3. Creates(f) => Found(f) = FreshIncarnation(f.sid) BY DEF Found
<1> HIDE DEF Found
<1>4. heap'[f.sid][Found(f)] = s BY <1>1, <1>2 DEF TypeOK
<1>5. ASSUME NEW sid \in Sids, NEW inc \in Incarnations,
             sid # f.sid \/ inc # Found(f)
      PROVE  heap'[sid][inc] = heap[sid][inc]
  BY <1>1, <1>2, <1>5 DEF TypeOK
<1> QED BY <1>3, <1>4, <1>5, FreshIncarnationExists

\* find_stream alone: the object found keeps its value, a new one is empty.
LEMMA LookupEffect ==
  ASSUME TypeOK, NEW f, f.sid \in Sids, Found(f) # 0, FindStream(f, FoundStream(f))
  PROVE  (BlocksDecoded => BlocksDecoded') /\ ObjectsKept
<1>1. Found(f) \in Incarnations BY FoundType
<1>2. CASE ~Creates(f)
  <2>1. heap' = [heap EXCEPT ![f.sid][Found(f)] = heap[f.sid][Found(f)]]
    BY <1>2 DEF FindStream, FoundStream
  <2>2. SameRequest(heap[f.sid][Found(f)], heap[f.sid][Found(f)]) BY DEF SameRequest
  <2> QED BY <1>1, <2>1, <2>2, CellEffect
<1>3. CASE Creates(f)
  <2>1. FoundStream(f) = NewStream(settings.connectionWindow) BY <1>3 DEF FoundStream
  <2>2. ObjectsKept
    <3>1. ASSUME NEW sid \in Sids, processing[sid] # 0
          PROVE  heap'[sid][processing[sid]] = heap[sid][processing[sid]]
      BY <1>3, <3>1, FindStreamCell, RegisteredObject
    <3> QED BY <3>1 DEF ObjectsKept, SameRequest
  <2>3. ASSUME BlocksDecoded, NEW sid \in Sids, NEW inc \in Incarnations
        PROVE  BlockDecoded(heap'[sid][inc])
    BY <2>1, <2>3, FindStreamCell, NewStreamDecoded DEF BlocksDecoded
  <2> QED BY <2>2, <2>3 DEF BlocksDecoded
<1> QED BY <1>2, <1>3

\* process() wrote one object of a stream that has no registered request.
LEMMA FinishObjects ==
  ASSUME TypeOK, NEW f, f.sid \in Sids, Found(f) # 0, ~HasBeenClosed(f.sid),
         NEW r, BlocksDecoded => BlockDecoded(r.stream),
         BlocksDecoded /\ r.ending = "complete" => HoldsRequest(r.stream),
         Finish(f, r)
  PROVE  BlocksDecoded => HeapEffect
<1> SUFFICES ASSUME BlocksDecoded PROVE HeapEffect OBVIOUS
<1>1. FindStream(f, r.stream) BY DEF Finish
<1>2. processing[f.sid] = 0 BY DEF HasBeenClosed, IsInProcessing
<1>3. ObjectsKept
  <2>1. ASSUME NEW sid \in Sids, processing[sid] # 0
        PROVE  heap'[sid][processing[sid]] = heap[sid][processing[sid]]
    BY <1>1, <1>2, <2>1, FindStreamCell, RegisteredObject
  <2> QED BY <2>1 DEF ObjectsKept, SameRequest
<1>4. ASSUME NEW sid \in Sids, NEW inc \in Incarnations
      PROVE  BlockDecoded(heap'[sid][inc])
  BY <1>1, FindStreamCell DEF BlocksDecoded
<1>5. QueuesWhole
  <2>1. CASE QueueRequest(f, r)
    <3>1. /\ r.ending = "complete" /\ Found(f) \in Incarnations
          /\ queue' = Append(queue, [sid |-> f.sid, inc |-> Found(f)])
      BY <2>1, FoundType DEF QueueRequest
    <3>2. HoldsRequest(heap'[f.sid][Found(f)]) BY <1>1, <3>1, FindStreamCell
    <3> QED BY <3>1, <3>2 DEF QueuesWhole
  <2>2. CASE \/ KeepStream(f, r) \/ RefuseBlock(f, r) \/ RefuseRequest(f, r)
             \/ CrashOnBody(f, r)
    <3>1. queue' = queue
      BY <2>2 DEF KeepStream, RefuseBlock, RefuseRequest, CrashOnBody, requestVars
    <3> QED BY <3>1 DEF QueuesWhole
  <2> QED BY <2>1, <2>2 DEF Finish
<1> QED BY <1>3, <1>4, <1>5 DEF HeapEffect, BlocksDecoded

\* The object a frame finds has its block decoded like every other.
LEMMA FoundDecoded ==
  ASSUME TypeOK, BlocksDecoded, NEW f, f.sid \in Sids, Found(f) # 0
  PROVE  BlockDecoded(FoundStream(f))
<1>1. Found(f) \in Incarnations BY FoundType
<1>2. BlockDecoded(NewStream(settings.connectionWindow)) BY NewStreamDecoded
<1> QED BY <1>1, <1>2 DEF FoundStream, BlocksDecoded

\* A refused frame has at most looked its stream up.
LEMMA RefusedObjects ==
  ASSUME TypeOK, NEW f, f.sid \in Sids, Found(f) # 0, UNCHANGED queue,
         FindStream(f, FoundStream(f)) \/ UNCHANGED heap
  PROVE  HeapEffect
<1>1. CASE FindStream(f, FoundStream(f))
  BY <1>1, LookupEffect DEF HeapEffect, QueuesWhole
<1>2. CASE UNCHANGED heap BY <1>2, SameHeapEffect
<1> QED BY <1>1, <1>2

\* HEADERS, CONTINUATION and DATA.
LEMMA BuildObjects ==
  ASSUME TypeOK, BlocksDecoded, NEW f \in Frame,
         HandleHeaders(f) \/ HandleContinuation(f) \/ HandleData(f)
  PROVE  HeapEffect
<1>1. f.sid \in Sids /\ f.type \in {"HEADERS", "CONTINUATION", "DATA"}
  BY FrameSid DEF HandleHeaders, HandleContinuation, HandleData, Violates
<1>2. /\ Found(f) # 0 /\ FoundStream(f) \in Stream /\ BlockDecoded(FoundStream(f))
  BY <1>1, FoundType, FoundDecoded
<1>3. CASE HandleHeaders(f)
  <2>1. f \in HeadersFrame BY <1>3, FrameFields DEF HandleHeaders
  <2>2. /\ f.fragment \in Fragments /\ f.endHeaders \in BOOLEAN
        /\ f.endStream \in BOOLEAN
    BY <2>1 DEF HeadersFrame
  <2>3. ASSUME HeadersEarlyVerdict(f) = "ok",
               Finish(f, ProcessHeaders(FoundStream(f), f, f.endStream))
        PROVE  HeapEffect
    <3>1. ~HasBeenClosed(f.sid) BY <2>3 DEF HeadersEarlyVerdict
    <3>2. PICK r : r = ProcessHeaders(FoundStream(f), f, f.endStream) OBVIOUS
    <3>3. /\ BlockDecoded(r.stream)
          /\ r.ending = "complete" => HoldsRequest(r.stream)
      BY <1>2, <2>2, <3>2, ProcessHeadersDecodes
    <3>4. Finish(f, r) BY <2>3, <3>2
    <3> QED BY <1>1, <1>2, <3>1, <3>3, <3>4, FinishObjects
  <2>4. CASE /\ FindStream(f, FoundStream(f)) \/ UNCHANGED heap
             /\ UNCHANGED queue
    BY <1>1, <1>2, <2>4, RefusedObjects
  <2> QED BY <1>3, <2>3, <2>4 DEF HandleHeaders, Refuse
<1>4. CASE HandleContinuation(f)
  <2>1. f \in ContinuationFrame BY <1>4, FrameFields DEF HandleContinuation
  <2>2. /\ f.fragment \in Fragments /\ f.endHeaders \in BOOLEAN
        /\ FALSE \in BOOLEAN
    BY <2>1 DEF ContinuationFrame
  <2>3. ASSUME ContinuationVerdict(f) = "ok",
               Finish(f, ProcessHeaders(FoundStream(f), f, FALSE))
        PROVE  HeapEffect
    <3>1. ~HasBeenClosed(f.sid) BY <2>3 DEF ContinuationVerdict
    <3>2. PICK r : r = ProcessHeaders(FoundStream(f), f, FALSE) OBVIOUS
    <3>3. /\ BlockDecoded(r.stream)
          /\ r.ending = "complete" => HoldsRequest(r.stream)
      BY <1>2, <2>2, <3>2, ProcessHeadersDecodes
    <3>4. Finish(f, r) BY <2>3, <3>2
    <3> QED BY <1>1, <1>2, <3>1, <3>3, <3>4, FinishObjects
  <2>4. CASE UNCHANGED heap /\ UNCHANGED queue
    BY <2>4, SameHeapEffect
  <2> QED BY <1>4, <2>3, <2>4 DEF HandleContinuation, Refuse, streamVars, requestVars
<1>5. CASE HandleData(f)
  <2>1. f \in DataFrame BY <1>5, FrameFields DEF HandleData
  <2>2. f.data \in Bodies /\ f.endStream \in BOOLEAN BY <2>1 DEF DataFrame
  <2>3. ASSUME DataVerdict(f) = "ok", Finish(f, ProcessData(FoundStream(f), f))
        PROVE  HeapEffect
    <3>1. ~HasBeenClosed(f.sid) /\ FoundStream(f).headerStatus = "DONE"
      BY <2>3 DEF DataVerdict
    <3>2. PICK r : r = ProcessData(FoundStream(f), f) OBVIOUS
    <3>3. /\ BlockDecoded(r.stream)
          /\ r.ending = "complete" => HoldsRequest(r.stream)
      BY <1>2, <2>2, <3>1, <3>2, ProcessDataDecodes
    <3>4. Finish(f, r) BY <2>3, <3>2
    <3> QED BY <1>1, <1>2, <3>1, <3>3, <3>4, FinishObjects
  <2>4. CASE FindStream(f, FoundStream(f)) /\ UNCHANGED queue
    BY <1>1, <1>2, <2>4, RefusedObjects
  <2> QED BY <1>5, <2>3, <2>4 DEF HandleData, Refuse
<1> QED BY <1>3, <1>4, <1>5

\* RST_STREAM and EXTENSION.
LEMMA ResetExtensionObjects ==
  ASSUME TypeOK, NEW f \in Frame, HandleRstStream(f) \/ HandleExtension(f)
  PROVE  HeapEffect
<1>1. CASE HandleRstStream(f)
  <2>1. f.sid \in Sids BY <1>1, FrameSid DEF HandleRstStream, Violates
  <2>2. CASE Found(f) = 0
    BY <1>1, <2>2, SameHeapEffect DEF HandleRstStream, Refuse
  <2>3. CASE Found(f) # 0
    <3>1. Found(f) \in Incarnations BY <2>1, <2>3, FoundType
    <3>2. heap' = [heap EXCEPT ![f.sid][Found(f)] = CloseState(heap[f.sid][Found(f)])]
      BY <1>1, <2>3 DEF HandleRstStream
    <3>3. SameRequest(heap[f.sid][Found(f)], CloseState(heap[f.sid][Found(f)]))
      BY <2>1, <3>1, HeapType, StateAndWindow
    <3>4. queue' = queue BY <1>1, <2>3 DEF HandleRstStream, requestVars
    <3> QED BY <2>1, <3>1, <3>2, <3>3, <3>4, CellEffect DEF HeapEffect, QueuesWhole
  <2> QED BY <2>2, <2>3
<1>2. CASE HandleExtension(f)
  <2>1. CASE UNCHANGED heap /\ UNCHANGED queue BY <2>1, SameHeapEffect
  <2>2. CASE /\ lastFrame # NoFrame /\ FindStream(lastFrame, LastStream)
             /\ UNCHANGED queue
    <3>1. lastFrame.sid \in Sids /\ lastFrame.type \in {"HEADERS", "CONTINUATION", "DATA"}
      BY <2>2 DEF TypeOK, LastFrame
    <3>2. Found(lastFrame) # 0 BY <3>1, FoundType
    <3> QED BY <2>2, <3>1, <3>2, LookupEffect DEF HeapEffect, QueuesWhole, LastStream
  <2> QED BY <1>2, <2>1, <2>2 DEF HandleExtension, Refuse, streamVars, requestVars
<1> QED BY <1>1, <1>2

\* The loop over the windows changes nothing but windows.
LEMMA ApplyWindowObjects ==
  ASSUME TypeOK, NEW w, heap' = ApplyWindow(w)
  PROVE  (BlocksDecoded => BlocksDecoded') /\ ObjectsKept
<1>1. ASSUME NEW sid \in Sids, NEW inc \in Incarnations
      PROVE  SameRequest(heap[sid][inc], heap'[sid][inc])
  <2>1. heap[sid][inc] \in Stream BY HeapType
  <2>2. heap'[sid] = IF sid \in WindowsReached(w)
                     THEN [heap[sid] EXCEPT ![processing[sid]] = UpdateWindow(@, w)]
                     ELSE heap[sid]
    BY DEF ApplyWindow
  <2>3. heap[sid] \in [Incarnations -> Stream] BY DEF TypeOK
  <2>4. \/ heap'[sid][inc] = heap[sid][inc]
        \/ heap'[sid][inc] = UpdateWindow(heap[sid][inc], w)
    BY <2>2, <2>3
  <2> QED BY <2>1, <2>4, StateAndWindow DEF SameRequest
<1>2. ObjectsKept BY <1>1, RegisteredObject DEF ObjectsKept
<1>3. BlocksDecoded => BlocksDecoded'
  BY <1>1, SameRequestHolds DEF BlocksDecoded
<1> QED BY <1>2, <1>3

\* WINDOW_UPDATE and SETTINGS.
LEMMA WindowObjects ==
  ASSUME TypeOK, NEW f \in Frame,
         HandleConnectionWindow(f) \/ HandleStreamWindow(f) \/ HandleSettings(f)
  PROVE  HeapEffect
<1>1. queue' = queue
  BY DEF HandleConnectionWindow, HandleStreamWindow, HandleSettings, Refuse, requestVars
<1>2. CASE UNCHANGED heap BY <1>1, <1>2, SameHeapEffect
<1>3. CASE \E w : heap' = ApplyWindow(w)
  BY <1>1, <1>3, ApplyWindowObjects DEF HeapEffect, QueuesWhole
<1>4. CASE HandleStreamWindow(f) /\ Found(f) # 0 /\ ~UNCHANGED heap
  <2>1. f.sid \in Sids /\ Found(f) \in Incarnations
    BY <1>4, FrameSid, FoundType DEF HandleStreamWindow, Violates
  <2>2. heap' = [heap EXCEPT ![f.sid][Found(f)]
                   = UpdateWindow(heap[f.sid][Found(f)], f.increment)]
    BY <1>4 DEF HandleStreamWindow
  <2>3. SameRequest(heap[f.sid][Found(f)],
                    UpdateWindow(heap[f.sid][Found(f)], f.increment))
    BY <2>1, HeapType, StateAndWindow
  <2> QED BY <1>1, <2>1, <2>2, <2>3, CellEffect DEF HeapEffect, QueuesWhole
<1>5. CASE HandleConnectionWindow(f) BY <1>2, <1>5 DEF HandleConnectionWindow, streamVars
<1>6. CASE HandleSettings(f) BY <1>2, <1>3, <1>6 DEF HandleSettings
<1>7. CASE HandleStreamWindow(f) BY <1>2, <1>4, <1>7 DEF HandleStreamWindow
<1> QED BY <1>5, <1>6, <1>7

\* Every step of the parser.
LEMMA ParserObjects ==
  ASSUME TypeOK, BlocksDecoded, ParserStep
  PROVE  HeapEffect
<1>1. CASE HandleFrame
  <2>1. PICK f \in Incoming :
          \/ RefuseEvenStream(f) \/ RefuseStream(f) \/ RefuseOldStream(f)
          \/ HandleHeaders(f) \/ HandleContinuation(f) \/ HandleData(f)
          \/ HandleRstStream(f) \/ HandlePriority(f) \/ HandlePing(f)
          \/ HandleExtension(f) \/ HandleConnectionWindow(f)
          \/ HandleStreamWindow(f) \/ HandleSettings(f) \/ HandleEndingFrame(f)
    BY <1>1 DEF HandleFrame
  <2>2. f \in Frame BY IncomingFrame DEF TypeOK
  <2>3. CASE \/ RefuseEvenStream(f) \/ RefuseStream(f) \/ RefuseOldStream(f)
             \/ HandlePriority(f) \/ HandlePing(f) \/ HandleEndingFrame(f)
    <3>1. UNCHANGED heap /\ UNCHANGED queue
      BY <2>3 DEF RefuseEvenStream, RefuseStream, RefuseOldStream, HandlePriority,
                  HandlePing, HandleEndingFrame, streamVars, requestVars
    <3> QED BY <3>1, SameHeapEffect
  <2> QED BY <2>1, <2>2, <2>3, BuildObjects, ResetExtensionObjects, WindowObjects
<1>2. CASE AwaitBody \/ RefuseBody \/ StopReading \/ RefuseFrameHeader
  <2>1. UNCHANGED heap /\ UNCHANGED queue
    BY <1>2 DEF AwaitBody, RefuseBody, StopReading, RefuseFrameHeader, Reads,
                streamVars, requestVars
  <2> QED BY <2>1, SameHeapEffect
<1> QED BY <1>1, <1>2 DEF ParserStep

-----------------------------------------------------------------------------
(* RequestsComplete.                                                       *)

\* A waiting or running request is the registered object of its stream.
LEMMA RequestRegistered ==
  ASSUME TypeOK, RequestInvariant, NEW r \in Requests
  PROVE  /\ r.sid \in Sids /\ r.inc \in Incarnations
         /\ processing[r.sid] = r.inc /\ processing[r.sid] # 0
<1>1. processing[r.sid] = r.inc BY DEF RequestInvariant, RegistryConsistent
<1>2. r.sid \in Sids /\ r.inc \in Incarnations
  BY RequestCases, QueuedRequest DEF RequestInvariant, RunningRequest
<1> QED BY <1>1, <1>2 DEF Incarnations

\* The consumer only takes requests away, and so does whatever loses them.
LEMMA RequestsLeft ==
  ASSUME TypeOK, RequestInvariant, ConsumeStream \/ LoseConnection \/ UNCHANGED vars
  PROVE  Requests' \subseteq Requests
<1>1. CASE QuietStep
  <2>1. queue' = queue BY <1>1 DEF QuietStep
  <2>2. consumer' = [Idle EXCEPT !.pc = "done"] => ~IsRunning' BY DEF Idle, IsRunning
  <2>3. IsRunning' => /\ IsRunning
                      /\ consumer'.sid = consumer.sid /\ consumer'.inc = consumer.inc
    BY <1>1, <2>2 DEF QuietStep, IsRunning
  <2> QED BY <2>1, <2>3 DEF Requests
<1>2. CASE DropCanceled \/ Dispatch
  <2>1. queue # <<>> /\ queue' = Tail(queue) BY <1>2 DEF DropCanceled, Dispatch
  <2>2. /\ {queue'[i] : i \in 1..Len(queue')} \subseteq {queue[i] : i \in 1..Len(queue)}
        /\ Head(queue) \in Requests /\ Head(queue) \in RefSet
    BY <2>1, ShiftedQueue, TakenRequest DEF TypeOK
  <2>3. [sid |-> Head(queue).sid, inc |-> Head(queue).inc] = Head(queue)
    BY <2>2 DEF RefSet
  <2>4. IsRunning' => /\ consumer'.sid = Head(queue).sid
                      /\ consumer'.inc = Head(queue).inc
    BY <1>2 DEF DropCanceled, Dispatch, IsRunning, Idle
  <2> QED BY <2>2, <2>3, <2>4 DEF Requests
<1>3. CASE CompleteResponse
  <2>1. queue' = queue /\ ~IsRunning' BY <1>3 DEF CompleteResponse, Idle, IsRunning
  <2> QED BY <2>1 DEF Requests
<1> QED BY <1>1, <1>2, <1>3, QuietSteps DEF ConsumeStream

\* The consumer marks the object it has answered CLOSED.
LEMMA ConsumerObjects ==
  ASSUME TypeOK, RequestInvariant, ConsumeStream \/ LoseConnection \/ UNCHANGED vars
  PROVE  (BlocksDecoded => BlocksDecoded') /\ ObjectsKept
<1>1. CASE UNCHANGED heap
  BY <1>1 DEF BlocksDecoded, ObjectsKept, SameRequest
<1>2. CASE CompleteResponse
  <2>1. consumer.sid \in Sids /\ consumer.inc \in Incarnations
    BY <1>2 DEF CompleteResponse, IsRunning, RequestInvariant, RunningRequest
  <2>2. heap' = [heap EXCEPT ![consumer.sid][consumer.inc]
                   = CloseState(heap[consumer.sid][consumer.inc])]
    BY <1>2 DEF CompleteResponse
  <2>3. SameRequest(heap[consumer.sid][consumer.inc],
                    CloseState(heap[consumer.sid][consumer.inc]))
    BY <2>1, HeapType, StateAndWindow
  <2> QED BY <2>1, <2>2, <2>3, CellEffect
<1>3. CASE ConsumeStream /\ ~CompleteResponse
  <2>1. UNCHANGED heap
    BY <1>3 DEF ConsumeStream, DropCanceled, Dispatch, EndConsumer, FailDispatch,
                Respond, WakeUp, FailDrain
  <2> QED BY <1>1, <2>1
<1> QED BY <1>1, <1>2, <1>3 DEF LoseConnection, streamVars, vars

\* Whole requests stay whole while they are requests.
LEMMA KeptComplete ==
  ASSUME TypeOK, RequestInvariant, RequestsComplete, ObjectsKept, NEW r \in Requests
  PROVE  HoldsRequest(heap'[r.sid][r.inc])
<1>1. /\ r.sid \in Sids /\ processing[r.sid] = r.inc /\ processing[r.sid] # 0
  BY RequestRegistered
<1>2. HoldsRequest(heap[r.sid][r.inc]) BY DEF RequestsComplete
<1>3. SameRequest(heap[r.sid][r.inc], heap'[r.sid][r.inc]) BY <1>1 DEF ObjectsKept
<1> QED BY <1>2, <1>3, SameRequestHolds

CompleteInvariant == TypeOK /\ RequestInvariant /\ BlocksDecoded /\ RequestsComplete

\* The invariant is inductive.
LEMMA CompleteStep ==
  ASSUME CompleteInvariant, [Next]_vars
  PROVE  CompleteInvariant'
<1> USE DEF CompleteInvariant
<1>1. TypeOK' /\ RequestInvariant' BY InvariantStep
<1>2. CASE ParserStep
  <2>1. HeapEffect BY <1>2, ParserObjects
  <2>2. ConsumerLives
    BY <1>1, <1>2, ParserStepEffect DEF ParserEffect, NewRequest, ConsumerLives
  <2>3. IsRunning' => IsRunning /\ UNCHANGED consumer
    BY <2>2 DEF ConsumerLives, IsRunning, Idle
  <2>4. ASSUME NEW r \in Requests'
        PROVE  HoldsRequest(heap'[r.sid][r.inc])
    <3>1. CASE r \in Requests
      BY <2>1, <3>1, KeptComplete DEF HeapEffect
    <3>2. ASSUME NEW sid \in Sids, NEW inc \in Incarnations,
                 queue' = Append(queue, [sid |-> sid, inc |-> inc]),
                 HoldsRequest(heap'[sid][inc]), r \notin Requests
          PROVE  HoldsRequest(heap'[r.sid][r.inc])
      <4>1. /\ Len(queue') = Len(queue) + 1 /\ Len(queue) \in Nat
            /\ \A i \in 1..Len(queue) : queue'[i] = queue[i]
            /\ queue'[Len(queue) + 1] = [sid |-> sid, inc |-> inc]
        BY <3>2, AppendedQueue
      <4>2. \E i \in 1..Len(queue') : r = queue'[i]
        BY <2>3, <3>2 DEF Requests
      <4>3. r = [sid |-> sid, inc |-> inc]
        BY <3>2, <4>1, <4>2 DEF Requests
      <4> QED BY <3>2, <4>3
    <3>3. CASE queue' = queue
      BY <2>3, <3>1, <3>3 DEF Requests
    <3> QED BY <2>1, <3>1, <3>2, <3>3 DEF HeapEffect, QueuesWhole
  <2> QED BY <1>1, <2>1, <2>4 DEF HeapEffect, RequestsComplete
<1>3. CASE ConsumeStream \/ LoseConnection \/ UNCHANGED vars
  <2>1. BlocksDecoded' /\ ObjectsKept BY <1>3, ConsumerObjects
  <2>2. Requests' \subseteq Requests BY <1>3, RequestsLeft
  <2>3. RequestsComplete' BY <2>1, <2>2, KeptComplete DEF RequestsComplete
  <2> QED BY <1>1, <2>1, <2>3
<1> QED BY <1>2, <1>3 DEF Next, Finished

\* A new connection has no requests, and its objects no header blocks.
LEMMA CompleteInit == ASSUME Init PROVE CompleteInvariant
<1>1. TypeOK /\ RequestInvariant BY InitType, InvariantInit
<1>2. BlocksDecoded BY NewStreamDecoded DEF Init, BlocksDecoded
<1>3. Requests = {} BY DEF Init, Idle, IsRunning, Requests
<1> QED BY <1>1, <1>2, <1>3 DEF CompleteInvariant, RequestsComplete

(***************************************************************************)
(* What the endpoint is given is a whole, legal and readable request, for  *)
(* every peer: neither a frame that follows END_STREAM, nor a second       *)
(* object of the stream, nor a lookup that makes one changes it.           *)
(***************************************************************************)
THEOREM RequestsStayComplete == Spec => []RequestsComplete
<1>1. Init => CompleteInvariant BY CompleteInit
<1>2. CompleteInvariant /\ [Next]_vars => CompleteInvariant' BY CompleteStep
<1>3. CompleteInvariant => RequestsComplete BY DEF CompleteInvariant
<1> QED BY <1>1, <1>2, <1>3, PTL DEF Spec
=============================================================================
