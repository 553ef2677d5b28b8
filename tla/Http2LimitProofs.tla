-------------------------- MODULE Http2LimitProofs --------------------------
(***************************************************************************)
(* ConcurrencyBounded: the limit on streams.  A frame that has_any_        *)
(* violation admits adds at most one stream to open or to processing, and  *)
(* was only admitted with room for it; every other step adds at most the   *)
(* stream of the last frame, and that one only to open.                    *)
(***************************************************************************)
EXTENDS Http2SafetyProofs

-----------------------------------------------------------------------------
(* A step, seen from the two dictionaries.                                 *)

\* Nothing is added but the stream of the last frame, which stays the same.
CalmStep ==
  /\ lastFrame'.sid = lastFrame.sid
  /\ OpenIds' \subseteq OpenIds \cup {lastFrame.sid}
  /\ ProcessingIds' \subseteq ProcessingIds

\* has_any_violation let a frame pass, and its stream is added to one of them.
AdmittedStep ==
  /\ TotalQsize + 1 <= settings.maxStreams
  /\ \E sid \in Sids :
       \/ OpenIds' \subseteq OpenIds \cup {sid} /\ ProcessingIds' \subseteq ProcessingIds
       \/ OpenIds' \subseteq OpenIds /\ ProcessingIds' \subseteq ProcessingIds \cup {sid}

\* The settings of the peer do not lift the limit, nor do those still to come.
LimitStays ==
  LimitKept /\ UpgradeKept => /\ UpgradeKept'
                              /\ \/ settings'.maxStreams = settings.maxStreams
                                 \/ settings'.maxStreams <= MaxConcurrentStreams

\* get_total_qsize counts the keys of the two dictionaries.
LEMMA TotalIsSum == TotalQsize = Cardinality(OpenIds) + Cardinality(ProcessingIds)
  BY DEF TotalQsize, OpenIds, ProcessingIds

\* A finite set with one more element at most.
LEMMA OneMore ==
  ASSUME NEW S, IsFiniteSet(S), NEW x, NEW T, T \subseteq S \cup {x}
  PROVE  /\ IsFiniteSet(T) /\ Cardinality(T) \in Nat /\ Cardinality(S) \in Nat
         /\ Cardinality(T) <= Cardinality(S) + 1
<1>1. /\ IsFiniteSet(S \cup {x}) /\ Cardinality(S) \in Nat
      /\ Cardinality(S \cup {x}) <= Cardinality(S) + 1
  <2>1. Cardinality(S) \in Nat BY FS_CardinalityType
  <2>2. /\ IsFiniteSet(S \cup {x})
        /\ \/ Cardinality(S \cup {x}) = Cardinality(S)
           \/ Cardinality(S \cup {x}) = Cardinality(S) + 1
    BY FS_AddElement
  <2> QED BY <2>1, <2>2
<1>2. /\ IsFiniteSet(T) /\ Cardinality(T) <= Cardinality(S \cup {x})
  BY <1>1, FS_Subset
<1>3. Cardinality(T) \in Nat /\ Cardinality(S \cup {x}) \in Nat
  BY <1>1, <1>2, FS_CardinalityType
<1> QED BY <1>1, <1>2, <1>3

\* A finite set with no more elements.
LEMMA NoMore ==
  ASSUME NEW S, IsFiniteSet(S), NEW T, T \subseteq S
  PROVE  /\ IsFiniteSet(T) /\ Cardinality(T) \in Nat /\ Cardinality(S) \in Nat
         /\ Cardinality(T) <= Cardinality(S)
  BY FS_Subset, FS_CardinalityType

\* The settings' limit is a number.
LEMMA LimitType == ASSUME TypeOK PROVE settings.maxStreams \in Nat
  BY DEF TypeOK

\* A step that adds nothing that counts.
LEMMA CalmKeeps ==
  ASSUME TypeOK, LimitObserved, CalmStep, LimitStays
  PROVE  LimitObserved'
<1> DEFINE counted == OpenIds \ {lastFrame.sid}
           later   == OpenIds' \ {lastFrame'.sid}
<1>1. IsFiniteSet(OpenIds) /\ IsFiniteSet(ProcessingIds) BY DEF LimitObserved
<1>2. IsFiniteSet(OpenIds') BY <1>1, OneMore DEF CalmStep
<1>3. IsFiniteSet(counted) BY <1>1, NoMore
<1>4. later \subseteq counted BY DEF CalmStep
<1> HIDE DEF counted, later
<1>5. /\ Cardinality(later) <= Cardinality(counted)
      /\ Cardinality(later) \in Nat /\ Cardinality(counted) \in Nat
  BY <1>3, <1>4, NoMore
<1>6. /\ IsFiniteSet(ProcessingIds')
      /\ Cardinality(ProcessingIds') <= Cardinality(ProcessingIds)
      /\ Cardinality(ProcessingIds') \in Nat /\ Cardinality(ProcessingIds) \in Nat
  BY <1>1, NoMore DEF CalmStep
<1>7. ASSUME LimitKept
      PROVE  /\ UpgradeKept' /\ settings'.maxStreams <= MaxConcurrentStreams
             /\ Cardinality(later) + Cardinality(ProcessingIds') <= MaxConcurrentStreams
  <2>1. /\ UpgradeKept /\ settings.maxStreams <= MaxConcurrentStreams
        /\ Cardinality(counted) + Cardinality(ProcessingIds) <= MaxConcurrentStreams
    BY <1>7 DEF LimitObserved, counted
  <2>2. UpgradeKept' /\ settings'.maxStreams <= MaxConcurrentStreams
    BY <1>7, <2>1 DEF LimitStays
  <2> QED BY <1>5, <1>6, <2>1, <2>2, LimitsAssumption
<1>8. LimitKept' <=> LimitKept BY DEF LimitKept
<1> QED BY <1>2, <1>6, <1>7, <1>8 DEF LimitObserved, later

\* A step that adds a stream with room for it.
LEMMA AdmittedKeeps ==
  ASSUME TypeOK, LimitObserved, AdmittedStep, LimitStays
  PROVE  LimitObserved'
<1>1. IsFiniteSet(OpenIds) /\ IsFiniteSet(ProcessingIds) BY DEF LimitObserved
<1>2. /\ IsFiniteSet(OpenIds') /\ IsFiniteSet(ProcessingIds')
      /\ Cardinality(OpenIds') \in Nat /\ Cardinality(ProcessingIds') \in Nat
      /\ Cardinality(OpenIds) \in Nat /\ Cardinality(ProcessingIds) \in Nat
      /\ Cardinality(OpenIds') + Cardinality(ProcessingIds')
           <= Cardinality(OpenIds) + Cardinality(ProcessingIds) + 1
  <2>1. PICK sid \in Sids :
       \/ OpenIds' \subseteq OpenIds \cup {sid} /\ ProcessingIds' \subseteq ProcessingIds
       \/ OpenIds' \subseteq OpenIds /\ ProcessingIds' \subseteq ProcessingIds \cup {sid}
    BY DEF AdmittedStep
  <2>2. CASE OpenIds' \subseteq OpenIds \cup {sid} /\ ProcessingIds' \subseteq ProcessingIds
    <3>1. /\ IsFiniteSet(OpenIds') /\ Cardinality(OpenIds') \in Nat
          /\ Cardinality(OpenIds) \in Nat
          /\ Cardinality(OpenIds') <= Cardinality(OpenIds) + 1
      BY <1>1, <2>2, OneMore
    <3>2. /\ IsFiniteSet(ProcessingIds') /\ Cardinality(ProcessingIds') \in Nat
          /\ Cardinality(ProcessingIds) \in Nat
          /\ Cardinality(ProcessingIds') <= Cardinality(ProcessingIds)
      BY <1>1, <2>2, NoMore
    <3> QED BY <3>1, <3>2
  <2>3. CASE OpenIds' \subseteq OpenIds /\ ProcessingIds' \subseteq ProcessingIds \cup {sid}
    <3>1. /\ IsFiniteSet(OpenIds') /\ Cardinality(OpenIds') \in Nat
          /\ Cardinality(OpenIds) \in Nat
          /\ Cardinality(OpenIds') <= Cardinality(OpenIds)
      BY <1>1, <2>3, NoMore
    <3>2. /\ IsFiniteSet(ProcessingIds') /\ Cardinality(ProcessingIds') \in Nat
          /\ Cardinality(ProcessingIds) \in Nat
          /\ Cardinality(ProcessingIds') <= Cardinality(ProcessingIds) + 1
      BY <1>1, <2>3, OneMore
    <3> QED BY <3>1, <3>2
  <2> QED BY <2>1, <2>2, <2>3
<1>3. /\ Cardinality(OpenIds' \ {lastFrame'.sid}) <= Cardinality(OpenIds')
      /\ Cardinality(OpenIds' \ {lastFrame'.sid}) \in Nat
  BY <1>2, NoMore
<1>4. Cardinality(OpenIds) + Cardinality(ProcessingIds) + 1 <= settings.maxStreams
  BY TotalIsSum DEF AdmittedStep
<1>5. ASSUME LimitKept
      PROVE  /\ UpgradeKept' /\ settings'.maxStreams <= MaxConcurrentStreams
             /\ Cardinality(OpenIds' \ {lastFrame'.sid}) + Cardinality(ProcessingIds')
                  <= MaxConcurrentStreams
  <2>1. UpgradeKept /\ settings.maxStreams <= MaxConcurrentStreams
    BY <1>5 DEF LimitObserved
  <2>2. UpgradeKept' /\ settings'.maxStreams <= MaxConcurrentStreams
    BY <1>5, <2>1 DEF LimitStays
  <2> QED BY <1>2, <1>3, <1>4, <2>1, <2>2, LimitType, LimitsAssumption
<1>6. LimitKept' <=> LimitKept BY DEF LimitKept
<1> QED BY <1>2, <1>5, <1>6 DEF LimitObserved

-----------------------------------------------------------------------------
(* The steps.                                                              *)

\* An upgrade's frames are taken one after the other.
LEMMA UpgradeStays ==
  ASSUME TypeOK, Receives \/ UNCHANGED upgrade
  PROVE  UpgradeKept => UpgradeKept'
<1>1. CASE UNCHANGED upgrade BY <1>1 DEF UpgradeKept
<1>2. CASE Receives /\ upgrade # <<>>
  <2>1. upgrade \in Seq(Frame) /\ upgrade' = Tail(upgrade) BY <1>2 DEF TypeOK, Receives
  <2>2. \A i \in 1..Len(upgrade') : i + 1 \in 1..Len(upgrade) /\ upgrade'[i] = upgrade[i + 1]
    BY <1>2, <2>1
  <2> QED BY <2>2 DEF UpgradeKept
<1> QED BY <1>1, <1>2 DEF Receives

\* Every step but a SETTINGS frame leaves the limit alone.
LEMMA SameLimit ==
  ASSUME TypeOK, Receives \/ UNCHANGED upgrade,
         settings'.maxStreams = settings.maxStreams
  PROVE  LimitStays
  BY UpgradeStays DEF LimitStays

\* A SETTINGS frame carries a limit that was announced, or none.
LEMMA SettingsLimit ==
  ASSUME TypeOK, NEW f \in Incoming, f.type = "SETTINGS", Receives,
         settings' = settings \/ settings' = UpdateSettings(f)
  PROVE  LimitStays
<1> SUFFICES ASSUME LimitKept, UpgradeKept
             PROVE  /\ UpgradeKept'
                    /\ \/ settings'.maxStreams = settings.maxStreams
                       \/ settings'.maxStreams <= MaxConcurrentStreams
  BY DEF LimitStays
<1>1. f.maxStreams <= MaxConcurrentStreams
  <2>1. CASE upgrade # <<>>
    <3>1. upgrade \in Seq(Frame) BY DEF TypeOK
    <3>2. f = upgrade[1] /\ 1 \in 1..Len(upgrade)
      BY <2>1, <3>1 DEF Incoming
    <3> QED BY <3>2 DEF UpgradeKept
  <2>2. CASE upgrade = <<>>
    BY <2>2 DEF Incoming, LimitKept
  <2> QED BY <2>1, <2>2
<1>2. \/ settings'.maxStreams = settings.maxStreams
      \/ settings'.maxStreams <= MaxConcurrentStreams
  BY <1>1 DEF UpdateSettings, OrElse
<1> QED BY <1>2, UpgradeStays

\* What removes a stream from open.
LEMMA RemoveShrinks ==
  ASSUME TypeOK, NEW sid, open' = RemoveFromOpen(sid) \/ UNCHANGED open
  PROVE  OpenIds' \subseteq OpenIds
  BY DEF RemoveFromOpen, IsInOpen, OpenIds, TypeOK

\* What does not change does not add.
LEMMA SameProcessing ==
  ASSUME UNCHANGED processing
  PROVE  ProcessingIds' \subseteq ProcessingIds
  BY DEF ProcessingIds

\* A frame on a stream of the client that has_any_violation let pass.
LEMMA Admits ==
  ASSUME TypeOK, IsFiniteSet(OpenIds), IsFiniteSet(ProcessingIds),
         NEW f, f.sid \in Sids, ~Violates(f)
  PROVE  TotalQsize + 1 <= settings.maxStreams
<1>1. f.sid > 0 BY IdsAreNumbers
<1>2. ~(settings.maxStreams < TotalQsize + 1) BY <1>1 DEF Violates, Overloads
<1>3. TotalQsize \in Nat BY FS_CardinalityType, TotalIsSum
<1> QED BY <1>2, <1>3, LimitType

\* process() moves the stream from open to processing, or leaves it in open;
\* a completed upload, which stays in open, was there before.
LEMMA FinishAdmits ==
  ASSUME TypeOK, LimitObserved, NEW f, f.sid \in Sids, ~Violates(f),
         Found(f) # 0, NEW r, Finish(f, r), f.type = "DATA" => ~Creates(f)
  PROVE  AdmittedStep
<1>1. TotalQsize + 1 <= settings.maxStreams BY Admits DEF LimitObserved
<1>2. CASE QueueRequest(f, r)
  <2>1. /\ r.ending = "complete"
        /\ processing' = [processing EXCEPT ![f.sid] = Found(f)]
    BY <1>2 DEF QueueRequest
  <2>2. ProcessingIds' \subseteq ProcessingIds \cup {f.sid}
    BY <2>1 DEF ProcessingIds, TypeOK
  <2>3. OpenIds' \subseteq OpenIds
    <3>1. CASE f.type # "DATA"
      <4>1. open' = [open EXCEPT ![f.sid] = 0]
        BY <2>1, <3>1 DEF Finish, OpenAfter
      <4> QED BY <4>1 DEF OpenIds, TypeOK
    <3>2. CASE f.type = "DATA"
      <4>1. open[f.sid] # 0 BY <3>2 DEF Creates, IsInOpen
      <4>2. open' = [open EXCEPT ![f.sid] = Found(f)]
        BY <2>1, <3>2 DEF Finish, OpenAfter
      <4> QED BY <4>1, <4>2 DEF OpenIds, TypeOK
    <3> QED BY <3>1, <3>2
  <2> QED BY <1>1, <2>2, <2>3 DEF AdmittedStep
<1>3. CASE \/ KeepStream(f, r) \/ RefuseBlock(f, r) \/ RefuseRequest(f, r)
           \/ CrashOnBody(f, r)
  <2>1. ProcessingIds' \subseteq ProcessingIds
    BY <1>3, SameProcessing
       DEF KeepStream, RefuseBlock, RefuseRequest, CrashOnBody, requestVars
  <2>2. \/ open' = [open EXCEPT ![f.sid] = 0]
        \/ open' = [open EXCEPT ![f.sid] = Found(f)]
    BY DEF Finish, OpenAfter
  <2>3. OpenIds' \subseteq OpenIds \cup {f.sid} BY <2>2 DEF OpenIds, TypeOK
  <2> QED BY <1>1, <2>1, <2>3 DEF AdmittedStep
<1> QED BY <1>2, <1>3 DEF Finish

\* HEADERS, CONTINUATION and DATA.
LEMMA BuildAdmits ==
  ASSUME TypeOK, LimitObserved, NEW f \in Frame,
         HandleHeaders(f) \/ HandleContinuation(f) \/ HandleData(f)
  PROVE  AdmittedStep /\ LimitStays
<1>1. /\ Receives /\ UNCHANGED settings /\ ~Violates(f) /\ f.sid \in Sids
      /\ f.type \in {"HEADERS", "CONTINUATION", "DATA"}
  BY FrameSid DEF HandleHeaders, HandleContinuation, HandleData, Violates
<1>2. LimitStays BY <1>1, SameLimit
<1>3. Found(f) # 0 BY <1>1, FoundType
<1>4. ASSUME open' = RemoveFromOpen(f.sid) \/ UNCHANGED open, UNCHANGED processing
      PROVE  AdmittedStep
  <2>1. TotalQsize + 1 <= settings.maxStreams BY <1>1, Admits DEF LimitObserved
  <2>2. OpenIds' \subseteq OpenIds \cup {f.sid} BY <1>4, RemoveShrinks
  <2> QED BY <1>1, <1>4, <2>1, <2>2, SameProcessing DEF AdmittedStep
<1>5. ASSUME NEW code, NEW boxes, NEW subs, Refuse(f, code, boxes, subs)
      PROVE  AdmittedStep
  BY <1>4, <1>5 DEF Refuse
<1>6. ASSUME NEW r, Finish(f, r), f.type = "DATA" => ~Creates(f) PROVE AdmittedStep
  BY <1>1, <1>3, <1>6, FinishAdmits
<1>7. CASE HandleHeaders(f)
  <2>1. f.type # "DATA" BY <1>7 DEF HandleHeaders
  <2>2. ASSUME NEW r, Finish(f, r) PROVE AdmittedStep BY <1>6, <2>1, <2>2
  <2> QED BY <1>2, <1>5, <1>7, <2>2 DEF HandleHeaders
<1>8. CASE HandleContinuation(f)
  <2>1. f.type # "DATA" BY <1>8 DEF HandleContinuation
  <2>2. ASSUME NEW r, Finish(f, r) PROVE AdmittedStep BY <1>6, <2>1, <2>2
  <2> QED BY <1>2, <1>4, <1>5, <1>8, <2>2 DEF HandleContinuation, streamVars, requestVars
<1>9. CASE HandleData(f)
  <2>1. ASSUME DataVerdict(f) = "ok" PROVE ~Creates(f)
    BY <2>1 DEF DataVerdict, FoundStream, NewStream
  <2>2. ASSUME DataVerdict(f) = "ok", NEW r, Finish(f, r) PROVE AdmittedStep
    BY <1>6, <2>1, <2>2
  <2> QED BY <1>2, <1>5, <1>9, <2>2 DEF HandleData
<1> QED BY <1>7, <1>8, <1>9

\* Every other frame.
LEMMA OtherFramesCalm ==
  ASSUME TypeOK, NEW f \in Incoming, f \in Frame,
         \/ RefuseEvenStream(f) \/ RefuseStream(f) \/ RefuseOldStream(f)
         \/ HandleRstStream(f) \/ HandlePriority(f) \/ HandlePing(f)
         \/ HandleExtension(f) \/ HandleConnectionWindow(f)
         \/ HandleStreamWindow(f) \/ HandleSettings(f) \/ HandleEndingFrame(f)
  PROVE  CalmStep /\ LimitStays
<1>1. ASSUME UNCHANGED lastFrame, open' = RemoveFromOpen(f.sid) \/ UNCHANGED open,
             UNCHANGED processing
      PROVE  CalmStep
  BY <1>1, RemoveShrinks, SameProcessing DEF CalmStep
<1>2. ASSUME f.type \notin {"HEADERS", "DATA"},
             NEW code, NEW boxes, NEW subs, Refuse(f, code, boxes, subs)
      PROVE  CalmStep
  BY <1>1, <1>2 DEF Refuse, Remember
<1>3. ASSUME UNCHANGED settings, Receives PROVE LimitStays
  BY <1>3, SameLimit
<1>4. CASE RefuseEvenStream(f) \/ RefuseStream(f) \/ RefuseOldStream(f)
           \/ HandlePriority(f) \/ HandlePing(f) \/ HandleEndingFrame(f)
  <2>1. CalmStep
    BY <1>1, <1>4 DEF RefuseEvenStream, RefuseStream, RefuseOldStream,
       HandlePriority, HandlePing, HandleEndingFrame, streamVars, requestVars
  <2>2. LimitStays
    BY <1>3, <1>4 DEF RefuseEvenStream, RefuseStream, RefuseOldStream,
       HandlePriority, HandlePing, HandleEndingFrame
  <2> QED BY <2>1, <2>2
<1>5. CASE HandleRstStream(f)
  BY <1>1, <1>2, <1>3, <1>5 DEF HandleRstStream, requestVars
<1>6. CASE HandleExtension(f)
  <2>1. CASE /\ open' = [open EXCEPT ![lastFrame.sid] = Found(lastFrame)]
             /\ UNCHANGED <<consumer, requestVars, lastFrame>>
    <3>1. OpenIds' \subseteq OpenIds \cup {lastFrame.sid}
      BY <2>1 DEF OpenIds, TypeOK
    <3> QED BY <1>3, <1>6, <2>1, <3>1, SameProcessing
            DEF HandleExtension, CalmStep, requestVars
  <2> QED BY <1>1, <1>2, <1>3, <1>6, <2>1 DEF HandleExtension, streamVars, requestVars
<1>7. CASE HandleConnectionWindow(f)
  <2>1. CalmStep BY <1>1, <1>7 DEF HandleConnectionWindow, streamVars, requestVars
  <2>2. settings'.maxStreams = settings.maxStreams
    BY <1>7 DEF HandleConnectionWindow, TypeOK
  <2>3. Receives BY <1>7 DEF HandleConnectionWindow
  <2> QED BY <2>1, <2>2, <2>3, SameLimit
<1>8. CASE HandleStreamWindow(f)
  BY <1>1, <1>2, <1>3, <1>8
     DEF HandleStreamWindow, requestVars, ResetFirstStream
<1>9. CASE HandleSettings(f)
  <2>1. CalmStep BY <1>1, <1>9 DEF HandleSettings
  <2>2. /\ f.type = "SETTINGS" /\ Receives
        /\ settings' = settings \/ settings' = UpdateSettings(f)
    BY <1>9 DEF HandleSettings
  <2> QED BY <2>1, <2>2, SettingsLimit
<1> QED BY <1>4, <1>5, <1>6, <1>7, <1>8, <1>9

\* Reads that yield no frame, the consumer, and the loss of the connection.
LEMMA OtherStepsCalm ==
  ASSUME TypeOK, RequestInvariant,
         \/ AwaitBody \/ RefuseBody \/ StopReading \/ RefuseFrameHeader
         \/ ConsumeStream \/ LoseConnection \/ UNCHANGED vars
  PROVE  CalmStep /\ LimitStays
<1>1. UNCHANGED <<lastFrame, open>>
  BY DEF AwaitBody, RefuseBody, StopReading, RefuseFrameHeader, Reads, ConsumeStream,
         ConsumerStep, DropCanceled, Dispatch, EndConsumer, FailDispatch, Respond,
         WakeUp, CompleteResponse, FailDrain, LoseConnection, vars, streamVars, parserVars
<1>2. \/ UNCHANGED processing
      \/ \E sid : processing' = [processing EXCEPT ![sid] = 0]
  BY DEF AwaitBody, RefuseBody, StopReading, RefuseFrameHeader, Reads, ConsumeStream,
         DropCanceled, Dispatch, EndConsumer, FailDispatch, Respond,
         WakeUp, CompleteResponse, FailDrain, LoseConnection, vars, requestVars
<1>3. ProcessingIds' \subseteq ProcessingIds
  BY <1>2 DEF ProcessingIds, TypeOK
<1>4. Receives \/ UNCHANGED upgrade
  BY DEF AwaitBody, RefuseBody, StopReading, RefuseFrameHeader, Reads, ConsumeStream,
         ConsumerStep, DropCanceled, Dispatch, EndConsumer, FailDispatch, Respond,
         WakeUp, CompleteResponse, FailDrain, LoseConnection, vars, parserVars
<1>5. \/ UNCHANGED settings
      \/ \E size : settings' = [settings EXCEPT !.connectionWindow = @ - size]
  BY DEF AwaitBody, RefuseBody, StopReading, RefuseFrameHeader, Reads, ConsumeStream,
         DropCanceled, Dispatch, EndConsumer, FailDispatch, Respond, SendData, AwaitWindow,
         WakeUp, CompleteResponse, FailDrain, LoseConnection, vars, parserVars
<1>6. settings'.maxStreams = settings.maxStreams BY <1>5 DEF TypeOK
<1>7. OpenIds' \subseteq OpenIds BY <1>1 DEF OpenIds
<1> QED BY <1>1, <1>3, <1>4, <1>6, <1>7, SameLimit DEF CalmStep

-----------------------------------------------------------------------------
LimitInvariant == TypeOK /\ RequestInvariant /\ LimitObserved

\* The invariant is inductive.
LEMMA LimitStep ==
  ASSUME LimitInvariant, [Next]_vars
  PROVE  LimitInvariant'
<1> USE DEF LimitInvariant
<1>1. TypeOK' /\ RequestInvariant' BY InvariantStep
<1>2. (CalmStep \/ AdmittedStep) /\ LimitStays
  <2>1. CASE HandleFrame
    <3>1. PICK f \in Incoming :
            \/ RefuseEvenStream(f) \/ RefuseStream(f) \/ RefuseOldStream(f)
            \/ HandleHeaders(f) \/ HandleContinuation(f) \/ HandleData(f)
            \/ HandleRstStream(f) \/ HandlePriority(f) \/ HandlePing(f)
            \/ HandleExtension(f) \/ HandleConnectionWindow(f)
            \/ HandleStreamWindow(f) \/ HandleSettings(f) \/ HandleEndingFrame(f)
      BY <2>1 DEF HandleFrame
    <3>2. f \in Frame BY IncomingFrame DEF TypeOK
    <3> QED BY <3>1, <3>2, BuildAdmits, OtherFramesCalm
  <2> QED BY <2>1, OtherStepsCalm DEF Next, ParserStep, Finished
<1>3. LimitObserved' BY <1>2, CalmKeeps, AdmittedKeeps
<1> QED BY <1>1, <1>3

\* A new connection has no streams and announces its own limit.
LEMMA LimitInit == ASSUME Init PROVE LimitInvariant
<1>1. TypeOK /\ RequestInvariant BY InitType, InvariantInit
<1>2. OpenIds = {} /\ ProcessingIds = {} BY DEF Init, OpenIds, ProcessingIds
<1>3. /\ IsFiniteSet(OpenIds) /\ IsFiniteSet(ProcessingIds)
      /\ Cardinality(OpenIds \ {lastFrame.sid}) = 0 /\ Cardinality(ProcessingIds) = 0
  <2>1. OpenIds \ {lastFrame.sid} = {} BY <1>2
  <2> QED BY <1>2, <2>1, FS_EmptySet
<1>4. LimitKept => UpgradeKept BY DEF LimitKept, UpgradeKept, Init
<1>5. settings.maxStreams = MaxConcurrentStreams /\ MaxConcurrentStreams \in Nat
  BY LimitsAssumption DEF Init
<1> QED BY <1>1, <1>3, <1>4, <1>5 DEF LimitInvariant, LimitObserved

\* The limit holds without the stream of the last frame, in every state.
THEOREM LimitSafety == Spec => []LimitInvariant
  BY LimitInit, LimitStep, PTL DEF Spec

(***************************************************************************)
(* As long as the peer does not raise the limit, no order of frames makes  *)
(* the server hold more streams, open and queued, than it announced and    *)
(* the one stream that an EXTENSION frame may make.                        *)
(***************************************************************************)
THEOREM StreamsAreBounded == Spec => []ConcurrencyBounded
<1>1. ASSUME LimitInvariant, LimitKept
      PROVE  TotalQsize <= MaxConcurrentStreams + 1
  <2>1. /\ IsFiniteSet(OpenIds) /\ IsFiniteSet(ProcessingIds)
        /\ Cardinality(OpenIds \ {lastFrame.sid}) + Cardinality(ProcessingIds)
             <= MaxConcurrentStreams
    BY <1>1 DEF LimitInvariant, LimitObserved
  <2>2. OpenIds \subseteq (OpenIds \ {lastFrame.sid}) \cup {lastFrame.sid} OBVIOUS
  <2>3. IsFiniteSet(OpenIds \ {lastFrame.sid}) BY <2>1, NoMore
  <2>4. /\ Cardinality(OpenIds) <= Cardinality(OpenIds \ {lastFrame.sid}) + 1
        /\ Cardinality(OpenIds) \in Nat /\ Cardinality(OpenIds \ {lastFrame.sid}) \in Nat
    BY <2>2, <2>3, OneMore
  <2>5. Cardinality(ProcessingIds) \in Nat BY <2>1, FS_CardinalityType
  <2> QED BY <2>1, <2>4, <2>5, TotalIsSum, LimitsAssumption
<1>2. LimitInvariant => ConcurrencyBounded BY <1>1 DEF ConcurrencyBounded
<1> QED BY <1>2, LimitSafety, PTL
=============================================================================
