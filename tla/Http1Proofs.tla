----------------------------- MODULE Http1Proofs -----------------------------
(***************************************************************************)
(* Proofs about Http1Connection for every client that sends a sequence of  *)
(* tokens, of any length and however it is framed, and every MaxRead.      *)
(***************************************************************************)
EXTENDS Http1Properties, FiniteSetTheorems, TLAPS

Closed == {"close", "done"}

TypeInv ==
  /\ TypeOK
  /\ pc = "preface" => preface # <<>>
  /\ readBody => pc \in {"continue", "body"} \cup Closed
  /\ pc = "continue" /\ readBody => request.head.length \in Nat

\* Where an unfinished response or a failure may stand.
OutInv ==
  \A i \in 1..Len(out) :
    /\ out[i] \in Failures => i = Len(out) /\ pc \in Closed
    /\ out[i] = "stream" => IF i < Len(out) THEN out[i + 1] = "end"
                            ELSE pc \in {"stream"} \cup Closed

ProtocolInv == TypeInv /\ OutInv

-----------------------------------------------------------------------------
(* Minima: the strict order of the intervals 0..x is well-founded.         *)

LEMMA MinElement ==
  ASSUME NEW S \in SUBSET Nat, S # {}
  PROVE  Min(S) \in S /\ \A y \in S : Min(S) <= y
<1> DEFINE T == {0..x : x \in S}
<1>1. T \subseteq FiniteSubsetsOf(Nat) /\ T # {}
  <2>1. \A x \in S : 0..x \in SUBSET Nat /\ IsFiniteSet(0..x)
    BY FS_Interval
  <2> QED BY <2>1 DEF FiniteSubsetsOf
<1>2. IsWellFoundedOn(StrictSubsetOrdering(Nat), FiniteSubsetsOf(Nat))
  BY FS_StrictSubsetOrderingWellFounded
<1> HIDE DEF T
<1>3. PICK t \in T : \A u \in T : <<u, t>> \notin StrictSubsetOrdering(Nat)
  BY <1>1, <1>2, WFMin
<1>4. PICK x \in S : t = 0..x
  BY <1>3 DEF T
<1>5. ASSUME NEW y \in S PROVE x <= y
  <2>1. CASE y < x
    <3>1. 0..y \in T
      BY DEF T
    <3>2. 0..y \in SUBSET Nat /\ t \in SUBSET Nat /\ 0..y \subseteq t
      BY <1>4, <2>1
    <3>3. x \in t /\ x \notin 0..y
      BY <1>4, <2>1
    <3> QED BY <1>3, <3>1, <3>2, <3>3 DEF StrictSubsetOrdering
  <2> QED BY <2>1
<1> QED BY <1>5 DEF Min

LEMMA MinOfTwo ==
  ASSUME NEW a \in Nat, NEW b \in Nat
  PROVE  Min({a, b}) \in Nat /\ Min({a, b}) <= a /\ Min({a, b}) <= b
  BY MinElement

LEMMA StreamType ==
  ASSUME TypeOK
  PROVE  /\ stream \in Seq(Token) /\ Len(stream) \in Nat
         /\ \A p \in 1..Len(stream) : stream[p] \in Token
         /\ sent \in Nat /\ read \in Nat /\ read <= sent /\ sent <= Len(stream)
<1>1. stream \in Seq(Token)
  BY StreamsAssumption DEF TypeOK
<1> QED BY <1>1 DEF TypeOK

LEMMA LineFound ==
  ASSUME TypeOK, HasLine
  PROVE  /\ LineEnd \in (read + 1)..sent /\ LineEnd \in Nat /\ LineEnd \in 1..Len(stream)
         /\ stream[LineEnd] \in Token /\ stream[LineEnd].kind # "body"
<1>1. LineEnds \in SUBSET Nat /\ LineEnds # {}
  BY StreamType DEF LineEnds, HasLine
<1>2. LineEnd \in LineEnds
  BY <1>1, MinElement DEF LineEnd
<1>3. LineEnd \in (read + 1)..sent /\ stream[LineEnd].kind # "body"
  BY <1>2 DEF LineEnds
<1> QED BY <1>3, StreamType

\* The token of a kind is of the type of this kind.
LEMMA KindType ==
  ASSUME NEW token \in Token
  PROVE  /\ token.kind = "line" => token \in LineToken
         /\ token.kind = "head" => token \in HeadToken
         /\ token.kind \in {"line", "head", "body", "blank", "PRI", "SM"}
  BY DEF Token, LineToken, HeadToken, BodyToken

LEMMA NewRequestType ==
  ASSUME NEW p \in Nat, NEW version \in {"1.1", "1", "other", "none"},
         NEW target \in {"route", "nowhere", "unknown"}
  PROVE  /\ NewRequest(p, version, target) \in Request
         /\ NewRequest(p, version, target).line = p
         /\ NewRequest(p, version, target).version = version
         /\ NewRequest(p, version, target).target = target
         /\ NewRequest(p, version, target).got = 0
         /\ NewRequest(p, version, target).head = NoHead
<1>1. NoHead \in HeadToken
  BY DEF NoHead, HeadToken, Absent
<1> QED BY <1>1 DEF NewRequest, Request

-----------------------------------------------------------------------------
(* Types, failures and streams.                                            *)

LEMMA ProtocolInit == Init => ProtocolInv
<1> SUFFICES ASSUME Init PROVE ProtocolInv
  OBVIOUS
<1>1. request \in Request
  BY NewRequestType DEF Init
<1>2. Len(stream) \in Nat
  BY StreamsAssumption DEF Init
<1>3. /\ preface \in Seq({"blank", "SM"}) /\ out \in Seq(Written)
      /\ calls \in Seq([line : Nat, from : Nat, to : Nat])
  BY DEF Init
<1>4. read <= sent /\ sent <= Len(stream) /\ read \in Nat /\ sent \in Nat /\ unread \in Nat
  BY <1>2 DEF Init
<1>5. TypeOK
  BY <1>1, <1>3, <1>4, Zenon DEF Init, TypeOK
<1> QED BY <1>5 DEF Init, ProtocolInv, TypeInv, OutInv

LEMMA WrittenTypes ==
  /\ Failures \subseteq Written
  /\ "100" \in Written \ Failures /\ "101" \in Written \ Failures
  /\ "200" \in Written \ Failures /\ "404" \in Written \ Failures
  /\ "stream" \in Written \ Failures /\ "end" \in Written \ Failures
  BY DEF Failures, Written

\* An answer behind which nothing is unfinished.
LEMMA OutAppend ==
  ASSUME NEW s \in Seq(Written), NEW x \in Written
  PROVE  /\ Append(s, x) \in Seq(Written) /\ Len(Append(s, x)) = Len(s) + 1
         /\ \A i \in 1..Len(s) : Append(s, x)[i] = s[i]
         /\ Append(s, x)[Len(s) + 1] = x /\ Len(s) \in Nat
  OBVIOUS

\* What was written has come to an end.
Settled(s) == \A i \in 1..Len(s) :
                /\ s[i] \notin Failures
                /\ s[i] = "stream" => i < Len(s) /\ s[i + 1] = "end"

LEMMA SettledOut ==
  ASSUME ProtocolInv, pc \notin {"stream"} \cup Closed
  PROVE  Settled(out) /\ out \in Seq(Written)
  BY DEF ProtocolInv, TypeInv, TypeOK, OutInv, Settled

LEMMA SettledAppend ==
  ASSUME NEW s \in Seq(Written), Settled(s), NEW x \in Written \ Failures, x # "stream"
  PROVE  Settled(Append(s, x)) /\ Append(s, x) \in Seq(Written)
  BY OutAppend DEF Settled

LEMMA SettledInv ==
  ASSUME Settled(out)' PROVE OutInv'
  BY DEF Settled, OutInv

LEMMA FailureInv ==
  ASSUME Settled(out), out \in Seq(Written), NEW x \in Failures,
         out' = Append(out, x), pc' \in Closed
  PROVE  OutInv' /\ out' \in Seq(Written)
<1>1. x \in Written /\ x # "stream"
  BY DEF Written, Failures
<1> QED BY <1>1, OutAppend DEF OutInv, Settled

\* The task gives up without another word.
LEMMA OutClosed ==
  ASSUME OutInv, out' = out, pc' \in Closed \/ pc' = pc PROVE OutInv'
  BY DEF OutInv

LEMMA ProtocolClient == ProtocolInv /\ Client => ProtocolInv'
<1> SUFFICES ASSUME ProtocolInv, Client PROVE ProtocolInv'
  OBVIOUS
<1>1. /\ UNCHANGED <<stream, read, pc, request, loopVars, calls, out>>
      /\ sent' \in Nat /\ sent <= sent' /\ sent' <= Len(stream)
      /\ finished' \in BOOLEAN /\ eof' \in BOOLEAN /\ link' \in {"up", "reset", "aborted"}
      /\ congested' \in BOOLEAN
  <2>1. CASE \E n \in 1..Len(stream) : Arrive(n)
    BY <2>1, StreamType DEF Arrive, ProtocolInv, TypeInv, TypeOK, loopVars, outVars
  <2>2. CASE FinishSending
    BY <2>2, StreamType DEF FinishSending, ProtocolInv, TypeInv, TypeOK, loopVars, outVars
  <2>3. CASE Reset
    <3>1. /\ TypeOK /\ link' = "reset"
          /\ UNCHANGED <<stream, sent, finished, read, eof, pc, request, loopVars, calls, outVars>>
      BY <2>3 DEF Reset, ProtocolInv, TypeInv
    <3> QED BY <3>1, StreamType DEF TypeOK, outVars
  <2>4. CASE Drained
    <3>1. /\ TypeOK /\ congested' = FALSE
          /\ UNCHANGED <<stream, sent, finished, link, read, eof, pc, request, loopVars, calls, out>>
      BY <2>4 DEF Drained, ProtocolInv, TypeInv, clientVars
    <3>2. sent' \in Nat /\ sent <= sent' /\ sent' <= Len(stream)
      BY <3>1, StreamType
    <3>3. /\ finished' \in BOOLEAN /\ eof' \in BOOLEAN /\ link' \in {"up", "reset", "aborted"}
          /\ congested' \in BOOLEAN
      BY <3>1, Zenon DEF TypeOK
    <3> QED BY <3>1, <3>2, <3>3
  <2> QED BY <2>1, <2>2, <2>3, <2>4 DEF Client
<1>2. TypeInv'
  BY <1>1, StreamType DEF ProtocolInv, TypeInv, TypeOK, loopVars
<1> QED BY <1>1, <1>2, OutClosed DEF ProtocolInv

\* The steps that give the connection up.
GivesUp == \/ ReadFails \/ VerifyNothing \/ RefusePreface \/ NoRequestLine
           \/ FailResponse \/ BreakStream \/ FailDrain \/ EndHttp2 \/ CloseWriter

LEMMA GivesUpEffect ==
  ASSUME GivesUp
  PROVE  /\ pc' \in Closed /\ UNCHANGED <<clientVars, read, eof, request, loopVars, calls, out>>
         /\ congested' \in {congested, FALSE}
  BY DEF GivesUp, ReadFails, VerifyNothing, RefusePreface, NoRequestLine, FailResponse,
         BreakStream, FailDrain, EndHttp2, CloseWriter, Close, Closed, outVars

LEMMA ProtocolGivesUp == ProtocolInv /\ GivesUp => ProtocolInv'
<1> SUFFICES ASSUME ProtocolInv, GivesUp PROVE ProtocolInv'
  OBVIOUS
<1>1. TypeInv'
  BY GivesUpEffect DEF ProtocolInv, TypeInv, TypeOK, clientVars, loopVars, Closed
<1> QED BY <1>1, GivesUpEffect, OutClosed DEF ProtocolInv

LEMMA ProtocolTimeout == ProtocolInv /\ (HeaderTimeout \/ BodyTimeout) => ProtocolInv'
<1> SUFFICES ASSUME ProtocolInv, HeaderTimeout \/ BodyTimeout PROVE ProtocolInv'
  OBVIOUS
<1>1. /\ UNCHANGED <<clientVars, read, request, loopVars, calls>> /\ eof' \in BOOLEAN
      /\ pc' = "close" /\ out' = Append(out, "408") /\ congested' \in BOOLEAN
      /\ pc \in {"headers", "body"}
  BY DEF HeaderTimeout, BodyTimeout, AnswerFailure, Write, Close, ProtocolInv, TypeInv, TypeOK
<1>2. OutInv' /\ out' \in Seq(Written)
  BY <1>1, SettledOut, FailureInv DEF Closed, Failures
<1> QED BY <1>1, <1>2 DEF ProtocolInv, TypeInv, TypeOK, clientVars, loopVars, Closed

LEMMA ProtocolVerify == ProtocolInv /\ Verify => ProtocolInv'
<1> SUFFICES ASSUME ProtocolInv, Verify PROVE ProtocolInv'
  OBVIOUS
<1>1. /\ TypeOK /\ pc = "verify" /\ HasLine /\ read' = LineEnd
      /\ UNCHANGED <<clientVars, eof, unread, upgraded, calls, outVars>>
  BY DEF Verify, ProtocolInv, TypeInv
<1>2. /\ read' \in Nat /\ read' <= sent /\ stream[LineEnd] \in Token
  BY <1>1, LineFound
<1>3. /\ pc' \in {"preface", "headers", "close"} /\ request' \in Request
      /\ keepAlive' \in BOOLEAN /\ readBody' = FALSE
      /\ preface' \in Seq({"blank", "SM"}) /\ (pc' = "preface" => preface' # <<>>)
  <2>1. CASE pc' = "preface" /\ preface' = <<"blank", "SM", "blank">>
             /\ UNCHANGED <<request, keepAlive, readBody>>
    BY <1>1, <2>1 DEF ProtocolInv, TypeInv, TypeOK, Closed
  <2>2. CASE /\ stream[LineEnd].kind = "line" /\ pc' = "headers"
             /\ request' = NewRequest(LineEnd, stream[LineEnd].version, stream[LineEnd].target)
             /\ keepAlive' = TRUE /\ readBody' = FALSE /\ UNCHANGED preface
    <3>1. stream[LineEnd] \in LineToken
      BY <1>2, <2>2, KindType
    <3>2. request' \in Request
      BY <1>1, <1>2, <2>2, <3>1, NewRequestType DEF LineToken
    <3> QED BY <2>2, <3>2 DEF ProtocolInv, TypeInv, TypeOK
  <2>3. CASE pc' = "close" /\ UNCHANGED <<request, preface, keepAlive, readBody>>
    BY <1>1, <2>3 DEF ProtocolInv, TypeInv, TypeOK, Closed
  <2> QED BY <2>1, <2>2, <2>3 DEF Verify, Close
<1>4. TypeInv'
  BY <1>1, <1>2, <1>3 DEF ProtocolInv, TypeInv, TypeOK, clientVars, outVars
<1>5. OutInv'
  BY <1>1, SettledOut, SettledInv DEF Closed, Settled, outVars
<1> QED BY <1>4, <1>5 DEF ProtocolInv

LEMMA ProtocolPreface == ProtocolInv /\ ConfirmPreface => ProtocolInv'
<1> SUFFICES ASSUME ProtocolInv, ConfirmPreface PROVE ProtocolInv'
  OBVIOUS
<1>1. /\ TypeOK /\ pc = "preface" /\ HasLine /\ read' = LineEnd /\ preface' = Tail(preface)
      /\ pc' \in {"close", "http2", "preface"} /\ (pc' = "preface" => Len(preface) # 1)
      /\ UNCHANGED <<clientVars, eof, request, keepAlive, readBody, unread, upgraded, calls, outVars>>
  BY DEF ConfirmPreface, ProtocolInv, TypeInv
<1>2. read' \in Nat /\ read' <= sent
  BY <1>1, LineFound
<1>3. preface \in Seq({"blank", "SM"}) /\ preface # <<>>
  BY <1>1 DEF ProtocolInv, TypeInv, TypeOK
<1>4. preface' \in Seq({"blank", "SM"}) /\ (pc' = "preface" => preface' # <<>>)
  <2>1. Tail(preface) \in Seq({"blank", "SM"}) /\ Len(Tail(preface)) = Len(preface) - 1
        /\ Len(preface) \in Nat
    BY <1>3
  <2>2. pc' = "preface" => Len(Tail(preface)) # 0
    BY <1>1, <1>3, <2>1
  <2> QED BY <1>1, <2>1, <2>2
<1>5. TypeInv'
  BY <1>1, <1>2, <1>4 DEF ProtocolInv, TypeInv, TypeOK, clientVars, outVars, Closed
<1>6. OutInv'
  BY <1>1, SettledOut, SettledInv DEF Closed, Settled, outVars
<1> QED BY <1>5, <1>6 DEF ProtocolInv

LEMMA LinesType ==
  ASSUME TypeOK, HasLine, NEW line \in Lines
  PROVE  /\ line.version \in {"1.1", "1", "other", "none"}
         /\ line.target \in {"route", "nowhere", "unknown"}
<1>1. /\ stream[LineEnd] \in Token
      /\ stream[LineEnd].kind = "line" => stream[LineEnd] \in LineToken
  BY LineFound, KindType
<1> QED BY <1>1 DEF Lines, LineToken

LEMMA ProtocolRequestLine == ProtocolInv /\ ReadRequestLine => ProtocolInv'
<1> SUFFICES ASSUME ProtocolInv, ReadRequestLine PROVE ProtocolInv'
  OBVIOUS
<1>1. /\ TypeOK /\ pc = "line" /\ HasLine /\ read' = LineEnd
      /\ UNCHANGED <<clientVars, eof, loopVars, calls, outVars>>
  BY DEF ReadRequestLine, ProtocolInv, TypeInv
<1>2. /\ read' \in Nat /\ read' <= sent
  BY <1>1, LineFound
<1>3. pc' \in {"close", "headers"} /\ request' \in Request
  <2>1. PICK line \in Lines :
          IF line.version = "none" THEN Close /\ UNCHANGED request
          ELSE pc' = "headers" /\ request' = NewRequest(LineEnd, line.version, line.target)
    BY DEF ReadRequestLine
  <2>2. /\ line.version \in {"1.1", "1", "other", "none"}
        /\ line.target \in {"route", "nowhere", "unknown"}
    BY <1>1, LinesType
  <2>3. CASE line.version = "none" /\ pc' = "close" /\ request' = request
    BY <1>1, <2>3 DEF TypeOK
  <2>4. CASE pc' = "headers" /\ request' = NewRequest(LineEnd, line.version, line.target)
    BY <1>1, <1>2, <2>2, <2>4, NewRequestType
  <2> QED BY <2>1, <2>3, <2>4 DEF Close
<1>4. TypeInv'
  BY <1>1, <1>2, <1>3 DEF ProtocolInv, TypeInv, TypeOK, clientVars, outVars, loopVars, Closed
<1>5. OutInv'
  BY <1>1, SettledOut, SettledInv DEF Closed, Settled, outVars
<1> QED BY <1>4, <1>5 DEF ProtocolInv

LEMMA ProtocolHeaderLine == ProtocolInv /\ ReadHeaderLine => ProtocolInv'
<1> SUFFICES ASSUME ProtocolInv, ReadHeaderLine PROVE ProtocolInv'
  OBVIOUS
<1> DEFINE head == IF IsClean /\ stream[LineEnd].kind = "head" /\ ~request.head.malformed
                   THEN stream[LineEnd] ELSE [request.head EXCEPT !.malformed = TRUE]
<1>1. /\ TypeOK /\ pc = "headers" /\ HasLine /\ read' = LineEnd
      /\ UNCHANGED <<clientVars, eof, pc, loopVars, calls, outVars>>
      /\ request \in Request /\ request' = [request EXCEPT !.head = head]
  BY DEF ReadHeaderLine, ProtocolInv, TypeInv, TypeOK, Request
<1>2. /\ read' \in Nat /\ read' <= sent /\ stream[LineEnd] \in Token
  BY <1>1, LineFound
<1>3. head \in HeadToken
  <2>1. request.head \in HeadToken
    BY <1>1 DEF Request
  <2>2. [request.head EXCEPT !.malformed = TRUE] \in HeadToken
    BY <2>1 DEF HeadToken
  <2> QED BY <1>2, <2>2, KindType
<1> HIDE DEF head
<1>4. request' \in Request
  BY <1>1, <1>3 DEF Request
<1>5. TypeInv'
  BY <1>1, <1>2, <1>4 DEF ProtocolInv, TypeInv, TypeOK, clientVars, outVars, loopVars, Closed
<1> QED BY <1>1, <1>5, OutClosed DEF ProtocolInv, outVars

Call == [line : Nat, from : Nat, to : Nat]

LEMMA ServeOutput ==
  ASSUME NEW r \in Request, out \in Seq(Written), Settled(out), NEW keep,
         calls \in Seq(Call), upgraded \in BOOLEAN, congested \in BOOLEAN, Serve(r, keep)
  PROVE  /\ pc' \in {"verify", "close", "line", "endpoint"}
         /\ Settled(out') /\ out' \in Seq(Written) /\ congested' \in BOOLEAN
         /\ calls' \in Seq(Call) /\ upgraded' \in BOOLEAN
<1>1. CASE pc' = "verify" /\ upgraded' = TRUE /\ calls' = calls /\ Write("101")
  BY <1>1, SettledAppend, WrittenTypes DEF Write
<1>2. CASE pc' = "close" /\ UNCHANGED <<calls, upgraded, outVars>>
  BY <1>2 DEF outVars
<1>3. CASE pc' \in {"line", "close"} /\ Write("404") /\ UNCHANGED <<calls, upgraded>>
  BY <1>3, SettledAppend, WrittenTypes DEF Write
<1>4. CASE /\ pc' = "endpoint" /\ UNCHANGED <<upgraded, outVars>>
           /\ calls' = Append(calls, [line |-> r.line, from |-> r.from, to |-> r.from + r.got])
  <2>1. [line |-> r.line, from |-> r.from, to |-> r.from + r.got] \in Call
    BY DEF Request, Call
  <2> QED BY <1>4, <2>1 DEF outVars
<1> QED BY <1>1, <1>2, <1>3, <1>4 DEF Serve, NextTurn, Close

LEMMA ReadOrServeOutput ==
  ASSUME NEW r \in Request, out \in Seq(Written), Settled(out), NEW keep,
         calls \in Seq(Call), upgraded \in BOOLEAN, congested \in BOOLEAN, unread \in Nat,
         NeedsBody(r) => r.head.length \in Nat, ReadOrServe(r, keep)
  PROVE  /\ pc' \in {"body", "verify", "close", "line", "endpoint"}
         /\ Settled(out') /\ out' \in Seq(Written) /\ congested' \in BOOLEAN
         /\ calls' \in Seq(Call) /\ upgraded' \in BOOLEAN
         /\ readBody' \in BOOLEAN /\ (readBody' => pc' = "body") /\ unread' \in Nat
<1>1. CASE NeedsBody(r) /\ pc' = "body" /\ readBody' = TRUE /\ unread' = r.head.length
           /\ UNCHANGED <<upgraded, calls, outVars>>
  BY <1>1 DEF outVars
<1>2. CASE readBody' = FALSE /\ Serve(r, keep) /\ UNCHANGED unread
  BY <1>2, ServeOutput
<1> QED BY <1>1, <1>2 DEF ReadOrServe

\* What one turn of the loop over the body reads.
LEMMA BodyPortion ==
  ASSUME TypeOK, pc = "body"
  PROVE  /\ Portion \in Nat /\ Portion <= unread /\ Portion <= MaxRead
         /\ Available \in Nat /\ Min({Portion, Available}) \in Nat
         /\ Min({Portion, Available}) <= Portion /\ Min({Portion, Available}) <= Available
         /\ read + Min({Portion, Available}) <= sent
<1>1. /\ unread \in Nat /\ MaxRead \in Nat /\ read \in Nat /\ sent \in Nat /\ read <= sent
  BY ReadAssumption DEF TypeOK
<1>2. Portion \in Nat /\ Portion <= unread /\ Portion <= MaxRead
  BY <1>1, MinOfTwo DEF Portion
<1>3. Available \in Nat /\ read + Available = sent
  BY <1>1 DEF Available
<1>4. /\ Min({Portion, Available}) \in Nat
      /\ Min({Portion, Available}) <= Portion /\ Min({Portion, Available}) <= Available
  BY <1>2, <1>3, MinOfTwo
<1> QED BY <1>1, <1>2, <1>3, <1>4

LEMMA ProtocolEndHead == ProtocolInv /\ EndHead => ProtocolInv'
<1> SUFFICES ASSUME ProtocolInv, EndHead PROVE ProtocolInv'
  OBVIOUS
<1> DEFINE r == [request EXCEPT !.from = LineEnd]
<1>1. /\ TypeOK /\ pc = "headers" /\ HasLine /\ read' = LineEnd /\ request' = r
      /\ UNCHANGED <<clientVars, eof, preface>> /\ request \in Request
      /\ keepAlive \in BOOLEAN /\ readBody = FALSE /\ unread \in Nat /\ upgraded \in BOOLEAN
      /\ calls \in Seq(Call) /\ congested \in BOOLEAN
  BY DEF EndHead, ProtocolInv, TypeInv, TypeOK, Closed, Call
<1>2. read' \in Nat /\ read' <= sent /\ LineEnd \in Nat
  BY <1>1, LineFound
<1>3. r \in Request /\ r.head \in HeadToken
  BY <1>1, <1>2 DEF Request
<1>4. Settled(out) /\ out \in Seq(Written)
  BY <1>1, SettledOut DEF Closed
<1>5. KeepAlive(r) \in BOOLEAN /\ ShouldReadBody(r) \in BOOLEAN
      /\ (ShouldReadBody(r) => r.head.length \in Nat)
  <2> HIDE DEF r
  <2>1. r.head.length \in Nat \cup {Absent} /\ r.head.close \in BOOLEAN
    BY <1>3 DEF HeadToken
  <2>2. KeepAlive(r) \in BOOLEAN
    BY <1>1 DEF KeepAlive
  <2>3. r.head.length = Absent => ShouldReadBody(r) = FALSE
    BY <1>1 DEF ShouldReadBody
  <2>4. r.head.length # Absent => ShouldReadBody(r) \in BOOLEAN /\ r.head.length \in Nat
    BY <2>1 DEF ShouldReadBody
  <2> QED BY <2>2, <2>3, <2>4
<1>6. /\ RaisesInHead(r) /\ pc' = "close"
         /\ UNCHANGED <<keepAlive, readBody, unread, upgraded, calls, outVars>>
      \/ /\ keepAlive' = KeepAlive(r) /\ pc' = "close" /\ Write("417")
         /\ readBody' = ShouldReadBody(r) /\ UNCHANGED <<unread, upgraded, calls>>
      \/ /\ keepAlive' = KeepAlive(r) /\ pc' = "close"
         /\ readBody' = ShouldReadBody(r) /\ UNCHANGED <<unread, upgraded, calls, outVars>>
      \/ /\ keepAlive' = KeepAlive(r) /\ pc' = "continue" /\ Write("100")
         /\ readBody' = ShouldReadBody(r) /\ UNCHANGED <<unread, upgraded, calls>>
      \/ /\ keepAlive' = KeepAlive(r)
         /\ ReadOrServe(r, KeepAlive(r))
  BY DEF EndHead, Close, AnswerFailure
<1> HIDE DEF r
<1>7. CASE pc' = "close" /\ OutInv' /\ out' \in Seq(Written) /\ keepAlive' \in BOOLEAN
           /\ congested' \in BOOLEAN /\ readBody' \in BOOLEAN
           /\ UNCHANGED <<unread, upgraded, calls>>
  BY <1>1, <1>2, <1>3, <1>7 DEF ProtocolInv, TypeInv, TypeOK, clientVars, Closed
<1>8. CASE keepAlive' = KeepAlive(r) /\ ReadOrServe(r, KeepAlive(r))
  <2>1. /\ pc' \in {"body", "verify", "close", "line", "endpoint"}
        /\ Settled(out') /\ out' \in Seq(Written) /\ congested' \in BOOLEAN
        /\ calls' \in Seq(Call) /\ upgraded' \in BOOLEAN
        /\ readBody' \in BOOLEAN /\ (readBody' => pc' = "body") /\ unread' \in Nat
    BY <1>1, <1>3, <1>4, <1>5, <1>8, ReadOrServeOutput DEF NeedsBody
  <2>2. OutInv'
    BY <2>1, SettledInv DEF Settled
  <2>3. TypeInv'
    BY <1>1, <1>2, <1>3, <1>5, <1>8, <2>1
       DEF ProtocolInv, TypeInv, TypeOK, clientVars, Closed, Call
  <2> QED BY <2>2, <2>3 DEF ProtocolInv
<1>9. CASE /\ keepAlive' = KeepAlive(r) /\ pc' = "continue" /\ Write("100")
           /\ readBody' = ShouldReadBody(r) /\ UNCHANGED <<unread, upgraded, calls>>
  <2>1. Settled(out') /\ out' \in Seq(Written) /\ congested' \in BOOLEAN
    BY <1>4, <1>9, SettledAppend, WrittenTypes DEF Write
  <2>2. OutInv'
    BY <2>1, SettledInv DEF Settled
  <2>3. TypeInv'
    BY <1>1, <1>2, <1>3, <1>5, <1>9, <2>1 DEF ProtocolInv, TypeInv, TypeOK, clientVars, Closed
  <2> QED BY <2>2, <2>3 DEF ProtocolInv
<1>10. CASE pc' = "close" /\ UNCHANGED outVars /\ keepAlive' \in BOOLEAN
            /\ readBody' \in BOOLEAN /\ UNCHANGED <<unread, upgraded, calls>>
  BY <1>1, <1>4, <1>7, <1>10, SettledInv DEF Settled, outVars
<1>11. CASE pc' = "close" /\ Write("417") /\ keepAlive' \in BOOLEAN
            /\ readBody' \in BOOLEAN /\ UNCHANGED <<unread, upgraded, calls>>
  BY <1>4, <1>7, <1>11, FailureInv DEF Closed, Failures, Write
<1>12. CASE RaisesInHead(r) /\ pc' = "close"
            /\ UNCHANGED <<keepAlive, readBody, unread, upgraded, calls, outVars>>
  BY <1>1, <1>10, <1>12
<1> QED BY <1>5, <1>6, <1>8, <1>9, <1>10, <1>11, <1>12

LEMMA ProtocolContinue == ProtocolInv /\ Continue => ProtocolInv'
<1> SUFFICES ASSUME ProtocolInv, Continue PROVE ProtocolInv'
  OBVIOUS
<1>1. /\ TypeOK /\ pc = "continue" /\ ReadOrServe(request, keepAlive)
      /\ UNCHANGED <<clientVars, read, eof, request, keepAlive, preface>> /\ request \in Request
      /\ unread \in Nat /\ upgraded \in BOOLEAN /\ calls \in Seq(Call) /\ congested \in BOOLEAN
  BY DEF Continue, ProtocolInv, TypeInv, TypeOK, Call
<1>2. Settled(out) /\ out \in Seq(Written)
  BY <1>1, SettledOut DEF Closed
<1>3. NeedsBody(request) => request.head.length \in Nat
  <2>1. request.head.length \in Nat \cup {Absent}
    BY <1>1 DEF Request, HeadToken
  <2> QED BY <1>1, <2>1 DEF NeedsBody, ShouldReadBody, ProtocolInv, TypeInv
<1>4. /\ pc' \in {"body", "verify", "close", "line", "endpoint"}
      /\ Settled(out') /\ out' \in Seq(Written) /\ congested' \in BOOLEAN
      /\ calls' \in Seq(Call) /\ upgraded' \in BOOLEAN
      /\ readBody' \in BOOLEAN /\ (readBody' => pc' = "body") /\ unread' \in Nat
  BY <1>1, <1>2, <1>3, ReadOrServeOutput
<1>5. OutInv'
  BY <1>4, SettledInv DEF Settled
<1>6. TypeInv'
  BY <1>1, <1>4 DEF ProtocolInv, TypeInv, TypeOK, clientVars, Closed, Call
<1> QED BY <1>5, <1>6 DEF ProtocolInv

LEMMA ProtocolBody == ProtocolInv /\ ReadBody => ProtocolInv'
<1> SUFFICES ASSUME ProtocolInv, ReadBody PROVE ProtocolInv'
  OBVIOUS
<1> DEFINE units == Min({Portion, Available})
           text == request.text /\ \A p \in (read + 1)..(read + units) :
                                     stream[p].kind = "body" => stream[p].text
           r == [request EXCEPT !.got = @ + units, !.text = text]
<1>1. /\ TypeOK /\ pc = "body" /\ eof' = TRUE /\ read' = read + units
      /\ unread' = unread - Portion /\ request' = r
      /\ UNCHANGED <<clientVars, keepAlive, preface>>
      /\ request \in Request /\ unread \in Nat /\ calls \in Seq(Call)
      /\ keepAlive \in BOOLEAN /\ readBody \in BOOLEAN /\ upgraded \in BOOLEAN
      /\ congested \in BOOLEAN
  BY DEF ReadBody, ProtocolInv, TypeInv, TypeOK, Request, Call
<1>2. units \in Nat /\ read' \in Nat /\ read' <= sent /\ unread' \in Nat
  BY <1>1, BodyPortion DEF TypeOK
<1>3. \/ UNCHANGED <<pc, readBody, upgraded, calls, outVars>>
      \/ pc' = "close" /\ Write("400") /\ UNCHANGED <<readBody, upgraded, calls>>
      \/ pc' = "close" /\ UNCHANGED <<readBody, upgraded, calls, outVars>>
      \/ readBody' = FALSE /\ Serve(r, keepAlive)
  BY DEF ReadBody, Close, AnswerFailure
<1>4. Settled(out) /\ out \in Seq(Written)
  BY <1>1, SettledOut DEF Closed
<1>5. text \in BOOLEAN
  BY <1>1 DEF Request
<1>6. r \in Request
  <2> DEFINE got == request.got + units
  <2>1. got \in Nat
    BY <1>1, <1>2 DEF Request
  <2>2. r = [request EXCEPT !.got = got, !.text = text]
    BY <1>1 DEF Request
  <2> HIDE DEF r, got, units, text
  <2> QED BY <1>1, <1>5, <2>1, <2>2 DEF Request
<1> HIDE DEF units, text
<1> HIDE DEF r
<1>7. CASE /\ pc' \in {"body", "close"} /\ OutInv' /\ out' \in Seq(Written)
           /\ congested' \in BOOLEAN /\ UNCHANGED <<readBody, upgraded, calls>>
  BY <1>1, <1>2, <1>6, <1>7 DEF ProtocolInv, TypeInv, TypeOK, clientVars, Closed
<1>8. CASE pc' \in {"body", "close"} /\ UNCHANGED <<readBody, upgraded, calls, outVars>>
  BY <1>1, <1>4, <1>7, <1>8, SettledInv DEF Settled, outVars
<1>9. CASE pc' = "close" /\ Write("400") /\ UNCHANGED <<readBody, upgraded, calls>>
  BY <1>4, <1>7, <1>9, FailureInv DEF Closed, Failures, Write
<1>10. CASE readBody' = FALSE /\ Serve(r, keepAlive)
  <2>1. /\ pc' \in {"verify", "close", "line", "endpoint"} /\ Settled(out') /\ out' \in Seq(Written)
        /\ calls' \in Seq(Call) /\ upgraded' \in BOOLEAN /\ congested' \in BOOLEAN
    BY <1>1, <1>4, <1>6, <1>10, ServeOutput
  <2>2. OutInv'
    BY <2>1, SettledInv DEF Settled
  <2>3. TypeInv'
    BY <1>1, <1>2, <1>6, <1>10, <2>1
       DEF ProtocolInv, TypeInv, TypeOK, clientVars, Closed, Call
  <2> QED BY <2>2, <2>3 DEF ProtocolInv
<1> QED BY <1>1, <1>3, <1>8, <1>9, <1>10

LEMMA ProtocolAnswer == ProtocolInv /\ (Respond \/ StartStream \/ EndStream) => ProtocolInv'
<1> SUFFICES ASSUME ProtocolInv, Respond \/ StartStream \/ EndStream PROVE ProtocolInv'
  OBVIOUS
<1>1. /\ UNCHANGED <<clientVars, read, eof, request, loopVars, calls>>
      /\ \/ pc = "endpoint" /\ pc' \in {"line", "close"} /\ out' = Append(out, "200")
         \/ pc = "endpoint" /\ pc' = "stream" /\ out' = Append(out, "stream")
         \/ pc = "stream" /\ pc' \in {"line", "close"} /\ out' = Append(out, "end")
      /\ congested' \in BOOLEAN
  BY DEF Respond, StartStream, EndStream, NextTurn, Write
<1>2. out \in Seq(Written)
  BY DEF ProtocolInv, TypeInv, TypeOK
<1>3. out' \in Seq(Written)
  BY <1>1, <1>2, OutAppend, WrittenTypes
<1>4. OutInv'
  <2>1. CASE pc = "endpoint" /\ out' = Append(out, "200")
    <3>1. Settled(out)
      BY <2>1, SettledOut DEF Closed
    <3>2. Settled(out')
      BY <1>2, <2>1, <3>1, SettledAppend, WrittenTypes
    <3> QED BY <3>2, SettledInv DEF Settled
  <2>2. CASE pc = "endpoint" /\ pc' = "stream" /\ out' = Append(out, "stream")
    <3>1. Settled(out)
      BY <2>2, SettledOut DEF Closed
    <3> QED BY <1>2, <2>2, <3>1, OutAppend, WrittenTypes DEF Settled, OutInv
  <2>3. CASE pc = "stream" /\ out' = Append(out, "end")
    <3>1. \A i \in 1..Len(out) :
            /\ out[i] \notin Failures
            /\ out[i] = "stream" /\ i < Len(out) => out[i + 1] = "end"
      BY <2>3 DEF ProtocolInv, OutInv, Closed
    <3>2. "end" \notin Failures /\ "end" # "stream"
      BY WrittenTypes
    <3>3. /\ Len(out') = Len(out) + 1 /\ Len(out) \in Nat /\ out'[Len(out) + 1] = "end"
          /\ \A i \in 1..Len(out) : out'[i] = out[i]
      BY <1>2, <2>3, OutAppend, WrittenTypes
    <3> SUFFICES ASSUME NEW i \in 1..Len(out')
                 PROVE  /\ out'[i] \notin Failures
                        /\ out'[i] = "stream" => i < Len(out') /\ out'[i + 1] = "end"
      BY DEF OutInv
    <3>4. CASE i = Len(out) + 1
      BY <3>2, <3>3, <3>4
    <3>5. CASE i = Len(out)
      <4>1. i \in 1..Len(out) /\ i < Len(out') /\ i + 1 = Len(out) + 1
        BY <3>3, <3>5
      <4>2. out'[i] = out[i] /\ out'[i + 1] = "end"
        BY <3>3, <4>1
      <4>3. out[i] \notin Failures
        BY <3>1, <4>1
      <4> QED BY <4>1, <4>2, <4>3
    <3>6. CASE i < Len(out)
      <4>1. i \in 1..Len(out) /\ i + 1 \in 1..Len(out) /\ i < Len(out')
        BY <3>3, <3>6
      <4>2. out'[i] = out[i] /\ out'[i + 1] = out[i + 1]
        BY <3>3, <4>1
      <4>3. out[i] \notin Failures /\ (out[i] = "stream" => out[i + 1] = "end")
        BY <3>1, <3>6, <4>1
      <4> QED BY <4>1, <4>2, <4>3
    <3> QED BY <3>3, <3>4, <3>5, <3>6
  <2> QED BY <1>1, <2>1, <2>2, <2>3
<1>5. TypeInv'
  BY <1>1, <1>3 DEF ProtocolInv, TypeInv, TypeOK, clientVars, loopVars, Closed
<1> QED BY <1>4, <1>5 DEF ProtocolInv

LEMMA ProtocolNext == ProtocolInv /\ [Next]_vars => ProtocolInv'
<1> SUFFICES ASSUME ProtocolInv, [Next]_vars PROVE ProtocolInv'
  OBVIOUS
<1>1. CASE Client
  BY <1>1, ProtocolClient
<1>2. CASE Read \/ Answer \/ FailDrain \/ EndHttp2 \/ CloseWriter
  <2>1. CASE SpinInHead
    BY <2>1, OutClosed
       DEF SpinInHead, vars, clientVars, loopVars, outVars, ProtocolInv, TypeInv, TypeOK
  <2>2. CASE WriteChunk
    BY <2>2, OutClosed DEF WriteChunk, clientVars, loopVars, ProtocolInv, TypeInv, TypeOK
  <2> QED BY <1>2, <2>1, <2>2, ProtocolGivesUp, ProtocolTimeout, ProtocolVerify,
             ProtocolPreface, ProtocolRequestLine, ProtocolHeaderLine, ProtocolEndHead,
             ProtocolContinue, ProtocolBody, ProtocolAnswer DEF Read, Answer, GivesUp
<1>3. CASE Finished \/ UNCHANGED vars
  <2>1. UNCHANGED vars
    BY <1>3 DEF Finished
  <2> QED BY <2>1, OutClosed DEF vars, clientVars, loopVars, outVars, ProtocolInv, TypeInv, TypeOK
<1> QED BY <1>1, <1>2, <1>3 DEF Next

(***************************************************************************)
(* The types, and that an answer that ends the connection or leaves a      *)
(* stream open is the last one until the stream's end: what StreamsEnd and *)
(* FailureIsFinal rest on.                                                 *)
(***************************************************************************)
THEOREM ProtocolSafety == Spec => []ProtocolInv
<1> QED BY ProtocolInit, ProtocolNext, PTL DEF Spec

(***************************************************************************)
(* The types of Http1Connection.                                           *)
(***************************************************************************)
THEOREM TypeCorrect == Spec => []TypeOK
<1>1. ProtocolInv => TypeOK
  BY DEF ProtocolInv, TypeInv
<1> QED BY <1>1, ProtocolSafety, PTL

(***************************************************************************)
(* 408, 400 and 417 end a connection.                                      *)
(***************************************************************************)
THEOREM FailuresAreFinal == Spec => []FailureIsFinal
<1>1. ProtocolInv => FailureIsFinal
  BY DEF ProtocolInv, OutInv, FailureIsFinal, Closed
<1> QED BY <1>1, ProtocolSafety, PTL

(***************************************************************************)
(* Nothing is written into an unfinished chunked response.                 *)
(***************************************************************************)
THEOREM StreamsAreEnded == Spec => []StreamsEnd
<1>1. ProtocolInv => StreamsEnd
  BY DEF ProtocolInv, OutInv, StreamsEnd
<1> QED BY <1>1, ProtocolSafety, PTL

-----------------------------------------------------------------------------
(* The requests as the client frames them.                                 *)

Serving == {"headers", "continue", "body", "endpoint", "stream"}

\* A request of HTTP/1.1 whose header lines say "connection: close".
Ending(p) == /\ stream[p].kind = "line" /\ stream[p].version = "1.1"
             /\ \E h \in HeadsOf(p) : h.close

\* What was read of a request whose head is not malformed so far.
LineInv ==
  /\ pc \in Serving =>
       /\ request.line \in 1..read
       /\ request.version # "other" =>
            stream[request.line].kind = "line" /\ stream[request.line].version = request.version
  /\ pc = "headers" => request.got = 0
  /\ pc = "headers" /\ ~request.head.malformed =>
       \/ request.head = NoHead /\ read = request.line
       \/ read = request.line + 1 /\ stream[read].kind = "head" /\ request.head = stream[read]

\* Behind the 100 Continue the whole body is still to come.
ContinueInv ==
  pc = "continue" =>
    /\ request.version # "other" /\ request.got = 0 /\ request.from = read
    /\ readBody <=> request.head.length # Absent /\ request.head.length > 0
    /\ IsWellFramed =>
         /\ EndOf(request.line) = read + (IF readBody THEN request.head.length ELSE 0)
         /\ BodyOf(request.line) = (read + 1)..EndOf(request.line)
    /\ Ending(request.line) => ~keepAlive

\* The body is not taken for longer than its request says.
BodyInv ==
  pc = "body" =>
    /\ request.version # "other" /\ request.line <= request.from
    /\ read = request.from + request.got /\ request.got + unread <= request.head.length
    /\ IsWellFramed => /\ EndOf(request.line) = request.from + request.head.length
                       /\ BodyOf(request.line) = (request.from + 1)..EndOf(request.line)
    /\ Ending(request.line) => ~keepAlive

\* The requests endpoints were called for.
CallInv ==
  \A i \in 1..Len(calls) :
    /\ calls[i].line \in 1..read /\ stream[calls[i].line].kind = "line"
    /\ pc \in {"headers", "continue", "body"} => calls[i].line < request.line
    /\ \A j \in 1..(i - 1) : calls[j].line < calls[i].line
    /\ IsWellFramed => (calls[i].from + 1)..calls[i].to = BodyOf(calls[i].line)
    /\ Ending(calls[i].line) =>
         i = Len(calls) /\ (pc \in Closed \/ (pc \in {"endpoint", "stream"} /\ ~keepAlive))

AlignInv ==
  IsWellFramed /\ (pc \in {"line", "endpoint", "stream"} \/ (pc = "verify" /\ upgraded))
    => read = EndOf(request.line)

RequestInv == ProtocolInv /\ LineInv /\ ContinueInv /\ BodyInv /\ CallInv /\ AlignInv

LEMMA SameStream ==
  ASSUME stream' = stream
  PROVE  /\ \A p : EndOf(p)' = EndOf(p) /\ BodyOf(p)' = BodyOf(p) /\ Ending(p)' = Ending(p)
         /\ IsWellFramed' = IsWellFramed
<1>1. \A p : EndOf(p)' = EndOf(p)
  BY DEF EndOf, IsFirstLine
<1>2. \A p : BodyOf(p)' = BodyOf(p) /\ HeadsOf(p)' = HeadsOf(p)
  BY <1>1 DEF BodyOf, HeadsOf
<1>3. \A p : Ending(p)' = Ending(p)
  BY <1>2 DEF Ending
<1>4. \A p : IsFramed(p)' = IsFramed(p)
  BY <1>1 DEF IsFramed
<1>5. IsWellFramed' = IsWellFramed
  BY <1>4 DEF IsWellFramed
<1> QED BY <1>1, <1>2, <1>3, <1>5

LEMMA EndOfRequest ==
  ASSUME TypeOK, NEW p \in 1..Len(stream)
  PROVE  /\ EndOf(p) \in p..Len(stream) /\ EndOf(p) \in Nat
         /\ \A q \in (p + 1)..EndOf(p) : ~IsFirstLine(q)
         /\ EndOf(p) < Len(stream) => IsFirstLine(EndOf(p) + 1)
<1> DEFINE next == {q \in (p + 1)..Len(stream) : IsFirstLine(q)}
<1>1. Len(stream) \in Nat /\ next \in SUBSET Nat
  BY StreamType
<1>2. CASE next = {}
  <2>1. EndOf(p) = Len(stream)
    BY <1>2 DEF EndOf
  <2> QED BY <1>1, <1>2, <2>1
<1>3. CASE next # {}
  <2>1. Min(next) \in next /\ \A q \in next : Min(next) <= q
    BY <1>1, <1>3, MinElement
  <2>2. EndOf(p) = Min(next) - 1
    BY <1>3 DEF EndOf
  <2> HIDE DEF next
  <2>3. Min(next) \in (p + 1)..Len(stream) /\ IsFirstLine(Min(next))
    BY <2>1 DEF next
  <2>4. \A q \in (p + 1)..EndOf(p) : q \notin next
    BY <1>1, <2>1, <2>2, <2>3
  <2>5. \A q \in (p + 1)..EndOf(p) : ~IsFirstLine(q)
    BY <1>1, <2>2, <2>3, <2>4 DEF next
  <2> QED BY <1>1, <2>2, <2>3, <2>5
<1> QED BY <1>2, <1>3

\* Where the head of a request ends its body begins, which ends with it.
LEMMA Framing ==
  ASSUME TypeOK, NEW p \in 1..Len(stream), stream[p].kind = "line", IsWellFramed,
         NEW b \in {p + 1, p + 2}, b <= Len(stream), stream[b].kind = "blank",
         b = p + 2 => stream[p + 1].kind = "head"
  PROVE  /\ EndOf(p) = b + (IF b = p + 2 /\ stream[p + 1].length > 0
                            THEN stream[p + 1].length ELSE 0)
         /\ BodyOf(p) = (b + 1)..EndOf(p)
<1>1. /\ Len(stream) \in Nat /\ EndOf(p) \in p..Len(stream) /\ EndOf(p) \in Nat
      /\ EndOf(p) < Len(stream) => IsFirstLine(EndOf(p) + 1)
  BY EndOfRequest, StreamType
<1>2. ~IsFirstLine(p + 1) /\ ~IsFirstLine(b)
  BY DEF IsFirstLine
<1>3. b <= EndOf(p)
  BY <1>1, <1>2
<1>4. IsFramed(p)
  BY DEF IsWellFramed
<1>5. PICK blank \in {p + 1, p + 2} \cap 1..EndOf(p) :
        /\ stream[blank].kind = "blank"
        /\ blank = p + 2 => stream[p + 1].kind = "head"
        /\ \A q \in (blank + 1)..EndOf(p) : stream[q].kind = "body"
        /\ EndOf(p) - blank = IF blank = p + 2 /\ stream[p + 1].length > 0
                              THEN stream[p + 1].length ELSE 0
  BY <1>1, <1>3, <1>4 DEF IsFramed
<1>6. blank = b
  BY <1>5
<1>7. EndOf(p) = b + (IF b = p + 2 /\ stream[p + 1].length > 0 THEN stream[p + 1].length ELSE 0)
  <2> DEFINE length == IF b = p + 2 /\ stream[p + 1].length > 0 THEN stream[p + 1].length ELSE 0
  <2>1. EndOf(p) - b = length
    BY <1>5, <1>6
  <2>2. length \in Int
    BY <1>1, <2>1
  <2> HIDE DEF length
  <2>3. EndOf(p) = b + length
    BY <1>1, <2>1, <2>2
  <2> QED BY <2>3 DEF length
<1>8. \A q \in (p + 1)..b : stream[q].kind # "body"
  BY <1>1
<1>9. BodyOf(p) = (b + 1)..EndOf(p)
  BY <1>1, <1>3, <1>5, <1>6, <1>8 DEF BodyOf
<1> QED BY <1>7, <1>9

\* The header lines of a request follow its line.
LEMMA EndingHead ==
  ASSUME TypeOK, NEW p \in 1..Len(stream), Ending(p)
  PROVE  /\ p + 1 <= Len(stream) /\ stream[p + 1].kind = "head" /\ stream[p + 1].close
         /\ stream[p].version = "1.1"
<1>1. PICK r \in (p + 1)..EndOf(p) : stream[r].kind = "head" /\ stream[r].close
  BY DEF Ending, HeadsOf
<1>2. /\ Len(stream) \in Nat /\ EndOf(p) \in p..Len(stream)
      /\ \A q \in (p + 1)..EndOf(p) : ~IsFirstLine(q)
  BY EndOfRequest, StreamType
<1>3. r \in 2..Len(stream) /\ stream \in ClientStreams
  BY <1>1, <1>2 DEF TypeOK
<1>4. stream[r - 1].kind = "line"
  BY <1>1, <1>3, StreamsAssumption
<1>5. r = p + 1
  <2>1. r - 1 \notin (p + 1)..EndOf(p)
    BY <1>2, <1>4 DEF IsFirstLine
  <2> QED BY <1>1, <1>2, <2>1
<1> QED BY <1>1, <1>3, <1>5 DEF Ending

LEMMA RequestInit == Init => RequestInv
<1> SUFFICES ASSUME Init PROVE RequestInv
  OBVIOUS
<1>1. ProtocolInv
  BY ProtocolInit
<1>2. LineInv /\ ContinueInv /\ BodyInv /\ CallInv /\ AlignInv
  BY DEF Init, LineInv, ContinueInv, BodyInv, CallInv, AlignInv, Serving
<1> QED BY <1>1, <1>2 DEF RequestInv

\* What endpoints were called for stays what it was.
LEMMA CallsKept ==
  ASSUME RequestInv, stream' = stream, calls' = calls, read' \in Nat, read <= read',
         pc' \in {"headers", "continue", "body"} =>
           \A i \in 1..Len(calls) : calls[i].line < request'.line,
         \A i \in 1..Len(calls) : Ending(calls[i].line) =>
           pc' \in Closed \/ (pc' \in {"endpoint", "stream"} /\ ~keepAlive')
  PROVE  CallInv'
<1>1. \A q : Ending(q)' = Ending(q) /\ BodyOf(q)' = BodyOf(q)
  BY SameStream
<1>2. IsWellFramed' = IsWellFramed
  BY SameStream
<1>3. read \in Nat
  BY StreamType DEF RequestInv, ProtocolInv, TypeInv
<1> SUFFICES ASSUME NEW i \in 1..Len(calls')
             PROVE  /\ calls[i].line \in 1..read' /\ stream[calls[i].line].kind = "line"
                    /\ pc' \in {"headers", "continue", "body"} => calls[i].line < request'.line
                    /\ \A j \in 1..(i - 1) : calls[j].line < calls[i].line
                    /\ IsWellFramed' => (calls[i].from + 1)..calls[i].to = BodyOf(calls[i].line)'
                    /\ Ending(calls[i].line)' =>
                         i = Len(calls)
                         /\ (pc' \in Closed \/ (pc' \in {"endpoint", "stream"} /\ ~keepAlive'))
  BY DEF CallInv
<1>4. i \in 1..Len(calls)
  OBVIOUS
<1>5. calls[i].line \in 1..read
  BY <1>4 DEF RequestInv, CallInv
<1>6. calls[i].line \in 1..read'
  BY <1>3, <1>5
<1> QED BY <1>1, <1>2, <1>4, <1>6 DEF RequestInv, CallInv

LEMMA RequestClosed ==
  ASSUME RequestInv, ProtocolInv', stream' = stream, calls' = calls, read' \in Nat,
         read <= read', pc' \in Closed
  PROVE  RequestInv'
<1>1. CallInv'
  BY CallsKept DEF Closed
<1>2. LineInv' /\ ContinueInv' /\ BodyInv' /\ AlignInv'
  BY DEF LineInv, ContinueInv, BodyInv, AlignInv, Closed, Serving
<1> QED BY <1>1, <1>2 DEF RequestInv

LEMMA RequestKept ==
  ASSUME RequestInv, ProtocolInv',
         UNCHANGED <<stream, read, pc, request, keepAlive, readBody, unread, upgraded, calls>>
  PROVE  RequestInv'
<1>1. read \in Nat
  BY StreamType DEF RequestInv, ProtocolInv, TypeInv
<1>2. CallInv'
  BY <1>1, CallsKept DEF RequestInv, CallInv
<1>3. LineInv'
  BY DEF RequestInv, LineInv
<1>4. \A q : EndOf(q)' = EndOf(q) /\ BodyOf(q)' = BodyOf(q) /\ Ending(q)' = Ending(q)
  BY SameStream
<1>5. IsWellFramed' = IsWellFramed
  BY SameStream
<1>6. ContinueInv' /\ BodyInv' /\ AlignInv'
  BY <1>4, <1>5 DEF RequestInv, ContinueInv, BodyInv, AlignInv
<1> QED BY <1>2, <1>3, <1>6 DEF RequestInv

\* A request line was read, and the lines behind it are next.
LEMMA RequestBegins ==
  ASSUME RequestInv, ProtocolInv', stream' = stream, calls' = calls, pc \in {"verify", "line"},
         pc' = "headers", HasLine, read' = LineEnd,
         NEW version \in {"1.1", "1", "other", "none"}, NEW target \in {"route", "nowhere", "unknown"},
         request' = NewRequest(LineEnd, version, target),
         version # "other" =>
           stream[LineEnd].kind = "line" /\ stream[LineEnd].version = version
  PROVE  RequestInv'
<1>1. /\ TypeOK /\ read \in Nat
  BY StreamType DEF RequestInv, ProtocolInv, TypeInv
<1>2. LineEnd \in (read + 1)..sent /\ LineEnd \in Nat /\ read < LineEnd
  BY <1>1, LineFound
<1>3. /\ request'.line = LineEnd /\ request'.version = version /\ request'.got = 0
      /\ request'.head = NoHead
  BY <1>2, NewRequestType
<1>4. CallInv'
  <2>1. \A k \in 1..Len(calls) : calls[k].line \in 1..read /\ ~Ending(calls[k].line)
    BY DEF RequestInv, CallInv, Closed
  <2>2. \A k \in 1..Len(calls) : calls[k].line < request'.line
    BY <1>1, <1>2, <1>3, <2>1
  <2> QED BY <1>1, <1>2, <2>1, <2>2, CallsKept
<1>5. LineInv'
  BY <1>1, <1>2, <1>3 DEF LineInv
<1>6. ContinueInv' /\ BodyInv' /\ AlignInv'
  BY DEF ContinueInv, BodyInv, AlignInv
<1> QED BY <1>4, <1>5, <1>6 DEF RequestInv

LEMMA RequestVerify == RequestInv /\ ProtocolInv' /\ Verify => RequestInv'
<1> SUFFICES ASSUME RequestInv, ProtocolInv', Verify PROVE RequestInv'
  OBVIOUS
<1>1. /\ TypeOK /\ pc = "verify" /\ HasLine /\ read' = LineEnd /\ stream' = stream /\ calls' = calls
  BY DEF Verify, clientVars, RequestInv, ProtocolInv, TypeInv
<1>2. /\ read' \in Nat /\ read <= read' /\ stream[LineEnd] \in Token
  BY <1>1, LineFound, StreamType
<1>3. CASE pc' = "preface"
  <2>1. CallInv'
    <3>1. \A k \in 1..Len(calls) : ~Ending(calls[k].line)
      BY <1>1 DEF RequestInv, CallInv, Closed
    <3> QED BY <1>1, <1>2, <1>3, <3>1, CallsKept
  <2>2. LineInv' /\ ContinueInv' /\ BodyInv' /\ AlignInv'
    BY <1>3 DEF LineInv, ContinueInv, BodyInv, AlignInv, Serving
  <2> QED BY <2>1, <2>2 DEF RequestInv
<1>4. CASE /\ stream[LineEnd].kind = "line" /\ pc' = "headers"
           /\ request' = NewRequest(LineEnd, stream[LineEnd].version, stream[LineEnd].target)
  <2>1. stream[LineEnd] \in LineToken
    BY <1>2, <1>4, KindType
  <2>2. /\ stream[LineEnd].version \in {"1.1", "1", "other", "none"}
        /\ stream[LineEnd].target \in {"route", "nowhere", "unknown"}
    BY <2>1 DEF LineToken
  <2> QED BY <1>1, <1>4, <2>2, RequestBegins
<1>5. CASE pc' = "close"
  BY <1>1, <1>2, <1>5, RequestClosed DEF Closed
<1> QED BY <1>3, <1>4, <1>5 DEF Verify, Close

LEMMA RequestLine == RequestInv /\ ProtocolInv' /\ ReadRequestLine => RequestInv'
<1> SUFFICES ASSUME RequestInv, ProtocolInv', ReadRequestLine PROVE RequestInv'
  OBVIOUS
<1>1. /\ TypeOK /\ pc = "line" /\ HasLine /\ read' = LineEnd /\ stream' = stream /\ calls' = calls
  BY DEF ReadRequestLine, clientVars, RequestInv, ProtocolInv, TypeInv
<1>2. /\ read' \in Nat /\ read <= read'
  BY <1>1, LineFound, StreamType
<1>3. PICK line \in Lines :
        IF line.version = "none" THEN Close /\ UNCHANGED request
        ELSE pc' = "headers" /\ request' = NewRequest(LineEnd, line.version, line.target)
  BY DEF ReadRequestLine
<1>4. CASE line.version = "none"
  BY <1>1, <1>2, <1>3, <1>4, RequestClosed DEF Close, Closed
<1>5. CASE line.version # "none"
  <2>1. /\ line.version \in {"1.1", "1", "other", "none"}
        /\ line.target \in {"route", "nowhere", "unknown"}
    BY <1>1, LinesType
  <2>2. line.version # "other" =>
          stream[LineEnd].kind = "line" /\ stream[LineEnd].version = line.version
    BY <1>3, <1>5 DEF Lines
  <2> QED BY <1>1, <1>3, <1>5, <2>1, <2>2, RequestBegins
<1> QED BY <1>4, <1>5

LEMMA RequestHeaderLine == RequestInv /\ ProtocolInv' /\ ReadHeaderLine => RequestInv'
<1> SUFFICES ASSUME RequestInv, ProtocolInv', ReadHeaderLine PROVE RequestInv'
  OBVIOUS
<1> DEFINE head == IF IsClean /\ stream[LineEnd].kind = "head" /\ ~request.head.malformed
                   THEN stream[LineEnd] ELSE [request.head EXCEPT !.malformed = TRUE]
<1>1. /\ TypeOK /\ pc = "headers" /\ pc' = pc /\ HasLine /\ read' = LineEnd /\ stream' = stream
      /\ calls' = calls /\ request \in Request /\ request' = [request EXCEPT !.head = head]
  BY DEF ReadHeaderLine, clientVars, RequestInv, ProtocolInv, TypeInv, TypeOK, Request
<1>2. /\ LineEnd \in Nat /\ read \in Nat /\ read + 1 <= LineEnd /\ LineEnd \in 1..Len(stream)
      /\ stream \in ClientStreams
  BY <1>1, LineFound, StreamType DEF TypeOK
<1>3. head.malformed \/ (head = stream[read + 1] /\ LineEnd = read + 1
                          /\ stream[LineEnd].kind = "head" /\ ~request.head.malformed)
  <2>1. request.head \in HeadToken
    BY <1>1 DEF Request
  <2>2. [request.head EXCEPT !.malformed = TRUE].malformed
    BY <2>1 DEF HeadToken
  <2> QED BY <2>2 DEF IsClean
<1> HIDE DEF head
<1>4. /\ request'.line = request.line /\ request'.version = request.version
      /\ request'.got = request.got /\ request'.head = head
  BY <1>1 DEF Request
<1>5. CallInv'
  <2>1. \A k \in 1..Len(calls) : ~Ending(calls[k].line) /\ calls[k].line < request.line
    BY <1>1 DEF RequestInv, CallInv, Closed
  <2> QED BY <1>1, <1>2, <1>4, <2>1, CallsKept
<1>6. LineInv'
  <2>1. /\ request.line \in 1..read /\ request.got = 0
        /\ request.version # "other" => stream[request.line].kind = "line"
                                        /\ stream[request.line].version = request.version
    BY <1>1 DEF RequestInv, LineInv, Serving
  <2>2. request.line \in 1..LineEnd
    BY <1>2, <2>1
  <2>3. ~head.malformed => read' = request.line + 1 /\ stream[read'].kind = "head"
                           /\ head = stream[read']
    <3> SUFFICES ASSUME ~head.malformed
                 PROVE  read' = request.line + 1 /\ stream[read'].kind = "head"
                        /\ head = stream[read']
      OBVIOUS
    <3>1. /\ head = stream[read + 1] /\ LineEnd = read + 1 /\ stream[LineEnd].kind = "head"
          /\ ~request.head.malformed
      BY <1>3
    <3>2. \/ read = request.line
          \/ read = request.line + 1 /\ stream[read].kind = "head"
      BY <1>1, <3>1 DEF RequestInv, LineInv
    <3>3. LineEnd \in 2..Len(stream)
      BY <1>2, <2>1, <3>1
    <3>4. stream[LineEnd - 1].kind = "line"
      BY <1>2, <3>1, <3>3, StreamsAssumption
    <3>5. LineEnd - 1 = read
      BY <1>2, <3>1
    <3> QED BY <1>1, <3>1, <3>2, <3>4, <3>5
  <2> QED BY <1>1, <1>4, <2>1, <2>2, <2>3 DEF LineInv
<1>7. ContinueInv' /\ BodyInv' /\ AlignInv'
  BY <1>1 DEF ContinueInv, BodyInv, AlignInv
<1> QED BY <1>5, <1>6, <1>7 DEF RequestInv

\* A request that was read to its end is answered or passed to its endpoint.
LEMMA RequestServed ==
  ASSUME RequestInv, ProtocolInv', stream' = stream, read' \in Nat, read <= read',
         NEW r \in Request, request' = r, NEW keep \in BOOLEAN, keepAlive' = keep,
         Serve(r, keep), pc \in {"headers", "continue", "body"},
         r.line \in 1..read', r.line = request.line,
         stream[r.line].kind = "line" /\ stream[r.line].version = r.version,
         Ending(r.line) => ~keep,
         IsWellFramed => /\ read' = EndOf(r.line)
                         /\ BodyOf(r.line) = (r.from + 1)..(r.from + r.got)
  PROVE  RequestInv'
<1>1. \A q : EndOf(q)' = EndOf(q) /\ BodyOf(q)' = BodyOf(q) /\ Ending(q)' = Ending(q)
  BY SameStream
<1>2. IsWellFramed' = IsWellFramed
  BY SameStream
<1>3. /\ pc' \in {"verify", "close", "line", "endpoint"}
      /\ \/ calls' = calls /\ pc' # "endpoint"
         \/ /\ pc' = "endpoint"
            /\ calls' = Append(calls, [line |-> r.line, from |-> r.from, to |-> r.from + r.got])
  BY DEF Serve, NextTurn, Close
<1>4. \A k \in 1..Len(calls) : /\ ~Ending(calls[k].line) /\ calls[k].line < r.line
                               /\ calls[k].line \in 1..read
  BY DEF RequestInv, CallInv, Closed
<1>5. CallInv'
  <2>1. CASE calls' = calls
    BY <1>3, <1>4, <2>1, CallsKept
  <2>2. CASE pc' = "endpoint" /\ calls' = Append(calls, [line |-> r.line, from |-> r.from,
                                                         to |-> r.from + r.got])
    <3> DEFINE call == [line |-> r.line, from |-> r.from, to |-> r.from + r.got]
               n == Len(calls)
    <3>1. calls \in Seq(Call)
      BY DEF RequestInv, ProtocolInv, TypeInv, TypeOK, Call
    <3>2. /\ n \in Nat /\ Len(calls') = n + 1 /\ calls'[n + 1] = call
          /\ \A k \in 1..n : calls'[k] = calls[k]
      BY <2>2, <3>1
    <3>3. read \in Nat
      BY StreamType DEF RequestInv, ProtocolInv, TypeInv
    <3> HIDE DEF n
    <3> SUFFICES ASSUME NEW k \in 1..Len(calls')
                 PROVE  /\ calls'[k].line \in 1..read' /\ stream[calls'[k].line].kind = "line"
                        /\ \A j \in 1..(k - 1) : calls'[j].line < calls'[k].line
                        /\ IsWellFramed => (calls'[k].from + 1)..calls'[k].to = BodyOf(calls'[k].line)
                        /\ Ending(calls'[k].line) => k = Len(calls') /\ ~keep
      BY <1>1, <1>2, <2>2 DEF CallInv
    <3>4. CASE k = n + 1
      <4>1. calls'[k].line = r.line /\ calls'[k].from = r.from /\ calls'[k].to = r.from + r.got
        BY <3>2, <3>4
      <4>2. \A j \in 1..(k - 1) : calls'[j].line < r.line
        BY <1>4, <3>2, <3>4 DEF n
      <4> QED BY <3>2, <3>4, <4>1, <4>2
    <3>5. CASE k \in 1..n
      <4>1. calls'[k] = calls[k] /\ \A j \in 1..(k - 1) : j \in 1..n /\ calls'[j] = calls[j]
        BY <3>2, <3>5
      <4>2. /\ calls[k].line \in 1..read /\ stream[calls[k].line].kind = "line"
            /\ \A j \in 1..(k - 1) : calls[j].line < calls[k].line
            /\ IsWellFramed => (calls[k].from + 1)..calls[k].to = BodyOf(calls[k].line)
            /\ ~Ending(calls[k].line)
        BY <1>4, <3>5 DEF RequestInv, CallInv, n
      <4>3. calls[k].line \in 1..read'
        BY <3>3, <4>2
      <4> QED BY <4>1, <4>2, <4>3
    <3> QED BY <3>2, <3>4, <3>5
  <2> QED BY <1>3, <2>1, <2>2
<1>6. LineInv'
  BY <1>3 DEF LineInv, Serving
<1>7. ContinueInv' /\ BodyInv'
  BY <1>3 DEF ContinueInv, BodyInv
<1>8. AlignInv'
  BY <1>1, <1>2 DEF AlignInv
<1> QED BY <1>5, <1>6, <1>7, <1>8 DEF RequestInv

\* A request whose head was read is read to its end, or served.
LEMMA RequestReadOrServed ==
  ASSUME RequestInv, ProtocolInv', stream' = stream, read' \in Nat, read <= read',
         NEW r \in Request, request' = r, NEW keep \in BOOLEAN, keepAlive' = keep,
         ReadOrServe(r, keep), pc \in {"headers", "continue"},
         r.line \in 1..read', r.line = request.line,
         stream[r.line].kind = "line" /\ stream[r.line].version = r.version,
         r.version # "other", r.got = 0, r.from = read', Ending(r.line) => ~keep,
         NeedsBody(r) => r.head.length \in Nat,
         IsWellFramed =>
           /\ EndOf(r.line) = read' + (IF NeedsBody(r) THEN r.head.length ELSE 0)
           /\ BodyOf(r.line) = (read' + 1)..EndOf(r.line)
  PROVE  RequestInv'
<1>1. CASE NeedsBody(r) /\ pc' = "body" /\ unread' = r.head.length /\ calls' = calls
  <2>1. \A k \in 1..Len(calls) : ~Ending(calls[k].line) /\ calls[k].line < r.line
    BY DEF RequestInv, CallInv, Closed
  <2>2. CallInv'
    BY <1>1, <2>1, CallsKept
  <2>3. LineInv' /\ ContinueInv'
    BY <1>1 DEF LineInv, ContinueInv
  <2>4. \A q : EndOf(q)' = EndOf(q) /\ BodyOf(q)' = BodyOf(q) /\ Ending(q)' = Ending(q)
    BY SameStream
  <2>5. IsWellFramed' = IsWellFramed
    BY SameStream
  <2>6. BodyInv'
    <3>1. r.head.length \in Nat
      BY <1>1
    <3>2. /\ r.line <= r.from /\ read' = r.from + r.got
          /\ r.got + r.head.length <= r.head.length
      <4>1. r.line \in Nat /\ r.line <= read'
        OBVIOUS
      <4>2. 0 + r.head.length <= r.head.length
        BY <3>1
      <4>3. \A m \in Nat : m = m + 0
        OBVIOUS
      <4>4. read' = read' + 0
        BY <4>3
      <4>5. r.from = read' /\ r.got = 0
        OBVIOUS
      <4> QED BY <4>1, <4>2, <4>4, <4>5
    <3>3. IsWellFramed => /\ EndOf(r.line) = read' + r.head.length
                          /\ BodyOf(r.line) = (read' + 1)..EndOf(r.line)
      BY <1>1
    <3> QED BY <1>1, <2>4, <2>5, <3>2, <3>3 DEF BodyInv
  <2>7. AlignInv'
    BY <1>1 DEF AlignInv
  <2> QED BY <2>2, <2>3, <2>6, <2>7 DEF RequestInv
<1>2. CASE ~NeedsBody(r) /\ Serve(r, keep)
  <2>1. IsWellFramed => read' = EndOf(r.line) /\ BodyOf(r.line) = (r.from + 1)..(r.from + r.got)
    BY <1>2
  <2> QED BY <1>2, <2>1, RequestServed
<1> QED BY <1>1, <1>2 DEF ReadOrServe

LEMMA RequestEndHead == RequestInv /\ ProtocolInv' /\ EndHead => RequestInv'
<1> SUFFICES ASSUME RequestInv, ProtocolInv', EndHead PROVE RequestInv'
  OBVIOUS
<1> DEFINE r == [request EXCEPT !.from = LineEnd]
           p == request.line
           b == LineEnd
<1>1. /\ TypeOK /\ pc = "headers" /\ HasLine /\ read' = b /\ b = read + 1 /\ request' = r
      /\ stream[b].kind = "blank" /\ stream' = stream /\ request \in Request
      /\ keepAlive \in BOOLEAN /\ readBody = FALSE
  BY DEF EndHead, IsClean, clientVars, RequestInv, ProtocolInv, TypeInv, TypeOK, Closed
<1>2. b \in Nat /\ read \in Nat /\ b \in 1..Len(stream) /\ read <= b /\ Len(stream) \in Nat
  BY <1>1, LineFound, StreamType
<1>3. r \in Request /\ r.line = p /\ r.version = request.version /\ r.head = request.head
      /\ r.got = 0 /\ r.from = b
  BY <1>1, <1>2 DEF Request, RequestInv, LineInv
<1>4. \/ RaisesInHead(r) /\ pc' = "close" /\ calls' = calls
      \/ ~RaisesInHead(r) /\ pc' = "close" /\ calls' = calls
      \/ /\ ~RaisesInHead(r) /\ keepAlive' = KeepAlive(r) /\ pc' = "continue"
         /\ readBody' = ShouldReadBody(r) /\ calls' = calls
      \/ /\ ~RaisesInHead(r) /\ keepAlive' = KeepAlive(r)
         /\ ReadOrServe(r, KeepAlive(r))
  BY DEF EndHead, Close, AnswerFailure
<1>5. \A k \in 1..Len(calls) : /\ ~Ending(calls[k].line) /\ calls[k].line < p
  BY <1>1 DEF RequestInv, CallInv, Closed
<1>6. p \in 1..read /\ p \in 1..Len(stream) /\ p \in 1..b
  <2>1. p \in 1..read
    BY <1>1 DEF RequestInv, LineInv, Serving
  <2> QED BY <1>1, <1>2, <2>1
<1> HIDE DEF r, b
<1>7. ASSUME ~RaisesInHead(r)
      PROVE  /\ stream[p].kind = "line" /\ stream[p].version = r.version /\ r.version # "other"
             /\ b \in {p + 1, p + 2}
             /\ b = p + 1 => r.head = NoHead
             /\ b = p + 2 => stream[p + 1].kind = "head" /\ r.head = stream[p + 1]
  <2>1. ~r.head.malformed /\ r.version # "other"
    BY <1>7 DEF RaisesInHead
  <2>2. stream[p].kind = "line" /\ stream[p].version = r.version
    BY <1>1, <1>3, <2>1 DEF RequestInv, LineInv, Serving
  <2>3. \/ r.head = NoHead /\ read = p
        \/ read = p + 1 /\ stream[read].kind = "head" /\ r.head = stream[read]
    BY <1>1, <1>3, <2>1 DEF RequestInv, LineInv
  <2> QED BY <1>1, <1>2, <1>6, <2>1, <2>2, <2>3
<1>8. ASSUME ~RaisesInHead(r)
      PROVE  KeepAlive(r) \in BOOLEAN /\ (Ending(p) => ~KeepAlive(r))
  <2>1. r.head.close \in BOOLEAN
    BY <1>3 DEF Request, HeadToken
  <2>2. KeepAlive(r) \in BOOLEAN
    BY <1>1 DEF KeepAlive
  <2>3. ASSUME Ending(p) PROVE ~KeepAlive(r)
    <3>1. stream[p + 1].kind = "head" /\ stream[p + 1].close /\ r.version = "1.1"
      BY <1>1, <1>6, <1>7, <1>8, <2>3, EndingHead
    <3>2. r.head = stream[p + 1]
      BY <1>1, <1>7, <1>8, <3>1
    <3> QED BY <3>1, <3>2 DEF KeepAlive
  <2> QED BY <2>2, <2>3
<1>9. NeedsBody(r) <=> r.head.length # Absent /\ r.head.length > 0
  BY <1>1 DEF NeedsBody, ShouldReadBody
<1>10. r.head.length \in Nat \cup {Absent}
  BY <1>3 DEF Request, HeadToken
<1>11. ASSUME ~RaisesInHead(r), IsWellFramed
       PROVE  /\ EndOf(p) = b + (IF NeedsBody(r) THEN r.head.length ELSE 0)
              /\ BodyOf(p) = (b + 1)..EndOf(p)
  <2>1. /\ EndOf(p) = b + (IF b = p + 2 /\ stream[p + 1].length > 0
                           THEN stream[p + 1].length ELSE 0)
        /\ BodyOf(p) = (b + 1)..EndOf(p)
    BY <1>1, <1>2, <1>6, <1>7, <1>11, Framing
  <2>2. CASE b = p + 1
    BY <1>6, <1>7, <1>9, <1>11, <2>1, <2>2 DEF NoHead
  <2>3. CASE b = p + 2
    <3>1. NeedsBody(r) <=> r.head.length > 0
      BY <1>9, <1>10 DEF Absent
    <3> QED BY <1>7, <1>11, <2>1, <2>3, <3>1
  <2> QED BY <1>7, <1>11, <2>1, <2>2, <2>3
<1>12. CASE pc' = "close" /\ calls' = calls
  BY <1>1, <1>2, <1>12, RequestClosed DEF Closed
<1>13. CASE ~RaisesInHead(r) /\ keepAlive' = KeepAlive(r) /\ ReadOrServe(r, KeepAlive(r))
  <2>1. NeedsBody(r) => r.head.length \in Nat
    BY <1>9, <1>10
  <2>2. /\ r.line \in 1..read' /\ r.from = read'
        /\ IsWellFramed =>
             /\ EndOf(r.line) = read' + (IF NeedsBody(r) THEN r.head.length ELSE 0)
             /\ BodyOf(r.line) = (read' + 1)..EndOf(r.line)
    BY <1>1, <1>3, <1>6, <1>11, <1>13
  <2> QED BY <1>1, <1>2, <1>3, <1>7, <1>8, <1>13, <2>1, <2>2, RequestReadOrServed
<1>14. CASE /\ ~RaisesInHead(r) /\ keepAlive' = KeepAlive(r) /\ pc' = "continue"
            /\ readBody' = ShouldReadBody(r) /\ calls' = calls
  <2>1. CallInv'
    BY <1>1, <1>2, <1>3, <1>5, <1>14, CallsKept
  <2>2. LineInv'
    BY <1>1, <1>3, <1>6, <1>7, <1>14 DEF LineInv
  <2>3. \A q : EndOf(q)' = EndOf(q) /\ BodyOf(q)' = BodyOf(q) /\ Ending(q)' = Ending(q)
    BY <1>1, SameStream
  <2>4. IsWellFramed' = IsWellFramed
    BY <1>1, SameStream
  <2>5. ContinueInv'
    <3>1. readBody' = NeedsBody(r)
      BY <1>14 DEF NeedsBody
    <3>2. /\ r.version # "other" /\ r.from = read'
          /\ IsWellFramed =>
               /\ EndOf(p) = read' + (IF readBody' THEN r.head.length ELSE 0)
               /\ BodyOf(p) = (read' + 1)..EndOf(p)
          /\ Ending(p) => ~keepAlive'
      BY <1>1, <1>3, <1>7, <1>8, <1>11, <1>14, <3>1
    <3> QED BY <1>1, <1>3, <1>9, <2>3, <2>4, <3>1, <3>2 DEF ContinueInv
  <2>6. BodyInv' /\ AlignInv'
    BY <1>14 DEF BodyInv, AlignInv
  <2> QED BY <2>1, <2>2, <2>5, <2>6 DEF RequestInv
<1> QED BY <1>4, <1>12, <1>13, <1>14

LEMMA RequestContinue == RequestInv /\ ProtocolInv' /\ Continue => RequestInv'
<1> SUFFICES ASSUME RequestInv, ProtocolInv', Continue PROVE RequestInv'
  OBVIOUS
<1>1. /\ TypeOK /\ pc = "continue" /\ ReadOrServe(request, keepAlive)
      /\ UNCHANGED <<stream, read, request, keepAlive>>
      /\ request \in Request /\ keepAlive \in BOOLEAN /\ readBody \in BOOLEAN
  BY DEF Continue, clientVars, RequestInv, ProtocolInv, TypeInv, TypeOK
<1>2. read \in Nat
  BY <1>1, StreamType
<1>3. /\ request.version # "other" /\ request.got = 0 /\ request.from = read
      /\ readBody <=> request.head.length # Absent /\ request.head.length > 0
      /\ IsWellFramed =>
           /\ EndOf(request.line) = read + (IF readBody THEN request.head.length ELSE 0)
           /\ BodyOf(request.line) = (read + 1)..EndOf(request.line)
      /\ Ending(request.line) => ~keepAlive
  BY <1>1 DEF RequestInv, ContinueInv
<1>4. /\ request.line \in 1..read
      /\ stream[request.line].kind = "line" /\ stream[request.line].version = request.version
  BY <1>1, <1>3 DEF RequestInv, LineInv, Serving
<1>5. NeedsBody(request) = readBody
  BY <1>1, <1>3 DEF NeedsBody, ShouldReadBody
<1>6. NeedsBody(request) => request.head.length \in Nat
  BY <1>1, <1>5 DEF RequestInv, ProtocolInv, TypeInv
<1>7. PICK r \in Request : r = request
  BY <1>1
<1> QED BY <1>1, <1>2, <1>3, <1>4, <1>5, <1>6, <1>7, RequestReadOrServed

LEMMA RequestBody == RequestInv /\ ProtocolInv' /\ ReadBody => RequestInv'
<1> SUFFICES ASSUME RequestInv, ProtocolInv', ReadBody PROVE RequestInv'
  OBVIOUS
<1> DEFINE units == Min({Portion, Available})
           p == request.line
<1>1. /\ TypeOK /\ pc = "body" /\ read' = read + units /\ unread' = unread - Portion
      /\ stream' = stream /\ keepAlive' = keepAlive /\ request \in Request /\ keepAlive \in BOOLEAN
      /\ request' \in Request
  BY DEF ReadBody, clientVars, RequestInv, ProtocolInv, TypeInv, TypeOK
<1>2. /\ units \in Nat /\ Portion \in Nat /\ units <= Portion /\ Portion <= unread
      /\ read \in Nat /\ unread \in Nat /\ read' \in Nat /\ read <= read' /\ unread' \in Nat
  BY <1>1, BodyPortion DEF TypeOK
<1>3. request'.line = p /\ request'.version = request.version /\ request'.head = request.head
      /\ request'.from = request.from /\ request'.got = request.got + units
  BY <1>1 DEF ReadBody, Request
<1>4. \/ unread' # 0 /\ UNCHANGED <<pc, calls>>
      \/ pc' = "close" /\ calls' = calls
      \/ /\ unread' = 0 /\ AcceptsLength(request') /\ Serve(request', keepAlive)
  BY DEF ReadBody, Close, AnswerFailure
<1> HIDE DEF units
<1>5. /\ request.version # "other" /\ p <= request.from
      /\ read = request.from + request.got /\ request.got + unread <= request.head.length
      /\ IsWellFramed => /\ EndOf(p) = request.from + request.head.length
                         /\ BodyOf(p) = (request.from + 1)..EndOf(p)
      /\ Ending(p) => ~keepAlive
  BY <1>1 DEF RequestInv, BodyInv
<1>6. /\ p \in 1..read /\ stream[p].kind = "line" /\ stream[p].version = request.version
  BY <1>1, <1>5 DEF RequestInv, LineInv, Serving
<1>7. /\ request.got \in Nat /\ request.from \in Nat /\ p \in Nat
      /\ request.head.length \in Nat \cup {Absent}
  BY <1>1 DEF Request, HeadToken
<1>8. p \in 1..read' /\ read' = request.from + (request.got + units)
      /\ request.got + units + unread' <= request.head.length
  <2>1. request.head.length \in Int
    BY <1>7 DEF Absent
  <2>2. read' = request.from + (request.got + units)
    BY <1>1, <1>2, <1>5, <1>7
  <2>3. request.got + units + unread' <= request.got + unread
    BY <1>1, <1>2, <1>7
  <2>4. request.got + units + unread' <= request.head.length
    BY <1>2, <1>5, <1>7, <2>1, <2>3
  <2>5. p \in 1..read'
    BY <1>2, <1>6
  <2> QED BY <2>2, <2>4, <2>5
<1>9. \A k \in 1..Len(calls) : /\ ~Ending(calls[k].line) /\ calls[k].line < p
  BY <1>1 DEF RequestInv, CallInv, Closed
<1>10. CASE unread' # 0 /\ UNCHANGED <<pc, calls>>
  <2>1. CallInv'
    BY <1>1, <1>2, <1>3, <1>9, <1>10, CallsKept
  <2>2. LineInv' /\ ContinueInv'
    BY <1>1, <1>3, <1>6, <1>8, <1>10 DEF LineInv, ContinueInv
  <2>3. \A q : EndOf(q)' = EndOf(q) /\ BodyOf(q)' = BodyOf(q) /\ Ending(q)' = Ending(q)
    BY <1>1, SameStream
  <2>4. IsWellFramed' = IsWellFramed
    BY <1>1, SameStream
  <2>5. BodyInv'
    BY <1>1, <1>3, <1>5, <1>8, <2>3, <2>4 DEF BodyInv
  <2>6. AlignInv'
    BY <1>1, <1>10 DEF AlignInv
  <2> QED BY <2>1, <2>2, <2>5, <2>6 DEF RequestInv
<1>11. CASE pc' = "close" /\ calls' = calls
  BY <1>1, <1>2, <1>11, RequestClosed DEF Closed
<1>12. CASE unread' = 0 /\ AcceptsLength(request') /\ Serve(request', keepAlive)
  <2>1. request.got + units = request.head.length
    BY <1>3, <1>12 DEF AcceptsLength
  <2>2. IsWellFramed => /\ read' = EndOf(p)
                        /\ BodyOf(p) = (request.from + 1)..(request.from + (request.got + units))
    BY <1>5, <1>8, <2>1
  <2>3. PICK r \in Request : r = request'
    BY <1>1
  <2> QED BY <1>1, <1>2, <1>3, <1>5, <1>6, <1>8, <1>12, <2>2, <2>3, RequestServed
<1> QED BY <1>4, <1>10, <1>11, <1>12

LEMMA RequestAnswer == RequestInv /\ ProtocolInv' /\ (Respond \/ StartStream \/ EndStream) => RequestInv'
<1> SUFFICES ASSUME RequestInv, ProtocolInv', Respond \/ StartStream \/ EndStream PROVE RequestInv'
  OBVIOUS
<1>1. /\ UNCHANGED <<stream, read, request, keepAlive, upgraded, calls>>
      /\ pc \in {"endpoint", "stream"}
      /\ pc' = "stream" \/ pc' = (IF keepAlive THEN "line" ELSE "close")
  BY DEF Respond, StartStream, EndStream, NextTurn, clientVars, loopVars
<1>2. read \in Nat
  BY StreamType DEF RequestInv, ProtocolInv, TypeInv
<1>3. CallInv'
  <2>1. \A k \in 1..Len(calls) : Ending(calls[k].line) => ~keepAlive
    BY <1>1 DEF RequestInv, CallInv, Closed
  <2> QED BY <1>1, <1>2, <2>1, CallsKept DEF Closed
<1>4. LineInv' /\ ContinueInv' /\ BodyInv'
  BY <1>1 DEF RequestInv, LineInv, ContinueInv, BodyInv, Serving
<1>5. AlignInv'
  <2>1. \A q : EndOf(q)' = EndOf(q)
    BY <1>1, SameStream
  <2>2. IsWellFramed' = IsWellFramed
    BY <1>1, SameStream
  <2> QED BY <1>1, <2>1, <2>2 DEF RequestInv, AlignInv
<1> QED BY <1>3, <1>4, <1>5 DEF RequestInv

LEMMA RequestNext == RequestInv /\ [Next]_vars => RequestInv'
<1> SUFFICES ASSUME RequestInv, [Next]_vars PROVE RequestInv'
  OBVIOUS
<1>1. ProtocolInv'
  BY ProtocolNext DEF RequestInv
<1>2. TypeOK /\ read \in Nat
  BY StreamType DEF RequestInv, ProtocolInv, TypeInv
<1>3. CASE Client \/ SpinInHead \/ WriteChunk \/ Finished \/ UNCHANGED vars
  <2>1. UNCHANGED <<stream, read, pc, request, keepAlive, readBody, unread, upgraded, calls>>
    BY <1>3 DEF Client, Arrive, FinishSending, Reset, Drained, SpinInHead, WriteChunk, Finished,
                vars, clientVars, loopVars
  <2> QED BY <1>1, <2>1, RequestKept
<1>4. CASE GivesUp
  <2>1. pc' \in Closed /\ UNCHANGED <<stream, read, calls>>
    BY <1>4, GivesUpEffect DEF clientVars
  <2> QED BY <1>1, <1>2, <2>1, RequestClosed
<1>5. CASE HeaderTimeout \/ BodyTimeout
  <2>1. pc' \in Closed /\ UNCHANGED <<stream, read, calls>>
    BY <1>5 DEF HeaderTimeout, BodyTimeout, AnswerFailure, Close, Closed, clientVars
  <2> QED BY <1>1, <1>2, <2>1, RequestClosed
<1>6. CASE ConfirmPreface
  <2>1. /\ pc = "preface" /\ pc' \in {"close", "http2", "preface"} /\ HasLine /\ read' = LineEnd
        /\ stream' = stream /\ calls' = calls
    BY <1>6 DEF ConfirmPreface, clientVars
  <2>2. read' \in Nat /\ read <= read'
    BY <1>2, <2>1, LineFound
  <2>3. \A k \in 1..Len(calls) : ~Ending(calls[k].line)
    BY <2>1 DEF RequestInv, CallInv, Closed
  <2>4. CallInv'
    BY <2>1, <2>2, <2>3, CallsKept
  <2> QED BY <1>1, <2>1, <2>4 DEF RequestInv, LineInv, ContinueInv, BodyInv, AlignInv, Serving
<1>7. CASE Verify \/ ReadRequestLine \/ ReadHeaderLine \/ EndHead \/ Continue \/ ReadBody
  BY <1>1, <1>7, RequestVerify, RequestLine, RequestHeaderLine, RequestEndHead,
     RequestContinue, RequestBody
<1>8. CASE Respond \/ StartStream \/ EndStream
  BY <1>1, <1>8, RequestAnswer
<1> QED BY <1>3, <1>4, <1>5, <1>6, <1>7, <1>8 DEF Next, Read, Answer, GivesUp

(***************************************************************************)
(* The request being read is the one that begins at its line, as much of   *)
(* its body has arrived as has been read, and the endpoints were called    *)
(* for earlier ones: what CallsGenuine, Aligned and CloseIsFinal rest on.  *)
(***************************************************************************)
THEOREM RequestSafety == Spec => []RequestInv
<1> QED BY RequestInit, RequestNext, PTL DEF Spec

(***************************************************************************)
(* Endpoints are called for the requests of a client that frames them, in  *)
(* their order, with their bodies.                                         *)
(***************************************************************************)
THEOREM CallsAreGenuine == Spec => []CallsGenuine
<1>1. RequestInv => CallsGenuine
  BY DEF RequestInv, CallInv, CallsGenuine
<1> QED BY <1>1, RequestSafety, PTL

(***************************************************************************)
(* Between two requests the buffer begins with the next one.               *)
(***************************************************************************)
THEOREM StaysAligned == Spec => []Aligned
<1>1. RequestInv => Aligned
  BY DEF RequestInv, AlignInv, Aligned
<1> QED BY <1>1, RequestSafety, PTL

(***************************************************************************)
(* Nothing is called behind "connection: close".                           *)
(***************************************************************************)
THEOREM CloseEndsCalls == Spec => []CloseIsFinal
<1>1. RequestInv => CloseIsFinal
  BY DEF RequestInv, CallInv, CloseIsFinal, Ending
<1> QED BY <1>1, RequestSafety, PTL
=============================================================================
