--------------------------- MODULE Http1Properties ---------------------------
(***************************************************************************)
(* What is checked of Http1Connection: safety of every connection, the end *)
(* of every connection under fairness, and what tests, comments and docs   *)
(* of the repository say and the code does not do.                         *)
(***************************************************************************)
EXTENDS Http1Connection

Request == [line : Nat, version : {"1.1", "1", "other", "none"},
            target : {"route", "nowhere", "unknown"}, head : HeadToken,
            from : Nat, got : Nat, text : BOOLEAN]

(***************************************************************************)
(* Types of the variables, and the order of the positions in the stream.   *)
(***************************************************************************)
TypeOK ==
  /\ stream \in ClientStreams
  /\ read <= sent /\ sent <= Len(stream) /\ read \in Nat /\ sent \in Nat
  /\ finished \in BOOLEAN /\ eof \in BOOLEAN
  /\ link \in {"up", "reset", "aborted"}
  /\ pc \in {"verify", "preface", "line", "headers", "continue", "body", "endpoint",
             "stream", "http2", "close", "done"}
  /\ request \in Request
  /\ keepAlive \in BOOLEAN /\ readBody \in BOOLEAN /\ upgraded \in BOOLEAN
  /\ unread \in Nat
  /\ preface \in Seq({"blank", "SM"})
  /\ calls \in Seq([line : Nat, from : Nat, to : Nat])
  /\ out \in Seq(Written) /\ congested \in BOOLEAN

-----------------------------------------------------------------------------
(* The requests as the client frames them.                                 *)

IsFirstLine(p) == stream[p].kind \in {"line", "PRI"}

\* The last token of what begins at p.
EndOf(p) == LET next == {q \in (p + 1)..Len(stream) : IsFirstLine(q)}
            IN IF next = {} THEN Len(stream) ELSE Min(next) - 1

BodyOf(p)  == {q \in (p + 1)..EndOf(p) : stream[q].kind = "body"}
HeadsOf(p) == {stream[q] : q \in {r \in (p + 1)..EndOf(p) : stream[r].kind = "head"}}

\* The line at p is all there is of its request; or the client ends the head
\* with a blank line, and sends as much body as the head says.
IsFramed(p) ==
  \/ EndOf(p) = p
  \/ \E blank \in {p + 1, p + 2} \cap 1..EndOf(p) :
       /\ stream[blank].kind = "blank"
       /\ blank = p + 2 => stream[p + 1].kind = "head"
       /\ \A q \in (blank + 1)..EndOf(p) : stream[q].kind = "body"
       /\ EndOf(p) - blank = IF blank = p + 2 /\ stream[p + 1].length > 0
                             THEN stream[p + 1].length ELSE 0
IsWellFramed == \A p \in 1..Len(stream) : stream[p].kind = "line" => IsFramed(p)

-----------------------------------------------------------------------------
(***************************************************************************)
(* However the segments fall, and whatever was answered before, endpoints  *)
(* are called for requests the client made, in order, and each with        *)
(* exactly the body of its own request: no short read, no failed request   *)
(* and no ignored answer makes a body pass for a request or a request for  *)
(* a body.                                                                 *)
(***************************************************************************)
CallsGenuine ==
  IsWellFramed =>
    \A i \in 1..Len(calls) :
      /\ stream[calls[i].line].kind = "line"
      /\ (calls[i].from + 1)..calls[i].to = BodyOf(calls[i].line)
      /\ \A j \in 1..(i - 1) : calls[j].line < calls[i].line

(***************************************************************************)
(* Whenever a request is being answered, or the next one or the HTTP/2     *)
(* preface behind an upgrade is expected, exactly the request has been     *)
(* taken out of the buffer: nothing of its body is left to be read as a    *)
(* line, and nothing of what follows was taken.                            *)
(***************************************************************************)
Aligned ==
  IsWellFramed /\ (pc \in {"line", "endpoint", "stream"} \/ (pc = "verify" /\ upgraded))
    => read = EndOf(request.line)

(***************************************************************************)
(* A 408, 400 or 417 is the last thing a connection sees: nothing is       *)
(* written after it and the connection is closed.  The comment in          *)
(* handle_request relies on it: a client may send the body of a request    *)
(* that was refused.                                                       *)
(***************************************************************************)
FailureIsFinal ==
  \A i \in 1..Len(out) :
    out[i] \in Failures => i = Len(out) /\ pc \in {"close", "done"}

(***************************************************************************)
(* Behind a request with "connection: close" no other request is called,   *)
(* even if it has already arrived.                                         *)
(***************************************************************************)
CloseIsFinal ==
  \A i \in 1..Len(calls) :
    /\ stream[calls[i].line].kind = "line" /\ stream[calls[i].line].version = "1.1"
    /\ \E h \in HeadsOf(calls[i].line) : h.close
    => i = Len(calls)

(***************************************************************************)
(* A chunked response is followed by its last chunk or by nothing at all:  *)
(* a generator that got stuck never lets another response be taken for the *)
(* rest of the stream.                                                     *)
(***************************************************************************)
StreamsEnd ==
  \A i \in 1..Len(out) : out[i] = "stream" /\ i < Len(out) => out[i + 1] = "end"

-----------------------------------------------------------------------------
(***************************************************************************)
(* What the event loop and the timers of wait_for bring about on their     *)
(* own: the task goes on when there is something to read or a timer fired, *)
(* and when a drain or a response meets a lost connection; a transport     *)
(* with nothing left to send closes.  Nothing is assumed of the client: it *)
(* need not send, read or leave.  Nor of endpoints and generators, nor of  *)
(* the HTTP/2 connection behind an upgrade or a preface.                   *)
(***************************************************************************)
GoesOn == \/ Read
          \/ FailDrain
          \/ FailResponse /\ pc = "stream"
          \/ CloseWriter /\ (out = <<>> \/ link # "up")

FairSpec == Spec /\ WF_vars(GoesOn)

(***************************************************************************)
(* What no timeout covers: the lines of the preface behind the first one,  *)
(* a head the client stopped sending for good, an endpoint, a generator    *)
(* that goes on yielding, and a client that does not read what was written *)
(* before a drain or before wait_closed.                                   *)
(***************************************************************************)
Unguarded == \/ pc = "preface" /\ IsBlocked
             \/ pc = "headers" /\ ~HasLine /\ eof /\ link = "up"
             \/ pc = "endpoint"
             \/ pc = "stream" /\ link = "up"
             \/ congested /\ link = "up"
             \/ pc = "close" /\ out # <<>> /\ link = "up"
             \/ pc = "http2"

(***************************************************************************)
(* Every connection is closed in the end, or stays in one of the places    *)
(* without a timeout: a client that sends nothing more, wherever it stops, *)
(* and one that is gone, behind whatever was written, cost no task; with a *)
(* lost connection only an endpoint that does not return, or HTTP/2, does. *)
(***************************************************************************)
ConnectionEnds == <>[](pc = "done" \/ Unguarded)

-----------------------------------------------------------------------------
(***************************************************************************)
(* client_reader.py says of its timeouts that without them the "server     *)
(* will keep connection forever": the reading of a head comes to an end.   *)
(***************************************************************************)
HeadsEnd == pc = "headers" ~> pc # "headers"

(***************************************************************************)
(* A test is named "server should 200 response when client send sufficient *)
(* body": 400 is for requests whose body is not as long as they say.       *)
(***************************************************************************)
SufficientBodyAccepted ==
  \A i \in 1..Len(out) : out[i] = "400" => ~IsFramed(request.line)

(***************************************************************************)
(* docs/100-continue.md demands of the server that, once it sent 100       *)
(* Continue, it receives the whole body and answers with a final status:   *)
(* it does not close behind a 100 on a client that is still there.         *)
(***************************************************************************)
ContinueAnswered ==
  pc = "done" /\ link # "reset" /\ ~finished /\ out # <<>>
    => out[Len(out)] # "100"
=============================================================================
