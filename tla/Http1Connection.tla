-------------------------- MODULE Http1Connection --------------------------
(***************************************************************************)
(* One TCP connection of the server, from Server.handle_request to the     *)
(* closing of its writer: ensure_protocol, the request loop of             *)
(* Http1Connection over Http1Reader, the response writers, the except      *)
(* clauses of Server._handle, and the h2c upgrade that starts _handle      *)
(* again.  What follows the HTTP/2 preface is the module Http2Connection.  *)
(*                                                                         *)
(* The client's bytes are a sequence of tokens: whole lines and units of   *)
(* body.  A part of a line counts as not yet arrived.  The buffer of the   *)
(* StreamReader is what lies between read and sent.                        *)
(*                                                                         *)
(* One task serves the connection; bytes arrive whenever it is suspended,  *)
(* at every wait_for, in the endpoint, and in a drain() for as long as the *)
(* client does not read what was written.  A response is one step: which   *)
(* of its drains waits, and how much of it a lost client has got, is not   *)
(* told apart.                                                             *)
(***************************************************************************)
EXTENDS Integers, Sequences, FiniteSets, FiniteSetsExt

CONSTANTS
  ClientStreams,     \* what clients may send over one connection
  MaxRead,           \* Http1Reader.MAX_BYTES_TO_READ, in units of body
  EndpointResults    \* how endpoints end: "response", "stream", "raise"

Absent == -1         \* no content-length header

(***************************************************************************)
(* A request line; version "none" is not three words.  target "unknown" is *)
(* a method without a Trie in _url_context, "nowhere" a path without an    *)
(* endpoint.                                                               *)
(***************************************************************************)
LineToken == [kind : {"line"}, version : {"1.1", "1", "other", "none"},
              target : {"route", "nowhere", "unknown"}]

(***************************************************************************)
(* The header lines of a request: what the connection looks at.  A set     *)
(* that int() or the splitting of a line refuses is malformed.  expect is  *)
(* "other" for what CheckExpectationFailedChain answers with 417 and       *)
(* "denied" for what a chain of the application refuses with one of the    *)
(* exceptions whose response_msg raises.  A garbled upgrade has a settings *)
(* payload that base64 refuses.                                            *)
(***************************************************************************)
HeadToken == [kind : {"head"}, length : Nat \cup {Absent}, close : BOOLEAN,
              expect : {"none", "continue", "other", "denied"},
              upgrade : {"none", "h2c", "garbled"}, malformed : BOOLEAN]

BodyToken == [kind : {"body"}, text : BOOLEAN]

\* Blank lines, and the two other lines of the HTTP/2 preface.
Token == LineToken \cup HeadToken \cup BodyToken
         \cup [kind : {"blank", "PRI", "SM"}]

\* A head stands for all header lines of a request, so it follows its line.
ASSUME StreamsAssumption ==
  /\ ClientStreams \subseteq Seq(Token)
  /\ \A s \in ClientStreams : \A i \in 2..Len(s) : s[i].kind = "head" => s[i - 1].kind = "line"
ASSUME ReadAssumption == MaxRead \in Nat \ {0}
ASSUME EndpointAssumption == EndpointResults \subseteq {"response", "stream", "raise"}

VARIABLES
  stream,     \* what this client is going to send
  sent,       \* how much of it has arrived
  finished,   \* the client closed its side after what has arrived
  link,       \* "up", "reset" by the client, or "aborted" by asyncio
  read,       \* how much of it the server has taken out of the buffer
  eof,        \* StreamReader._eof: set by the client's FIN or by feed_eof()
  pc,         \* where the task is
  request,    \* the request being read or answered
  keepAlive,  \* _should_keep_alive
  readBody,   \* _should_read_body of Http1Connection
  unread,     \* unread_bytes of _read_body_generally
  preface,    \* the lines of the HTTP/2 preface still to be confirmed
  upgraded,   \* handle_request runs _handle with an upgrade object
  calls,      \* the requests endpoints were called with
  out,        \* what was written, in order
  congested   \* the client does not read: the drain behind the last write waits

clientVars == <<stream, sent, finished, link>>
loopVars   == <<keepAlive, readBody, unread, preface, upgraded>>
outVars    == <<out, congested>>
vars == <<clientVars, read, eof, pc, request, loopVars, calls, outVars>>

NoHead == [kind |-> "head", length |-> Absent, close |-> FALSE, expect |-> "none",
           upgrade |-> "none", malformed |-> FALSE]

\* line: the token its request line ended with; from: what was read before its
\* body; got: the length of msg in _read_body_generally; text: msg decodes.
NewRequest(position, version, target) ==
  [line |-> position, version |-> version, target |-> target, head |-> NoHead,
   from |-> position, got |-> 0, text |-> TRUE]

Failures == {"408", "400", "417"}
Written  == Failures \cup {"100", "101", "200", "404", "stream", "end"}

Init ==
  /\ stream \in ClientStreams
  /\ sent = 0 /\ finished = FALSE /\ link = "up"
  /\ read = 0 /\ eof = FALSE
  /\ pc = "verify"
  /\ request = NewRequest(0, "none", "unknown")
  /\ keepAlive = TRUE /\ readBody = FALSE /\ unread = 0
  /\ preface = <<>> /\ upgraded = FALSE
  /\ calls = <<>> /\ out = <<>> /\ congested = FALSE

-----------------------------------------------------------------------------
(* The client and its transport.                                           *)

\* handle_request has not come to its finally clause.
IsServed == pc \notin {"http2", "close", "done"} \/ congested
Transported == link = "up" /\ ~finished /\ IsServed

\* Some more of the stream arrives, in one segment.  StreamReader.feed_data
\* asserts that feed_eof was not called: asyncio aborts the transport.
Arrive(n) ==
  /\ Transported
  /\ sent + n <= Len(stream)
  /\ IF eof THEN link' = "aborted" /\ UNCHANGED sent
     ELSE sent' = sent + n /\ UNCHANGED link
  /\ UNCHANGED <<stream, finished, read, eof, pc, request, loopVars, calls, outVars>>

FinishSending ==
  /\ Transported
  /\ finished' = TRUE /\ eof' = TRUE
  /\ UNCHANGED <<stream, sent, link, read, pc, request, loopVars, calls, outVars>>

\* After the client's FIN only a write finds out, be it one that close() left in
\* the transport's buffer.
Reset ==
  /\ link = "up" /\ (IsServed \/ pc = "close")
  /\ finished => pc \in {"endpoint", "stream", "close"} \/ congested
  /\ link' = "reset"
  /\ UNCHANGED <<stream, sent, finished, read, eof, pc, request, loopVars, calls, outVars>>

\* The client reads on, and the drain returns.
Drained ==
  /\ congested /\ link = "up"
  /\ congested' = FALSE
  /\ UNCHANGED <<clientVars, read, eof, pc, request, loopVars, calls, out>>

Client == (\E n \in 1..Len(stream) : Arrive(n)) \/ FinishSending \/ Reset \/ Drained

-----------------------------------------------------------------------------
(* Reading a line.                                                         *)

LineEnds == {p \in (read + 1)..sent : stream[p].kind # "body"}
HasLine == LineEnds # {}
LineEnd == Min(LineEnds)

\* The line is a token of its own: nothing of a body was left before it.
IsClean == LineEnd = read + 1

\* readline suspends: no line, and no reason to expect none.
IsBlocked == link = "up" /\ ~HasLine /\ ~eof

Close == pc' = "close"

\* What is written goes out, or keeps the drain behind it waiting.
Write(message) == out' = Append(out, message) /\ congested' \in BOOLEAN

\* No drain holds the task, and the link is there.
IsResumed == link = "up" /\ ~congested

\* The drain raises the exception of a lost connection.
FailDrain ==
  /\ congested /\ link # "up"
  /\ Close
  /\ congested' = FALSE
  /\ UNCHANGED <<clientVars, read, eof, request, loopVars, calls, out>>

\* The reader raises the exception of a lost connection, which the generic
\* except clauses log.
ReadFails ==
  /\ link # "up" /\ ~congested
  /\ pc \in {"verify", "preface", "line", "headers", "continue", "body"}
  /\ Close
  /\ UNCHANGED <<clientVars, read, eof, request, loopVars, calls, outVars>>

-----------------------------------------------------------------------------
(* ProtocolVerifier.ensure_protocol, and the match in Server._handle.      *)

Verify ==
  /\ pc = "verify" /\ IsResumed /\ HasLine
  /\ read' = LineEnd
  /\ LET line == stream[LineEnd] IN
     \/ /\ IsClean /\ line.kind = "PRI"
        /\ pc' = "preface"
        /\ preface' = <<"blank", "SM", "blank">>
        /\ UNCHANGED <<request, keepAlive, readBody>>
     \/ /\ IsClean /\ line.kind = "line" /\ line.version \in {"1.1", "1"}
        /\ pc' = "headers"
        /\ request' = NewRequest(LineEnd, line.version, line.target)
        /\ keepAlive' = TRUE /\ readBody' = FALSE
        /\ UNCHANGED preface
     \/ /\ ~(/\ IsClean
             /\ \/ line.kind = "PRI"
                \/ line.kind = "line" /\ line.version \in {"1.1", "1"})
        /\ Close
        /\ UNCHANGED <<request, preface, keepAlive, readBody>>
  /\ UNCHANGED <<clientVars, eof, unread, upgraded, calls, outVars>>

\* Five seconds without a first line, or the end of the stream.
VerifyNothing ==
  /\ pc = "verify" /\ IsResumed /\ ~HasLine
  /\ Close
  /\ UNCHANGED <<clientVars, read, eof, request, loopVars, calls, outVars>>

\* confirm_http2_protocol reads three more lines, without a timeout.
ConfirmPreface ==
  /\ pc = "preface" /\ link = "up" /\ HasLine
  /\ read' = LineEnd
  /\ preface' = Tail(preface)
  /\ pc' = IF ~IsClean \/ stream[LineEnd].kind # Head(preface) THEN "close"
           ELSE IF Len(preface) = 1 THEN "http2" ELSE "preface"
  /\ UNCHANGED <<clientVars, eof, request, keepAlive, readBody, unread, upgraded,
                 calls, outVars>>

RefusePreface ==
  /\ pc = "preface" /\ link = "up" /\ ~HasLine /\ eof
  /\ Close
  /\ UNCHANGED <<clientVars, read, eof, request, loopVars, calls, outVars>>

-----------------------------------------------------------------------------
(* The request loop of Http1Connection.                                    *)

\* What the bytes of the next line may be taken for.  Text of a body that was
\* left in the buffer ends in a newline or runs into the next request line,
\* whose method then has no Trie.
Lines ==
  LET line == stream[LineEnd]
      garbage == [version |-> "none", target |-> "unknown"]
      nonsense == [version |-> "other", target |-> "unknown"]
  IN CASE line.kind = "line" /\ IsClean
            -> {[version |-> line.version, target |-> line.target]}
       [] line.kind = "line" /\ ~IsClean
            -> {garbage, [version |-> line.version, target |-> "unknown"]}
       [] line.kind \in {"head", "PRI"}
            -> {garbage, nonsense}
       [] OTHER
            -> {garbage}

ReadRequestLine ==
  /\ pc = "line" /\ IsResumed /\ HasLine
  /\ read' = LineEnd
  /\ \E line \in Lines :
       IF line.version = "none" THEN Close /\ UNCHANGED request
       ELSE /\ pc' = "headers"
            /\ request' = NewRequest(LineEnd, line.version, line.target)
  /\ UNCHANGED <<clientVars, eof, loopVars, calls, outVars>>

\* Mutant: no timeout for the request line.
NoRequestLineAtEnd ==
  /\ pc = "line" /\ IsResumed /\ ~HasLine /\ eof
  /\ Close
  /\ UNCHANGED <<clientVars, read, eof, request, loopVars, calls, outVars>>
\* One second without a request line, or the end of the stream.
NoRequestLine ==
  /\ pc = "line" /\ IsResumed /\ ~HasLine
  /\ Close
  /\ UNCHANGED <<clientVars, read, eof, request, loopVars, calls, outVars>>

\* Mutant: the answer is written and the loop goes on.
AnswerAndContinue(status) == pc' = "line" /\ Write(status)
\* The except clause of Server._handle answers the request, then closes.
AnswerFailure(status) == Close /\ Write(status)

\* What follows a final response: the next turn of the loop.
NextTurn(keep) == pc' = IF keep THEN "line" ELSE "close"

(***************************************************************************)
(* From the complete request to the first await behind it: the upgrade, an *)
(* answer that needs no endpoint, or the call of the endpoint.  A request  *)
(* of version HTTP/1 has no response converter, so its answer raises.  The *)
(* exception of a second upgrade is raised in the except clause that       *)
(* handles the first one, and only the finally clause is left to run.      *)
(***************************************************************************)
Serve(r, keep) ==
  \/ /\ r.head.upgrade = "h2c" /\ r.got = 0 /\ ~upgraded
     /\ pc' = "verify" /\ upgraded' = TRUE
     /\ Write("101")
     /\ UNCHANGED calls
  \/ /\ r.got = 0
     /\ r.head.upgrade = "garbled" \/ (r.head.upgrade = "h2c" /\ upgraded)
     /\ Close
     /\ UNCHANGED <<calls, upgraded, outVars>>
  \/ /\ r.head.upgrade = "none" \/ r.got > 0
     /\ UNCHANGED upgraded
     /\ \/ /\ r.target = "unknown" \/ (r.target = "nowhere" /\ r.version = "1")
           /\ Close
           /\ UNCHANGED <<calls, outVars>>
        \/ /\ r.target = "nowhere" /\ r.version = "1.1"
           /\ NextTurn(keep)
           /\ Write("404")
           /\ UNCHANGED calls
        \/ /\ r.target = "route"
           /\ pc' = "endpoint"
           /\ calls' = Append(calls, [line |-> r.line, from |-> r.from,
                                      to |-> r.from + r.got])
           /\ UNCHANGED outVars

\* readline returned a header line, or the blank one that ends the head.
ReadHeaderLine ==
  /\ pc = "headers" /\ link = "up" /\ HasLine
  /\ ~(IsClean /\ stream[LineEnd].kind = "blank")
  /\ read' = LineEnd
  /\ request' = [request EXCEPT
       !.head = IF IsClean /\ stream[LineEnd].kind = "head" /\ ~@.malformed
                THEN stream[LineEnd] ELSE [@ EXCEPT !.malformed = TRUE]]
  /\ UNCHANGED <<clientVars, eof, pc, loopVars, calls, outVars>>

\* Mutant: only HTTP/1 clients may ask for the end.
KeepAliveLegacy(r) == IF r.version = "1" /\ r.head.close THEN FALSE ELSE keepAlive
\* _update_keep_alive
KeepAlive(r) == IF r.version = "1.1" /\ r.head.close THEN FALSE ELSE keepAlive

\* _update_contents_length
ShouldReadBody(r) == IF r.head.length = Absent THEN readBody ELSE r.head.length > 0

\* Mutant: a request that asks for an upgrade is not expected to have a body.
NeedsBodyUnlessUpgrade(r) == ShouldReadBody(r) /\ r.head.upgrade = "none"
NeedsBody(r) == ShouldReadBody(r)

\* The conversion of the header lines, _update_keep_alive of a protocol it does
\* not know and int() raise before anything is answered.
RaisesInHead(r) == r.head.malformed \/ r.version = "other"

\* From the head to its body or, without one, to the answer.
ReadOrServe(r, keep) ==
  \/ /\ NeedsBody(r)
     /\ pc' = "body" /\ readBody' = TRUE
     /\ unread' = r.head.length
     /\ UNCHANGED <<upgraded, calls, outVars>>
  \/ /\ ~NeedsBody(r)
     /\ readBody' = FALSE
     /\ Serve(r, keep)
     /\ UNCHANGED unread

EndHead ==
  /\ pc = "headers" /\ link = "up" /\ HasLine
  /\ IsClean /\ stream[LineEnd].kind = "blank"
  /\ read' = LineEnd
  /\ LET r == [request EXCEPT !.from = LineEnd] IN
     /\ request' = r
     /\ \/ /\ RaisesInHead(r)
           /\ Close
           /\ UNCHANGED <<keepAlive, readBody, unread, upgraded, calls, outVars>>
        \/ /\ ~RaisesInHead(r)
           /\ keepAlive' = KeepAlive(r)
           /\ \/ /\ r.head.expect = "other"
                 /\ AnswerFailure("417")
                 /\ readBody' = ShouldReadBody(r)
                 /\ UNCHANGED <<unread, upgraded, calls>>
              \/ /\ r.head.expect = "denied"
                 /\ Close
                 /\ readBody' = ShouldReadBody(r)
                 /\ UNCHANGED <<unread, upgraded, calls, outVars>>
              \/ /\ r.head.expect = "continue"
                 /\ pc' = "continue"
                 /\ Write("100")
                 /\ readBody' = ShouldReadBody(r)
                 /\ UNCHANGED <<unread, upgraded, calls>>
              \/ /\ r.head.expect = "none"
                 /\ ReadOrServe(r, KeepAlive(r))
  /\ UNCHANGED <<clientVars, eof, preface>>

\* Behind the drain of the 100 Continue.
Continue ==
  /\ pc = "continue" /\ IsResumed
  /\ ReadOrServe(request, keepAlive)
  /\ UNCHANGED <<clientVars, read, eof, request, keepAlive, preface>>

\* One second without a header line.
HeaderTimeout ==
  /\ pc = "headers" /\ IsBlocked
  /\ AnswerFailure("408")
  /\ UNCHANGED <<clientVars, read, eof, request, loopVars, calls>>

\* At the end of the stream readline returns nothing, at once and for ever: it
\* is no blank line, and no timeout strikes.
SpinInHead ==
  /\ pc = "headers" /\ link = "up" /\ ~HasLine /\ eof
  /\ UNCHANGED vars

-----------------------------------------------------------------------------
(* _read_body_generally                                                    *)

Available == sent - read

\* Mutant: every read asks for the largest portion.
LargestPortion == MaxRead
Portion == Min({unread, MaxRead})

\* Mutant: a body of another length is taken as it is.
AcceptsAnyLength(r) == TRUE
AcceptsLength(r) == r.head.length = r.got

(***************************************************************************)
(* One turn of the loop.  read(n) returns what there is, at least one byte *)
(* unless the stream ended; what was asked for is subtracted, not what was *)
(* got; and feed_eof() follows every read.  Then read_body_lines compares  *)
(* the lengths.                                                            *)
(***************************************************************************)
ReadBody ==
  /\ pc = "body" /\ link = "up"
  /\ Available > 0 \/ eof
  /\ eof' = TRUE
  /\ LET units == Min({Portion, Available})
         r == [request EXCEPT !.got = @ + units,
                 !.text = @ /\ \A p \in (read + 1)..(read + units) :
                                 stream[p].kind = "body" => stream[p].text]
     IN
     /\ read' = read + units
     /\ unread' = unread - Portion
     /\ request' = r
     /\ \/ /\ unread' # 0
           /\ UNCHANGED <<pc, readBody, upgraded, calls, outVars>>
        \/ /\ unread' = 0 /\ ~AcceptsLength(r)
           /\ AnswerFailure("400")
           /\ UNCHANGED <<readBody, upgraded, calls>>
        \/ /\ unread' = 0 /\ AcceptsLength(r) /\ ~r.text
           /\ Close
           /\ UNCHANGED <<readBody, upgraded, calls, outVars>>
        \/ /\ unread' = 0 /\ AcceptsLength(r) /\ r.text
           /\ readBody' = FALSE
           /\ Serve(r, keepAlive)
  /\ UNCHANGED <<clientVars, keepAlive, preface>>

BodyTimeout ==
  /\ pc = "body" /\ link = "up" /\ Available = 0 /\ ~eof
  /\ eof' = TRUE
  /\ AnswerFailure("408")
  /\ UNCHANGED <<clientVars, read, request, loopVars, calls>>

-----------------------------------------------------------------------------
(* The endpoint and its response.                                          *)

\* A drain that raises, an endpoint that raises, a response without converter.
FailResponse ==
  /\ \/ link # "up" /\ ~congested /\ pc \in {"endpoint", "stream"}
     \/ pc = "endpoint" /\ ("raise" \in EndpointResults \/ request.version = "1")
  /\ Close
  /\ UNCHANGED <<clientVars, read, eof, request, loopVars, calls, outVars>>

Respond ==
  /\ pc = "endpoint" /\ link = "up" /\ request.version = "1.1"
  /\ "response" \in EndpointResults
  /\ NextTurn(keepAlive)
  /\ Write("200")
  /\ UNCHANGED <<clientVars, read, eof, request, loopVars, calls>>

\* ChunkedResponseWriter: status and headers, then one chunk after the other.
StartStream ==
  /\ pc = "endpoint" /\ link = "up" /\ request.version = "1.1"
  /\ "stream" \in EndpointResults
  /\ pc' = "stream"
  /\ Write("stream")
  /\ UNCHANGED <<clientVars, read, eof, request, loopVars, calls>>

\* A chunk that fills the transport's buffer.
WriteChunk ==
  /\ pc = "stream" /\ IsResumed
  /\ congested' = TRUE
  /\ UNCHANGED <<clientVars, read, eof, pc, request, loopVars, calls, out>>

\* The generator ended or yielded an empty chunk: the last chunk is written.
EndStream ==
  /\ pc = "stream" /\ IsResumed
  /\ NextTurn(keepAlive)
  /\ Write("end")
  /\ UNCHANGED <<clientVars, read, eof, request, loopVars, calls>>

\* Mutant: the stream is given up and the connection kept.
GiveUpStream ==
  /\ pc = "stream" /\ IsResumed
  /\ NextTurn(keepAlive)
  /\ UNCHANGED <<clientVars, read, eof, request, loopVars, calls, outVars>>

\* Five seconds without a chunk, or a generator that raises.
BreakStream ==
  /\ pc = "stream" /\ IsResumed
  /\ Close
  /\ UNCHANGED <<clientVars, read, eof, request, loopVars, calls, outVars>>

-----------------------------------------------------------------------------
\* The TaskGroup over the Http2Connection was left.
EndHttp2 ==
  /\ pc = "http2"
  /\ Close
  /\ UNCHANGED <<clientVars, read, eof, request, loopVars, calls, outVars>>

\* The finally clause of handle_request: close() and wait_closed().
CloseWriter ==
  /\ pc = "close" /\ ~congested
  /\ pc' = "done"
  /\ UNCHANGED <<clientVars, read, eof, request, loopVars, calls, outVars>>

Read == \/ ReadFails \/ Verify \/ VerifyNothing \/ ConfirmPreface \/ RefusePreface
        \/ ReadRequestLine \/ NoRequestLine
        \/ ReadHeaderLine \/ EndHead \/ Continue \/ HeaderTimeout \/ SpinInHead
        \/ ReadBody \/ BodyTimeout

Answer == \/ FailResponse \/ Respond
          \/ StartStream \/ WriteChunk \/ EndStream \/ BreakStream

Finished == pc = "done" /\ UNCHANGED vars

Next == Client \/ Read \/ Answer \/ FailDrain \/ EndHttp2 \/ CloseWriter \/ Finished

Spec == Init /\ [][Next]_vars
=============================================================================
