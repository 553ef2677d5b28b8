# A verification project for the HTTP/1.1 and HTTP/2 server

The repository holds an asyncio server that speaks HTTP/1.1, HTTP/2 with prior knowledge or over
TLS, and HTTP/2 behind an `Upgrade: h2c`. This directory holds TLA+ models of its core, the TLC
runs that check them on small instances, and proofs of the most important properties for every
value of the constants. Line numbers below are those of the files under `http_2/`.

## 1. Inventory

| Part | State | Operations | Modules |
|---|---|---|---|
| HTTP/2 connection (`http2_connection.py`, `frame_handler.py`) | subscribers, request contexts, last frame, last stream id, upgrade frames | two tasks: `parse_http2_frame` (one handler per frame type), `consume_complete_stream` (`send_response`) | `Http2Connection` |
| Streams and their queue (`http2_object.py`) | header/stream status, state, header block, body, window; streams in open, in the queue, canceled, closed (a bounded cache) | `update_raw_headers`, `complete_headers`, `complete_stream`, `update_window`, `add_new_stream_in_processing`, `is_canceled_stream`, `add_closed_stream` | `Http2Stream`, `Http2Connection` |
| HTTP/1 connection (`http1_connection.py`, `client_reader.py`, `protocol_verifier.py`) | keep-alive and body flags, unread bytes, the `StreamReader` | `ensure_protocol`, `read_request_line`, `read_header_lines`, `read_body_lines`, 100-continue, upgrade | `Http1Connection` |
| Server (`server.py`, `exception.py`) | routes; one task per connection | `handle_request`, `_handle` and its except clauses, closing; `route`, `_dispatch` | `Http1Connection`; `ServerProcess` |
| HTTP/1 writers (`internal/http1_writer.py`) | none | general and chunked responses | `Http1Connection`, `Responses` |
| Routing (`data_structure.py`) | one trie per method | `add`, `validate_path`, `find` | `Routing` |
| Arguments (`resolver.py`, `context.py`) | parameter stores of a connection and of a request | `add_param`, `find_param`, `find_param_with_type`, `resolve` | `Arguments` |
| Responses and converters (`public/response.py`, `internal/*_response.py`, `internal/response_converter.py`) | the dict of headers of a response | construction, `get_converter`, `convert` | `Responses` |
| Virtual hosts and TLS (`ssl_object.py`, `IntegratedServer`) | certificates and servers by host name | `add_server`, `sni_callback`, `handle_request` | `VirtualHosts` |
| Executor (`AsyncServerExecutor`) | servers by port, one task per port | `add_server`, `__aenter__`, `execute_forever`, `__aexit__` | `ServerProcess` |
| Tables, load tests, earlier versions, `Server.serve_forever` | - | - | not modelled: no protocol of their own, superseded, or never called |

**How they interact.** `Server.handle_request` runs one task per TCP connection. `ensure_protocol`
reads the first line; HTTP/1 goes to the request loop of `Http1Connection`, the HTTP/2 preface to
a `TaskGroup` with the parser and the consumer of an `Http2Connection`. A
`NeedToChangeProtocolException` of the HTTP/1 loop is answered with 101 and starts `_handle` again
with the SETTINGS and HEADERS frames it was converted to. The parser and the consumer share the
connection object: requests go through the unbounded queue `streams`, window updates and the end
through one subscriber queue per stream. Endpoints are called through `_dispatch` by the consumer,
or by the HTTP/1 loop.

Above the connections, `AsyncServerExecutor` composes the `Server`s of each port into one
`IntegratedServer`, runs one listening task per port and gathers them. The handshake chooses a
certificate by the client's server name, `handle_request` a `Server` by the same name, `_dispatch`
an endpoint by method and path, `ArgumentResolver` its arguments, and `ResponseConverterStore` the
form of its response. What the application gives to all of them, such as a dict of headers it uses
twice, is shared between connections.

**What is hard.** The two HTTP/2 tasks interleave at every await; maps keyed by stream id are
updated by both; ids are forgotten by a bounded cache; a drain may raise at any write; a window
may change between test and wait; TERM must reach a task wherever it sleeps. In HTTP/1 bytes come
in arbitrary segments, reads are short, timers race with arrivals, refused requests may be
followed by their bodies. No drain, no `wait_closed` and no endpoint has a timeout, so a client
that does not read can keep a task at any write. Two lookups that must agree are written twice
with different defaults (certificate and server); registrations fail half way; responses write
into a dict that another task reads behind its drain; a listening task may be starting, listening,
failed or waiting for its connections when the executor is left. `PROJECT.json` lists each hazard
with its line and the properties that cover it.

## 2. The modules

| Module | Content |
|---|---|
| `Http2Stream` | one stream object as pure functions of a record |
| `Http2Frames` | the frames hyperframe delivers, and those the server writes |
| `Http2Connection` | the two tasks and all shared state |
| `RequestPipeline` | abstract specification: requests are taken at most once, one at a time, in order |
| `Http2Properties` | types, invariants, action properties, refinement, liveness, documented claims |
| `MCHttp2` + `H2*.cfg` | instances for TLC |
| `Http2ConnectionProofs`, `Http2SafetyProofs` | the proofs of its types, of `RequestInvariant` and of the refinement |
| `Http2RequestProofs`, `Http2FlowProofs`, `Http2LimitProofs` | those of `RequestsComplete`, of flow control and of the stream limit |
| `Http1Connection`, `Http1Properties`, `MCHttp1` + `H1*.cfg` | the HTTP/1 connection and the life cycle of a TCP connection |
| `Http1Proofs` | its proofs |
| `Routing`, `Arguments`, `Responses`, `VirtualHosts` | tries, parameter stores, response objects and the servers of a port, as functions |
| `ServerProcess` | the process that composes them: the application, the executor with its tasks, and connections from the handshake to the response |
| `ServerProperties`, `MCServer` + `Server.cfg` | its properties and instances |
| `ServerProofs` | the proofs about hosts, arguments and the executor |
| `AnswerProofs` | those of `RoutesMatch` and `Framed` |

### Http2Connection and the code

*Atomicity.* asyncio switches tasks only where a coroutine suspends. A `put` on an unbounded queue
does not; a `drain` only while the transport is congested; what a handler does behind its last
write is setting `last_frame`, which only the parser reads. So the handling of one frame is one
step. A parser that a congested transport keeps in such a drain is one that does not take its next
step yet, and a connection that is lost meanwhile is one that was lost before that step. The
consumer suspends on the empty queue, in the endpoint, while waiting for window and in the final
`drain`, where the response is written but the stream not yet closed: `consumer.pc` is `get`,
`dispatch`, `window`, `drain`.

*Objects.* The registries map ids to Python objects and two objects of one id can be alive, so the
model has a small heap: `heap[sid][inc]`, with `open`, `processing`, `subscriber` and the queue as
references. At most three are reachable when a frame has been handled, so `Incarnations == 1..3`
loses nothing.

*Data.* A header block is the verdict that decoding and validating it will give; a body is text or
not; sizes are 1 or 2 units of the frame size limit. Control is kept: the order of the tests in
`has_any_violation` and of every `validate`, the except clause each exception reaches, and what
was already changed when it was raised.

Some things the model keeps because the code does them:

- a `content-length` header (a `str`) is compared with a length (an `int`): a request with one
  never passes `complete_stream`, and the stream is lost between the maps;
- `send_rst_stream_frame` passes hyperframe an argument it does not take, so exceeding the stream
  limit ends the loop (`RefuseStream`);
- `WINDOW_UPDATE` on a stream sets the window and then ends the loop, since the handler awaits a
  function that is no coroutine (`HandleStreamWindow`);
- `update_window` overwrites the window instead of adding to it, and overflows are answered for
  stream 1 whichever stream it was (`ResetFirstStream`);
- `DataFrameHandler` puts a completed upload back into the open streams (`OpenAfter`);
- an EXTENSION frame on stream 0 may create a stream outside the stream limit, which is why
  `ConcurrencyBounded` allows one more; SETTINGS_MAX_CONCURRENT_STREAMS of the peer, a limit on
  what the server may open, replaces the server's own, which is why it only speaks of peers that
  do not raise it (`LimitKept`).

### Http1Connection and the code

The client's bytes are a sequence of tokens (request line, header lines, blank line, units of
body, the lines of the preface); `sent` and `read` are positions in it, and the buffer of the
`StreamReader` is what lies between. `Arrive(n)` delivers any segment; `FinishSending` is the FIN;
`Reset` a lost connection. `feed_eof()`, which the reader calls after every read of a body, sets
`eof`; `StreamReader.feed_data` then asserts, and asyncio aborts the transport: `link =
"aborted"`. Each `wait_for` is a state in which bytes may arrive, and its timeout an action. Every
write (`Write`) may leave the transport `congested`: then the drain behind it holds the task,
wherever it is to go on, until the client reads (`Drained`) or the connection is lost
(`FailDrain`). The writes of a response are one step, since nothing is read between them;
`continue` is the place behind a 100 Continue, and `WriteChunk` a chunk that fills the transport.
`pc` is the place of the task, `out` what was written, `calls` which endpoint calls were made with
which part of the stream. A body that was left in the buffer becomes part of the next line
(`Lines`). Behind a 101 the loop of `_handle` starts again in `verify`; that happens in the except
clause of `handle_request`, so the exception of a second upgrade only meets the finally clause
(`Serve`).

A `head` token stands for all header lines of a request together: the attributes decisions depend
on (length, expect, upgrade, close, malformed). In what a client sends it therefore follows its
request line (`StreamsAssumption`); the reader can nevertheless meet it, or a line, anywhere. The
requests of a client are *well framed* (`IsWellFramed`) if each ends with its line, or has a blank
line and as much body as it announces; `CallsGenuine` and `Aligned` are about such clients, the
other properties about all of them.

### ServerProcess and the code

*What is composed.* `ServerProcess` instantiates no connection module: it starts where they end,
at the call of `_dispatch`, and adds what lies around. A connection is its task, what the
handshake chose, its server, the request and the dict of its response; how a request is read and
how a body is sent is left to the two connection models.

*Programs.* What the application does is data: `Programs` is a set of programs, each with its
servers, its routes in the order of their registration, who may connect, and whether somebody ends
it. `Declare`, `AddToExecutor`, `ComposeServer` and `ComposePort` carry it out step by step, one
turn of each loop at a time, since a registration may fail in the middle.

*Atomicity.* Nothing else runs while the application declares and the executor composes. A
connection suspends in its endpoint and, over HTTP/1, in the drain behind the status line; only
there may other connections change a shared dict (`shared`). `_dispatch` up to the endpoint, and
from its return to the status line, is one step. HTTP/2 responses copy their headers before they
suspend.

*Tasks.* A task of the executor is `starting` (created, not yet run), `listening`, `failed` (an
exception is stored in it), `closing` (cancelled, in `wait_closed`) or `stopped`. `LeaveRun` is
gather raising the first failure, or the body of `async with` ending; `CancelRun` is the
cancelation of main, behind which gather raises as soon as one task has ended (`LeaveGather`). So
`__aexit__` may cancel a task a second time: that takes it from the `wait_closed` of asyncio's
`serve_forever` to the one of `async with http_server`, where it waits for the same connections,
and it stays `closing`. `ExitTask` is one turn of the loop of `__aexit__`; where it awaits, the
loop stays where it is. `waits` distinguishes Python 3.12 and later, where `wait_closed` waits for
the open connections.

*Paths.* A path is its first character and the pieces of `path[1:].split('/')`; `Way` is the
sequence of children the code visits, and a trie maps the ways of its nodes to endpoints. The
recursion of `find` and `add` is the recursive function `Steps`.

*Headers.* Of a dict the model keeps the last content type, the length and whether it says
chunked. Bodies have characters and bytes, since one is counted and the other sent. `general` are
headers of an HTTP/2 request with the names under which `Http2Stream` keeps its pseudo-headers;
`Seen` is what `_dispatch` sees of such a request.

## 3. What is checked

| Run | Instance | Shows |
|---|---|---|
| `h2_build` | two streams, 22 frames: every way to build, refuse or spoil a request | `RegistryConsistent`, `InOrder`, `RequestsComplete`, `ImplementsPipeline` |
| `h2_flow` | complete requests, an upload and DATA behind its end, settings and window updates, bodies of 0 to 2, window 1 | `TypeOK`, `NoLostWakeup`, `SendsWithinWindow` |
| `h2_evict` | behind an h2c upgrade; three streams, a closed cache of one id, a limit the peer lowers | `ClosedBounded`, `RequestInvariant`, `ConcurrencyBounded`, `ImplementsPipeline` |
| `h2_live` | a peer that keeps to the protocol but may send frames of unknown types, fairness | `SubscribedStops`, `RequestsServed`, `LostConnectionEnds` |
| `h1_all` | 191 streams of one to three requests, every segmentation | `TypeOK`, `CallsGenuine`, `Aligned`, `FailureIsFinal`, `CloseIsFinal`, `StreamsEnd`, `ConnectionEnds` |
| `server` | some 300 programs in four groups (below), fairness | `TypeOK`, `RoutesMatch`, `ArgumentsOwn`, `SecureServersBehindTls`, `HostServed`, `Framed`, `Http2NotChunked`, `ExitStopsListening`, `ExitCompletes` |
| `h2_late_data`, `h2_reset`, `h2_unwound`, `h1_head`, `h1_split`, `h1_continue` | the smallest client that does it | a comment, document or test the code contradicts; see section 5 |

**Bounds.** Two streams are enough for every interaction of a stream with an older one; eviction
needs a third, with a cache of one (100 in the code) so that it happens at once. `MaxWindow = 3`
(2^31-1) makes overflow reachable with increments of 1 and 2; `h2_live`, whose peer only updates
lawfully, needs a window that grows from 0 to 1. The frame sets are closed under "the same frame
on the other stream" where the stream matters. Queues, caches and maps are bounded by the streams;
no state constraint is used. For HTTP/1, `MaxRead = 2` (4096) with bodies of 1 to 3 covers short,
exact and repeated reads; a second request shows whatever the first left behind.

`server` chooses one program at the beginning. The groups ask one question each, so that their
states add up instead of multiplying: every pair of registrations over nine paths that differ in a
slash, in an empty piece or in the dropped first character, each asked for by every path; every
pair of nine servers on one port, before a third one, under all server names; each endpoint alone,
with HEAD and with the headers that overwrite pseudo-headers, and pairs that share a dict on two
connections at once; three ports of which none, one or two cannot be served, left while their
tasks start, listen or have failed. `limit` bounds the requests of a connection, 1 or 2: a second
request meets what the first left. Two connections (`Conns`) show every interleaving of the two
suspensions of a response.

**VIEW Canonical.** Objects nothing refers to, and the numbers of the objects of one stream,
cannot be observed by any action: the view identifies states that differ only in them. The map it
computes is a bisimulation, because `FreshIncarnation` depends on the numbers only in the choice
of a new number. `wire` and the remembered consumer of a finished request are left out: they are
never read. Action properties about `wire` are evaluated on each step, before states are
identified.

**Deadlock** is checked in `h2_evict`, `h1_all` and `server`; the proper end is the explicit
stuttering step `Finished` (in `server` also a program nobody ends, which runs on). The other runs
of HTTP/2 turn it off since there the consumer can really hang: behind late DATA (the finding of
`h2_late_data`), in `h2_live` behind an EXTENSION frame on stream 0. So do the runs that end in a
violation, except those of HTTP/1.

**Fairness** is only what the event loop and the timers guarantee. Of a client it is not assumed
that it sends, reads or leaves; of an endpoint or a generator neither that it returns nor that it
raises.

- HTTP/2: `WF(ResumeConsumer)`: asyncio resumes a consumer that has a request to take, a token or
  TERM in the queue it waits for, or an error for its drain. That a drain returns while the link
  is up (`CompleteResponse`) and that an endpoint returns (`Respond`, `FailDispatch`) is left
  open, so the properties name both places (`Held`). The parser is resumed from a read once the
  connection is lost, because asyncio then wakes the reader (`WF` of `StopReading` with the link
  down); a peer that merely stalls is not assumed to go on.
- HTTP/1: `WF(GoesOn)`: the task goes on when there is something to read or a timer fires
  (`Read`), and when a drain or a response meets a lost connection; `wait_closed` returns when
  nothing was written or the link is gone.
- `server`: `WF(Main)` and `WF(ServingTask)`, since main and the tasks of the executor are resumed
  when they can go on. Connections owe nothing.

**What the liveness properties exempt** follows from that. `ConnectionEnds` says that an HTTP/1
connection is closed or stays for ever in one of the places no timeout covers (`Unguarded`): the
inner lines of the preface, a head the client stopped sending for good, an endpoint, a stream that
goes on, a write the client does not read, and HTTP/2. With a lost connection only an endpoint or
HTTP/2 is left of these. `SubscribedStops` says that behind the end of the parser the consumer
ends, unless it is `Held` by an endpoint or by a peer that does not read, or another object took
the subscription of its response over (`Orphaned`); the last does not need a peer that breaks the
protocol, for a frame of an unknown type on stream 0 goes to the stream of the last frame and
there to `find_stream`. `ConsumerStops` is the same without that exception, and is violated in
`h2_late_data`. `LostConnectionEnds` says that a lost connection ends both tasks, whichever of
them it reaches first, also behind a consumer that has died: only an endpoint or an orphaned
response is left. `RequestsServed` says that no completed request is forgotten while the consumer
goes on. `ExitCompletes` says that leaving the executor ends, or waits for ever for a connection
that stays open: of the port `__aexit__` has come to, or of every port while gather waits.

## 4. What is proved

### HTTP/2

`Http2SafetyProofs` proves, for all frames, limits, ids and upgrade sequences (assumptions:
`SidsAssumption`, `MaxWindowAssumption`, `FramesAssumption`, `LimitsAssumption`):

- `TypeCorrect`: `Spec => []TypeOK`
- `RequestSafety`: `Spec => [](TypeOK /\ RequestInvariant)`
- `RequestsInOrder`, `RegistryIsConsistent`, `ClosedIdsBounded`: the invariants of the runs
- `MarksAreKnown`: `Spec => []MarksKnown`
- `Refinement`: `Spec => ImplementsPipeline`

**The argument.** That an id is never queued twice cannot be read off `has_been_closed`, since the
closed ids are a bounded cache. It holds because (1) nothing queued or dispatched is beyond
`last_frame` (`QueueReached`), (2) the handlers refuse what is below `last_frame`, so a request
can only be completed on the newest id or a newer one, and (3) the stream dispatched last is
always still remembered, either in processing or as the latest entry of the closed deque, which
eviction takes from the other end (`LastRemembered`). Every conjunct of `RequestInvariant` is used
for another one: `OpenRegistered` gives the new request its context and subscriber,
`ClosedNotProcessing` and `ClosedBounded` make `AddClosed` keep the deque free of repetitions.

The proof splits the next-state relation by effect. Every parser step has the `ParserEffect`:
streams grow, open grows, the consumer lives or is canceled, and at most one new request appears
at the end of the queue (`NewStreamIsLater` shows its id is beyond everything). Consumer steps are
quiet, drop a canceled request, dispatch, or complete a response. `InvariantStep` goes through
these cases, and `Refinement` maps each of them to a step of `RequestPipeline` or a stutter.
`RequestPipeline` drops exactly the requests that were refused while they waited; the connection
keeps marks of canceled streams (`streams_canceled`), also of the one it is answering, which stay
behind. `MarksAreKnown` shows that such a mark never belongs to an id still to come, so that it
drops no other request. Type correctness is proved handler by handler in `Http2ConnectionProofs`;
it needs `RequestInvariant` where the code uses an id of the consumer as a key.

**Requests stay complete** (`RequestsStayComplete`). `RequestsComplete` alone is not inductive:
DATA may complete a stream whose block was done before. `BlocksDecoded` adds, for every object of
the heap, that a block that is done is valid or set a content-length; then `process()` of HEADERS,
CONTINUATION and DATA only returns "complete" for a whole request. What is left is that a frame
reaches the object of a waiting or running request only through the second reference in open, and
that no such frame changes the request in it (`SameRequest`), whether it is refused or not; and
that `FreshIncarnation` never takes the place of an object that is referenced.

**Flow control** (`FlowSafety`, `WakeupsArrive`, `SendsWithinTheWindow`). `TermIsLast` says that
TERM is in no subscriber queue while the parser reads, so that only window lets a response go on
then: that is `SendsWithinWindow`. For `NoLostWakeup` each step of the parser is shown either to
leave the window of the running response alone, or to put a token into the queue of its
subscriber, or to be one of two that do not. Those two were found by the proof attempt: the
property as it was stated before, without exceptions, is false. TLC confirmed both, once the
instance was given an upload: DATA behind an upload's end makes `find_stream` create another
object, whose subscriber takes over (`IsSubscribed`); and the loop of `update_window_size` changes
the window of the running response, then raises at a later stream and publishes nothing
(`StoppedBehind`).

**The stream limit** (`LimitSafety`, `StreamsAreBounded`). `has_any_violation` counts before a
stream is added, but not for all frames. `LimitObserved` counts without the stream of the last
frame, and then the limit holds exactly: a step either adds nothing but that stream (`CalmStep`),
or was counted (`AdmittedStep`). The stream of the last frame is the one more. The bound is false
for a peer that raises the limit, since the code takes the peer's setting for its own, hence
`LimitKept`; lowering is covered.

### HTTP/1

`Http1Proofs` proves, for all sequences of tokens a client may send, all segmentations and every
`MaxRead` (assumptions: `StreamsAssumption`, `ReadAssumption`, `EndpointAssumption`):

- `TypeCorrect`, `FailuresAreFinal`, `StreamsAreEnded`, from `ProtocolInv`
- `CallsAreGenuine`, `StaysAligned`, `CloseEndsCalls`, from `RequestInv`

**The argument.** `ProtocolInv` adds to the types where an unfinished response may stand
(`OutInv`): a failure is the last thing written and the task is closing; a chunked response is
followed by its end, or it is the last thing and being written. That is inductive since every
action that writes tests `pc`, also when the drain behind the last write was held.

For the calls one has to know, while a request is read, how far its reading has come. `LineInv`:
until a head is malformed, the head read so far is that of the token behind the request line, or
nothing was read yet. `BodyInv`: `request.from + request.got = read`, and `request.got + unread`
is at most the announced length; only "at most", because a short read loses bytes of the count
(the finding of `h1_split`). `ContinueInv` says the same of the request that waits behind a 100
Continue. A request is served when `unread = 0` and `got` is the length, or it has no body; so the
interval of the call is exactly the body of its request, where the client framed it well.
`CallInv` carries this for the calls made before, with their order, and says why a call behind
`connection: close` is the last one. The ends of requests are minima of sets of positions;
`MinElement` proves that they exist, from the well-founded order of the intervals `0..x` by strict
inclusion, since an induction over the naturals is not available.

### The server process

`ServerProofs` proves, for all sets of programs (any servers, ports, routes, hosts, certificates),
any endpoints, any parameters and any number of connections (assumptions: `ProgramsAssumption`,
`EndpointsAssumption`):

- `TypeCorrect`, `ExitStops`, `OwnArguments`, `NeverChunked`, `SecureStaysSecure`,
  `HostsAreServed`

**The argument.** `MainInv` is about main and its tasks; `ExitProgress` says that the loop of
`__aexit__` leaves only stopped tasks behind it and that it is left early at a failed one, which
is `ExitStops`. For the hosts, `PortsComplete` says that `port_to_server` has each server added so
far under its port, in order, and `PortsComposed` what the composition of the first servers of a
port is: `HostsComposed` (a name has its last server, `DEFAULT` its first, unless a server is
called so), `StoreComposed` (a name has its last certificate), `DefaultComposed` (the first
certificate of all) and `SecureComposed`. These describe the loops without recursion, by comparing
the numbers of the servers; `ComposeStep` shows that one turn extends them by one server.
`ConnInv` then ties each connection to the result (`Placed`), an endpoint that runs to its own
objects (`Called`), and all dicts to the fact that chunked implies the content type of an event
stream, which no converter of a response without a stream accepts (`Unchunked`).

### Routing and responses

`AnswerProofs` proves, under the same assumptions and `PiecesAssumption`:

- `WayIsPlain`: the children a path is led through are its pieces without a slash at the end
- `RoutesAreFound`: `Spec => []RoutesMatch`, from `AnswerInv`
- `ResponsesEnd`: `Spec => []Framed`, from `FrameInv`

**Paths.** `Way` is computed by the recursive function `Steps`, and an induction over the pieces
is not available. The proof does without: `StepsFollow` gives a function in closed form that
solves the equation of `Steps`, so that the function the definition chooses solves it too; then,
if the two differed somewhere, there would be a shortest sequence of pieces where they do
(`SmallestExists`), and one turn of the code contradicts it (`StepsCut`).

**Routes.** `RoutesFound` says that behind the registrations made so far a lookup of any method
and path in the tries of a server gives the last registration that took effect there, or nothing
if there is none. `AddSearch` is one call of `add`, `RegisterSearch` the loop of `route()`, which
an unknown method or an invalid path ends early. A connection dispatches only behind the set-up,
and `Matched` keeps what it found.

**Headers.** Whether a response is framed depends on the dict at the moment its header lines are
read, behind a drain. A dict of a response's own is settled when it is built (`Neat`,
`PendingSettled`) and no step of another connection reaches it. A shared dict may hold anything,
but only once some other response that uses it is running or has been sent: `FrameInv` says that
untouched it is still empty, and that whoever finds it touched can point to another user
(`SentSettled`), which is the exception `Shares` of `Framed`. `Framed` as it was stated before was
too weak and too strong: its exception for empty bodies also let every stream pass, since a stream
has no body of its own; and without that exception it is false, because a stream whose dict names
it an event stream while its media type does not is written in chunks under no such header
(`Mislabelled`). TLC showed it when the instance was given such an endpoint.

**What the proofs changed in the model.** Besides these properties: the verdicts of the frame
handlers were CASE expressions with overlapping guards, of which TLC takes the first and the
semantics any; they are ordered now as the tests of the code are. And `Path` says that
`split('/')` never returns an empty list.

### Only model-checked

Liveness (`SubscribedStops`, `RequestsServed`, `LostConnectionEnds`, `ConnectionEnds`,
`ExitCompletes`) needs fairness and `ENABLED`, which the prover does not support. The documented
claims of section 5 are violated and only have runs. Every other property of a run is a theorem.

## 5. Where the code and its texts disagree

| Run | Text | What happens |
|---|---|---|
| `h2_late_data` | `http2_connection.py:115` | two DATA frames behind END_STREAM replace the subscriber of the running response; TERM never reaches it (an EXTENSION frame on stream 0, `frame_handler.py:450`, does the same) |
| `h2_reset` | `frame_handler.py:189`, `http2_object.py:38` | a queued request reset by the peer is still dispatched and answered |
| `h2_unwound` | `http2_object.py:33` | TERM ends the wait for window, and DATA goes out beyond it |
| `h1_head` | `client_reader.py:74` | a FIN within the header lines keeps `read_header_lines` in its loop for ever |
| `h1_split` | `tests/test_http1_invalid_request.py:167` | a sufficient body in two segments is answered with 400 |
| `h1_continue` | `docs/100-continue.md:29` (of the repository) | the second segment of a longer body aborts the connection behind the 100 |

Besides, the properties of `server` name what the code does and no text of the repository forbids:
`Framed` lists the five kinds of responses whose end the receiver cannot tell (answers to HEAD
carry a body, lengths count characters, the empty body of HTTP/1 is a CRLF, a stream named event
stream by its dict alone is chunked without saying so, a dict that is used twice keeps the headers
of the other response); a response that waits for window is not woken if the window updates raise
at a later stream (`StoppedBehind`); `ArgumentsOwn` says that `http_request` is `None` over
HTTP/2, and `http_response` always, though the example in the repository's README declares both;
an HTTP/2 request with a header `path` or `method` is routed by it (`RoutesMatch` speaks of the
path and method `_dispatch` reads, so it does not object); one with a header `protocol: HTTP/1.1`
has its response converted for HTTP/1 and is answered without a status, or ends the consumer if
the response is a stream.

## 6. Plan

Done: the HTTP/2 connection with its abstract specification; the HTTP/1 connection; routing,
arguments, responses, virtual hosts and the executor, composed in `ServerProcess`; and a theorem
for every invariant and action property of a run. Left, in this order:

1. Theorems about the boundary between the models: that what an HTTP/1 connection hands to
   `_dispatch` at an upgrade is what `Http2Connection` starts with (`UpgradeFrames`).
2. The safety half of the liveness properties, as invariants: in every state the consumer sleeps
   in behind the end of the parser there is a token it will find, except in the state of
   `h2_late_data`; and in every place of HTTP/1 that `Unguarded` does not name some action of
   `GoesOn` is possible.
3. An abstract specification of the executor (what listens, and until when) refined by
   `ServerProcess`.

**Not modelled.**

- Reads that return part of a frame: `reader.read(n)` on a segmented stream desynchronises the
  frame parser; the model treats it as an unparsable header or body.
- The dynamic table of HPACK; the handshake of TLS and ALPN, whose effect is whether a client is
  let in (a client that speaks TLS to a plain port, or not to a secure one, is not) and which
  protocol it then speaks.
- `Server.serve_forever`, which nothing calls since `AsyncServerExecutor` runs
  `IntegratedServer.serve_forever`; `graceful_shutdown`, which is empty.
- A cancelation of main that arrives while `__aexit__` awaits a task.
- What arrives behind the end of `_handle`, where nothing reads it; and in `Http1Connection` what
  arrives while HTTP/2 is spoken, which `Http2Connection` is about.
- The common headers, status codes and constants: tables that no decision depends on.
- `common_http_object.py`, `temp_exception.py` and `internal/http2_writer.py`, which the server
  never reaches; the versions before (`http2_v0`, `http2_v1`, `http_1`), which nothing imports;
  the load tests, which are clients.
