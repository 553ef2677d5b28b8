---------------------------- MODULE ServerProcess ----------------------------
(***************************************************************************)
(* The process of an application: it declares routes on its Servers, adds  *)
(* them to an AsyncServerExecutor, enters and leaves it, while the ports   *)
(* accept connections whose requests are dispatched to endpoints.          *)
(*                                                                         *)
(* Tasks switch only where a coroutine suspends: declarations and the      *)
(* composition of the servers are steps nothing runs between; a connection *)
(* suspends in the endpoint and, over HTTP/1, behind the status line of    *)
(* its response.  How a request is read and a response sent in detail is   *)
(* the matter of Http1Connection and Http2Connection; here it is which     *)
(* server, endpoint, arguments and headers it meets.                       *)
(***************************************************************************)
EXTENDS Routing, Arguments, Responses, VirtualHosts

CONSTANTS
  Programs,      \* what the application and its clients do
  Conns,         \* connections
  Endpoints,     \* the endpoints, by name
  Params         \* the parameters of every endpoint, with their annotations

(***************************************************************************)
(* A request; general are headers of an HTTP/2 request that have the name  *)
(* under which the stream keeps a pseudo-header.                           *)
(***************************************************************************)
NoPath == [first |-> None, rest |-> <<>>]
General == [method : Methods \cup {"PATCH", None}, path : Path \cup {NoPath},
            protocol : {"1.1", "other", None}]
Request == [method : Methods \cup {"PATCH"}, path : Path, general : General]

Client == [port : Nat, tls : BOOLEAN, sni : Names \cup {NoName, DEFAULT},
           version : {"1", "1.1", "2"}]

\* clients: who may use which connection; limit: a bound on the requests of each;
\* taken: the ports another process has; waits: asyncio.Server.wait_closed waits
\* for the connections, as it does since Python 3.12; stops: somebody ends it.
Program == [servers : Seq(Server),
            routes : Seq([server : Nat, path : Path, endpoint : DOMAIN Endpoints,
                          methods : Seq(Methods \cup {"PATCH"})]),
            clients : [Conns -> SUBSET Client], requests : SUBSET Request, limit : Nat,
            taken : SUBSET Nat, waits : BOOLEAN, stops : BOOLEAN]

ASSUME ProgramsAssumption ==
  /\ Programs \subseteq Program
  /\ \A p \in Programs : \A i \in 1..Len(p.routes) : p.routes[i].server \in 1..Len(p.servers)
ASSUME EndpointsAssumption ==
  /\ None \notin DOMAIN Endpoints
  /\ \A name \in DOMAIN Endpoints : Endpoints[name] \in Endpoint

VARIABLES
  program,      \* the program that runs
  pc,           \* where main is
  at,           \* how far main is in its current loop
  urlContext,   \* _url_context of every server
  ports,        \* port_to_server, in the order of the ports
  integrated,   \* integrated_servers
  tasks,        \* tasks of the executor: serve_forever of each of them
  conns,        \* the connections
  shared        \* a dict of headers the application reuses

mainVars == <<pc, at, urlContext, ports, integrated>>
vars == <<program, mainVars, tasks, conns, shared>>

NewConn == [pc |-> "new", task |-> 0, version |-> "1.1", tls |-> FALSE, sni |-> NoName,
            cert |-> NoCert, server |-> NoServer, number |-> 0, request |-> <<>>,
            endpoint |-> None, args |-> <<>>, dict |-> NoDict, out |-> <<>>]

Init ==
  /\ program \in Programs
  /\ pc = "declare" /\ at = 1
  /\ urlContext = [s \in 1..Len(program.servers) |-> NoRoutes]
  /\ ports = <<>> /\ integrated = <<>> /\ tasks = <<>>
  /\ conns = [c \in Conns |-> NewConn]
  /\ shared = NoDict

-----------------------------------------------------------------------------
(* The application before anything runs.                                   *)

\* A registration that raises is one the application survives.
Declare ==
  /\ pc = "declare" /\ at <= Len(program.routes)
  /\ LET route == program.routes[at] IN
     urlContext' = [urlContext EXCEPT ![route.server] = Register(@, route)]
  /\ at' = at + 1
  /\ UNCHANGED <<program, pc, ports, integrated, tasks, conns, shared>>

Declared ==
  /\ pc = "declare" /\ at > Len(program.routes)
  /\ pc' = "add" /\ at' = 1
  /\ UNCHANGED <<program, urlContext, ports, integrated, tasks, conns, shared>>

\* AsyncServerExecutor.add_server
AddToExecutor ==
  /\ pc = "add" /\ at <= Len(program.servers)
  /\ LET port == program.servers[at].port
         known == {i \in 1..Len(ports) : ports[i].port = port}
     IN ports' = IF known = {} THEN Append(ports, [port |-> port, servers |-> <<at>>])
                 ELSE [i \in 1..Len(ports) |->
                         IF i \in known THEN [ports[i] EXCEPT !.servers = Append(@, at)]
                         ELSE ports[i]]
  /\ at' = at + 1
  /\ UNCHANGED <<program, pc, urlContext, integrated, tasks, conns, shared>>

EnterExecutor ==
  /\ pc = "add" /\ at > Len(program.servers)
  /\ pc' = "compose" /\ at' = 1
  /\ UNCHANGED <<program, urlContext, ports, integrated, tasks, conns, shared>>

\* One turn of the inner loop of __aenter__: the next server of the last port.
ComposeServer ==
  /\ pc = "compose" /\ integrated # <<>> /\ at <= Len(ports[Len(integrated)].servers)
  /\ LET s == ports[Len(integrated)].servers[at] IN
     integrated' = [integrated EXCEPT ![Len(integrated)] =
                      Composite(@, s, program.servers[s])]
  /\ at' = at + 1
  /\ UNCHANGED <<program, pc, urlContext, ports, tasks, conns, shared>>

\* The outer loop of __aenter__ goes to the next port, or ends.
ComposePort ==
  /\ pc = "compose"
  /\ integrated # <<>> => at > Len(ports[Len(integrated)].servers)
  /\ IF Len(integrated) < Len(ports)
     THEN /\ integrated' = Append(integrated,
                                  NewIntegratedServer(ports[Len(integrated) + 1].port))
          /\ UNCHANGED <<pc, tasks>>
     ELSE /\ pc' = "run"
          /\ tasks' = [t \in 1..Len(integrated) |-> "starting"]
          /\ UNCHANGED integrated
  /\ at' = 1
  /\ UNCHANGED <<program, urlContext, ports, conns, shared>>

-----------------------------------------------------------------------------
(* The tasks of execute_forever: IntegratedServer.serve_forever.           *)

CanServe(t) == CanListen(integrated[t]) /\ integrated[t].port \notin program.taken

Listen(t) ==
  /\ tasks[t] = "starting" /\ CanServe(t)
  /\ tasks' = [tasks EXCEPT ![t] = "listening"]
  /\ UNCHANGED <<program, mainVars, conns, shared>>

FailToListen(t) ==
  /\ tasks[t] = "starting" /\ ~CanServe(t)
  /\ tasks' = [tasks EXCEPT ![t] = "failed"]
  /\ UNCHANGED <<program, mainVars, conns, shared>>

IsOpen(c) == conns[c].pc \notin {"new", "closed"}

\* The end of a cancelled serve_forever: the socket is closed, its connections
\* are not.
EndServing(t) ==
  /\ tasks[t] = "closing"
  /\ program.waits => \A c \in Conns : IsOpen(c) => conns[c].task # t
  /\ tasks' = [tasks EXCEPT ![t] = "stopped"]
  /\ UNCHANGED <<program, mainVars, conns, shared>>

ServingTask == \E t \in 1..Len(tasks) : Listen(t) \/ FailToListen(t) \/ EndServing(t)

\* Task.cancel(): the exception of a task that failed stays what it was, and a
\* second cancelation of a task that waits for its connections only takes it from
\* the wait_closed of asyncio's serve_forever to the one of "async with".
Cancelled(status) == CASE status = "starting" -> "stopped"
                       [] status = "listening" -> "closing"
                       [] OTHER -> status

HasFailed == \E t \in 1..Len(tasks) : tasks[t] = "failed"

\* gather raises the exception of the first task that fails, and leaves the
\* others alone; it has nothing to wait for without tasks; or whoever entered
\* the executor calls __aexit__.
LeaveRun ==
  /\ pc = "run" /\ (HasFailed \/ tasks = <<>> \/ program.stops)
  /\ pc' = "exit" /\ at' = 1
  /\ UNCHANGED <<program, urlContext, ports, integrated, tasks, conns, shared>>

\* main is cancelled, and gather cancels all of its tasks.
CancelRun ==
  /\ pc = "run" /\ ~HasFailed /\ tasks # <<>> /\ program.stops
  /\ pc' = "cancelled" /\ at' = 1
  /\ tasks' = [t \in 1..Len(tasks) |-> Cancelled(tasks[t])]
  /\ UNCHANGED <<program, urlContext, ports, integrated, conns, shared>>

\* gather raises at the first task that has ended; the others may still wait for
\* their connections when __aexit__ cancels them again.
LeaveGather ==
  /\ pc = "cancelled" /\ \E t \in 1..Len(tasks) : tasks[t] = "stopped"
  /\ pc' = "exit" /\ at' = 1
  /\ UNCHANGED <<program, urlContext, ports, integrated, tasks, conns, shared>>

\* Mutant: a task that has not listened yet is passed over.
CancelsListening(status) == IF status = "starting" THEN status ELSE Cancelled(status)
\* Mutant: the task is only awaited.
CancelsNothing(status) == status
\* One turn of the loop of __aexit__: task.cancel(), then await task, which
\* a task that is "closing" makes it wait for.
Cancels(status) == Cancelled(status)

ExitTask ==
  /\ pc = "exit" /\ at <= Len(tasks)
  /\ tasks' = [tasks EXCEPT ![at] = Cancels(@)]
  /\ \/ tasks[at] = "failed" /\ pc' = "raised" /\ UNCHANGED at
     \/ tasks[at] \in {"starting", "stopped"} /\ at' = at + 1 /\ UNCHANGED pc
     \/ tasks[at] = "listening" /\ UNCHANGED <<at, pc>>
  /\ UNCHANGED <<program, urlContext, ports, integrated, conns, shared>>

Exit ==
  /\ pc = "exit" /\ at > Len(tasks)
  /\ pc' = "exited"
  /\ UNCHANGED <<program, at, urlContext, ports, integrated, tasks, conns, shared>>

-----------------------------------------------------------------------------
(* A connection.                                                           *)

Update(c, conn) ==
  /\ conns' = [conns EXCEPT ![c] = conn]
  /\ UNCHANGED <<program, mainVars, tasks>>

\* The handshake, with sni_callback, comes before handle_request.  A client that
\* speaks TLS to a plain port or not to a secure one is not let in.
Accept(c, t, client) ==
  /\ conns[c].pc = "new" /\ tasks[t] = "listening"
  /\ client.port = integrated[t].port /\ client.tls = integrated[t].secure
  /\ Update(c, [NewConn EXCEPT
       !.pc = "accepted", !.task = t, !.version = client.version, !.tls = client.tls,
       !.sni = IF client.tls THEN client.sni ELSE NoName,
       !.cert = IF client.tls THEN Certificate(integrated[t], client.sni) ELSE NoCert])
  /\ UNCHANGED shared

\* Mutant: the lookup is not tested.
HandleRequestUntested(c) ==
  /\ conns[c].pc = "accepted"
  /\ Update(c, [conns[c] EXCEPT
       !.server = FindServer(integrated[conns[c].task], conns[c].sni), !.pc = "idle"])
  /\ UNCHANGED shared
\* IntegratedServer.handle_request
HandleRequest(c) ==
  /\ conns[c].pc = "accepted"
  /\ LET s == FindServer(integrated[conns[c].task], conns[c].sni) IN
     Update(c, [conns[c] EXCEPT !.server = s, !.pc = IF s = NoServer THEN "closed" ELSE "idle"])
  /\ UNCHANGED shared

\* An exception of _dispatch closes an HTTP/1 connection, and ends the consumer
\* of an HTTP/2 connection, which stays open.
Failed(conn) == [conn EXCEPT !.pc = IF conn.version = "2" THEN "mute" ELSE "closed"]

(***************************************************************************)
(* From the response to the first suspension behind it: the status line of *)
(* HTTP/1, the whole response of HTTP/2.  The converter follows what the   *)
(* request says of its protocol: an HTTP/2 request with a header "protocol" *)
(* can have its response converted for HTTP/1, whose object send_response  *)
(* takes, without a status, unless it is a stream, which has no body.      *)
(***************************************************************************)
Answer(c, conn, endpoint) ==
  LET reuses == DictOf(endpoint) = "shared"
      built == BuiltDict(endpoint, IF reuses THEN shared
                                   ELSE [NoDict EXCEPT !.type = endpoint.type])
      copies == conn.request.protocol = "2"
      written == IF copies THEN built ELSE ConvertedDict(endpoint, built)
      sent == IF copies THEN Http2Dict(built, endpoint.body) ELSE written
      Keep(dict) == shared' = IF reuses THEN dict ELSE shared
  IN
  IF ~Converts(conn.request.protocol, built, endpoint.result)
  THEN Update(c, Failed(conn)) /\ Keep(built)
  ELSE /\ Keep(written)
       /\ IF conn.version # "2" THEN Update(c, [conn EXCEPT !.pc = "status", !.dict = sent])
          ELSE IF endpoint.result = "stream" THEN Update(c, Failed(conn))
          ELSE Update(c, [conn EXCEPT !.pc = "idle",
                 !.out = Append(@, Message("2", conn.request.method, endpoint, sent))])

\* Http2Stream.update_headers_new: what the stream keeps of the general headers
\* overwrites what it kept of the pseudo-headers.
Seen(version, request) ==
  LET general == request.general
  IN [method |-> IF version = "2" /\ general.method # None THEN general.method
                 ELSE request.method,
      path   |-> IF version = "2" /\ general.path # NoPath THEN general.path
                 ELSE request.path,
      protocol |-> IF version = "2" /\ general.protocol # None THEN general.protocol
                   ELSE version]

\* _dispatch up to the call of the endpoint.
Dispatch(c, request) ==
  /\ conns[c].pc = "idle" /\ conns[c].number < program.limit
  /\ LET seen == Seen(conns[c].version, request)
         conn == [conns[c] EXCEPT !.number = @ + 1, !.request = seen]
         found == Search(urlContext[conn.server][seen.method], seen.path)
         connection == ConnectionContext(conn.version, c)
         context == RequestContext(conn.version, c, conn.number)
     IN
     \/ /\ seen.method \notin Methods
        /\ Update(c, Failed([conn EXCEPT !.endpoint = None])) /\ UNCHANGED shared
     \/ /\ seen.method \in Methods /\ found = None
        /\ Answer(c, [conn EXCEPT !.endpoint = None], NotFound)
     \/ /\ seen.method \in Methods /\ found # None
        /\ Update(c, [conn EXCEPT !.pc = "endpoint", !.endpoint = found,
             !.args = [name \in DOMAIN Params |->
                         Resolve(name, Params[name], connection, context)]])
        /\ UNCHANGED shared

\* The endpoint returns, or raises.
Return(c) ==
  /\ conns[c].pc = "endpoint"
  /\ LET endpoint == Endpoints[conns[c].endpoint] IN
     IF endpoint.result = "raise" THEN Update(c, Failed(conns[c])) /\ UNCHANGED shared
     ELSE Answer(c, conns[c], endpoint)

Responded(conn) == IF conn.endpoint = None THEN NotFound ELSE Endpoints[conn.endpoint]

\* Behind the status line: the header lines of the dict as it is now, the body.
WriteRest(c) ==
  /\ conns[c].pc = "status"
  /\ LET conn == conns[c]
         dict == IF DictOf(Responded(conn)) = "shared" THEN shared ELSE conn.dict
     IN Update(c, [conn EXCEPT !.pc = "idle",
          !.out = Append(@, Message(conn.version, conn.request.method, Responded(conn), dict))])
  /\ UNCHANGED shared

\* The client leaves, a timeout strikes, an HTTP/1 connection is not kept alive.
Close(c) ==
  /\ IsOpen(c)
  /\ Update(c, [conns[c] EXCEPT !.pc = "closed"])
  /\ UNCHANGED shared

-----------------------------------------------------------------------------
Main == \/ Declare \/ Declared \/ AddToExecutor \/ EnterExecutor
        \/ ComposeServer \/ ComposePort
        \/ LeaveGather \/ ExitTask \/ Exit

Connection(c) ==
  \/ \E t \in 1..Len(tasks), client \in program.clients[c] : Accept(c, t, client)
  \/ HandleRequest(c)
  \/ \E request \in program.requests : Dispatch(c, request)
  \/ Return(c) \/ WriteRest(c) \/ Close(c)

Finished == (pc \in {"exited", "raised"} \/ (pc = "run" /\ ~program.stops)) /\ UNCHANGED vars

Next == Main \/ LeaveRun \/ CancelRun \/ ServingTask \/ (\E c \in Conns : Connection(c)) \/ Finished

Spec == Init /\ [][Next]_vars
=============================================================================
