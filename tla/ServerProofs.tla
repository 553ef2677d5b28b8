---------------------------- MODULE ServerProofs ----------------------------
(***************************************************************************)
(* Proofs about ServerProcess for every set of programs, that is, for any  *)
(* number of servers, routes and ports, any hosts and certificates, any    *)
(* endpoints and parameters, and any number of connections and requests.   *)
(***************************************************************************)
EXTENDS ServerProperties, TLAPS

Status == {"starting", "listening", "failed", "closing", "stopped"}
SetUp == {"declare", "add", "compose"}
ServerIds == 1..Len(program.servers)

Certificates == [server : ServerIds, name : Names]
Hostnames == Names \cup {NoName, DEFAULT}

\* The dicts with some of the keys.
DictOver(keys, values) == UNION {[some -> values] : some \in SUBSET keys}

\* An IntegratedServer with the servers added so far.
Integrated ==
  [port : Nat, servers : DictOver(Hostnames, ServerIds), secure : BOOLEAN,
   store : DictOver(Names, Certificates), default : Certificates \cup {NoCert}]

\* An entry of port_to_server.
Port == [port : Nat, servers : Seq(ServerIds)]

MainType ==
  /\ program \in Programs
  /\ pc \in SetUp \cup {"run", "cancelled", "exit", "exited", "raised"}
  /\ at \in Nat \ {0}
  /\ ports \in Seq(Port)
  /\ integrated \in Seq(Integrated)
  /\ tasks \in Seq(Status)
  /\ Len(integrated) <= Len(ports)

\* The tasks are created behind the loop that composes the servers.
TasksCreated ==
  /\ pc \in SetUp => tasks = <<>>
  /\ pc \in SetUp \ {"compose"} => integrated = <<>>
  /\ tasks # <<>> => Len(tasks) = Len(integrated)

\* Only a server that could be handed to start_server listens.
ListeningCan == \A t \in 1..Len(tasks) : tasks[t] = "listening" => CanListen(integrated[t])

\* The loop of __aexit__ leaves stopped tasks behind.
ExitProgress ==
  /\ pc \in {"exit", "exited", "raised"} =>
       \A t \in 1..Len(tasks) : t < at => tasks[t] = "stopped"
  /\ pc = "exited" => at > Len(tasks)
  /\ pc = "raised" => at <= Len(tasks) /\ tasks[at] = "failed"

MainInv == MainType /\ TasksCreated /\ ListeningCan /\ ExitProgress

-----------------------------------------------------------------------------
(* Programs and sequences.                                                 *)

\* One registration.
Route == [server : Nat, path : Path, endpoint : DOMAIN Endpoints,
          methods : Seq(Methods \cup {"PATCH"})]

LEMMA ProgramFields ==
  ASSUME program \in Programs
  PROVE  /\ program \in Program
         /\ program.servers \in Seq(Server)
         /\ \A s \in ServerIds : program.servers[s] \in Server
         /\ \A i \in 1..Len(program.routes) :
              /\ program.routes[i].server \in ServerIds
              /\ program.routes[i].endpoint \in DOMAIN Endpoints
         /\ \A c \in Conns : program.clients[c] \subseteq Client
         /\ program.requests \subseteq Request
<1>1. program \in Program BY ProgramsAssumption
<1>2. /\ program.servers \in Seq(Server)
      /\ program.routes \in Seq(Route)
      /\ program.clients \in [Conns -> SUBSET Client] /\ program.requests \subseteq Request
  BY <1>1 DEF Program, Route
<1>3. \A i \in 1..Len(program.routes) : /\ program.routes[i].server \in ServerIds
                                         /\ program.routes[i].endpoint \in DOMAIN Endpoints
  <2> SUFFICES ASSUME NEW i \in 1..Len(program.routes)
               PROVE  /\ program.routes[i].server \in ServerIds
                      /\ program.routes[i].endpoint \in DOMAIN Endpoints
    OBVIOUS
  <2>1. program.routes[i] \in Route
    BY <1>2
  <2> QED BY <2>1, ProgramsAssumption DEF ServerIds, Route
<1>4. \A s \in ServerIds : program.servers[s] \in Server
  BY <1>2 DEF ServerIds
<1>5. \A c \in Conns : program.clients[c] \subseteq Client
  BY <1>2
<1> QED BY <1>1, <1>2, <1>3, <1>4, <1>5

\* Replacing one element of a sequence.
LEMMA ReplaceElement ==
  ASSUME NEW S, NEW seq \in Seq(S), NEW i \in 1..Len(seq), NEW x \in S
  PROVE  /\ [seq EXCEPT ![i] = x] \in Seq(S)
         /\ Len([seq EXCEPT ![i] = x]) = Len(seq)
  OBVIOUS

\* Every task takes a step of its own.
LEMMA MapSequence ==
  ASSUME NEW S, NEW n \in Nat, NEW f, \A i \in 1..n : f[i] \in S
  PROVE  /\ [i \in 1..n |-> f[i]] \in Seq(S)
         /\ Len([i \in 1..n |-> f[i]]) = n
  OBVIOUS

-----------------------------------------------------------------------------
(* The composition of the servers of a port.                               *)

LEMMA OwnNamesType ==
  ASSUME NEW server \in Server
  PROVE  /\ OwnNames(server) \subseteq Names
         /\ OwnNames(server) # {} => Head(server.certs) \in Names
  BY DEF OwnNames, Server, Range

LEMMA WithType ==
  ASSUME NEW K, NEW V, NEW f, f \in DictOver(K, V),
         NEW key, key \in K, NEW value, value \in V
  PROVE  With(f, key, value) \in DictOver(K, V)
<1> DEFINE domain == DOMAIN f \cup {key}
<1>1. With(f, key, value) \in [domain -> V] /\ domain \in SUBSET K
  BY DEF With, DictOver
<1> QED BY <1>1 DEF DictOver

\* IntegratedServer.add_server keeps a dict of servers.
LEMMA AddServerType ==
  ASSUME NEW V, NEW servers, servers \in DictOver(Hostnames, V),
         NEW hostname, hostname \in Hostnames, NEW s, s \in V
  PROVE  AddServer(servers, hostname, s) \in DictOver(Hostnames, V)
<1>1. With(servers, DEFAULT, s) \in DictOver(Hostnames, V)
  BY WithType DEF Hostnames
<1> QED BY <1>1, WithType DEF AddServer

\* What it adds is the server, under its name and, for the first, as DEFAULT.
LEMMA AddServerValue ==
  ASSUME NEW servers, NEW hostname, NEW s
  PROVE  /\ DOMAIN AddServer(servers, hostname, s) = DOMAIN servers \cup {DEFAULT, hostname}
         /\ \A k \in DOMAIN servers \cup {DEFAULT, hostname} :
              AddServer(servers, hostname, s)[k] =
                IF k = hostname \/ k \notin DOMAIN servers THEN s ELSE servers[k]
  BY DEF AddServer, With

LEMMA NewIntegratedType ==
  ASSUME NEW port \in Nat
  PROVE  NewIntegratedServer(port) \in Integrated
<1>1. <<>> \in [{} -> ServerIds] /\ <<>> \in [{} -> Certificates]
  OBVIOUS
<1> QED BY <1>1 DEF NewIntegratedServer, Integrated, DictOver

LEMMA CompositeType ==
  ASSUME program \in Programs, NEW r \in Integrated, NEW s \in ServerIds
  PROVE  Composite(r, s, program.servers[s]) \in Integrated
<1> DEFINE server == program.servers[s]
           own == OwnNames(server)
           store == [name \in DOMAIN r.store \cup own |->
                       IF name \in own THEN [server |-> s, name |-> name] ELSE r.store[name]]
           default == IF r.default = NoCert /\ own # {}
                      THEN [server |-> s, name |-> Head(server.certs)] ELSE r.default
           servers == AddServer(r.servers, server.hostname, s)
<1>1. server \in Server BY ProgramFields
<1>2. own \subseteq Names /\ (own # {} => Head(server.certs) \in Names)
  BY <1>1, OwnNamesType
<1>3. servers \in DictOver(Hostnames, ServerIds)
  BY <1>1, AddServerType DEF Integrated, Server, Hostnames
<1>4. store \in DictOver(Names, Certificates)
  <2> DEFINE domain == DOMAIN r.store \cup own
  <2>1. DOMAIN r.store \in SUBSET Names /\ r.store \in [DOMAIN r.store -> Certificates]
    BY DEF Integrated, DictOver
  <2>2. store \in [domain -> Certificates] BY <1>2, <2>1 DEF Certificates
  <2> QED BY <2>1, <2>2, <1>2 DEF DictOver
<1>5. default \in Certificates \cup {NoCert}
  BY <1>2 DEF Integrated, Certificates
<1>6. Secures(r, server) \in BOOLEAN BY DEF Secures, Integrated
<1>7. Composite(r, s, server) =
        [r EXCEPT !.servers = servers, !.secure = Secures(r, server), !.store = store,
                  !.default = default]
  BY DEF Composite
<1> HIDE DEF servers, store, default
<1>8. [r EXCEPT !.servers = servers, !.secure = Secures(r, server), !.store = store,
                !.default = default] \in Integrated
  BY <1>3, <1>4, <1>5, <1>6 DEF Integrated
<1> QED BY <1>7, <1>8

-----------------------------------------------------------------------------
(* The process outside its connections.                                    *)

LEMMA MainInit == Init => MainInv
<1> SUFFICES ASSUME Init PROVE MainInv
  OBVIOUS
<1>1. /\ program \in Programs /\ pc = "declare" /\ at = 1 /\ ports = <<>>
      /\ integrated = <<>> /\ tasks = <<>>
  BY DEF Init
<1> QED BY <1>1 DEF MainInv, MainType, TasksCreated, ListeningCan, ExitProgress, SetUp

\* Before the tasks are there only the types matter.
LEMMA MainSetUp ==
  ASSUME MainInv, Declare \/ Declared \/ AddToExecutor \/ EnterExecutor \/ ComposeServer
  PROVE  MainInv'
<1>1. /\ pc \in SetUp /\ pc' \in SetUp /\ UNCHANGED <<program, tasks>> /\ tasks = <<>>
      /\ at' \in Nat \ {0}
  <2>1. at \in Nat \ {0} /\ (pc \in SetUp => tasks = <<>>)
    BY DEF MainInv, MainType, TasksCreated
  <2> QED BY <2>1 DEF SetUp, Declare, Declared, AddToExecutor, EnterExecutor, ComposeServer
<1>2. /\ integrated' \in Seq(Integrated) /\ ports' \in Seq(Port)
      /\ Len(integrated') <= Len(ports')
      /\ pc' \in SetUp \ {"compose"} => integrated' = <<>>
  <2>1. CASE UNCHANGED <<ports, integrated>> /\ (pc' = pc \/ pc \in SetUp \ {"compose"})
    BY <1>1, <2>1 DEF MainInv, MainType, TasksCreated
  <2>2. CASE AddToExecutor
    <3> DEFINE port == program.servers[at].port
               known == {i \in 1..Len(ports) : ports[i].port = port}
    <3>1. pc = "add" /\ at \in ServerIds /\ UNCHANGED <<pc, integrated>> /\ integrated = <<>>
      BY <2>2, <1>1 DEF AddToExecutor, MainInv, MainType, TasksCreated, ServerIds, SetUp
    <3>2. port \in Nat
      BY <3>1, ProgramFields DEF Server, MainInv, MainType
    <3>3. ports \in Seq(Port)
      BY DEF MainInv, MainType
    <3>4. [port |-> port, servers |-> <<at>>] \in Port
      BY <3>1, <3>2 DEF Port
    <3>5. ASSUME NEW i \in 1..Len(ports)
          PROVE  [ports[i] EXCEPT !.servers = Append(@, at)] \in Port
      <4>1. ports[i] \in Port
        BY <3>3
      <4> QED BY <4>1, <3>1 DEF Port
    <3>6. ports' = IF known = {} THEN Append(ports, [port |-> port, servers |-> <<at>>])
                   ELSE [i \in 1..Len(ports) |->
                           IF i \in known THEN [ports[i] EXCEPT !.servers = Append(@, at)]
                           ELSE ports[i]]
      BY <2>2 DEF AddToExecutor
    <3> HIDE DEF port, known
    <3>7. ports' \in Seq(Port)
      BY <3>3, <3>4, <3>5, <3>6
    <3> QED BY <3>1, <3>7
  <2>3. CASE ComposeServer
    <3> DEFINE n == Len(integrated)
               s == ports[n].servers[at]
    <3>1. /\ pc = "compose" /\ n \in 1..Len(ports) /\ at \in 1..Len(ports[n].servers)
          /\ integrated' = [integrated EXCEPT ![n] =
                              Composite(integrated[n], s, program.servers[s])]
          /\ integrated \in Seq(Integrated) /\ UNCHANGED <<pc, ports>>
          /\ ports \in Seq(Port) /\ n <= Len(ports)
      BY <2>3 DEF ComposeServer, MainInv, MainType
    <3>2. ports[n] \in Port
      BY <3>1
    <3>3. s \in ServerIds
      BY <3>1, <3>2 DEF Port
    <3>4. Composite(integrated[n], s, program.servers[s]) \in Integrated
      BY <3>1, <3>3, CompositeType DEF MainInv, MainType
    <3> QED BY <3>1, <3>4, ReplaceElement
  <2> QED BY <2>1, <2>2, <2>3 DEF Declare, Declared, AddToExecutor, EnterExecutor,
                                  ComposeServer, SetUp
<1>3. Integrated' = Integrated /\ ServerIds' = ServerIds /\ Port' = Port
  BY <1>1 DEF Integrated, ServerIds, Certificates, Port
<1> QED BY <1>1, <1>2, <1>3 DEF MainInv, MainType, TasksCreated, ListeningCan,
                                ExitProgress, SetUp

\* The loop over the ports ends with a task for each of them.
LEMMA MainComposePort == MainInv /\ ComposePort => MainInv'
<1> SUFFICES ASSUME MainInv, ComposePort PROVE MainInv'
  OBVIOUS
<1>1. /\ program' = program /\ ports' = ports /\ at' = 1 /\ pc = "compose" /\ tasks = <<>>
      /\ ports \in Seq(Port) /\ integrated \in Seq(Integrated) /\ tasks \in Seq(Status)
      /\ Len(integrated) <= Len(ports) /\ program \in Programs
  BY DEF ComposePort, MainInv, MainType, TasksCreated, SetUp
<1>2. Integrated' = Integrated /\ ServerIds' = ServerIds /\ Port' = Port
  BY <1>1 DEF Integrated, ServerIds, Certificates, Port
<1>3. CASE Len(integrated) < Len(ports)
  <2> DEFINE n == Len(integrated) + 1
  <2>1. integrated' = Append(integrated, NewIntegratedServer(ports[n].port))
        /\ UNCHANGED <<pc, tasks>>
    BY <1>3 DEF ComposePort
  <2>2. ports[n] \in Port
    BY <1>1, <1>3
  <2>3. NewIntegratedServer(ports[n].port) \in Integrated
    BY <2>2, NewIntegratedType DEF Port
  <2>4. integrated' \in Seq(Integrated) /\ Len(integrated') <= Len(ports)
    BY <1>1, <1>3, <2>1, <2>3
  <2> QED BY <1>1, <1>2, <2>1, <2>4 DEF MainInv, MainType, TasksCreated, ListeningCan,
                                        ExitProgress, SetUp
<1>4. CASE ~(Len(integrated) < Len(ports))
  <2>1. /\ pc' = "run" /\ integrated' = integrated
        /\ tasks' = [t \in 1..Len(integrated) |-> "starting"]
    BY <1>4 DEF ComposePort
  <2>2. tasks' \in Seq(Status) /\ Len(tasks') = Len(integrated)
        /\ \A t \in 1..Len(tasks') : tasks'[t] = "starting"
    BY <1>1, <2>1 DEF Status
  <2> QED BY <1>1, <1>2, <2>1, <2>2 DEF MainInv, MainType, TasksCreated, ListeningCan,
                                        ExitProgress, SetUp
<1> QED BY <1>3, <1>4

\* A step that keeps the servers and changes tasks one by one.
LEMMA MainTasks ==
  ASSUME MainInv, UNCHANGED <<program, ports, integrated>>, tasks' \in Seq(Status),
         Len(tasks') = Len(tasks), pc \notin SetUp, pc' \notin SetUp, at' \in Nat \ {0},
         pc' \in {"run", "cancelled", "exit", "exited", "raised"}, ExitProgress',
         \A t \in 1..Len(tasks) : tasks'[t] = "listening" => CanListen(integrated[t])
  PROVE  MainInv'
<1>1. Integrated' = Integrated /\ ServerIds' = ServerIds /\ Port' = Port
  BY DEF Integrated, ServerIds, Certificates, Port
<1>2. tasks' # <<>> => tasks # <<>>
  BY DEF MainInv, MainType
<1> QED BY <1>1, <1>2 DEF MainInv, MainType, TasksCreated, ListeningCan

LEMMA TasksBehindSetUp ==
  ASSUME MainInv, tasks # <<>>
  PROVE  pc \notin SetUp
  BY DEF MainInv, TasksCreated

\* serve_forever of one task.
LEMMA MainServing == MainInv /\ ServingTask => MainInv'
<1> SUFFICES ASSUME MainInv, NEW t \in 1..Len(tasks),
                    Listen(t) \/ FailToListen(t) \/ EndServing(t)
             PROVE  MainInv'
  BY DEF ServingTask
<1>1. /\ UNCHANGED <<program, pc, at, ports, integrated>>
      /\ tasks \in Seq(Status) /\ tasks # <<>> /\ at \in Nat \ {0}
      /\ pc \in SetUp \cup {"run", "cancelled", "exit", "exited", "raised"}
  BY DEF Listen, FailToListen, EndServing, mainVars, MainInv, MainType
<1>2. pc \notin SetUp
  BY <1>1, TasksBehindSetUp
<1>3. PICK status \in Status :
        /\ tasks' = [tasks EXCEPT ![t] = status]
        /\ tasks[t] \notin {"stopped", "failed"}
        /\ status = "listening" => CanListen(integrated[t])
  BY DEF Listen, FailToListen, EndServing, CanServe, Status
<1>4. tasks' \in Seq(Status) /\ Len(tasks') = Len(tasks)
  BY <1>1, <1>3, ReplaceElement
<1>5. ExitProgress'
  BY <1>1, <1>3, <1>4 DEF MainInv, ExitProgress
<1>6. \A u \in 1..Len(tasks) : tasks'[u] = "listening" => CanListen(integrated[u])
  BY <1>1, <1>3 DEF MainInv, ListeningCan
<1> QED BY <1>1, <1>2, <1>4, <1>5, <1>6, MainTasks

LEMMA CancelledStatus ==
  ASSUME NEW status \in Status
  PROVE  /\ Cancelled(status) \in Status \ {"starting", "listening"}
         /\ status = "stopped" => Cancelled(status) = "stopped"
         /\ status = "failed" => Cancelled(status) = "failed"
         /\ status = "starting" => Cancelled(status) = "stopped"
  BY DEF Cancelled, Status

\* Leaving execute_forever, by an exception or by cancelation.
LEMMA MainLeaving == MainInv /\ (LeaveRun \/ CancelRun \/ LeaveGather \/ Exit) => MainInv'
<1> SUFFICES ASSUME MainInv, LeaveRun \/ CancelRun \/ LeaveGather \/ Exit PROVE MainInv'
  OBVIOUS
<1>1. /\ UNCHANGED <<program, ports, integrated>> /\ tasks \in Seq(Status)
      /\ at \in Nat \ {0} /\ at' \in Nat \ {0}
      /\ pc \notin SetUp /\ pc' \in {"cancelled", "exit", "exited"}
  BY DEF LeaveRun, CancelRun, LeaveGather, Exit, MainInv, MainType, SetUp
<1>2. CASE CancelRun
  <2>1. /\ tasks' = [t \in 1..Len(tasks) |-> Cancelled(tasks[t])] /\ pc' = "cancelled"
    BY <1>2 DEF CancelRun
  <2>2. \A t \in 1..Len(tasks) : Cancelled(tasks[t]) \in Status \ {"starting", "listening"}
    BY <1>1, CancelledStatus
  <2>3. /\ tasks' \in Seq(Status) /\ Len(tasks') = Len(tasks)
        /\ \A t \in 1..Len(tasks) : tasks'[t] # "listening"
    BY <1>1, <2>1, <2>2
  <2> QED BY <1>1, <2>1, <2>3, MainTasks DEF ExitProgress, SetUp
<1>3. CASE LeaveRun \/ LeaveGather \/ Exit
  <2>1. tasks' = tasks
    BY <1>3 DEF LeaveRun, LeaveGather, Exit
  <2>2. ExitProgress'
    BY <1>1, <1>3, <2>1 DEF LeaveRun, LeaveGather, Exit, MainInv, ExitProgress
  <2> QED BY <1>1, <2>1, <2>2, MainTasks DEF MainInv, ListeningCan, SetUp
<1> QED BY <1>2, <1>3

\* One turn of the loop of __aexit__.
LEMMA MainExitTask == MainInv /\ ExitTask => MainInv'
<1> SUFFICES ASSUME MainInv, ExitTask PROVE MainInv'
  OBVIOUS
<1>1. /\ UNCHANGED <<program, ports, integrated>> /\ tasks \in Seq(Status)
      /\ at \in 1..Len(tasks) /\ pc = "exit" /\ pc' \in {"exit", "raised"}
      /\ tasks' = [tasks EXCEPT ![at] = Cancelled(tasks[at])]
      /\ at' \in {at, at + 1}
      /\ pc' = "raised" => tasks[at] = "failed" /\ at' = at
      /\ at' = at + 1 => tasks[at] \in {"starting", "stopped"}
  BY DEF ExitTask, Cancels, MainInv, MainType
<1>2. /\ Cancelled(tasks[at]) \in Status \ {"starting", "listening"}
      /\ tasks[at] = "failed" => Cancelled(tasks[at]) = "failed"
      /\ tasks[at] \in {"starting", "stopped"} => Cancelled(tasks[at]) = "stopped"
  BY <1>1, CancelledStatus
<1>3. tasks' \in Seq(Status) /\ Len(tasks') = Len(tasks)
  BY <1>1, <1>2, ReplaceElement
<1>4. ExitProgress'
  BY <1>1, <1>2, <1>3 DEF MainInv, ExitProgress
<1>5. \A t \in 1..Len(tasks) : tasks'[t] = "listening" => CanListen(integrated[t])
  BY <1>1, <1>2 DEF MainInv, ListeningCan
<1> QED BY <1>1, <1>3, <1>4, <1>5, MainTasks DEF SetUp

\* What connections do leaves the process as it is.
LEMMA MainUnchanged == MainInv /\ UNCHANGED <<program, mainVars, tasks>> => MainInv'
<1> SUFFICES ASSUME MainInv, UNCHANGED <<program, mainVars, tasks>> PROVE MainInv'
  OBVIOUS
<1>1. UNCHANGED <<program, pc, at, ports, integrated, tasks>>
  BY DEF mainVars
<1> QED BY <1>1 DEF MainInv, MainType, TasksCreated, ListeningCan, ExitProgress,
                    Integrated, Certificates, ServerIds, Port

LEMMA ConnectionKeepsProcess ==
  ASSUME NEW c \in Conns, Connection(c)
  PROVE  UNCHANGED <<program, mainVars, tasks>>
  BY DEF Connection, Accept, HandleRequest, Dispatch, Return, WriteRest, Close, Answer, Update

LEMMA MainNext == MainInv /\ [Next]_vars => MainInv'
<1> SUFFICES ASSUME MainInv, [Next]_vars PROVE MainInv'
  OBVIOUS
<1>1. CASE Main
  BY <1>1, MainSetUp, MainComposePort, MainLeaving, MainExitTask DEF Main
<1>2. CASE LeaveRun \/ CancelRun
  BY <1>2, MainLeaving
<1>3. CASE ServingTask
  BY <1>3, MainServing
<1>4. CASE \E c \in Conns : Connection(c)
  BY <1>4, MainUnchanged, ConnectionKeepsProcess
<1>5. CASE Finished \/ UNCHANGED vars
  BY <1>5, MainUnchanged DEF Finished, vars
<1> QED BY <1>1, <1>2, <1>3, <1>4, <1>5 DEF Next

(***************************************************************************)
(* The main coroutine creates a task for every port before it gathers      *)
(* them, and its __aexit__ leaves every task it has passed stopped.        *)
(***************************************************************************)
THEOREM MainSafety == Spec => []MainInv
  BY MainInit, MainNext, PTL DEF Spec

(***************************************************************************)
(* Behind the executor nothing listens or is about to, unless a task that  *)
(* had failed raised its exception out of __aexit__: for any number of     *)
(* ports and in whatever state of the tasks it is left.                    *)
(***************************************************************************)
THEOREM ExitStops == Spec => []ExitStopsListening
<1>1. MainInv => ExitStopsListening
  <2> SUFFICES ASSUME MainInv, pc \in {"exited", "raised"}, NEW t \in 1..Len(tasks),
                      tasks[t] \in {"starting", "listening", "closing"}
               PROVE  pc = "raised" /\ \E f \in 1..(t - 1) : tasks[f] = "failed"
    BY DEF ExitStopsListening
  <2>1. ~(t < at) /\ at \in Nat \ {0}
    BY DEF MainInv, MainType, ExitProgress
  <2>2. pc = "raised" /\ at <= Len(tasks) /\ tasks[at] = "failed"
    BY <2>1 DEF MainInv, ExitProgress
  <2>3. at # t
    BY <2>2
  <2> QED BY <2>1, <2>2, <2>3
<1> QED BY <1>1, MainSafety, PTL

-----------------------------------------------------------------------------
(* The dicts of headers.                                                   *)

\* Only what a stream has written says chunked, and it keeps the content type.
SafeDict == {dict \in Dict : dict.chunked => dict.type = "event"}

LEMMA BuiltSafe ==
  ASSUME NEW endpoint \in Endpoint, NEW dict \in SafeDict
  PROVE  BuiltDict(endpoint, dict) \in SafeDict
  BY DEF BuiltDict, StreamDict, SafeDict, Dict

LEMMA OwnDictSafe ==
  ASSUME NEW endpoint \in Endpoint
  PROVE  [NoDict EXCEPT !.type = endpoint.type] \in SafeDict
  BY DEF NoDict, SafeDict, Dict, NoLength, Endpoint

\* A converter of responses is never chosen by a dict that says chunked.
LEMMA ConvertsUnchunked ==
  ASSUME NEW protocol, NEW dict \in SafeDict, NEW result,
         Converts(protocol, dict, result)
  PROVE  result = "stream" \/ (result = "response" /\ dict.chunked = FALSE)
  BY DEF Converts, Converter, ContentType, SafeDict, Dict

LEMMA ConvertedSafe ==
  ASSUME NEW protocol, NEW endpoint \in Endpoint, NEW dict \in SafeDict,
         Converts(protocol, dict, endpoint.result)
  PROVE  /\ ConvertedDict(endpoint, dict) \in SafeDict
         /\ Http2Dict(dict, endpoint.body) \in Dict
         /\ endpoint.result # "stream" =>
              /\ ConvertedDict(endpoint, dict).chunked = FALSE
              /\ Http2Dict(dict, endpoint.body).chunked = FALSE
<1>1. endpoint.result = "stream" \/ (endpoint.result = "response" /\ dict.chunked = FALSE)
  BY ConvertsUnchunked
<1>2. endpoint.body.chars \in Nat
  BY DEF Endpoint, Body
<1>3. dict \in Dict /\ (dict.chunked => dict.type = "event")
  BY DEF SafeDict
<1>4. /\ Http2Dict(dict, endpoint.body) \in Dict
      /\ Http2Dict(dict, endpoint.body).chunked = dict.chunked
  BY <1>2, <1>3 DEF Http2Dict, Dict
<1>5. CASE endpoint.result = "response"
  <2>1. /\ PlainDict(dict, endpoint.body) \in Dict
        /\ PlainDict(dict, endpoint.body).chunked = FALSE
    BY <1>1, <1>2, <1>3, <1>5 DEF PlainDict, Dict
  <2> QED BY <1>1, <1>4, <1>5, <2>1 DEF ConvertedDict, SafeDict
<1>6. CASE endpoint.result # "response"
  <2>1. ConvertedDict(endpoint, dict) \in SafeDict
    BY <1>3, <1>6 DEF ConvertedDict, StreamDict, SafeDict, Dict
  <2> QED BY <1>1, <1>4, <1>6, <2>1
<1> QED BY <1>5, <1>6

-----------------------------------------------------------------------------
(* The arguments of an endpoint.                                           *)

\* A store with one entry gives it under its name, whatever type is asked for.
LEMMA StoreOfOne ==
  ASSUME NEW name, NEW type, NEW c, NEW number, NEW asked, NEW askedType
  PROVE  LET store == AddParam(EmptyStore, name, Object(type, c, number))
         IN /\ FindParam(store, asked) = IF asked = name THEN Object(type, c, number) ELSE Absent
            /\ FindTyped(store, asked, askedType) =
                 IF asked = name /\ askedType = type THEN Object(type, c, number) ELSE Absent
<1> DEFINE object == Object(type, c, number)
           one == [n \in {name} |-> object]
           store == AddParam(EmptyStore, name, object)
<1>1. object.type = type
  BY DEF Object
<1>2. /\ [n \in DOMAIN <<>> \cup {name} |-> IF n = name THEN object ELSE <<>>[n]] = one
      /\ DOMAIN <<>> = {}
  OBVIOUS
<1> HIDE DEF object
<1>3. store.params = one /\ store.byType = [t \in {type} |-> one]
  BY <1>1, <1>2 DEF AddParam, EmptyStore
<1> HIDE DEF store, one
<1>4. FindParam(store, asked) = IF asked = name THEN object ELSE Absent
  BY <1>3 DEF FindParam, Lookup, one
<1>5. FindTyped(store, asked, askedType) =
        IF asked = name /\ askedType = type THEN object ELSE Absent
  BY <1>3 DEF FindTyped, Lookup, one
<1> QED BY <1>4, <1>5 DEF object, store

\* What ArgumentsOwn says an endpoint gets under a name.
Own(c, version, number, name) ==
  CASE name = "connection" /\ version = "2" -> Object("Http2Connection", c, 0)
    [] name = "connection" /\ version # "2" -> Object("Http1Connection", c, 0)
    [] name = "http_request" /\ version # "2" -> Object("Http1Request", c, number)
    [] name = "stream" /\ version = "2" -> Object("Http2Stream", c, number)
    [] OTHER -> Absent

LEMMA ResolveOwn ==
  ASSUME NEW c, NEW version, NEW number, NEW name, NEW type
  PROVE  Resolve(name, type, ConnectionContext(version, c), RequestContext(version, c, number))
           = Own(c, version, number, name)
<1> DEFINE connection == ConnectionContext(version, c)
           request == RequestContext(version, c, number)
           conn == Object(IF version = "2" THEN "Http2Connection" ELSE "Http1Connection", c, 0)
           req == Object(IF version = "2" THEN "Http2Stream" ELSE "Http1Request", c, number)
           reqName == IF version = "2" THEN "stream" ELSE "http_request"
<1>1. conn # Absent /\ req # Absent
  BY DEF Object, Absent
<1>2. /\ FindParam(connection, name) = IF name = "connection" THEN conn ELSE Absent
      /\ FindTyped(connection, name, type) \in {conn, Absent}
      /\ FindTyped(connection, name, type) # Absent => name = "connection"
  BY StoreOfOne DEF ConnectionContext
<1>3. /\ FindParam(request, name) = IF name = reqName THEN req ELSE Absent
      /\ FindTyped(request, name, type) \in {req, Absent}
      /\ FindTyped(request, name, type) # Absent => name = reqName
  BY StoreOfOne DEF RequestContext
<1> HIDE DEF connection, request
<1>4. Resolve(name, type, connection, request) =
        IF name = reqName THEN req ELSE IF name = "connection" THEN conn ELSE Absent
  BY <1>1, <1>2, <1>3 DEF Resolve, Or
<1> QED BY <1>4 DEF Own, connection, request

-----------------------------------------------------------------------------
(* The routes.                                                             *)

EndpointNames == DOMAIN Endpoints \cup {None}

\* Every node of every trie has an endpoint or None.
RoutesType ==
  /\ DOMAIN urlContext = ServerIds
  /\ \A s \in ServerIds, method \in Methods : \A node \in DOMAIN urlContext[s][method] :
       urlContext[s][method][node] \in EndpointNames

LEMMA SearchType ==
  ASSUME RoutesType, NEW s \in ServerIds, NEW method \in Methods, NEW path
  PROVE  Search(urlContext[s][method], path) \in EndpointNames
  BY DEF RoutesType, Search, EndpointNames

LEMMA RoutesInit == Init => RoutesType
  BY DEF Init, RoutesType, ServerIds, NoRoutes, EmptyTrie, EndpointNames

LEMMA RegisterType ==
  ASSUME NEW context, NEW route, route.endpoint \in EndpointNames, NEW method \in Methods,
         \A node \in DOMAIN context[method] : context[method][node] \in EndpointNames
  PROVE  \A node \in DOMAIN Register(context, route)[method] :
           Register(context, route)[method][node] \in EndpointNames
<1>1. Register(context, route)[method] \in {Add(context[method], route.path, route.endpoint),
                                            context[method]}
  BY DEF Register
<1>2. ASSUME NEW node \in DOMAIN Add(context[method], route.path, route.endpoint)
      PROVE  Add(context[method], route.path, route.endpoint)[node] \in EndpointNames
  BY DEF Add, EndpointNames
<1> QED BY <1>1, <1>2

LEMMA RoutesNext == MainInv /\ RoutesType /\ [Next]_vars => RoutesType'
<1> SUFFICES ASSUME MainInv, RoutesType, [Next]_vars PROVE RoutesType'
  OBVIOUS
<1>1. CASE Declare
  <2> DEFINE route == program.routes[at]
  <2>1. /\ program' = program /\ at \in 1..Len(program.routes)
        /\ urlContext' = [urlContext EXCEPT ![route.server] =
                            Register(urlContext[route.server], route)]
    BY <1>1 DEF Declare, MainInv, MainType
  <2>2. route.server \in ServerIds /\ route.endpoint \in EndpointNames
    BY <2>1, ProgramFields DEF MainInv, MainType, EndpointNames
  <2>3. ASSUME NEW s \in ServerIds, NEW method \in Methods,
               NEW node \in DOMAIN urlContext'[s][method]
        PROVE  urlContext'[s][method][node] \in EndpointNames
    <3> HIDE DEF route
    <3>1. CASE s = route.server
      BY <2>1, <2>2, <2>3, <3>1, RegisterType DEF RoutesType
    <3>2. CASE s # route.server
      BY <2>1, <2>3, <3>2 DEF RoutesType
    <3> QED BY <3>1, <3>2
  <2> QED BY <2>1, <2>3 DEF RoutesType, ServerIds
<1>2. CASE ~Declare
  <2>1. UNCHANGED <<program, urlContext>>
    <3>1. CASE \E c \in Conns : Connection(c)
      BY <3>1, ConnectionKeepsProcess DEF mainVars
    <3>2. CASE Main \/ LeaveRun \/ CancelRun \/ ServingTask \/ Finished \/ UNCHANGED vars
      BY <1>2, <3>2 DEF Main, Declared, AddToExecutor, EnterExecutor, ComposeServer,
           ComposePort, LeaveGather, ExitTask, Exit, LeaveRun, CancelRun, ServingTask,
           Listen, FailToListen, EndServing, Finished, vars, mainVars
    <3> QED BY <3>1, <3>2 DEF Next
  <2> QED BY <2>1 DEF RoutesType, ServerIds
<1> QED BY <1>1, <1>2

-----------------------------------------------------------------------------
(* The servers of the ports.                                               *)

\* An entry of port_to_server has the servers of its port below the bound, in
\* their order.
PortComplete(servers, bound, entry) ==
  /\ entry.servers # <<>>
  /\ \A j \in 1..Len(entry.servers) :
       entry.servers[j] < bound /\ servers[entry.servers[j]].port = entry.port
  /\ \A s \in 1..Len(servers) : s < bound /\ servers[s].port = entry.port =>
       \E j \in 1..Len(entry.servers) : entry.servers[j] = s
  /\ \A j, k \in 1..Len(entry.servers) : j < k => entry.servers[j] < entry.servers[k]

\* The servers that add_server has been called with are those below it.
Bound == IF pc = "declare" THEN 1 ELSE IF pc = "add" THEN at ELSE Len(program.servers) + 1

PortsComplete ==
  /\ pc = "declare" => ports = <<>>
  /\ \A i \in 1..Len(ports) : PortComplete(program.servers, Bound, ports[i])
  /\ \A s \in ServerIds : s < Bound => \E i \in 1..Len(ports) : ports[i].port = program.servers[s].port

EntryOf(servers) == [port : Nat, servers : Seq(1..Len(servers))]

\* A server of another port makes no difference to an entry.
LEMMA PortKeeps ==
  ASSUME NEW servers \in Seq(Server), NEW s \in 1..Len(servers), NEW e \in EntryOf(servers),
         PortComplete(servers, s, e), servers[s].port # e.port
  PROVE  PortComplete(servers, s + 1, e)
<1>1. \A j \in 1..Len(e.servers) : e.servers[j] \in 1..Len(servers)
  BY DEF EntryOf
<1>2. \A r \in 1..Len(servers) : r < s + 1 /\ servers[r].port = e.port => r < s
  OBVIOUS
<1>3. \A j \in 1..Len(e.servers) : e.servers[j] < s + 1
  BY <1>1 DEF PortComplete
<1>4. \A r \in 1..Len(servers) : r < s + 1 /\ servers[r].port = e.port =>
        \E j \in 1..Len(e.servers) : e.servers[j] = r
  BY <1>2 DEF PortComplete
<1>5. /\ e.servers # <<>>
      /\ \A j \in 1..Len(e.servers) : servers[e.servers[j]].port = e.port
      /\ \A j, k \in 1..Len(e.servers) : j < k => e.servers[j] < e.servers[k]
  BY DEF PortComplete
<1> QED BY <1>3, <1>4, <1>5, Zenon DEF PortComplete

\* A server of the port goes to the end of its entry.
LEMMA PortAppends ==
  ASSUME NEW servers \in Seq(Server), NEW s \in 1..Len(servers), NEW e \in EntryOf(servers),
         PortComplete(servers, s, e), servers[s].port = e.port
  PROVE  PortComplete(servers, s + 1, [e EXCEPT !.servers = Append(@, s)])
<1> DEFINE new == [e EXCEPT !.servers = Append(@, s)]
           n == Len(e.servers)
<1>1. /\ e.servers \in Seq(1..Len(servers)) /\ n \in Nat
      /\ \A j \in 1..n : e.servers[j] \in 1..Len(servers)
  BY DEF EntryOf
<1>2. /\ new.servers = Append(e.servers, s) /\ new.port = e.port
      /\ Len(new.servers) = n + 1 /\ new.servers[n + 1] = s
      /\ \A j \in 1..n : new.servers[j] = e.servers[j]
  BY <1>1 DEF EntryOf
<1> HIDE DEF new
<1>3. /\ \A j \in 1..n : e.servers[j] < s /\ servers[e.servers[j]].port = e.port
      /\ \A r \in 1..Len(servers) : r < s /\ servers[r].port = e.port =>
           \E j \in 1..n : e.servers[j] = r
      /\ \A j, k \in 1..n : j < k => e.servers[j] < e.servers[k]
  BY DEF PortComplete
<1> HIDE DEF n
<1>4. new.servers # <<>>
  <2>1. Len(<<>>) = 0
    OBVIOUS
  <2>2. Len(new.servers) # 0
    BY <1>1, <1>2
  <2> QED BY <2>1, <2>2
<1>5. \A j \in 1..(n + 1) : new.servers[j] < s + 1 /\ servers[new.servers[j]].port = new.port
  BY <1>1, <1>2, <1>3
<1>6. \A r \in 1..Len(servers) : r < s + 1 /\ servers[r].port = new.port =>
        \E j \in 1..(n + 1) : new.servers[j] = r
  <2> SUFFICES ASSUME NEW r \in 1..Len(servers), r < s + 1, servers[r].port = new.port
               PROVE  \E j \in 1..(n + 1) : new.servers[j] = r
    OBVIOUS
  <2>1. CASE r = s
    BY <1>1, <1>2, <2>1
  <2>2. CASE r < s
    <3>1. PICK j \in 1..n : e.servers[j] = r
      BY <1>2, <1>3, <2>2
    <3> QED BY <1>1, <1>2, <3>1
  <2> QED BY <2>1, <2>2
<1>7. \A j, k \in 1..(n + 1) : j < k => new.servers[j] < new.servers[k]
  BY <1>1, <1>2, <1>3
<1> QED BY <1>2, <1>4, <1>5, <1>6, <1>7 DEF PortComplete, new

\* The first server of a port.
LEMMA PortBegins ==
  ASSUME NEW servers \in Seq(Server), NEW s \in 1..Len(servers),
         \A r \in 1..Len(servers) : r < s => servers[r].port # servers[s].port
  PROVE  PortComplete(servers, s + 1, [port |-> servers[s].port, servers |-> <<s>>])
<1> DEFINE new == [port |-> servers[s].port, servers |-> <<s>>]
<1>1. new.port = servers[s].port /\ new.servers = <<s>> /\ Len(<<s>>) = 1 /\ <<s>>[1] = s
  OBVIOUS
<1> HIDE DEF new
<1>2. \A r \in 1..Len(servers) : r < s + 1 /\ servers[r].port = new.port => r = s
  BY <1>1
<1>3. PortComplete(servers, s + 1, new)
  BY <1>1, <1>2 DEF PortComplete
<1> QED BY <1>3 DEF new

LEMMA PortsInit == Init => PortsComplete
  BY DEF Init, PortsComplete, Bound, ServerIds

LEMMA PortsAdd == MainInv /\ PortsComplete /\ AddToExecutor => PortsComplete'
<1> SUFFICES ASSUME MainInv, PortsComplete, AddToExecutor PROVE PortsComplete'
  OBVIOUS
<1> DEFINE servers == program.servers
           port == servers[at].port
           known == {i \in 1..Len(ports) : ports[i].port = port}
           new == [port |-> port, servers |-> <<at>>]
           grown == [i \in 1..Len(ports) |-> [ports[i] EXCEPT !.servers = Append(@, at)]]
<1>1. /\ pc = "add" /\ pc' = "add" /\ program' = program /\ at' = at + 1
      /\ at \in 1..Len(servers) /\ Bound = at /\ Bound' = at + 1
  BY DEF AddToExecutor, MainInv, MainType, Bound
<1>2. ports \in Seq(EntryOf(servers)) /\ servers \in Seq(Server)
  BY ProgramFields DEF MainInv, MainType, Port, ServerIds, EntryOf
<1>3. ports' = IF known = {} THEN Append(ports, new)
               ELSE [i \in 1..Len(ports) |-> IF i \in known THEN grown[i] ELSE ports[i]]
  BY DEF AddToExecutor
<1>4. ASSUME NEW i \in 1..Len(ports)
      PROVE  /\ i \notin known => PortComplete(servers, at + 1, ports[i])
             /\ i \in known => PortComplete(servers, at + 1, grown[i])
             /\ grown[i].port = ports[i].port
  <2>1. ports[i] \in EntryOf(servers) /\ PortComplete(servers, at, ports[i])
    BY <1>1, <1>2 DEF PortsComplete
  <2>2. grown[i].port = ports[i].port
    BY <2>1 DEF EntryOf
  <2> QED BY <1>1, <1>2, <2>1, <2>2, PortKeeps, PortAppends
<1>5. known = {} => PortComplete(servers, at + 1, new)
  BY <1>1, <1>2, PortBegins DEF PortsComplete, ServerIds
<1>6. known = {} => Len(ports') = Len(ports) + 1 /\ ports'[Len(ports) + 1] = new
                    /\ \A i \in 1..Len(ports) : ports'[i] = ports[i]
  BY <1>2, <1>3
<1>7. known # {} => Len(ports') = Len(ports)
                    /\ \A i \in 1..Len(ports) : ports'[i] = IF i \in known THEN grown[i] ELSE ports[i]
  BY <1>2, <1>3
<1>8. new.port = port
  OBVIOUS
<1>9. Len(ports) \in Nat /\ \A i \in 1..Len(ports) : i \in known <=> ports[i].port = port
  BY <1>2
<1>10. \A s \in ServerIds : s < at => \E i \in 1..Len(ports) : ports[i].port = servers[s].port
  BY <1>1 DEF PortsComplete
<1> HIDE DEF servers, known, new, grown
<1>11. \A i \in 1..Len(ports') : PortComplete(servers, at + 1, ports'[i])
  BY <1>4, <1>5, <1>6, <1>7, <1>9
<1>12. ASSUME NEW s \in ServerIds, s < at + 1
       PROVE  \E i \in 1..Len(ports') : ports'[i].port = servers[s].port
  <2>1. CASE known = {}
    <3>1. CASE s = at
      <4>1. ports'[Len(ports) + 1].port = servers[s].port /\ Len(ports) + 1 \in 1..Len(ports')
        BY <1>6, <1>8, <1>9, <2>1, <3>1
      <4> QED BY <4>1
    <3>2. CASE s < at
      <4>1. PICK i \in 1..Len(ports) : ports[i].port = servers[s].port
        BY <1>10, <3>2
      <4>2. i \in 1..Len(ports') /\ ports'[i] = ports[i]
        BY <1>6, <1>9, <2>1
      <4> QED BY <4>1, <4>2
    <3> QED BY <1>1, <1>12, <3>1, <3>2 DEF ServerIds
  <2>2. CASE known # {}
    <3>1. PICK i \in 1..Len(ports) : ports[i].port = servers[s].port
      <4>1. CASE s = at
        <5>1. PICK i \in known : TRUE
          BY <2>2
        <5>2. i \in 1..Len(ports) /\ ports[i].port = servers[s].port
          BY <4>1, <5>1 DEF known
        <5> QED BY <5>2
      <4>2. CASE s < at
        BY <1>10, <4>2
      <4> QED BY <1>1, <1>12, <4>1, <4>2 DEF ServerIds
    <3> QED BY <1>4, <1>7, <2>2, <3>1
  <2> QED BY <2>1, <2>2
<1> QED BY <1>1, <1>11, <1>12 DEF PortsComplete, ServerIds, servers

LEMMA PortsNext == MainInv /\ PortsComplete /\ [Next]_vars => PortsComplete'
<1> SUFFICES ASSUME MainInv, PortsComplete, [Next]_vars PROVE PortsComplete'
  OBVIOUS
<1>1. CASE AddToExecutor
  BY <1>1, PortsAdd
<1>2. CASE Declared
  <2>1. pc = "declare" /\ pc' = "add" /\ at' = 1 /\ UNCHANGED <<program, ports>>
    BY <1>2 DEF Declared
  <2> QED BY <2>1 DEF PortsComplete, Bound, ServerIds
<1>3. CASE EnterExecutor
  <2>1. pc = "add" /\ pc' = "compose" /\ UNCHANGED <<program, ports>> /\ at > Len(program.servers)
        /\ at \in Nat
    BY <1>3 DEF EnterExecutor, MainInv, MainType
  <2>2. program.servers \in Seq(Server)
    BY ProgramFields DEF MainInv, MainType
  <2>3. /\ \A s \in ServerIds : s < at /\ s < Len(program.servers) + 1
        /\ ServerIds' = ServerIds
        /\ \A i \in 1..Len(ports) : \A j \in 1..Len(ports[i].servers) :
             ports[i].servers[j] \in ServerIds
    <3>1. \A i \in 1..Len(ports) : ports[i] \in Port
      BY DEF MainInv, MainType
    <3>2. \A i \in 1..Len(ports) : ports[i].servers \in Seq(ServerIds)
      BY <3>1 DEF Port
    <3>3. \A s \in ServerIds : s < at /\ s < Len(program.servers) + 1
      BY <2>1, <2>2 DEF ServerIds
    <3> QED BY <2>1, <3>2, <3>3 DEF ServerIds
  <2>4. Bound = at /\ Bound' = Len(program.servers) + 1
    BY <2>1 DEF Bound
  <2>5. ASSUME NEW i \in 1..Len(ports)
        PROVE  PortComplete(program.servers, Len(program.servers) + 1, ports[i])
    <3>1. PortComplete(program.servers, at, ports[i])
      BY <2>4 DEF PortsComplete
    <3> QED BY <2>3, <3>1 DEF PortComplete, ServerIds
  <2> QED BY <2>1, <2>3, <2>4, <2>5 DEF PortsComplete
<1>4. CASE ~AddToExecutor /\ ~Declared /\ ~EnterExecutor
  <2>1. /\ UNCHANGED <<program, ports>> /\ (pc = "declare" <=> pc' = "declare")
        /\ (pc = "add" <=> pc' = "add") /\ (pc = "add" => at' = at)
    <3>1. CASE \E c \in Conns : Connection(c)
      BY <3>1, ConnectionKeepsProcess DEF mainVars
    <3>2. CASE Main \/ LeaveRun \/ CancelRun \/ ServingTask \/ Finished \/ UNCHANGED vars
      BY <1>4, <3>2 DEF Main, Declare, ComposeServer,
           ComposePort, LeaveGather, ExitTask, Exit, LeaveRun, CancelRun, ServingTask,
           Listen, FailToListen, EndServing, Finished, vars, mainVars
    <3> QED BY <3>1, <3>2 DEF Next
  <2> QED BY <2>1 DEF PortsComplete, Bound, ServerIds
<1> QED BY <1>1, <1>2, <1>3, <1>4

-----------------------------------------------------------------------------
(* What an IntegratedServer has when the servers of a set were added to    *)
(* it, in their order.                                                     *)

\* A name has its last server; DEFAULT, as long as no server has that name,
\* the first one.
HostsComposed(servers, S, dict) ==
  /\ DOMAIN dict \subseteq {servers[s].hostname : s \in S} \cup {DEFAULT}
  /\ \A s \in S : servers[s].hostname \in DOMAIN dict /\ DEFAULT \in DOMAIN dict
  /\ \A h \in DOMAIN dict :
       /\ dict[h] \in S
       /\ \A s \in S : servers[s].hostname = h =>
            servers[dict[h]].hostname = h /\ s <= dict[h]
       /\ servers[dict[h]].hostname # h => h = DEFAULT /\ \A s \in S : dict[h] <= s

\* A name has the certificate of the last server that declares one for it.
StoreComposed(servers, S, store) ==
  /\ \A s \in S : OwnNames(servers[s]) \subseteq DOMAIN store
  /\ \A name \in DOMAIN store :
       /\ store[name].server \in S /\ store[name].name = name
       /\ name \in OwnNames(servers[store[name].server])
       /\ \A s \in S : name \in OwnNames(servers[s]) => s <= store[name].server

\* The default is the first certificate of the first server that has one.
DefaultComposed(servers, S, default) ==
  /\ default = NoCert => \A s \in S : OwnNames(servers[s]) = {}
  /\ default # NoCert =>
       /\ default.server \in S /\ OwnNames(servers[default.server]) # {}
       /\ default.name = Head(servers[default.server].certs)
       /\ \A s \in S : OwnNames(servers[s]) # {} => default.server <= s

SecureComposed(servers, S, secure) ==
  secure <=> \E s \in S : servers[s].certs # Plaintext

Composed(servers, S, r) ==
  /\ HostsComposed(servers, S, r.servers) /\ StoreComposed(servers, S, r.store)
  /\ DefaultComposed(servers, S, r.default) /\ SecureComposed(servers, S, r.secure)

LEMMA NothingComposed ==
  ASSUME NEW servers, NEW port
  PROVE  Composed(servers, {}, NewIntegratedServer(port))
<1>1. DOMAIN <<>> = {}
  OBVIOUS
<1> QED BY <1>1 DEF Composed, HostsComposed, StoreComposed, DefaultComposed,
                    SecureComposed, NewIntegratedServer

LEMMA HostsGrow ==
  ASSUME NEW servers, NEW S \in SUBSET Nat, NEW s \in Nat, \A x \in S : x < s,
         NEW dict, HostsComposed(servers, S, dict)
  PROVE  HostsComposed(servers, S \cup {s}, AddServer(dict, servers[s].hostname, s))
<1> DEFINE name == servers[s].hostname
           new == AddServer(dict, name, s)
<1>1. /\ DOMAIN new = DOMAIN dict \cup {DEFAULT, name}
      /\ \A h \in DOMAIN dict \cup {DEFAULT, name} :
           new[h] = IF h = name \/ h \notin DOMAIN dict THEN s ELSE dict[h]
  BY DEF AddServer, With
<1> HIDE DEF new
<1>2. /\ DOMAIN dict \subseteq {servers[x].hostname : x \in S} \cup {DEFAULT}
      /\ \A x \in S : servers[x].hostname \in DOMAIN dict /\ DEFAULT \in DOMAIN dict
      /\ \A h \in DOMAIN dict :
           /\ dict[h] \in S
           /\ \A x \in S : servers[x].hostname = h =>
                servers[dict[h]].hostname = h /\ x <= dict[h]
           /\ servers[dict[h]].hostname # h => h = DEFAULT /\ \A x \in S : dict[h] <= x
  BY DEF HostsComposed
<1>3. /\ \A x \in S \cup {s} : x \in Nat /\ x <= s
      /\ \A x \in S : x # s
  OBVIOUS
<1>4. ASSUME NEW h \in DOMAIN new
      PROVE  /\ new[h] \in S \cup {s}
             /\ \A x \in S \cup {s} : servers[x].hostname = h =>
                  servers[new[h]].hostname = h /\ x <= new[h]
             /\ servers[new[h]].hostname # h =>
                  h = DEFAULT /\ \A x \in S \cup {s} : new[h] <= x
  <2>1. CASE h = name
    BY <1>1, <1>3, <2>1
  <2>2. CASE h # name /\ h \notin DOMAIN dict
    <3>1. h = DEFAULT /\ new[h] = s /\ S = {}
      BY <1>1, <1>2, <2>2
    <3> QED BY <2>2, <3>1
  <2>3. CASE h # name /\ h \in DOMAIN dict
    <3>1. new[h] = dict[h] /\ dict[h] \in S
      BY <1>1, <1>2, <2>3
    <3>2. ASSUME NEW x \in S \cup {s}, servers[x].hostname = h
          PROVE  servers[new[h]].hostname = h /\ x <= new[h]
      BY <1>2, <2>3, <3>1, <3>2
    <3>3. ASSUME servers[new[h]].hostname # h
          PROVE  h = DEFAULT /\ \A x \in S \cup {s} : new[h] <= x
      <4>1. new[h] <= s
        BY <1>3, <3>1
      <4>2. h = DEFAULT /\ \A x \in S : new[h] <= x
        BY <1>2, <2>3, <3>1, <3>3
      <4> QED BY <4>1, <4>2
    <3> QED BY <3>1, <3>2, <3>3
  <2> QED BY <2>1, <2>2, <2>3
<1>5. DOMAIN new \subseteq {servers[x].hostname : x \in S \cup {s}} \cup {DEFAULT}
  BY <1>1, <1>2
<1>6. \A x \in S \cup {s} : servers[x].hostname \in DOMAIN new /\ DEFAULT \in DOMAIN new
  BY <1>1, <1>2
<1> QED BY <1>4, <1>5, <1>6 DEF HostsComposed, new

LEMMA StoreGrows ==
  ASSUME NEW servers, NEW S \in SUBSET Nat, NEW s \in Nat, \A x \in S : x < s,
         NEW store, StoreComposed(servers, S, store)
  PROVE  LET own == OwnNames(servers[s])
         IN StoreComposed(servers, S \cup {s},
              [name \in DOMAIN store \cup own |->
                 IF name \in own THEN [server |-> s, name |-> name] ELSE store[name]])
<1> DEFINE own == OwnNames(servers[s])
           new == [name \in DOMAIN store \cup own |->
                     IF name \in own THEN [server |-> s, name |-> name] ELSE store[name]]
<1>1. /\ DOMAIN new = DOMAIN store \cup own
      /\ \A name \in own : new[name].server = s /\ new[name].name = name
      /\ \A name \in DOMAIN store \ own : new[name] = store[name]
  OBVIOUS
<1> HIDE DEF new
<1>2. /\ \A x \in S : OwnNames(servers[x]) \subseteq DOMAIN store
      /\ \A name \in DOMAIN store :
           /\ store[name].server \in S /\ store[name].name = name
           /\ name \in OwnNames(servers[store[name].server])
           /\ \A x \in S : name \in OwnNames(servers[x]) => x <= store[name].server
  BY DEF StoreComposed
<1>3. \A x \in S \cup {s} : x \in Nat /\ x <= s
  OBVIOUS
<1>4. ASSUME NEW name \in DOMAIN new
      PROVE  /\ new[name].server \in S \cup {s} /\ new[name].name = name
             /\ name \in OwnNames(servers[new[name].server])
             /\ \A x \in S \cup {s} : name \in OwnNames(servers[x]) => x <= new[name].server
  <2>1. CASE name \in own
    <3>1. new[name].server = s /\ new[name].name = name
      BY <1>1, <2>1
    <3> QED BY <1>3, <2>1, <3>1
  <2>2. CASE name \notin own
    BY <1>1, <1>2, <2>2
  <2> QED BY <2>1, <2>2
<1>5. \A x \in S \cup {s} : OwnNames(servers[x]) \subseteq DOMAIN new
  BY <1>1, <1>2
<1> QED BY <1>4, <1>5 DEF StoreComposed, new

LEMMA ComposeStep ==
  ASSUME NEW servers, NEW S \in SUBSET Nat, NEW s \in Nat, s # 0, \A x \in S : x < s,
         NEW r \in Integrated, Composed(servers, S, r)
  PROVE  Composed(servers, S \cup {s}, Composite(r, s, servers[s]))
<1> DEFINE server == servers[s]
           own == OwnNames(server)
           store == [name \in DOMAIN r.store \cup own |->
                       IF name \in own THEN [server |-> s, name |-> name] ELSE r.store[name]]
           default == IF r.default = NoCert /\ own # {}
                      THEN [server |-> s, name |-> Head(server.certs)] ELSE r.default
           hosts == AddServer(r.servers, server.hostname, s)
           new == Composite(r, s, server)
<1>1. new = [r EXCEPT !.servers = hosts, !.secure = Secures(r, server), !.store = store,
                      !.default = default]
  BY DEF Composite
<1> HIDE DEF hosts, store, default, new
<1>2. /\ new.servers = hosts /\ new.secure = Secures(r, server) /\ new.store = store
      /\ new.default = default
  BY <1>1 DEF Integrated
<1>3. HostsComposed(servers, S \cup {s}, hosts)
  BY HostsGrow DEF Composed, hosts
<1>4. StoreComposed(servers, S \cup {s}, store)
  BY StoreGrows DEF Composed, store
<1>5. DefaultComposed(servers, S \cup {s}, default)
  <2>1. DefaultComposed(servers, S, r.default)
    BY DEF Composed
  <2>2. CASE r.default = NoCert /\ own # {}
    <3>1. default = [server |-> s, name |-> Head(server.certs)]
      BY <2>2 DEF default
    <3>2. default # NoCert /\ default.server = s /\ default.name = Head(server.certs)
      BY <3>1 DEF NoCert
    <3>3. \A x \in S : OwnNames(servers[x]) = {}
      BY <2>1, <2>2 DEF DefaultComposed
    <3>4. \A x \in S \cup {s} : OwnNames(servers[x]) # {} => s <= x
      BY <3>3
    <3> QED BY <2>2, <3>2, <3>4 DEF DefaultComposed
  <2>3. CASE ~(r.default = NoCert /\ own # {})
    <3>1. default = r.default
      BY <2>3 DEF default
    <3>2. CASE r.default = NoCert
      BY <2>1, <2>3, <3>1, <3>2 DEF DefaultComposed
    <3>3. CASE r.default # NoCert
      <4>1. r.default.server \in S
        BY <2>1, <3>3 DEF DefaultComposed
      <4>2. r.default.server <= s
        BY <4>1
      <4> QED BY <2>1, <3>1, <3>3, <4>1, <4>2 DEF DefaultComposed
    <3> QED BY <3>2, <3>3
  <2> QED BY <2>2, <2>3
<1>6. SecureComposed(servers, S \cup {s}, Secures(r, server))
  BY DEF Composed, SecureComposed, Secures
<1> QED BY <1>2, <1>3, <1>4, <1>5, <1>6 DEF Composed, new

-----------------------------------------------------------------------------
(* The composition of the servers of every port.                           *)

\* The servers of port i that its IntegratedServer has by now.
Added(i) ==
  LET n == IF pc = "compose" /\ i = Len(integrated) THEN at - 1 ELSE Len(ports[i].servers)
  IN {ports[i].servers[j] : j \in 1..n}

PortsComposed ==
  /\ pc = "compose" /\ integrated # <<>> => at <= Len(ports[Len(integrated)].servers) + 1
  /\ pc \notin SetUp => Len(integrated) = Len(ports)
  /\ \A i \in 1..Len(integrated) :
       /\ integrated[i].port = ports[i].port
       /\ Composed(program.servers, Added(i), integrated[i])

LEMMA PortElements ==
  ASSUME MainInv, NEW i \in 1..Len(ports)
  PROVE  /\ ports[i].servers \in Seq(ServerIds)
         /\ Len(ports[i].servers) \in Nat
         /\ \A j \in 1..Len(ports[i].servers) : ports[i].servers[j] \in ServerIds
<1>1. ports[i] \in Port
  BY DEF MainInv, MainType
<1>2. ports[i].servers \in Seq(ServerIds)
  BY <1>1 DEF Port
<1> QED BY <1>2

LEMMA ComposedServer == MainInv /\ PortsComplete /\ PortsComposed /\ ComposeServer => PortsComposed'
<1> SUFFICES ASSUME MainInv, PortsComplete, PortsComposed, ComposeServer PROVE PortsComposed'
  OBVIOUS
<1> DEFINE n == Len(integrated)
           list == ports[n].servers
           s == list[at]
           S == {list[j] : j \in 1..(at - 1)}
<1>1. /\ pc = "compose" /\ UNCHANGED <<pc, program, ports>> /\ at' = at + 1
      /\ integrated \in Seq(Integrated) /\ n \in 1..Len(ports) /\ n \in 1..Len(integrated)
      /\ at \in 1..Len(list)
      /\ integrated' = [integrated EXCEPT ![n] =
                          Composite(integrated[n], s, program.servers[s])]
  BY DEF ComposeServer, MainInv, MainType
<1>2. /\ list \in Seq(ServerIds) /\ Len(list) \in Nat
      /\ \A j \in 1..Len(list) : list[j] \in ServerIds
  BY <1>1, PortElements
<1>3. /\ Len(integrated') = n /\ n \in Nat
      /\ integrated'[n] = Composite(integrated[n], s, program.servers[s])
      /\ \A i \in 1..n : i # n => integrated'[i] = integrated[i]
  BY <1>1
<1>4. S \in SUBSET Nat /\ s \in Nat /\ s # 0 /\ \A x \in S : x < s
  <2>1. PortComplete(program.servers, Bound, ports[n])
    BY <1>1 DEF PortsComplete
  <2>2. \A j \in 1..(at - 1) : list[j] < s
    BY <1>1, <2>1 DEF PortComplete
  <2>3. ASSUME NEW j \in 1..at PROVE list[j] \in Nat \ {0}
    <3>1. j \in 1..Len(list)
      BY <1>1, <1>2
    <3>2. list[j] \in ServerIds
      BY <1>2, <3>1
    <3> HIDE DEF list
    <3> QED BY <3>2 DEF ServerIds
  <2> QED BY <1>1, <2>2, <2>3
<1>5. S \cup {s} = {list[j] : j \in 1..at}
  BY <1>1
<1>6. Composed(program.servers, S, integrated[n])
  BY <1>1 DEF PortsComposed, Added
<1>7. Composed(program.servers, S \cup {s}, integrated'[n])
  <2>1. integrated[n] \in Integrated
    BY <1>1
  <2> HIDE DEF S, s
  <2> QED BY <1>3, <1>4, <1>6, <2>1, ComposeStep
<1>8. integrated'[n].port = integrated[n].port
  <2>1. integrated[n] \in Integrated
    BY <1>1
  <2> QED BY <1>3, <2>1 DEF Composite, Integrated
<1> HIDE DEF n, list, s, S
<1>9. ASSUME NEW i \in 1..Len(integrated')
      PROVE  /\ integrated'[i].port = ports'[i].port
             /\ Composed(program'.servers, Added(i)', integrated'[i])
  <2>1. CASE i = n
    <3>1. Added(i)' = S \cup {s}
      BY <1>1, <1>2, <1>3, <1>5, <2>1 DEF Added, list
    <3> QED BY <1>1, <1>3, <1>7, <1>8, <2>1, <3>1 DEF PortsComposed, n
  <2>2. CASE i # n
    <3>1. Added(i)' = Added(i) /\ i \in 1..n /\ integrated'[i] = integrated[i]
      BY <1>1, <1>3, <2>2 DEF Added, n
    <3> QED BY <1>1, <3>1 DEF PortsComposed, n
  <2> QED BY <2>1, <2>2
<1>10. pc' = "compose" /\ at' <= Len(ports'[Len(integrated')].servers) + 1
  BY <1>1, <1>2, <1>3 DEF list
<1> QED BY <1>9, <1>10 DEF PortsComposed, SetUp

LEMMA ComposedPort == MainInv /\ PortsComposed /\ ComposePort => PortsComposed'
<1> SUFFICES ASSUME MainInv, PortsComposed, ComposePort PROVE PortsComposed'
  OBVIOUS
<1> DEFINE n == Len(integrated)
<1>1. /\ pc = "compose" /\ UNCHANGED <<program, ports>> /\ at' = 1 /\ at \in Nat
      /\ integrated \in Seq(Integrated) /\ n \in Nat /\ n <= Len(ports)
      /\ integrated # <<>> => at > Len(ports[n].servers)
  BY DEF ComposePort, MainInv, MainType
<1>2. Len(ports) \in Nat
  BY DEF MainInv, MainType
<1>3. ASSUME NEW i \in 1..n
      PROVE  Added(i) = {ports[i].servers[j] : j \in 1..Len(ports[i].servers)}
  <2>1. CASE i = n
    <3>1. integrated # <<>>
      BY <1>1, <2>1
    <3>2. at - 1 = Len(ports[n].servers)
      <4>1. Len(ports[n].servers) \in Nat
        BY <1>1, <1>2, <2>1, PortElements
      <4> QED BY <1>1, <3>1, <4>1 DEF PortsComposed
    <3> QED BY <1>1, <2>1, <3>2 DEF Added
  <2>2. CASE i # n
    BY <2>2 DEF Added
  <2> QED BY <2>1, <2>2
<1>4. CASE n < Len(ports)
  <2>1. /\ pc' = "compose" /\ integrated' = Append(integrated, NewIntegratedServer(ports[n + 1].port))
    BY <1>1, <1>4 DEF ComposePort
  <2>2. /\ Len(integrated') = n + 1 /\ integrated'[n + 1] = NewIntegratedServer(ports[n + 1].port)
        /\ \A i \in 1..n : integrated'[i] = integrated[i]
    BY <1>1, <2>1
  <2>3. ASSUME NEW i \in Nat, i = n + 1
        PROVE  Added(i)' = {}
    <3>1. Len(integrated)' = i /\ at' - 1 = 0
      BY <1>1, <2>2, <2>3
    <3>2. Added(i)' = {ports[i].servers[j] : j \in 1..0}
      BY <1>1, <2>1, <3>1 DEF Added
    <3> QED BY <3>2
  <2>4. Composed(program.servers, {}, integrated'[n + 1])
    BY <2>2, NothingComposed
  <2>5. integrated'[n + 1].port = ports[n + 1].port
    BY <2>2 DEF NewIntegratedServer
  <2>6. ASSUME NEW i \in 1..n
        PROVE  Added(i)' = Added(i)
    <3>1. i # Len(integrated)'
      BY <1>1, <2>2
    <3>2. Added(i)' = {ports[i].servers[j] : j \in 1..Len(ports[i].servers)}
      BY <1>1, <3>1 DEF Added
    <3> QED BY <1>3, <3>2
  <2>7. Len(ports[n + 1].servers) \in Nat
    BY <1>1, <1>2, <1>4, PortElements
  <2> HIDE DEF n
  <2>8. ASSUME NEW i \in 1..Len(integrated')
        PROVE  /\ integrated'[i].port = ports'[i].port
               /\ Composed(program'.servers, Added(i)', integrated'[i])
    <3>1. CASE i = n + 1
      <4>1. Added(i)' = {}
        BY <1>1, <2>3, <3>1 DEF n
      <4>2. integrated'[i] = integrated'[n + 1] /\ ports'[i] = ports[n + 1]
        BY <1>1, <3>1
      <4> QED BY <1>1, <2>4, <2>5, <4>1, <4>2
    <3>2. CASE i # n + 1
      <4>1. i \in 1..n
        BY <1>1, <2>2, <3>2
      <4> QED BY <1>1, <2>2, <2>6, <4>1 DEF PortsComposed, n
    <3> QED BY <3>1, <3>2
  <2> QED BY <1>1, <2>1, <2>2, <2>7, <2>8 DEF PortsComposed, SetUp
<1>5. CASE ~(n < Len(ports))
  <2>1. pc' = "run" /\ integrated' = integrated /\ n = Len(ports)
    BY <1>1, <1>2, <1>5 DEF ComposePort
  <2>2. \A i \in 1..n : Added(i)' = Added(i)
    BY <1>1, <1>3, <2>1 DEF Added
  <2> QED BY <1>1, <2>1, <2>2 DEF PortsComposed, SetUp
<1> QED BY <1>4, <1>5

LEMMA ComposedInit == Init => PortsComposed
  BY DEF Init, PortsComposed, SetUp

LEMMA ComposedNext == MainInv /\ PortsComplete /\ PortsComposed /\ [Next]_vars => PortsComposed'
<1> SUFFICES ASSUME MainInv, PortsComplete, PortsComposed, [Next]_vars PROVE PortsComposed'
  OBVIOUS
<1>1. CASE ComposeServer \/ ComposePort
  BY <1>1, ComposedServer, ComposedPort
<1>2. CASE Declare \/ Declared \/ AddToExecutor \/ EnterExecutor
  <2>1. integrated = <<>> /\ integrated' = <<>> /\ pc' \in SetUp
    BY <1>2 DEF Declare, Declared, AddToExecutor, EnterExecutor, MainInv, TasksCreated, SetUp
  <2> QED BY <2>1 DEF PortsComposed
<1>3. CASE /\ ~ComposeServer /\ ~ComposePort /\ ~Declare /\ ~Declared /\ ~AddToExecutor
           /\ ~EnterExecutor
  <2>1. /\ UNCHANGED <<program, ports, integrated>> /\ (pc = "compose" <=> pc' = "compose")
        /\ (pc = "compose" => at' = at) /\ (pc \in SetUp <=> pc' \in SetUp)
    <3>1. CASE \E c \in Conns : Connection(c)
      BY <3>1, ConnectionKeepsProcess DEF mainVars
    <3>2. CASE Main \/ LeaveRun \/ CancelRun \/ ServingTask \/ Finished \/ UNCHANGED vars
      BY <1>3, <3>2 DEF Main, LeaveGather, ExitTask, Exit, LeaveRun, CancelRun, ServingTask,
           Listen, FailToListen, EndServing, Finished, vars, mainVars, SetUp
    <3> QED BY <3>1, <3>2 DEF Next
  <2> QED BY <2>1 DEF PortsComposed, Added
<1> QED BY <1>1, <1>2, <1>3

HostInv == MainInv /\ RoutesType /\ PortsComplete /\ PortsComposed

LEMMA HostInit == Init => HostInv
  BY MainInit, RoutesInit, PortsInit, ComposedInit DEF HostInv

LEMMA HostNext == HostInv /\ [Next]_vars => HostInv'
  BY MainNext, RoutesNext, PortsNext, ComposedNext DEF HostInv

\* When the tasks are there every port is composed of all of its servers.
LEMMA FullyComposed ==
  ASSUME HostInv, pc \notin SetUp, NEW i \in 1..Len(integrated)
  PROVE  LET S == {s \in ServerIds : program.servers[s].port = integrated[i].port}
         IN /\ S # {}
            /\ Composed(program.servers, S, integrated[i])
            /\ integrated[i] \in Integrated
<1> DEFINE list == ports[i].servers
           S == {s \in ServerIds : program.servers[s].port = integrated[i].port}
<1>1. i \in 1..Len(ports) /\ integrated[i] \in Integrated
  BY DEF HostInv, MainInv, MainType
<1>2. PortComplete(program.servers, Len(program.servers) + 1, ports[i])
  BY <1>1 DEF HostInv, PortsComplete, Bound, SetUp
<1>3. /\ integrated[i].port = ports[i].port
      /\ Composed(program.servers, {list[j] : j \in 1..Len(list)}, integrated[i])
  BY DEF HostInv, PortsComposed, Added, SetUp
<1>4. list \in Seq(ServerIds) /\ Len(list) \in Nat /\ \A j \in 1..Len(list) : list[j] \in ServerIds
  BY <1>1, PortElements DEF HostInv
<1>5. Len(program.servers) \in Nat
  <2>1. program.servers \in Seq(Server)
    BY ProgramFields DEF HostInv, MainInv, MainType
  <2> QED BY <2>1
<1> HIDE DEF list
<1>6. /\ list # <<>> /\ \A j \in 1..Len(list) : program.servers[list[j]].port = ports[i].port
      /\ \A s \in ServerIds : program.servers[s].port = ports[i].port =>
           \E j \in 1..Len(list) : list[j] = s
  <2>1. \A s \in ServerIds : s < Len(program.servers) + 1
    BY <1>5 DEF ServerIds
  <2>2. /\ list # <<>> /\ \A j \in 1..Len(list) : program.servers[list[j]].port = ports[i].port
        /\ \A s \in ServerIds :
             s < Len(program.servers) + 1 /\ program.servers[s].port = ports[i].port =>
               \E j \in 1..Len(list) : list[j] = s
    BY <1>2, Zenon DEF PortComplete, ServerIds, list
  <2> QED BY <2>1, <2>2, Zenon
<1>7. {list[j] : j \in 1..Len(list)} = S
  BY <1>3, <1>4, <1>6
<1>8. 1 \in 1..Len(list)
  BY <1>4, <1>6
<1> QED BY <1>1, <1>3, <1>7, <1>8

-----------------------------------------------------------------------------
(* The connections.                                                        *)

SeenRequest == [method : Methods \cup {"PATCH"}, path : Path,
                protocol : {"1", "1.1", "2", "other"}]
ArgumentDict == [DOMAIN Params -> [type : ObjectType, conn : {0} \cup Conns, number : Nat]]
SentMessage == [version : {"1", "1.1", "2"}, method : Methods, endpoint : Endpoint,
                dict : Dict, bytes : Nat]
ConnState == {"new", "accepted", "idle", "endpoint", "status", "mute", "closed"}

\* ConnType with names for its parts.
ConnRecord ==
  [pc : ConnState, task : 0..Len(tasks), version : {"1", "1.1", "2"}, tls : BOOLEAN,
   sni : Hostnames, cert : [server : 0..Len(program.servers), name : Names \cup {NoName}],
   server : 0..Len(program.servers), number : Nat, request : {<<>>} \cup SeenRequest,
   endpoint : EndpointNames, args : {<<>>} \cup ArgumentDict, dict : Dict,
   out : Seq(SentMessage)]

LEMMA ConnRecordType == ConnRecord = ConnType
  BY DEF ConnRecord, ConnType, SeenRequest, ArgumentDict, SentMessage, ConnState,
         EndpointNames, Hostnames

\* The port, the certificate and the server a connection has got.
Placed(conn) ==
  /\ conn.pc = "new" => conn.server = NoServer
  /\ conn.pc # "new" =>
       /\ conn.task \in 1..Len(integrated) /\ CanListen(integrated[conn.task])
       /\ conn.tls = integrated[conn.task].secure
       /\ conn.tls => conn.cert = Certificate(integrated[conn.task], conn.sni)
       /\ ~conn.tls => conn.sni = NoName
  /\ conn.server # NoServer => conn.server = FindServer(integrated[conn.task], conn.sni)
  /\ conn.pc \in {"idle", "endpoint", "status", "mute"} => conn.server # NoServer

\* The request that is being answered, and its arguments.
Called(c, conn) ==
  /\ conn.pc \in {"endpoint", "status"} =>
       conn.request \in SeenRequest /\ conn.request.method \in Methods
  /\ conn.pc = "endpoint" =>
       /\ conn.endpoint \in DOMAIN Endpoints
       /\ conn.args = [name \in DOMAIN Params |-> Own(c, conn.version, conn.number, name)]
  /\ conn.pc = "status" => conn.version # "2"

\* No dict that says chunked is left without its content type, or sent by HTTP/2.
Unchunked(conn) ==
  /\ conn.dict \in SafeDict
  /\ \A i \in 1..Len(conn.out) : conn.out[i].version = "2" => conn.out[i].dict.chunked = FALSE

ConnOK(c, conn) == conn \in ConnRecord /\ Placed(conn) /\ Called(c, conn) /\ Unchunked(conn)

ConnInv ==
  /\ conns \in [Conns -> ConnRecord]
  /\ \A c \in Conns : ConnOK(c, conns[c])
  /\ shared \in SafeDict
  /\ pc \in SetUp => \A c \in Conns : conns[c] = NewConn

LEMMA NewConnOK == HostInv => \A c \in Conns : ConnOK(c, NewConn)
<1> SUFFICES ASSUME HostInv, NEW c \in Conns PROVE ConnOK(c, NewConn)
  OBVIOUS
<1>1. NewConn \in ConnRecord
  <2>1. Len(tasks) \in Nat /\ Len(program.servers) \in Nat
    <3>1. program.servers \in Seq(Server) /\ tasks \in Seq(Status)
      BY ProgramFields DEF HostInv, MainInv, MainType
    <3> QED BY <3>1
  <2>2. NoDict \in Dict
    BY DEF NoDict, Dict, NoLength
  <2>3. NoCert \in [server : 0..Len(program.servers), name : Names \cup {NoName}]
    BY <2>1 DEF NoCert
  <2> QED BY <2>1, <2>2, <2>3
          DEF NewConn, ConnRecord, ConnState, NoServer, Hostnames, EndpointNames
<1>2. Placed(NewConn) /\ Called(c, NewConn)
  BY DEF Placed, Called, NewConn
<1>3. Unchunked(NewConn)
  BY DEF Unchunked, NewConn, NoDict, SafeDict, Dict, NoLength
<1> QED BY <1>1, <1>2, <1>3 DEF ConnOK

LEMMA ConnInit == Init => ConnInv
<1> SUFFICES ASSUME Init PROVE ConnInv
  OBVIOUS
<1>1. \A c \in Conns : ConnOK(c, NewConn)
  BY HostInit, NewConnOK
<1>2. conns = [c \in Conns |-> NewConn] /\ shared = NoDict
  BY DEF Init
<1>3. NoDict \in SafeDict
  BY DEF NoDict, SafeDict, Dict, NoLength
<1> QED BY <1>1, <1>2, <1>3 DEF ConnInv, ConnOK

\* One connection goes on.
LEMMA ConnUpdate ==
  ASSUME ConnInv, NEW c \in Conns, NEW conn, Update(c, conn), ConnOK(c, conn),
         shared' \in SafeDict, pc \notin SetUp
  PROVE  ConnInv'
<1>1. /\ UNCHANGED <<program, pc, integrated, tasks>>
      /\ conns' = [conns EXCEPT ![c] = conn]
  BY DEF Update, mainVars
<1>2. ConnRecord' = ConnRecord
  BY <1>1 DEF ConnRecord
<1>3. ASSUME NEW d \in Conns PROVE ConnOK(d, conns[d])'
  <2>1. ConnOK(d, conns'[d])
    BY <1>1 DEF ConnInv
  <2> QED BY <1>1, <1>2, <2>1 DEF ConnOK, Placed, Called, Unchunked
<1>4. conns' \in [Conns -> ConnRecord]
  BY <1>1 DEF ConnInv, ConnOK
<1> QED BY <1>1, <1>2, <1>3, <1>4 DEF ConnInv

\* The rest of the process goes on.
LEMMA ConnKept ==
  ASSUME HostInv, ConnInv, UNCHANGED <<program, conns, shared>>,
         \/ pc \in SetUp
         \/ pc' \notin SetUp /\ UNCHANGED integrated /\ Len(tasks') = Len(tasks)
  PROVE  HostInv' => ConnInv'
<1> SUFFICES ASSUME HostInv' PROVE ConnInv'
  OBVIOUS
<1>1. CASE pc \in SetUp
  <2>1. \A c \in Conns : conns[c] = NewConn
    BY <1>1 DEF ConnInv
  <2>2. (\A c \in Conns : ConnOK(c, NewConn))'
    BY NewConnOK, PTL
  <2> QED BY <2>1, <2>2 DEF ConnInv, ConnOK
<1>2. CASE pc' \notin SetUp /\ UNCHANGED integrated /\ Len(tasks') = Len(tasks)
  <2>1. ConnRecord' = ConnRecord
    BY <1>2 DEF ConnRecord
  <2> QED BY <1>2, <2>1 DEF ConnInv, ConnOK, Placed, Called, Unchunked
<1> QED BY <1>1, <1>2

\* The lookups behind the handshake have a result.
LEMMA Lookups ==
  ASSUME HostInv, pc \notin SetUp, NEW i \in 1..Len(integrated), NEW sni \in Hostnames
  PROVE  /\ FindServer(integrated[i], sni) \in ServerIds \cup {NoServer}
         /\ Certificate(integrated[i], sni) \in Certificates \cup {NoCert}
<1> DEFINE S == {s \in ServerIds : program.servers[s].port = integrated[i].port}
<1>1. S # {} /\ Composed(program.servers, S, integrated[i]) /\ integrated[i] \in Integrated
  BY FullyComposed
<1> HIDE DEF S
<1>2. DEFAULT \in DOMAIN integrated[i].servers
  BY <1>1 DEF Composed, HostsComposed
<1>3. /\ \A h \in DOMAIN integrated[i].servers : integrated[i].servers[h] \in ServerIds
      /\ \A h \in DOMAIN integrated[i].store : integrated[i].store[h] \in Certificates
      /\ integrated[i].default \in Certificates \cup {NoCert}
  BY <1>1 DEF Integrated, DictOver
<1> QED BY <1>2, <1>3 DEF FindServer, Certificate

LEMMA ConnAccept ==
  ASSUME HostInv, ConnInv, NEW c \in Conns, NEW t \in 1..Len(tasks),
         NEW client \in program.clients[c], Accept(c, t, client)
  PROVE  ConnInv'
<1> DEFINE sni == IF client.tls THEN client.sni ELSE NoName
           cert == IF client.tls THEN Certificate(integrated[t], client.sni) ELSE NoCert
           next == [NewConn EXCEPT !.pc = "accepted", !.task = t, !.version = client.version,
                      !.tls = client.tls, !.sni = sni, !.cert = cert]
<1>1. /\ Update(c, next) /\ shared' = shared /\ tasks[t] = "listening"
      /\ client.tls = integrated[t].secure
  BY DEF Accept
<1>2. /\ tasks # <<>> /\ Len(tasks) \in Nat /\ Len(tasks) = Len(integrated)
      /\ Len(program.servers) \in Nat
  <2>1. tasks \in Seq(Status) /\ program.servers \in Seq(Server)
    BY ProgramFields DEF HostInv, MainInv, MainType
  <2> QED BY <2>1 DEF HostInv, MainInv, TasksCreated
<1>3. pc \notin SetUp /\ t \in 1..Len(integrated) /\ CanListen(integrated[t])
  BY <1>1, <1>2, TasksBehindSetUp DEF HostInv, MainInv, ListeningCan
<1>4. client \in Client
  BY ProgramFields DEF HostInv, MainInv, MainType
<1>5. client.tls \in BOOLEAN /\ client.version \in {"1", "1.1", "2"} /\ client.sni \in Hostnames
  BY <1>4 DEF Client, Hostnames
<1>6. /\ next.pc = "accepted" /\ next.task = t /\ next.tls = client.tls
      /\ next.sni = sni /\ next.cert = cert /\ next.server = NoServer /\ next.dict = NoDict /\ next.out = <<>>
  BY DEF NewConn
<1>7. cert \in [server : 0..Len(program.servers), name : Names \cup {NoName}]
  <2>1. cert \in Certificates \cup {NoCert}
    BY <1>3, <1>5, Lookups
  <2> QED BY <1>2, <2>1 DEF Certificates, ServerIds, NoCert
<1>8. next \in ConnRecord
  <2>1. NewConn \in ConnRecord
    BY NewConnOK DEF ConnOK
  <2>2. sni \in Hostnames
    BY <1>5 DEF Hostnames
  <2> HIDE DEF sni, cert
  <2>3. t \in 0..Len(tasks)
    BY <1>2
  <2> QED BY <1>5, <1>7, <2>1, <2>2, <2>3 DEF ConnRecord, ConnState
<1> HIDE DEF next
<1>9. Placed(next)
  BY <1>1, <1>3, <1>6 DEF Placed
<1>10. Called(c, next)
  BY <1>6 DEF Called
<1>11. Unchunked(next)
  BY <1>6 DEF Unchunked, NoDict, SafeDict, Dict, NoLength
<1>12. ConnOK(c, next)
  BY <1>8, <1>9, <1>10, <1>11 DEF ConnOK
<1> QED BY <1>1, <1>3, <1>12, ConnUpdate DEF ConnInv

LEMMA ConnBehindSetUp ==
  ASSUME HostInv, ConnInv, NEW c \in Conns, conns[c].pc # "new"
  PROVE  pc \notin SetUp /\ conns[c].task \in 1..Len(integrated)
  BY DEF ConnInv, ConnOK, Placed, NewConn

LEMMA ConnHandle ==
  ASSUME HostInv, ConnInv, NEW c \in Conns, HandleRequest(c)
  PROVE  ConnInv'
<1> DEFINE conn == conns[c]
           s == FindServer(integrated[conn.task], conn.sni)
           next == [conn EXCEPT !.server = s, !.pc = IF s = NoServer THEN "closed" ELSE "idle"]
<1>1. /\ conn.pc = "accepted" /\ Update(c, next) /\ shared' = shared
  BY DEF HandleRequest
<1>2. conn \in ConnRecord /\ Placed(conn) /\ Called(c, conn) /\ Unchunked(conn)
  BY DEF ConnInv, ConnOK
<1>3. pc \notin SetUp /\ conn.task \in 1..Len(integrated)
  BY <1>1, ConnBehindSetUp
<1>4. s \in ServerIds \cup {NoServer}
  <2>1. conn.sni \in Hostnames
    BY <1>2 DEF ConnRecord
  <2> QED BY <1>3, <2>1, Lookups
<1>5. s \in 0..Len(program.servers)
  <2>1. program.servers \in Seq(Server)
    BY ProgramFields DEF HostInv, MainInv, MainType
  <2> QED BY <1>4, <2>1 DEF ServerIds, NoServer
<1> HIDE DEF s, conn
<1>6. /\ next \in ConnRecord /\ next.server = s
      /\ next.pc = (IF s = NoServer THEN "closed" ELSE "idle")
      /\ next.task = conn.task /\ next.tls = conn.tls /\ next.cert = conn.cert
      /\ next.sni = conn.sni /\ next.dict = conn.dict /\ next.out = conn.out
  BY <1>2, <1>5 DEF ConnRecord, ConnState
<1> HIDE DEF next
<1>7. Placed(next)
  BY <1>1, <1>2, <1>6 DEF Placed, s
<1>8. Called(c, next) /\ Unchunked(next)
  BY <1>2, <1>6 DEF Called, Unchunked
<1>9. ConnOK(c, next)
  BY <1>6, <1>7, <1>8 DEF ConnOK
<1> QED BY <1>1, <1>3, <1>9, ConnUpdate DEF ConnInv

\* A connection that only stops.
LEMMA StoppedOK ==
  ASSUME HostInv, NEW c \in Conns, NEW conn, ConnOK(c, conn), conn.pc # "new",
         NEW state \in {"closed", "mute"}, state = "closed" \/ conn.server # NoServer
  PROVE  ConnOK(c, [conn EXCEPT !.pc = state])
<1> DEFINE next == [conn EXCEPT !.pc = state]
<1>1. conn \in ConnRecord /\ Placed(conn) /\ Called(c, conn) /\ Unchunked(conn)
  BY DEF ConnOK
<1>2. /\ next \in ConnRecord /\ next.pc = state /\ next.server = conn.server
      /\ next.task = conn.task /\ next.tls = conn.tls /\ next.cert = conn.cert
      /\ next.sni = conn.sni /\ next.dict = conn.dict /\ next.out = conn.out
  BY <1>1 DEF ConnRecord, ConnState
<1> HIDE DEF next
<1>3. Placed(next)
  BY <1>1, <1>2 DEF Placed
<1>4. Called(c, next) /\ Unchunked(next)
  BY <1>1, <1>2 DEF Called, Unchunked
<1>5. ConnOK(c, next)
  BY <1>2, <1>3, <1>4 DEF ConnOK
<1> QED BY <1>5 DEF next

LEMMA ConnClose ==
  ASSUME HostInv, ConnInv, NEW c \in Conns, Close(c)
  PROVE  ConnInv'
<1>1. /\ conns[c].pc # "new" /\ Update(c, [conns[c] EXCEPT !.pc = "closed"])
      /\ shared' = shared
  BY DEF Close, IsOpen
<1>2. pc \notin SetUp
  BY <1>1, ConnBehindSetUp
<1>3. ConnOK(c, [conns[c] EXCEPT !.pc = "closed"])
  BY <1>1, StoppedOK DEF ConnInv
<1> QED BY <1>1, <1>2, <1>3, ConnUpdate DEF ConnInv

LEMMA MessageType ==
  ASSUME NEW version \in {"1", "1.1", "2"}, NEW method \in Methods, NEW endpoint \in Endpoint,
         NEW dict \in Dict
  PROVE  /\ Message(version, method, endpoint, dict) \in SentMessage
         /\ Message(version, method, endpoint, dict).version = version
         /\ Message(version, method, endpoint, dict).dict = dict
<1>1. Bytes(version, endpoint.body) \in Nat
  BY DEF Bytes, Endpoint, Body
<1> QED BY <1>1 DEF Message, SentMessage

\* A message more has been sent.
LEMMA SentOK ==
  ASSUME HostInv, NEW c \in Conns, NEW conn, ConnOK(c, conn), conn.pc # "new",
         conn.server # NoServer, NEW message \in SentMessage,
         message.version = "2" => message.dict.chunked = FALSE
  PROVE  ConnOK(c, [conn EXCEPT !.pc = "idle", !.out = Append(@, message)])
<1> DEFINE out == Append(conn.out, message)
           next == [conn EXCEPT !.pc = "idle", !.out = out]
<1>1. conn \in ConnRecord /\ Placed(conn) /\ Called(c, conn) /\ Unchunked(conn)
  BY DEF ConnOK
<1>2. conn.out \in Seq(SentMessage)
  BY <1>1 DEF ConnRecord
<1>3. out \in Seq(SentMessage)
  BY <1>2
<1>4. \A i \in 1..Len(out) : out[i].version = "2" => out[i].dict.chunked = FALSE
  <2>1. /\ Len(out) = Len(conn.out) + 1 /\ out[Len(conn.out) + 1] = message
        /\ \A i \in 1..Len(conn.out) : out[i] = conn.out[i]
        /\ Len(conn.out) \in Nat
    BY <1>2
  <2>2. \A i \in 1..Len(out) : i \in 1..Len(conn.out) \/ i = Len(conn.out) + 1
    BY <2>1
  <2> HIDE DEF out
  <2> QED BY <1>1, <2>1, <2>2 DEF Unchunked
<1> HIDE DEF out
<1>5. /\ next \in ConnRecord /\ next.pc = "idle" /\ next.server = conn.server
      /\ next.task = conn.task /\ next.tls = conn.tls /\ next.cert = conn.cert
      /\ next.sni = conn.sni /\ next.dict = conn.dict /\ next.out = out
  BY <1>1, <1>3 DEF ConnRecord, ConnState
<1> HIDE DEF next
<1>6. Placed(next)
  BY <1>1, <1>5 DEF Placed
<1>7. Called(c, next) /\ Unchunked(next)
  BY <1>1, <1>4, <1>5 DEF Called, Unchunked
<1>8. ConnOK(c, next)
  BY <1>5, <1>6, <1>7 DEF ConnOK
<1> QED BY <1>8 DEF next, out

\* The status line is out; the rest of the response waits.
LEMMA StatusOK ==
  ASSUME HostInv, NEW c \in Conns, NEW conn, ConnOK(c, conn), conn.pc # "new",
         conn.server # NoServer, conn.version # "2", NEW dict \in SafeDict,
         conn.request \in SeenRequest, conn.request.method \in Methods
  PROVE  ConnOK(c, [conn EXCEPT !.pc = "status", !.dict = dict])
<1> DEFINE next == [conn EXCEPT !.pc = "status", !.dict = dict]
<1>1. conn \in ConnRecord /\ Placed(conn) /\ Called(c, conn) /\ Unchunked(conn) /\ dict \in Dict
  BY DEF ConnOK, SafeDict
<1>2. /\ next \in ConnRecord /\ next.pc = "status" /\ next.server = conn.server
      /\ next.task = conn.task /\ next.tls = conn.tls /\ next.cert = conn.cert
      /\ next.sni = conn.sni /\ next.dict = dict /\ next.out = conn.out
      /\ next.request = conn.request /\ next.version = conn.version
  BY <1>1 DEF ConnRecord, ConnState
<1> HIDE DEF next
<1>3. Placed(next)
  BY <1>1, <1>2 DEF Placed
<1>4. Called(c, next) /\ Unchunked(next)
  BY <1>1, <1>2 DEF Called, Unchunked
<1>5. ConnOK(c, next)
  BY <1>2, <1>3, <1>4 DEF ConnOK
<1> QED BY <1>5 DEF next

LEMMA FailedOK ==
  ASSUME HostInv, NEW c \in Conns, NEW conn, ConnOK(c, conn), conn.pc # "new",
         conn.server # NoServer
  PROVE  ConnOK(c, Failed(conn))
  BY StoppedOK DEF Failed

LEMMA ConnAnswer ==
  ASSUME HostInv, ConnInv, pc \notin SetUp, NEW c \in Conns, NEW conn, ConnOK(c, conn),
         conn.pc # "new", conn.server # NoServer, conn.request \in SeenRequest,
         conn.request.method \in Methods, NEW endpoint \in Endpoint, Answer(c, conn, endpoint)
  PROVE  ConnInv'
<1> DEFINE reuses == DictOf(endpoint) = "shared"
           built == BuiltDict(endpoint, IF reuses THEN shared
                                        ELSE [NoDict EXCEPT !.type = endpoint.type])
           copies == conn.request.protocol = "2"
           written == IF copies THEN built ELSE ConvertedDict(endpoint, built)
           sent == IF copies THEN Http2Dict(built, endpoint.body) ELSE written
           converts == Converts(conn.request.protocol, built, endpoint.result)
           method == conn.request.method
           message == Message("2", method, endpoint, sent)
<1>1. shared \in SafeDict /\ built \in SafeDict
  BY BuiltSafe, OwnDictSafe DEF ConnInv
<1>2. \/ ~converts /\ Update(c, Failed(conn)) /\ shared' = (IF reuses THEN built ELSE shared)
      \/ /\ converts /\ shared' = (IF reuses THEN written ELSE shared)
         /\ \/ conn.version # "2" /\ Update(c, [conn EXCEPT !.pc = "status", !.dict = sent])
            \/ Update(c, Failed(conn))
            \/ /\ conn.version = "2" /\ endpoint.result # "stream"
               /\ Update(c, [conn EXCEPT !.pc = "idle", !.out = Append(@, message)])
  BY DEF Answer
<1>3. converts => /\ written \in SafeDict /\ sent \in Dict
                  /\ endpoint.result # "stream" => sent.chunked = FALSE
  <2> HIDE DEF built
  <2>1. converts => /\ ConvertedDict(endpoint, built) \in SafeDict
                    /\ Http2Dict(built, endpoint.body) \in Dict
                    /\ endpoint.result # "stream" =>
                         /\ ConvertedDict(endpoint, built).chunked = FALSE
                         /\ Http2Dict(built, endpoint.body).chunked = FALSE
    BY <1>1, ConvertedSafe
  <2> QED BY <1>1, <2>1 DEF SafeDict
<1>4. converts => sent \in SafeDict
  <2>1. CASE endpoint.result # "stream"
    BY <1>3, <2>1 DEF SafeDict
  <2>2. CASE endpoint.result = "stream" /\ ~copies
    BY <1>3, <2>2
  <2>3. CASE endpoint.result = "stream" /\ copies
    BY <2>3 DEF Converts, Converter
  <2> QED BY <2>1, <2>2, <2>3
<1> HIDE DEF built, written, sent, converts
<1>5. ConnOK(c, Failed(conn))
  BY FailedOK
<1>6. CASE Update(c, Failed(conn)) /\ shared' \in SafeDict
  BY <1>5, <1>6, ConnUpdate
<1>7. CASE /\ converts /\ conn.version # "2" /\ shared' \in SafeDict
           /\ Update(c, [conn EXCEPT !.pc = "status", !.dict = sent])
  BY <1>4, <1>7, StatusOK, ConnUpdate
<1>8. CASE /\ converts /\ endpoint.result # "stream" /\ shared' \in SafeDict
           /\ Update(c, [conn EXCEPT !.pc = "idle", !.out = Append(@, message)])
  <2>1. /\ message \in SentMessage /\ message.version = "2" /\ message.dict = sent
    BY <1>3, <1>8, MessageType
  <2> HIDE DEF message
  <2>2. ConnOK(c, [conn EXCEPT !.pc = "idle", !.out = Append(@, message)])
    BY <1>3, <1>8, <2>1, SentOK
  <2> QED BY <1>8, <2>2, ConnUpdate
<1> QED BY <1>1, <1>2, <1>3, <1>6, <1>7, <1>8

LEMMA ConnReturn ==
  ASSUME HostInv, ConnInv, NEW c \in Conns, Return(c)
  PROVE  ConnInv'
<1> DEFINE conn == conns[c]
           endpoint == Endpoints[conn.endpoint]
<1>1. /\ conn.pc = "endpoint" /\ ConnOK(c, conn)
      /\ IF endpoint.result = "raise" THEN Update(c, Failed(conn)) /\ UNCHANGED shared
         ELSE Answer(c, conn, endpoint)
  BY DEF Return, ConnInv
<1>2. /\ pc \notin SetUp /\ conn.server # NoServer
      /\ conn.request \in SeenRequest /\ conn.request.method \in Methods
  BY <1>1, ConnBehindSetUp DEF ConnOK, Placed, Called
<1>3. endpoint \in Endpoint
  BY <1>1, EndpointsAssumption DEF ConnOK, Called
<1> HIDE DEF conn, endpoint
<1>4. CASE Update(c, Failed(conn)) /\ UNCHANGED shared
  BY <1>1, <1>2, <1>4, FailedOK, ConnUpdate DEF ConnInv
<1>5. CASE Answer(c, conn, endpoint)
  BY <1>1, <1>2, <1>3, <1>5, ConnAnswer
<1> QED BY <1>1, <1>4, <1>5

LEMMA NotFoundType == NotFound \in Endpoint
  BY DEF NotFound, Endpoint, Body

LEMMA RespondedType ==
  ASSUME NEW conn \in ConnRecord
  PROVE  Responded(conn) \in Endpoint
<1>1. conn.endpoint \in EndpointNames
  BY DEF ConnRecord
<1> QED BY <1>1, NotFoundType, EndpointsAssumption DEF Responded, EndpointNames

LEMMA ConnWriteRest ==
  ASSUME HostInv, ConnInv, NEW c \in Conns, WriteRest(c)
  PROVE  ConnInv'
<1> DEFINE conn == conns[c]
           dict == IF DictOf(Responded(conn)) = "shared" THEN shared ELSE conn.dict
           message == Message(conn.version, conn.request.method, Responded(conn), dict)
<1>1. /\ conn.pc = "status" /\ ConnOK(c, conn) /\ shared' = shared
      /\ Update(c, [conn EXCEPT !.pc = "idle", !.out = Append(@, message)])
      /\ shared \in SafeDict
  BY DEF WriteRest, ConnInv
<1>2. /\ pc \notin SetUp /\ conn.server # NoServer /\ conn.version # "2"
      /\ conn.request.method \in Methods /\ conn \in ConnRecord /\ conn.dict \in SafeDict
  BY <1>1, ConnBehindSetUp DEF ConnOK, Placed, Called, Unchunked
<1>3. conn.version \in {"1", "1.1", "2"} /\ Responded(conn) \in Endpoint
  BY <1>2, RespondedType DEF ConnRecord
<1>4. dict \in Dict
  BY <1>1, <1>2 DEF SafeDict
<1> HIDE DEF conn, dict
<1>5. message \in SentMessage /\ message.version = conn.version
  BY <1>2, <1>3, <1>4, MessageType
<1> HIDE DEF message
<1>6. ConnOK(c, [conn EXCEPT !.pc = "idle", !.out = Append(@, message)])
  BY <1>1, <1>2, <1>5, SentOK
<1> QED BY <1>1, <1>2, <1>6, ConnUpdate

LEMMA SeenType ==
  ASSUME NEW version \in {"1", "1.1", "2"}, NEW request \in Request
  PROVE  Seen(version, request) \in SeenRequest
<1> DEFINE general == request.general
           method == IF version = "2" /\ general.method # None THEN general.method
                     ELSE request.method
           path == IF version = "2" /\ general.path # NoPath THEN general.path ELSE request.path
           protocol == IF version = "2" /\ general.protocol # None THEN general.protocol
                       ELSE version
<1>1. /\ general \in General /\ request.method \in Methods \cup {"PATCH"}
      /\ request.path \in Path
  BY DEF Request
<1>2. method \in Methods \cup {"PATCH"} /\ protocol \in {"1", "1.1", "2", "other"}
  BY <1>1 DEF General
<1>3. path \in Path
  BY <1>1 DEF General
<1>4. Seen(version, request) = [method |-> method, path |-> path, protocol |-> protocol]
  BY DEF Seen
<1> HIDE DEF method, path, protocol
<1> QED BY <1>2, <1>3, <1>4 DEF SeenRequest

Argument == [type : ObjectType, conn : {0} \cup Conns, number : Nat]

LEMMA OwnType ==
  ASSUME NEW c \in Conns, NEW version, NEW number \in Nat
  PROVE  [name \in DOMAIN Params |-> Own(c, version, number, name)] \in ArgumentDict
<1>1. ASSUME NEW type \in ObjectType, NEW n \in Nat, NEW d \in {0} \cup Conns
      PROVE  [type |-> type, conn |-> d, number |-> n] \in Argument
  BY DEF Argument
<1>2. /\ 0 \in Nat /\ 0 \in {0} \cup Conns /\ c \in {0} \cup Conns
      /\ "NoneType" \in ObjectType /\ "Http2Connection" \in ObjectType
      /\ "Http1Connection" \in ObjectType /\ "Http1Request" \in ObjectType
      /\ "Http2Stream" \in ObjectType
  BY DEF ObjectType
<1>3. Absent \in Argument
  BY <1>1, <1>2 DEF Absent
<1>4. /\ Object("Http2Connection", c, 0) \in Argument
      /\ Object("Http1Connection", c, 0) \in Argument
      /\ Object("Http1Request", c, number) \in Argument
      /\ Object("Http2Stream", c, number) \in Argument
  BY <1>1, <1>2 DEF Object
<1>5. ASSUME NEW name PROVE Own(c, version, number, name) \in Argument
  BY <1>3, <1>4 DEF Own
<1>6. [name \in DOMAIN Params |-> Own(c, version, number, name)] \in [DOMAIN Params -> Argument]
  BY <1>5
<1> QED BY <1>6 DEF ArgumentDict, Argument

LEMMA ConnDispatch ==
  ASSUME HostInv, ConnInv, NEW c \in Conns, NEW request \in program.requests,
         Dispatch(c, request)
  PROVE  ConnInv'
<1> DEFINE old == conns[c]
           seen == Seen(old.version, request)
           conn == [old EXCEPT !.number = @ + 1, !.request = seen]
           found == Search(urlContext[conn.server][seen.method], seen.path)
           connection == ConnectionContext(conn.version, c)
           context == RequestContext(conn.version, c, conn.number)
           args == [name \in DOMAIN Params |-> Resolve(name, Params[name], connection, context)]
           unfound == [conn EXCEPT !.endpoint = None]
           called == [conn EXCEPT !.pc = "endpoint", !.endpoint = found, !.args = args]
<1>1. /\ old.pc = "idle" /\ ConnOK(c, old) /\ old \in ConnRecord /\ Placed(old)
      /\ Called(c, old) /\ Unchunked(old)
  BY DEF Dispatch, ConnInv, ConnOK
<1>2. \/ Update(c, Failed(unfound)) /\ UNCHANGED shared
      \/ seen.method \in Methods /\ Answer(c, unfound, NotFound)
      \/ seen.method \in Methods /\ found # None /\ Update(c, called) /\ UNCHANGED shared
  BY DEF Dispatch
<1>3. pc \notin SetUp /\ old.server # NoServer
  BY <1>1, ConnBehindSetUp DEF Placed
<1>4. old.server \in ServerIds /\ old.version \in {"1", "1.1", "2"} /\ old.number \in Nat
  BY <1>1, <1>3 DEF ConnRecord, ServerIds, NoServer
<1>5. seen \in SeenRequest
  <2>1. request \in Request
    BY ProgramFields DEF HostInv, MainInv, MainType
  <2> QED BY <1>4, <2>1, SeenType
<1> HIDE DEF old, seen
<1>6. /\ conn.server = old.server /\ conn.version = old.version /\ conn.number = old.number + 1
      /\ conn \in ConnRecord /\ conn.pc = "idle" /\ conn.request = seen
      /\ conn.task = old.task /\ conn.tls = old.tls /\ conn.cert = old.cert
      /\ conn.sni = old.sni /\ conn.dict = old.dict /\ conn.out = old.out
  <2> DEFINE next == old.number + 1
  <2>1. next \in Nat
    BY <1>4
  <2>2. conn = [old EXCEPT !.number = next, !.request = seen]
    BY <1>1 DEF ConnRecord
  <2> HIDE DEF conn, next
  <2>3. conn \in ConnRecord
    BY <1>1, <1>5, <2>1, <2>2 DEF ConnRecord
  <2>4. /\ conn.server = old.server /\ conn.version = old.version /\ conn.number = next
        /\ conn.pc = old.pc /\ conn.request = seen
        /\ conn.task = old.task /\ conn.tls = old.tls /\ conn.cert = old.cert
        /\ conn.sni = old.sni /\ conn.dict = old.dict /\ conn.out = old.out
    BY <1>1, <2>2 DEF ConnRecord
  <2> QED BY <1>1, <2>3, <2>4 DEF next
<1>7. seen.method \in Methods => found \in EndpointNames
  BY <1>4, <1>6, SearchType DEF HostInv
<1>8. args = [name \in DOMAIN Params |-> Own(c, conn.version, conn.number, name)]
  BY ResolveOwn
<1> HIDE DEF args, found, connection, context, conn
<1>9. args \in ArgumentDict
  <2>1. conn.number \in Nat
    BY <1>4, <1>6
  <2> QED BY <1>8, <2>1, OwnType
<1>10. ConnOK(c, unfound) /\ unfound.pc = "idle" /\ unfound.request = seen
       /\ unfound.server = old.server
  <2>1. /\ unfound \in ConnRecord /\ unfound.pc = "idle" /\ unfound.server = old.server
        /\ unfound.task = old.task /\ unfound.tls = old.tls /\ unfound.cert = old.cert
        /\ unfound.sni = old.sni /\ unfound.dict = old.dict /\ unfound.out = old.out
        /\ unfound.request = seen
    BY <1>6 DEF ConnRecord, EndpointNames
  <2> HIDE DEF unfound
  <2>2. Placed(unfound)
    BY <1>1, <2>1 DEF Placed
  <2>3. Called(c, unfound) /\ Unchunked(unfound)
    BY <1>1, <2>1 DEF Called, Unchunked
  <2> QED BY <2>1, <2>2, <2>3 DEF ConnOK
<1>11. ASSUME seen.method \in Methods, found # None
       PROVE  ConnOK(c, called)
  <2>1. /\ called \in ConnRecord /\ called.pc = "endpoint" /\ called.server = old.server
        /\ called.task = old.task /\ called.tls = old.tls /\ called.cert = old.cert
        /\ called.sni = old.sni /\ called.dict = old.dict /\ called.out = old.out
        /\ called.request = seen /\ called.endpoint = found /\ called.args = args
        /\ called.version = conn.version /\ called.number = conn.number
    BY <1>6, <1>7, <1>9, <1>11 DEF ConnRecord, ConnState
  <2>2. called.endpoint \in DOMAIN Endpoints
    BY <1>7, <1>11, <2>1 DEF EndpointNames
  <2> HIDE DEF called
  <2>3. Placed(called)
    BY <1>1, <1>3, <2>1 DEF Placed
  <2>4. Called(c, called) /\ Unchunked(called)
    BY <1>1, <1>5, <1>8, <1>11, <2>1, <2>2 DEF Called, Unchunked
  <2> QED BY <2>1, <2>3, <2>4 DEF ConnOK
<1> HIDE DEF unfound, called
<1>12. CASE Update(c, Failed(unfound)) /\ UNCHANGED shared
  <2>1. ConnOK(c, Failed(unfound))
    BY <1>3, <1>10, FailedOK
  <2> QED BY <1>3, <1>12, <2>1, ConnUpdate DEF ConnInv
<1>13. CASE seen.method \in Methods /\ Answer(c, unfound, NotFound)
  BY <1>3, <1>5, <1>10, <1>13, NotFoundType, ConnAnswer
<1>14. CASE seen.method \in Methods /\ found # None /\ Update(c, called) /\ UNCHANGED shared
  BY <1>3, <1>11, <1>14, ConnUpdate DEF ConnInv
<1> QED BY <1>2, <1>12, <1>13, <1>14

LEMMA ConnNext == HostInv /\ ConnInv /\ [Next]_vars => ConnInv'
<1> SUFFICES ASSUME HostInv, ConnInv, [Next]_vars PROVE ConnInv'
  OBVIOUS
<1>1. HostInv'
  BY HostNext
<1>2. CASE \E c \in Conns : Connection(c)
  <2> SUFFICES ASSUME NEW c \in Conns, Connection(c) PROVE ConnInv'
    BY <1>2
  <2> QED BY ConnAccept, ConnHandle, ConnDispatch, ConnReturn, ConnWriteRest, ConnClose
          DEF Connection
<1>3. CASE Declare \/ Declared \/ AddToExecutor \/ EnterExecutor \/ ComposeServer \/ ComposePort
  <2>1. pc \in SetUp /\ UNCHANGED <<program, conns, shared>>
    BY <1>3 DEF Declare, Declared, AddToExecutor, EnterExecutor, ComposeServer,
                ComposePort, SetUp
  <2> QED BY <1>1, <2>1, ConnKept
<1>4. CASE LeaveRun \/ CancelRun \/ LeaveGather \/ ExitTask \/ Exit
  <2>1. /\ pc' \notin SetUp /\ UNCHANGED <<program, integrated, conns, shared>>
        /\ Len(tasks') = Len(tasks)
    <3>1. tasks \in Seq(Status)
      BY DEF HostInv, MainInv, MainType
    <3> QED BY <1>4, <3>1 DEF LeaveRun, CancelRun, LeaveGather, ExitTask, Exit, SetUp
  <2> QED BY <1>1, <2>1, ConnKept
<1>5. CASE ServingTask
  <2>1. /\ UNCHANGED <<program, pc, integrated, conns, shared>> /\ Len(tasks') = Len(tasks)
        /\ tasks # <<>>
    <3>1. tasks \in Seq(Status)
      BY DEF HostInv, MainInv, MainType
    <3> QED BY <1>5, <3>1 DEF ServingTask, Listen, FailToListen, EndServing, mainVars
  <2>2. pc \notin SetUp
    BY <2>1, TasksBehindSetUp DEF HostInv
  <2> QED BY <1>1, <2>1, <2>2, ConnKept
<1>6. CASE Finished \/ UNCHANGED vars
  <2>1. UNCHANGED <<program, pc, integrated, tasks, conns, shared>>
    BY <1>6 DEF Finished, vars, mainVars
  <2> QED BY <1>1, <2>1, ConnKept
<1> QED BY <1>2, <1>3, <1>4, <1>5, <1>6 DEF Next, Main

ServerInv == HostInv /\ ConnInv

(***************************************************************************)
(* The set-up and the connections together: every port is composed of the  *)
(* servers bound to it, and every connection is where its own TLS          *)
(* handshake, request and endpoint have put it.                            *)
(***************************************************************************)
THEOREM ServerSafety == Spec => []ServerInv
<1>1. Init => ServerInv
  BY HostInit, ConnInit DEF ServerInv
<1>2. ServerInv /\ [Next]_vars => ServerInv'
  BY HostNext, ConnNext DEF ServerInv
<1> QED BY <1>1, <1>2, PTL DEF Spec

-----------------------------------------------------------------------------
(* What the invariant says of the properties.                              *)

(***************************************************************************)
(* The variables of the process of an application have the types           *)
(* ServerProperties gives them.                                            *)
(***************************************************************************)
THEOREM TypeCorrect == Spec => []TypeOK
<1>1. ServerInv => TypeOK
  <2> SUFFICES ASSUME ServerInv PROVE TypeOK
    OBVIOUS
  <2>1. HostInv /\ ConnInv /\ MainType /\ TasksCreated
    BY DEF ServerInv, HostInv, MainInv
  <2>2. program \in Program
    BY <2>1, ProgramFields DEF MainType
  <2>3. DOMAIN urlContext = 1..Len(program.servers)
    BY <2>1 DEF HostInv, RoutesType, ServerIds
  <2>4. ASSUME NEW i \in 1..Len(ports)
        PROVE  ToSet(ports[i].servers) \subseteq 1..Len(program.servers)
    <3>1. \A j \in 1..Len(ports[i].servers) : ports[i].servers[j] \in ServerIds
      BY <2>1, PortElements DEF HostInv
    <3>2. DOMAIN ports[i].servers = 1..Len(ports[i].servers)
      BY <2>1, PortElements DEF HostInv
    <3> QED BY <3>1, <3>2 DEF ToSet, ServerIds
  <2>5. ASSUME NEW c \in Conns
        PROVE  /\ conns[c] \in ConnType
               /\ conns[c].pc \in {"idle", "endpoint", "status", "mute"}
                    => conns[c].server # NoServer
    BY <2>1, ConnRecordType DEF ConnInv, ConnOK, Placed
  <2>6. shared \in Dict
    BY <2>1 DEF ConnInv, SafeDict
  <2> QED BY <2>1, <2>2, <2>3, <2>4, <2>5, <2>6 DEF TypeOK, MainType, TasksCreated, Status, SetUp
<1> QED BY <1>1, ServerSafety, PTL

(***************************************************************************)
(* ArgumentResolver gives an endpoint its own connection and request.      *)
(***************************************************************************)
THEOREM OwnArguments == Spec => []ArgumentsOwn
<1>1. ServerInv => ArgumentsOwn
  BY DEF ServerInv, ConnInv, ConnOK, Called, ArgumentsOwn, Own
<1> QED BY <1>1, ServerSafety, PTL

(***************************************************************************)
(* HTTP/2 never sends the header of chunked encoding.                      *)
(***************************************************************************)
THEOREM NeverChunked == Spec => []Http2NotChunked
<1>1. ServerInv => Http2NotChunked
  BY DEF ServerInv, ConnInv, ConnOK, Unchunked, Http2NotChunked
<1> QED BY <1>1, ServerSafety, PTL

LEMMA LargestIs ==
  ASSUME NEW S \in SUBSET Nat, NEW x \in S, \A y \in S : y <= x
  PROVE  Largest(S) = x
<1>1. \A y \in S : (\A z \in S : z <= y) => y = x
  OBVIOUS
<1> QED BY <1>1 DEF Largest

LEMMA SmallestIs ==
  ASSUME NEW S \in SUBSET Nat, NEW x \in S, \A y \in S : x <= y
  PROVE  Smallest(S) = x
<1>1. \A y \in S : (\A z \in S : y <= z) => y = x
  OBVIOUS
<1> QED BY <1>1 DEF Smallest

\* What an accepted connection knows of its port.
LEMMA PortOf ==
  ASSUME ServerInv, NEW c \in Conns, conns[c].pc # "new"
  PROVE  LET conn == conns[c]
             port == integrated[conn.task]
         IN /\ Neighbours(conn) \subseteq ServerIds /\ Neighbours(conn) \subseteq Nat
            /\ Composed(program.servers, Neighbours(conn), port) /\ port \in Integrated
            /\ CanListen(port) /\ conn.tls = port.secure
            /\ conn.tls => conn.cert = Certificate(port, conn.sni)
            /\ ~conn.tls => conn.sni = NoName
            /\ conn.server # NoServer => conn.server = FindServer(port, conn.sni)
<1>1. ConnOK(c, conns[c]) /\ HostInv /\ pc \notin SetUp /\ conns[c].task \in 1..Len(integrated)
  BY ConnBehindSetUp DEF ServerInv, ConnInv
<1>2. Neighbours(conns[c]) \subseteq ServerIds /\ ServerIds \subseteq Nat
  BY DEF Neighbours, ServerIds
<1>3. /\ Composed(program.servers, Neighbours(conns[c]), integrated[conns[c].task])
      /\ integrated[conns[c].task] \in Integrated
  BY <1>1, FullyComposed DEF Neighbours, ServerIds
<1> QED BY <1>1, <1>2, <1>3 DEF ConnOK, Placed

(***************************************************************************)
(* A server with certificates is behind TLS, in any company.               *)
(***************************************************************************)
THEOREM SecureStaysSecure == Spec => []SecureServersBehindTls
<1>1. ServerInv => SecureServersBehindTls
  <2> SUFFICES ASSUME ServerInv, NEW c \in Conns, conns[c].server # NoServer,
                      program.servers[conns[c].server].certs # Plaintext
               PROVE  conns[c].tls /\ conns[c].cert # NoCert
    BY DEF SecureServersBehindTls
  <2> DEFINE conn == conns[c]
             port == integrated[conn.task]
             S == Neighbours(conn)
  <2>1. conn.pc # "new"
    BY DEF ServerInv, ConnInv, ConnOK, Placed
  <2>2. /\ Composed(program.servers, S, port) /\ port \in Integrated
        /\ CanListen(port) /\ conn.tls = port.secure
        /\ conn.tls => conn.cert = Certificate(port, conn.sni)
        /\ conn.server = FindServer(port, conn.sni)
    BY <2>1, PortOf
  <2> HIDE DEF port, S
  <2>3. conn.server \in S
    <3>1. /\ \A h \in DOMAIN port.servers : port.servers[h] \in S
          /\ S # {} => DEFAULT \in DOMAIN port.servers
      BY <2>2 DEF Composed, HostsComposed
    <3>2. S # {}
      BY <2>1, FullyComposed, ConnBehindSetUp DEF ServerInv, S, Neighbours, port, ServerIds
    <3> QED BY <2>2, <3>1, <3>2 DEF FindServer
  <2>4. port.secure
    BY <2>2, <2>3 DEF Composed, SecureComposed
  <2>5. \A name \in DOMAIN port.store : port.store[name].server # 0
    <3>1. \A name \in DOMAIN port.store : port.store[name] \in Certificates
      BY <2>2 DEF Integrated, DictOver
    <3> QED BY <3>1 DEF Certificates, ServerIds
  <2>6. conn.cert # NoCert
    BY <2>2, <2>4, <2>5 DEF CanListen, Certificate, NoCert
  <2> QED BY <2>2, <2>4, <2>6
<1> QED BY <1>1, ServerSafety, PTL

LEMMA ServerOf ==
  ASSUME ServerInv, NEW c \in Conns, conns[c].pc # "new", conns[c].server # NoServer
  PROVE  LET conn == conns[c]
             named == {s \in Neighbours(conn) : program.servers[s].hostname = conn.sni}
             default == {s \in Neighbours(conn) : program.servers[s].hostname = DEFAULT}
         IN IF conn.sni \in {NoName, DEFAULT}
            THEN conn.server = IF default = {} THEN Smallest(Neighbours(conn)) ELSE Largest(default)
            ELSE named # {} /\ conn.server = Largest(named)
<1> DEFINE conn == conns[c]
           dict == integrated[conn.task].servers
           S == Neighbours(conn)
           named == {s \in S : program.servers[s].hostname = conn.sni}
           default == {s \in S : program.servers[s].hostname = DEFAULT}
<1>1. /\ S \subseteq Nat /\ HostsComposed(program.servers, S, dict)
      /\ conn.server = FindServer(integrated[conn.task], conn.sni)
  BY PortOf DEF Composed
<1>2. S # {}
  BY FullyComposed, ConnBehindSetUp DEF ServerInv, Neighbours, ServerIds
<1>3. named \in SUBSET Nat /\ default \in SUBSET Nat
  BY <1>1
<1> HIDE DEF S
<1>4. CASE conn.sni \in {NoName, DEFAULT}
  <2>1. DEFAULT \in DOMAIN dict /\ conn.server = dict[DEFAULT]
    BY <1>1, <1>2, <1>4 DEF FindServer, HostsComposed
  <2>2. conn.server \in S
    BY <1>1, <2>1 DEF HostsComposed
  <2>3. CASE default = {}
    <3>1. \A s \in S : conn.server <= s
      BY <1>1, <2>1, <2>2, <2>3 DEF HostsComposed
    <3> QED BY <1>1, <1>4, <2>2, <2>3, <3>1, SmallestIs DEF S
  <2>4. CASE default # {}
    <3>1. conn.server \in default /\ \A s \in default : s <= conn.server
      BY <1>1, <2>1, <2>2, <2>4 DEF HostsComposed
    <3> HIDE DEF default
    <3>2. conn.server = Largest(default)
      BY <1>3, <3>1, LargestIs
    <3> QED BY <1>4, <2>4, <3>2 DEF default, S
  <2> QED BY <2>3, <2>4
<1>5. CASE conn.sni \notin {NoName, DEFAULT}
  <2>1. conn.sni \in DOMAIN dict /\ conn.server = dict[conn.sni]
    BY <1>1, <1>5 DEF FindServer
  <2>2. conn.server \in named /\ \A s \in named : s <= conn.server
    BY <1>1, <1>5, <2>1 DEF HostsComposed
  <2> HIDE DEF named
  <2>3. conn.server = Largest(named)
    BY <1>3, <2>2, LargestIs
  <2> QED BY <1>5, <2>2, <2>3 DEF named, S
<1> QED BY <1>4, <1>5

LEMMA CertificateOf ==
  ASSUME ServerInv, NEW c \in Conns, conns[c].pc # "new", conns[c].tls
  PROVE  LET conn == conns[c]
             certs == {s \in Neighbours(conn) : conn.sni \in Certified(s)}
             some == {s \in Neighbours(conn) : Certified(s) # {}}
         IN conn.cert =
              IF certs # {} THEN [server |-> Largest(certs), name |-> conn.sni]
              ELSE [server |-> Smallest(some), name |-> program.servers[Smallest(some)].certs[1]]
<1> DEFINE conn == conns[c]
           port == integrated[conn.task]
           S == Neighbours(conn)
           certs == {s \in S : conn.sni \in Certified(s)}
           some == {s \in S : Certified(s) # {}}
<1>1. /\ S \subseteq Nat /\ S \subseteq ServerIds /\ port.default # NoCert
      /\ conn.cert = Certificate(port, conn.sni)
      /\ StoreComposed(program.servers, S, port.store)
      /\ DefaultComposed(program.servers, S, port.default)
      /\ port \in Integrated
  BY PortOf DEF Composed, CanListen
<1>2. certs \in SUBSET Nat /\ some \in SUBSET Nat
  BY <1>1
<1> HIDE DEF S, port
<1>3. CASE certs # {}
  <2> DEFINE cert == port.store[conn.sni]
  <2>1. conn.sni \in DOMAIN port.store /\ conn.cert = cert
    BY <1>1, <1>3 DEF StoreComposed, Certificate, Certified
  <2>2. cert.server \in certs /\ cert.name = conn.sni /\ \A s \in certs : s <= cert.server
    BY <1>1, <2>1 DEF StoreComposed, Certified
  <2>3. cert \in Certificates
    BY <1>1, <2>1 DEF Integrated, DictOver
  <2>4. cert = [server |-> cert.server, name |-> cert.name]
    BY <2>3 DEF Certificates
  <2> HIDE DEF cert, certs
  <2>5. cert.server = Largest(certs)
    BY <1>2, <2>2, LargestIs
  <2> QED BY <1>3, <2>1, <2>2, <2>4, <2>5 DEF certs, S
<1>4. CASE certs = {}
  <2> DEFINE cert == port.default
  <2>1. conn.cert = cert
    <3>1. conn.sni \notin DOMAIN port.store
      BY <1>1, <1>4 DEF StoreComposed, Certified
    <3> QED BY <1>1, <3>1 DEF Certificate
  <2>2. /\ cert.server \in some /\ \A s \in some : cert.server <= s
        /\ cert.name = Head(program.servers[cert.server].certs)
    BY <1>1 DEF DefaultComposed, Certified
  <2>3. cert \in Certificates
    BY <1>1 DEF Integrated
  <2>4. cert = [server |-> cert.server, name |-> cert.name]
    BY <2>3 DEF Certificates
  <2>5. cert.name = program.servers[cert.server].certs[1]
    <3>1. program.servers[cert.server] \in Server
      BY <1>1, <2>2, ProgramFields DEF ServerInv, HostInv, MainInv, MainType
    <3>2. program.servers[cert.server].certs # Plaintext
      BY <2>2 DEF Certified, OwnNames
    <3>3. program.servers[cert.server].certs \in Seq(Names)
      BY <3>1, <3>2 DEF Server
    <3> QED BY <2>2, <3>3
  <2> HIDE DEF cert, some
  <2>6. cert.server = Smallest(some)
    BY <1>2, <2>2, SmallestIs
  <2> QED BY <1>4, <2>1, <2>4, <2>5, <2>6 DEF some, S
<1> QED BY <1>3, <1>4

(***************************************************************************)
(* The server and the certificate of a connection fit its server name,     *)
(* for any servers on any ports.                                           *)
(***************************************************************************)
THEOREM HostsAreServed == Spec => []HostServed
<1>1. ServerInv => HostServed
  BY ServerOf, CertificateOf DEF HostServed
<1> QED BY <1>1, ServerSafety, PTL
=============================================================================
