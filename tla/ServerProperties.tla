-------------------------- MODULE ServerProperties --------------------------
(***************************************************************************)
(* What is checked of ServerProcess: which server, certificate, endpoint   *)
(* and arguments a request meets, how responses are framed although they   *)
(* may share a dict of headers, and how the executor is left.              *)
(***************************************************************************)
EXTENDS ServerProcess

\* The types of what an endpoint may get.
ObjectType == {"Http1Connection", "Http2Connection", "Http1Request", "Http2Stream", "NoneType"}

ConnType ==
  [pc : {"new", "accepted", "idle", "endpoint", "status", "mute", "closed"},
   task : 0..Len(tasks), version : {"1", "1.1", "2"}, tls : BOOLEAN,
   sni : Names \cup {NoName, DEFAULT},
   cert : [server : 0..Len(program.servers), name : Names \cup {NoName}],
   server : 0..Len(program.servers), number : Nat,
   request : {<<>>} \cup [method : Methods \cup {"PATCH"}, path : Path,
                     protocol : {"1", "1.1", "2", "other"}],
   endpoint : DOMAIN Endpoints \cup {None},
   args : {<<>>} \cup [DOMAIN Params -> [type : ObjectType, conn : {0} \cup Conns, number : Nat]],
   dict : Dict, out : Seq([version : {"1", "1.1", "2"}, method : Methods,
                           endpoint : Endpoint, dict : Dict, bytes : Nat])]

(***************************************************************************)
(* Types of the variables; requests are only read where there is a server. *)
(***************************************************************************)
TypeOK ==
  /\ program \in Program
  /\ pc \in {"declare", "add", "compose", "run", "cancelled", "exit", "exited", "raised"}
  /\ at \in Nat \ {0}
  /\ DOMAIN urlContext = 1..Len(program.servers)
  /\ \A i \in 1..Len(ports) : ToSet(ports[i].servers) \subseteq 1..Len(program.servers)
  /\ Len(integrated) <= Len(ports)
  /\ tasks \in Seq({"starting", "listening", "failed", "closing", "stopped"})
  /\ tasks # <<>> => Len(tasks) = Len(integrated)
  /\ \A c \in Conns :
       /\ conns[c] \in ConnType
       /\ conns[c].pc \in {"idle", "endpoint", "status", "mute"} => conns[c].server # NoServer
  /\ shared \in Dict

-----------------------------------------------------------------------------
Largest(indices) == CHOOSE i \in indices : \A j \in indices : j <= i
Smallest(indices) == CHOOSE i \in indices : \A j \in indices : i <= j

\* A path without the slash it may end with.
Plain(path) ==
  IF path.rest[Len(path.rest)] = "" /\ (path.first = "/" \/ Len(path.rest) > 1)
  THEN SubSeq(path.rest, 1, Len(path.rest) - 1) ELSE path.rest

\* The registrations of server s that took effect for a method and a path.
Registered(s, method, path) ==
  {i \in 1..Len(program.routes) :
     LET route == program.routes[i] IN
     /\ route.server = s /\ IsValid(route.path) /\ Plain(route.path) = Plain(path)
     /\ \E j \in 1..Len(route.methods) :
          /\ route.methods[j] = method
          /\ \A k \in 1..j : route.methods[k] \in Methods}

(***************************************************************************)
(* A request is answered by the endpoint registered last, on its own       *)
(* server, for its method and its path, where a slash at the end makes no  *)
(* difference; with 404 if there is none.  Registrations that failed half  *)
(* way count as far as they came, and none of them disturbs another.       *)
(* Method and path are those that _dispatch reads, which over HTTP/2 are   *)
(* the ones of general headers of these names, if there are any: that such *)
(* a header leads a request elsewhere is no violation.                     *)
(***************************************************************************)
RoutesMatch ==
  \A c \in Conns :
    conns[c].number > 0 /\ conns[c].request.method \in Methods =>
      LET routes == Registered(conns[c].server, conns[c].request.method, conns[c].request.path)
      IN conns[c].endpoint = IF routes = {} THEN None
                             ELSE program.routes[Largest(routes)].endpoint

(***************************************************************************)
(* Whatever was served before on this connection or another one, an        *)
(* endpoint gets its own connection and the request it is called for, and  *)
(* None for any other name.  Over HTTP/2 the latter includes http_request. *)
(***************************************************************************)
ArgumentsOwn ==
  \A c \in Conns :
    LET conn == conns[c] IN
    conn.pc = "endpoint" =>
      conn.args = [name \in DOMAIN Params |->
        CASE name = "connection" /\ conn.version = "2" -> Object("Http2Connection", c, 0)
          [] name = "connection" /\ conn.version # "2" -> Object("Http1Connection", c, 0)
          [] name = "http_request" /\ conn.version # "2" -> Object("Http1Request", c, conn.number)
          [] name = "stream" /\ conn.version = "2" -> Object("Http2Stream", c, conn.number)
          [] OTHER -> Absent]

-----------------------------------------------------------------------------
(***************************************************************************)
(* A server with certificates is never reached over a plain connection,    *)
(* nor without a certificate, whichever servers share its port and in      *)
(* which order they were added.                                            *)
(***************************************************************************)
SecureServersBehindTls ==
  \A c \in Conns :
    conns[c].server # NoServer /\ program.servers[conns[c].server].certs # Plaintext
      => conns[c].tls /\ conns[c].cert # NoCert

\* The servers of a connection's port.
Neighbours(conn) ==
  {s \in 1..Len(program.servers) : program.servers[s].port = integrated[conn.task].port}
Certified(s) == OwnNames(program.servers[s])

(***************************************************************************)
(* The certificate and the server of a connection, which are looked up     *)
(* independently of each other, fit: a name meets the server added last    *)
(* under this name and the certificate declared last for it; a name        *)
(* without a certificate the first one of the port, a client that gives no *)
(* name the first server; and a name no server has reaches none.           *)
(***************************************************************************)
HostServed ==
  \A c \in Conns :
    LET conn == conns[c]
        named == {s \in Neighbours(conn) : program.servers[s].hostname = conn.sni}
        default == {s \in Neighbours(conn) : program.servers[s].hostname = DEFAULT}
        certs == {s \in Neighbours(conn) : conn.sni \in Certified(s)}
        some == {s \in Neighbours(conn) : Certified(s) # {}}
    IN conn.pc # "new" =>
      /\ conn.server # NoServer =>
           IF conn.sni \in {NoName, DEFAULT}
           THEN conn.server = IF default = {} THEN Smallest(Neighbours(conn)) ELSE Largest(default)
           ELSE named # {} /\ conn.server = Largest(named)
      /\ conn.tls => conn.cert =
           IF certs # {} THEN [server |-> Largest(certs), name |-> conn.sni]
           ELSE [server |-> Smallest(some), name |-> program.servers[Smallest(some)].certs[1]]

-----------------------------------------------------------------------------
\* A dict of the application was used by another response as well.
Shares(c, i) ==
  /\ conns[c].out[i].endpoint.dict = "shared"
  /\ \/ \E j \in 1..Len(conns[c].out) : j # i /\ conns[c].out[j].endpoint.dict = "shared"
     \/ conns[c].pc = "status" /\ Responded(conns[c]).dict = "shared"
     \/ \E d \in Conns \ {c} :
          \/ conns[d].number > 0 /\ Responded(conns[d]).dict = "shared"
          \/ \E j \in 1..Len(conns[d].out) : conns[d].out[j].endpoint.dict = "shared"

\* A stream whose own headers say event stream, so that it gets the converter of
\* streams, but not its media type, which alone adds the header of chunks.
Mislabelled(endpoint) ==
  endpoint.result = "stream" /\ endpoint.dict = "own"
    /\ endpoint.type = "event" /\ endpoint.media # "event"

\* The responses of which the code knows too little: the method, the length in
\* bytes, that an empty body is a line.
Careless(message) ==
  \/ message.method = "HEAD"
  \/ /\ message.endpoint.result # "stream"
     /\ \/ message.endpoint.body.chars # message.endpoint.body.bytes
        \/ message.version # "2" /\ message.endpoint.body = NoBody
  \/ Mislabelled(message.endpoint)

(***************************************************************************)
(* The receiver can tell where a response ends, except where the code is   *)
(* known not to care: answers to HEAD, texts beyond ASCII, whose           *)
(* characters are counted, the empty body of HTTP/1, a stream that calls   *)
(* itself an event stream in its headers only, and a dict of headers that  *)
(* other responses use too.  No other interleaving of connections mixes up *)
(* the headers of two responses.                                           *)
(***************************************************************************)
Framed ==
  \A c \in Conns : \A i \in 1..Len(conns[c].out) :
    ~IsFramed(conns[c].out[i]) => Careless(conns[c].out[i]) \/ Shares(c, i)

(***************************************************************************)
(* HTTP/2 knows no chunked encoding: even from a dict that a stream of     *)
(* HTTP/1 has written into no HTTP/2 response inherits it, because such a  *)
(* dict selects a converter of streams, and HTTP/2 sends none.  This holds *)
(* also of a response that a client has had converted for HTTP/1.          *)
(***************************************************************************)
Http2NotChunked ==
  \A c \in Conns : \A i \in 1..Len(conns[c].out) :
    conns[c].out[i].version = "2" => ~conns[c].out[i].dict.chunked

-----------------------------------------------------------------------------
(***************************************************************************)
(* Behind the executor nothing listens or is about to, unless a task that  *)
(* had failed raised its exception out of __aexit__; then only the tasks   *)
(* behind that one are left.                                               *)
(***************************************************************************)
ExitStopsListening ==
  pc \in {"exited", "raised"} =>
    \A t \in 1..Len(tasks) :
      tasks[t] \in {"starting", "listening", "closing"} =>
        pc = "raised" /\ \E f \in 1..(t - 1) : tasks[f] = "failed"

(***************************************************************************)
(* main goes on while it can, and a task that was cancelled ends when      *)
(* wait_closed lets it.  Nothing is assumed of the connections.            *)
(***************************************************************************)
FairSpec == Spec /\ WF_vars(Main) /\ WF_vars(ServingTask)

\* A task that cannot end, because wait_closed waits for its connections.
Held(t) ==
  /\ program.waits /\ tasks[t] = "closing"
  /\ \E c \in Conns : IsOpen(c) /\ conns[c].task = t

(***************************************************************************)
(* Leaving the executor comes to an end, and the only thing it may wait    *)
(* for is a connection that stays open: gather waits while every port has  *)
(* one, __aexit__ while the port it has come to has one, whether its task  *)
(* was cancelled once or twice.  The connections of other ports delay      *)
(* nothing.                                                                *)
(***************************************************************************)
ExitCompletes ==
  <>[](/\ pc = "cancelled" => \A t \in 1..Len(tasks) : Held(t)
       /\ pc = "exit" => at <= Len(tasks) /\ Held(at))
=============================================================================
