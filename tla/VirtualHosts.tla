---------------------------- MODULE VirtualHosts ----------------------------
(***************************************************************************)
(* The servers of one port: IntegratedServer with the certificates         *)
(* AsyncServerExecutor collects for it, the choice of a certificate in the *)
(* handshake, and the choice of a server behind it.                        *)
(*                                                                         *)
(* A certificate is the server that declared it and the name it is for.    *)
(***************************************************************************)
EXTENDS Integers, Sequences, Functions

CONSTANT
  Names   \* host names: of servers, of certificates, in a client's hello

NoName == "none"         \* hostname = None, a hello without a name
DEFAULT == "DEFAULT"     \* IntegratedServer.DEFAULT_SERVER
NoServer == 0
NoCert == [server |-> 0, name |-> NoName]
Plaintext == <<"no ssl_config">>

\* A Server as the application creates it: certs are the names of its
\* SSLConfig, in the order they were added.
Server == [port : Nat, hostname : Names \cup {NoName, DEFAULT},
           certs : Seq(Names) \cup {Plaintext}]

\* IntegratedServer.__init__ and IntegrateSSLConfig.__init__; secure is whether
\* the latter has become the ssl_config of the former.
NewIntegratedServer(port) ==
  [port |-> port, servers |-> <<>>, secure |-> FALSE, store |-> <<>>, default |-> NoCert]

With(f, key, value) == [k \in DOMAIN f \cup {key} |-> IF k = key THEN value ELSE f[k]]

\* IntegratedServer.add_server: the first one is also the default.
AddServer(servers, hostname, s) ==
  With(IF DEFAULT \in DOMAIN servers THEN servers ELSE With(servers, DEFAULT, s), hostname, s)

\* Mutant: the config is only handed over by a server that is the first one.
SecuresFirst(integrated, server) ==
  integrated.secure \/ (server.certs # Plaintext /\ integrated.servers = <<>>)
\* "if not server.ssl_config: return", else the config is handed over.
Secures(integrated, server) == integrated.secure \/ server.certs # Plaintext

\* The names in the SSLContextStore of a server.
OwnNames(server) == IF server.certs = Plaintext THEN {} ELSE Range(server.certs)

\* AsyncServerExecutor._composite_ssl_config
Composite(integrated, s, server) ==
  LET own == OwnNames(server)
  IN [integrated EXCEPT
        !.servers = AddServer(@, server.hostname, s),
        !.secure  = Secures(integrated, server),
        !.store   = [name \in DOMAIN @ \cup own |->
                       IF name \in own THEN [server |-> s, name |-> name] ELSE @[name]],
        !.default = IF @ = NoCert /\ own # {} THEN [server |-> s, name |-> Head(server.certs)]
                    ELSE @]

\* set_servername_callback is called on the default context, which may be None.
CanListen(integrated) == integrated.secure => integrated.default # NoCert

\* IntegrateSSLConfig.sni_callback
Certificate(integrated, sni) ==
  IF sni \in DOMAIN integrated.store THEN integrated.store[sni] ELSE integrated.default

\* Mutant: a name that no server has falls back to the default server.
FindServerOrDefault(integrated, sni) ==
  IF sni # NoName /\ sni \in DOMAIN integrated.servers THEN integrated.servers[sni]
  ELSE integrated.servers[DEFAULT]
\* The lookup of IntegratedServer.handle_request.
FindServer(integrated, sni) ==
  IF sni = NoName THEN integrated.servers[DEFAULT]
  ELSE IF sni \in DOMAIN integrated.servers THEN integrated.servers[sni] ELSE NoServer
=============================================================================
