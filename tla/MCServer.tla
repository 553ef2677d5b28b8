------------------------------ MODULE MCServer ------------------------------
(***************************************************************************)
(* The programs of ServerProcess for TLC: each group asks one question of  *)
(* few servers, clients and requests, so that their states add up instead  *)
(* of multiplying.                                                         *)
(***************************************************************************)
EXTENDS ServerProperties, TLC

Plainly(chars, bytes) == [result |-> "response", dict |-> "own", type |-> "none",
                          media |-> "other", body |-> [chars |-> chars, bytes |-> bytes]]
Streaming(media) == [result |-> "stream", dict |-> "own", type |-> "none",
                     media |-> media, body |-> NoBody]

AllEndpoints ==
  [ one      |-> Plainly(1, 1),
    two      |-> [Plainly(2, 2) EXCEPT !.type = "json"],
    wide     |-> Plainly(1, 2),
    empty    |-> Plainly(0, 0),
    fails    |-> [Plainly(1, 1) EXCEPT !.result = "raise"],
    mistyped |-> [Plainly(1, 1) EXCEPT !.type = "event"],
    stream   |-> Streaming("event"),
    audio    |-> Streaming("other"),
    radio    |-> [Streaming("other") EXCEPT !.type = "event"],
    again    |-> [Plainly(1, 1) EXCEPT !.dict = "shared"],
    anew     |-> [Plainly(2, 2) EXCEPT !.dict = "shared"],
    blank    |-> [Plainly(0, 0) EXCEPT !.dict = "shared"],
    live     |-> [Streaming("event") EXCEPT !.dict = "shared"] ]

AllParams == [http_request |-> "HttpRequest", http_response |-> "HttpResponse",
              connection |-> "Http1Connection", stream |-> "none"]

To(first, rest) == [first |-> first, rest |-> rest]
Asked(method, path) == [method |-> method, path |-> path,
                        general |-> [method |-> None, path |-> NoPath,
                                   protocol |-> None]]
For(server, path, methods, endpoint) ==
  [server |-> server, path |-> path, methods |-> methods, endpoint |-> endpoint]

Listening(port, hostname, certs) == [port |-> port, hostname |-> hostname, certs |-> certs]
PlainServer == Listening(80, NoName, Plaintext)
Visitor(port, tls, sni, version) == [port |-> port, tls |-> tls, sni |-> sni,
                                     version |-> version]
Visitors == {Visitor(80, FALSE, NoName, v) : v \in {"1", "1.1", "2"}}
First(clients) == [c \in Conns |-> IF c = 1 THEN clients ELSE {}]

NoProgram == [servers |-> <<PlainServer>>, routes |-> <<>>, clients |-> First(Visitors),
              requests |-> {}, limit |-> 1, taken |-> {}, waits |-> FALSE, stops |-> FALSE]

-----------------------------------------------------------------------------
(* Two registrations, and every path that might lead to one of them.       *)

Slash == To("/", Root)
A     == To("/", <<"a">>)
Paths == {Slash, A, To("/", <<"a", "">>), To("/", <<"a", "b">>), To("/", <<"", "">>),
          To("x", <<"">>), To("x", <<"a">>), To("x", <<"a", "">>), To("", <<"">>)}

FirstRoutes == {For(1, path, <<"GET">>, "one") : path \in Paths}
               \cup {For(1, A, <<"POST", "PATCH", "GET">>, "one"), For(2, A, <<"GET">>, "one")}
SecondRoutes == {For(1, path, <<"GET", "POST">>, "empty") : path \in Paths}
                \cup {For(1, To("/", <<"a", "b.c">>), <<"GET">>, "empty")}

RoutingPrograms ==
  {[NoProgram EXCEPT !.servers = <<PlainServer, PlainServer>>,
                     !.routes = <<first, second>>,
                     !.requests = {Asked("GET", path) : path \in Paths}
                                  \cup {Asked("POST", A), Asked("PATCH", A),
                                        [Asked("GET", A) EXCEPT !.general.path = Slash],
                                        [Asked("GET", A) EXCEPT !.general.protocol = "other"]}] :
     first \in FirstRoutes, second \in SecondRoutes}

-----------------------------------------------------------------------------
(* Three servers of one secure port, or of a plain one.                    *)

Hosts == {Listening(443, hostname, certs) :
            hostname \in {NoName, "a.com", "b.com"}, certs \in {Plaintext, <<"a.com">>}}
         \cup {Listening(443, "a.com", <<>>), Listening(443, "b.com", <<"b.com", "a.com">>),
               Listening(443, DEFAULT, <<"b.com">>)}
HostPrograms ==
  {[NoProgram EXCEPT !.servers = <<one, two, three>>,
                     !.clients = First({Visitor(443, tls, sni, "1.1") : tls \in BOOLEAN,
                                        sni \in {NoName, DEFAULT, "a.com", "b.com"}})] :
     one \in Hosts, two \in Hosts,
     three \in {Listening(443, "a.com", Plaintext), Listening(443, "b.com", <<"b.com">>)}}

-----------------------------------------------------------------------------
(* Responses: each endpoint alone, and those with a common dict, on two    *)
(* connections at once.                                                    *)

Named(name) == To("/", <<name>>)
Serving(names) ==
  LET list == SetToSeq(names)
  IN [i \in 1..Len(list) |-> For(1, Named(list[i]), <<"GET", "HEAD">>, list[i])]

ResponsePrograms ==
  {[NoProgram EXCEPT !.routes = Serving(names), !.limit = 2,
                     !.requests = {Asked(method, Named(name)) :
                                     name \in names, method \in {"GET", "HEAD"}}] :
     names \in {{name, "two"} : name \in DOMAIN AllEndpoints}}
  \cup
  {[NoProgram EXCEPT !.routes = Serving(names), !.limit = 2,
                     !.clients = [c \in Conns |-> Visitors],
                     !.requests = UNION {{Asked("GET", Named(name)),
                                          [Asked("GET", Named(name)) EXCEPT !.general.protocol = "1.1"]} :
                                            name \in names}] :
     names \in {{"one", "two"}, {"again", "anew"}, {"again", "live"},
                {"anew", "blank"}, {"again", "anew", "live"}, {"stream", "fails"}}}

-----------------------------------------------------------------------------
(* The executor: three ports, of which some cannot be served.              *)

Secure(port, certs) == Listening(port, "a.com", certs)
ExecutorPrograms ==
  {[NoProgram EXCEPT !.servers = <<PlainServer, second, Listening(8080, NoName, Plaintext)>>,
                     !.clients = First({Visitor(80, FALSE, NoName, "2"),
                                        Visitor(443, TRUE, NoName, "1.1"),
                                        Visitor(8080, FALSE, NoName, "1.1")}),
                     !.requests = {Asked("GET", A), Asked("PATCH", A)},
                     !.taken = taken, !.waits = waits, !.stops = TRUE] :
     second \in {Secure(443, <<>>), Secure(443, <<"a.com">>)},
     taken \in {{}, {80}, {8080}, {443, 8080}}, waits \in BOOLEAN}

AllPrograms == RoutingPrograms \cup HostPrograms \cup ResponsePrograms \cup ExecutorPrograms
=============================================================================
