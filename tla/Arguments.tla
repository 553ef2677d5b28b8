------------------------------ MODULE Arguments ------------------------------
(***************************************************************************)
(* What an endpoint is called with: the parameter stores of a connection   *)
(* and of a request, and ArgumentResolver over the two.                    *)
(*                                                                         *)
(* An object is its type, its connection, and the number of its request    *)
(* (0 for the connection itself).  All of them are true in an "if".        *)
(***************************************************************************)
EXTENDS Integers, Functions

Absent == [type |-> "NoneType", conn |-> 0, number |-> 0]

Object(type, c, number) == [type |-> type, conn |-> c, number |-> number]

\* ParameterStore.__init__
EmptyStore == [params |-> <<>>, byType |-> <<>>]

\* ParameterStore.add_param
AddParam(store, name, object) ==
  LET typed == IF object.type \in DOMAIN store.byType THEN store.byType[object.type]
               ELSE <<>>
      with(params) == [n \in DOMAIN params \cup {name} |->
                         IF n = name THEN object ELSE params[n]]
  IN [params |-> with(store.params),
      byType |-> [t \in DOMAIN store.byType \cup {object.type} |->
                    IF t = object.type THEN with(typed) ELSE store.byType[t]]]

Lookup(params, name) == IF name \in DOMAIN params THEN params[name] ELSE Absent

\* ParameterStore.find_param and find_param_with_type
FindParam(store, name) == Lookup(store.params, name)
FindTyped(store, name, type) ==
  IF type \in DOMAIN store.byType THEN Lookup(store.byType[type], name) ELSE Absent

Or(object, other) == IF object # Absent THEN object ELSE other

(***************************************************************************)
(* ArgumentResolver.resolve for one parameter of the endpoint: the context *)
(* of the request before that of the connection, and in each the typed     *)
(* entry before the one of that name; type "none" is not annotated.        *)
(***************************************************************************)
Resolve(name, type, connection, request) ==
  LET typed(store) == IF type = "none" THEN Absent ELSE FindTyped(store, name, type)
  IN Or(typed(request), Or(FindParam(request, name),
        Or(typed(connection), FindParam(connection, name))))

-----------------------------------------------------------------------------
\* HTTP1ConnectionContext and HTTP2ConnectionContext.
ConnectionContext(version, c) ==
  AddParam(EmptyStore, "connection",
           Object(IF version = "2" THEN "Http2Connection" ELSE "Http1Connection", c, 0))

\* Mutant: one context of requests for the whole connection.
RequestContextOnce(version, c, number) ==
  AddParam(EmptyStore, IF version = "2" THEN "stream" ELSE "http_request",
           Object(IF version = "2" THEN "Http2Stream" ELSE "Http1Request", c, 1))
\* HTTP1RequestContext; HTTP2RequestContext, whose request is no parameter.
RequestContext(version, c, number) ==
  AddParam(EmptyStore, IF version = "2" THEN "stream" ELSE "http_request",
           Object(IF version = "2" THEN "Http2Stream" ELSE "Http1Request", c, number))
=============================================================================
