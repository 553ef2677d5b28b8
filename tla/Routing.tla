------------------------------- MODULE Routing -------------------------------
(***************************************************************************)
(* The tries of a Server: where a path leads, what a registration adds.    *)
(*                                                                         *)
(* A path is its first character and the pieces of path[1:].split("/"): "/" *)
(* is [first |-> "/", rest |-> <<"">>], "/a/b" has the rest <<"a", "b">>.  *)
(* The code drops the first character unseen; "x" stands for any other     *)
(* than "/", and "" for that of the empty path.                            *)
(***************************************************************************)
EXTENDS Integers, Sequences, SequencesExt

CONSTANTS
  Pieces,            \* what stands between the slashes of a path
  ForbiddenPieces    \* those that contain one of FORBIDDEN_PATHS

ASSUME PiecesAssumption == "" \in Pieces

None == "none"       \* no endpoint, and other values that are None

\* "".split("/") has one piece too.
Path == [first : {"/", "x", ""}, rest : Seq(Pieces) \ {<<>>}]

Root == <<"">>

\* next_path, without its slash.
Remain(rest) == IF Len(rest) > 1 THEN Tail(rest) ELSE Root

\* The children on the way from a node, for a path that starts with a slash.
Steps[rest \in Seq(Pieces)] ==
  IF rest = Root THEN <<>> ELSE <<Head(rest)>> \o Steps[Remain(rest)]

\* Mutant: a path is only split, so that "/a/" and "/a" are two nodes.
SplitWay(path) == path.rest
\* The root is compared with the whole path, slash included.
Way(path) == IF path.first = "/" THEN Steps[path.rest]
             ELSE <<Head(path.rest)>> \o Steps[Remain(path.rest)]

\* A node is the way to it; the trie maps every node it has to its endpoint.
EmptyTrie == [node \in {<<>>} |-> None]

\* TrieNode.find: a missing child ends the search.
Search(trie, path) == IF Way(path) \in DOMAIN trie THEN trie[Way(path)] ELSE None

\* TrieNode.validate_path
IsValid(path) == path.first # "" /\ ForbiddenPieces \cap ToSet(path.rest) = {}

\* TrieNode.add of a valid path: the nodes on the way are created.
Add(trie, path, endpoint) ==
  [node \in DOMAIN trie \cup Prefixes(Way(path)) |->
     IF node = Way(path) THEN endpoint
     ELSE IF node \in DOMAIN trie THEN trie[node] ELSE None]

-----------------------------------------------------------------------------
Methods == {"GET", "POST", "DELETE", "PUT", "HEAD"}

\* Server.__init__
NoRoutes == [method \in Methods |-> EmptyTrie]

\* The loop of route() ends at the first method without a trie.
Reached(methods) ==
  {methods[i] : i \in {j \in 1..Len(methods) : \A k \in 1..j : methods[k] \in Methods}}

(***************************************************************************)
(* Server.route for one endpoint: the path is refused before the first     *)
(* node is made, an unknown method only when the ones before it are there. *)
(***************************************************************************)
Register(context, route) ==
  [method \in Methods |->
     IF method \in Reached(route.methods) /\ IsValid(route.path)
     THEN Add(context[method], route.path, route.endpoint)
     ELSE context[method]]
=============================================================================
