---------------------------- MODULE AnswerProofs ----------------------------
(***************************************************************************)
(* Proofs about what an endpoint is called for and what its response looks *)
(* like on the wire, for every program: for any number of registrations,   *)
(* any paths and any responses, on any number of connections.              *)
(***************************************************************************)
EXTENDS ServerProofs, FiniteSetTheorems, SequenceTheorems

-----------------------------------------------------------------------------
(* The way to a node is the path without the slash at its end.             *)

\* The empty piece, under a name: a text without characters is one of the few
\* constants that the translation to SMT does not know.
Blank == ""

\* What str.split returns.
Rests == Seq(Pieces) \ {<<>>}

LEMMA BlankPiece == Blank \in Pieces /\ Root = <<Blank>>
  BY PiecesAssumption DEF Blank, Root

\* Without the slash it may end with.
Cut(rest) == IF rest[Len(rest)] = Blank THEN SubSeq(rest, 1, Len(rest) - 1) ELSE rest

\* The equation of Steps.
FollowsSteps(walk) ==
  walk = [rest \in Seq(Pieces) |->
            IF rest = Root THEN <<>> ELSE <<Head(rest)>> \o walk[Remain(rest)]]

\* A sequence of one element.
LEMMA Singleton ==
  ASSUME NEW S, NEW x \in S
  PROVE  /\ <<x>> \in Seq(S) /\ Len(<<x>>) = 1 /\ <<x>>[1] = x /\ Head(<<x>>) = x
         /\ <<x>> \o <<>> = <<x>> /\ <<x>> # <<>>
<1>1. <<x>> \in Seq(S) /\ Len(<<x>>) = 1 /\ <<x>>[1] = x /\ Head(<<x>>) = x /\ Len(<<>>) = 0
  OBVIOUS
<1> QED BY <1>1, ConcatEmptySeq

\* The root is the one path of a single empty piece.
LEMMA RootOnly ==
  /\ Root \in Rests /\ Len(Root) = 1 /\ Root[1] = Blank /\ Head(Root) = Blank /\ Cut(Root) = <<>>
  /\ Remain(Root) = Root
  /\ \A rest \in Rests : Len(rest) = 1 /\ rest[1] = Blank => rest = Root
<1>1. /\ Root \in Seq(Pieces) /\ Len(Root) = 1 /\ Root[1] = Blank /\ Head(Root) = Blank
      /\ Root # <<>>
  BY BlankPiece, Singleton
<1> HIDE DEF Root
<1>3. Cut(Root) = <<>>
  <2>1. SubSeq(Root, 1, 1 - 1) = <<>>
    BY SubSeqEmpty
  <2> QED BY <1>1, <2>1 DEF Cut
<1>4. Remain(Root) = Root
  <2> DEFINE n == Len(Root)
  <2>1. n = 1
    BY <1>1
  <2>2. ~(n > 1)
    BY <2>1
  <2> QED BY <2>2 DEF Remain
<1>5. ASSUME NEW rest \in Seq(Pieces), Len(rest) = 1, rest[1] = Blank PROVE rest = Root
  <2>1. \A i \in 1..1 : i = 1
    OBVIOUS
  <2>2. \A i \in 1..Len(rest) : rest[i] = Root[i]
    BY <1>1, <1>5, <2>1
  <2> QED BY <1>1, <1>5, <2>2, SeqEqual
<1> QED BY <1>1, <1>3, <1>4, <1>5 DEF Rests

\* A path is its first piece and what follows, which ends in the same piece.
LEMMA RestParts ==
  ASSUME NEW rest \in Rests
  PROVE  /\ rest \in Seq(Pieces) /\ Len(rest) \in Nat \ {0} /\ Head(rest) = rest[1]
         /\ rest[1] \in Pieces
         /\ Len(rest) > 1 =>
              /\ Tail(rest) \in Rests /\ Len(Tail(rest)) = Len(rest) - 1
              /\ Tail(rest)[Len(Tail(rest))] = rest[Len(rest)]
              /\ \A n \in 1..Len(rest) :
                   <<rest[1]>> \o SubSeq(Tail(rest), 1, n - 1) = SubSeq(rest, 1, n)
<1>1. rest \in Seq(Pieces) /\ rest # <<>>
  BY DEF Rests
<1>2. Len(rest) \in Nat \ {0} /\ Head(rest) = rest[1]
  BY <1>1, EmptySeq
<1>3. /\ Tail(rest) \in Seq(Pieces) /\ Len(Tail(rest)) = Len(rest) - 1
      /\ \A i \in 1..Len(Tail(rest)) : Tail(rest)[i] = rest[i + 1]
  BY <1>1, HeadTailProperties
<1>4. rest[1] \in Pieces
  BY <1>1, <1>2, ElementOfSeq
<1>5. ASSUME Len(rest) > 1
      PROVE  Tail(rest) \in Rests /\ Tail(rest)[Len(Tail(rest))] = rest[Len(rest)]
  <2>1. Tail(rest) # <<>>
    <3>1. Len(Tail(rest)) # 0
      BY <1>2, <1>3, <1>5
    <3>2. Len(<<>>) = 0
      OBVIOUS
    <3> QED BY <3>1, <3>2
  <2> QED BY <1>2, <1>3, <1>5, <2>1 DEF Rests
<1>6. ASSUME NEW n \in 1..Len(rest)
      PROVE  <<rest[1]>> \o SubSeq(Tail(rest), 1, n - 1) = SubSeq(rest, 1, n)
  <2> DEFINE first == <<rest[1]>>
             other == SubSeq(Tail(rest), 1, n - 1)
             both == SubSeq(rest, 1, n)
  <2>1. /\ other \in Seq(Pieces) /\ Len(other) = n - 1
        /\ \A i \in 1..(n - 1) : other[i] = rest[i + 1]
    <3>1. \A i \in 1..(n - 1) : Tail(rest)[i] = rest[i + 1] /\ rest[i + 1] \in Pieces
      BY <1>1, <1>2, <1>3, <1>6, ElementOfSeq
    <3>2. /\ other \in Seq(Pieces) /\ Len(other) = IF 1 <= n - 1 THEN n - 1 ELSE 0
          /\ \A i \in 1..(n - 1) : other[i] = Tail(rest)[i]
      <4>1. 1 \in Int /\ n - 1 \in Int /\ \A i \in 1..(n - 1) : Tail(rest)[i] \in Pieces
        BY <1>6, <3>1
      <4> QED BY <4>1, SubSeqProperties
    <3> QED BY <1>6, <3>1, <3>2
  <2>2. /\ both \in Seq(Pieces) /\ Len(both) = n /\ \A i \in 1..n : both[i] = rest[i]
    <3>1. \A i \in 1..n : rest[i] \in Pieces
      BY <1>1, <1>2, <1>6, ElementOfSeq
    <3>2. /\ both \in Seq(Pieces) /\ Len(both) = IF 1 <= n THEN n - 1 + 1 ELSE 0
          /\ \A i \in 1..(n - 1 + 1) : both[i] = rest[1 + i - 1]
      BY <1>2, <1>6, <3>1, SubSeqProperties
    <3> QED BY <1>6, <3>2
  <2>3. first \in Seq(Pieces) /\ Len(first) = 1 /\ first[1] = rest[1]
    BY <1>4
  <2> HIDE DEF first, other, both
  <2>4. /\ first \o other \in Seq(Pieces) /\ Len(first \o other) = 1 + (n - 1)
        /\ \A i \in 1..(1 + (n - 1)) :
             (first \o other)[i] = IF i <= 1 THEN first[i] ELSE other[i - 1]
    <3>1. /\ first \o other \in Seq(Pieces) /\ Len(first \o other) = Len(first) + Len(other)
          /\ \A i \in 1..(Len(first) + Len(other)) : (first \o other)[i] =
               IF i <= Len(first) THEN first[i] ELSE other[i - Len(first)]
      <4>1. other \in Seq(Pieces) /\ first \in Seq(Pieces)
        BY <2>1, <2>3
      <4> QED BY <4>1, ConcatProperties
    <3>2. Len(first) = 1 /\ Len(other) = n - 1
      BY <2>1, <2>3
    <3> QED BY <3>1, <3>2
  <2>5. ASSUME NEW i \in 1..n PROVE (first \o other)[i] = both[i]
    <3>1. CASE i = 1
      BY <1>2, <1>6, <2>2, <2>3, <2>4, <3>1
    <3>2. CASE i > 1
      <4>1. i - 1 \in 1..(n - 1) /\ (i - 1) + 1 = i
        BY <1>6, <3>2
      <4>2. other[i - 1] = rest[i]
        BY <2>1, <4>1
      <4> QED BY <1>6, <2>2, <2>4, <3>2, <4>2
    <3>3. i = 1 \/ i > 1
      <4>1. i \in Int /\ 1 <= i
        BY <2>5
      <4> QED BY <4>1
    <3> QED BY <3>1, <3>2, <3>3
  <2>6. Len(first \o other) = Len(both)
    BY <1>6, <2>2, <2>4
  <2>7. first \o other = both
    BY <2>2, <2>4, <2>5, <2>6, SeqEqual
  <2> QED BY <2>7 DEF first, other, both
<1> QED BY <1>1, <1>2, <1>3, <1>4, <1>5, <1>6

\* One turn of Steps does what Cut says.
LEMMA CutStep ==
  ASSUME NEW rest \in Rests, rest # Root
  PROVE  /\ Remain(rest) \in Rests
         /\ Len(rest) = 1 => Remain(rest) = Root
         /\ Len(rest) # 1 => Len(Remain(rest)) < Len(rest)
         /\ <<Head(rest)>> \o Cut(Remain(rest)) = Cut(rest)
<1>1. CASE Len(rest) = 1
  <2>1. Remain(rest) = Root /\ Root \in Rests /\ Cut(Root) = <<>>
    <3>1. ~(Len(rest) > 1)
      BY <1>1
    <3> QED BY <3>1, RootOnly DEF Remain
  <2>2. rest[1] # Blank /\ Head(rest) = rest[1] /\ rest \in Seq(Pieces) /\ rest[1] \in Pieces
    BY <1>1, RestParts, RootOnly
  <2>3. Cut(rest) = rest
    BY <1>1, <2>2 DEF Cut
  <2>4. <<rest[1]>> \o <<>> = rest
    <3> DEFINE first == <<rest[1]>>
    <3>1. /\ first \in Seq(Pieces) /\ Len(first) = 1 /\ first[1] = rest[1]
          /\ first \o <<>> = first
      BY <2>2, Singleton
    <3> HIDE DEF first
    <3>2. first = rest
      <4>1. \A i \in 1..Len(first) : first[i] = rest[i]
        BY <3>1
      <4> QED BY <1>1, <2>2, <3>1, <4>1, SeqEqual
    <3> QED BY <3>1, <3>2 DEF first
  <2> QED BY <1>1, <2>1, <2>2, <2>3, <2>4
<1>2. CASE Len(rest) # 1
  <2> DEFINE n == Len(rest)
             tail == Tail(rest)
  <2>1. /\ rest \in Seq(Pieces) /\ n \in Nat /\ n > 1 /\ Head(rest) = rest[1]
        /\ tail \in Rests /\ Len(tail) = n - 1 /\ tail[Len(tail)] = rest[n]
        /\ \A m \in 1..n : <<rest[1]>> \o SubSeq(tail, 1, m - 1) = SubSeq(rest, 1, m)
    BY <1>2, RestParts
  <2>2. Remain(rest) = tail
    BY <2>1 DEF Remain
  <2> HIDE DEF tail, n
  <2>3. CASE rest[n] = Blank
    <3>1. Cut(tail) = SubSeq(tail, 1, (n - 1) - 1) /\ Cut(rest) = SubSeq(rest, 1, n - 1)
      BY <2>1, <2>3 DEF Cut, n
    <3>2. <<rest[1]>> \o SubSeq(tail, 1, (n - 1) - 1) = SubSeq(rest, 1, n - 1)
      <4>1. n - 1 \in 1..n
        BY <2>1
      <4> QED BY <2>1, <4>1
    <3> QED BY <1>2, <2>1, <2>2, <3>1, <3>2 DEF n
  <2>4. CASE rest[n] # Blank
    <3>1. Cut(tail) = tail /\ Cut(rest) = rest
      BY <2>1, <2>4 DEF Cut, n
    <3>2. SubSeq(tail, 1, n - 1) = tail /\ SubSeq(rest, 1, n) = rest
      BY <2>1, SubSeqFull DEF n, Rests
    <3>3. n \in 1..n
      BY <2>1
    <3> QED BY <1>2, <2>1, <2>2, <3>1, <3>2, <3>3 DEF n
  <2> QED BY <2>3, <2>4
<1> QED BY <1>1, <1>2

\* The equation has a solution, so that Steps is one.
LEMMA StepsFollow == FollowsSteps(Steps)
<1> DEFINE walk == [rest \in Seq(Pieces) |-> IF rest = <<>> THEN <<Head(rest)>> ELSE Cut(rest)]
<1>1. Root \in Rests /\ Cut(Root) = <<>>
  BY RootOnly
<1>2. ASSUME NEW rest \in Seq(Pieces)
      PROVE  walk[rest] = IF rest = Root THEN <<>> ELSE <<Head(rest)>> \o walk[Remain(rest)]
  <2>1. CASE rest = Root
    BY <1>1, <2>1 DEF Rests
  <2>2. CASE rest = <<>>
    <3>1. rest # Root /\ Remain(rest) = Root
      BY <1>1, <2>2 DEF Remain, Rests
    <3>2. walk[Root] = <<>> /\ walk[rest] = <<Head(rest)>>
      BY <1>1, <2>2 DEF Rests
    <3>3. <<Head(rest)>> \o <<>> = <<Head(rest)>>
      OBVIOUS
    <3> QED BY <3>1, <3>2, <3>3
  <2>3. CASE rest \in Rests /\ rest # Root
    <3>1. walk[rest] = Cut(rest) /\ walk[Remain(rest)] = Cut(Remain(rest))
      BY <2>3, CutStep DEF Rests
    <3> QED BY <2>3, <3>1, CutStep
  <2> QED BY <2>1, <2>2, <2>3 DEF Rests
<1>3. FollowsSteps(walk)
  <2> HIDE DEF walk
  <2>1. walk = [rest \in Seq(Pieces) |-> walk[rest]]
    BY DEF walk
  <2> QED BY <1>2, <2>1 DEF FollowsSteps
<1> HIDE DEF walk
<1> QED BY <1>3 DEF FollowsSteps, Steps

\* The strict order of the intervals 0..n is well-founded.
LEMMA SmallestExists ==
  ASSUME NEW S \in SUBSET Nat, S # {}
  PROVE  \E n \in S : \A m \in S : n <= m
<1> DEFINE T == {0..n : n \in S}
<1>1. T \subseteq FiniteSubsetsOf(Nat) /\ T # {}
  <2>1. \A n \in S : 0..n \in SUBSET Nat /\ IsFiniteSet(0..n)
    BY FS_Interval
  <2> QED BY <2>1 DEF FiniteSubsetsOf
<1>2. IsWellFoundedOn(StrictSubsetOrdering(Nat), FiniteSubsetsOf(Nat))
  BY FS_StrictSubsetOrderingWellFounded
<1> HIDE DEF T
<1>3. PICK t \in T : \A u \in T : <<u, t>> \notin StrictSubsetOrdering(Nat)
  BY <1>1, <1>2, WFMin
<1>4. PICK n \in S : t = 0..n
  BY <1>3 DEF T
<1>5. ASSUME NEW m \in S, m < n PROVE FALSE
  <2>1. 0..m \in T
    BY DEF T
  <2>2. 0..m \in SUBSET Nat /\ t \in SUBSET Nat /\ 0..m \subseteq t /\ n \in t /\ n \notin 0..m
    BY <1>4, <1>5
  <2> QED BY <1>3, <2>1, <2>2 DEF StrictSubsetOrdering
<1> QED BY <1>5

\* A shortest path on which they differed would have a shorter one behind its first
\* piece.
LEMMA StepsCut ==
  ASSUME NEW rest \in Rests
  PROVE  Steps[rest] = Cut(rest)
<1> DEFINE Wrong == {r \in Rests : Steps[r] # Cut(r)}
           Lengths == {Len(r) : r \in Wrong}
<1>1. SUFFICES ASSUME Wrong # {} PROVE FALSE
  OBVIOUS
<1>2. Lengths \in SUBSET Nat /\ Lengths # {}
  BY <1>1, RestParts
<1> HIDE DEF Lengths
<1>3. PICK n \in Lengths : \A m \in Lengths : n <= m
  BY <1>2, SmallestExists
<1>4. PICK r \in Wrong : Len(r) = n
  BY <1>3 DEF Lengths
<1>5. r \in Rests /\ r \in Seq(Pieces) /\ Steps[r] # Cut(r) /\ Len(r) \in Nat
  BY <1>4 DEF Rests
<1>6. /\ Steps[r] = IF r = Root THEN <<>> ELSE <<Head(r)>> \o Steps[Remain(r)]
      /\ Steps[Root] = <<>> /\ Cut(Root) = <<>>
  <2>1. Root \in Seq(Pieces) /\ Cut(Root) = <<>>
    BY RootOnly DEF Rests
  <2> QED BY <1>5, <2>1, StepsFollow DEF FollowsSteps
<1>7. r # Root /\ Steps[Remain(r)] # Cut(Remain(r)) /\ Remain(r) \in Rests
  BY <1>5, <1>6, CutStep
<1>8. Len(r) # 1
  BY <1>5, <1>6, <1>7, CutStep
<1>9. Len(Remain(r)) < Len(r) /\ Len(Remain(r)) \in Lengths
  BY <1>5, <1>7, <1>8, CutStep DEF Lengths
<1>10. Len(Remain(r)) \in Nat
  BY <1>7 DEF Rests
<1> QED BY <1>3, <1>4, <1>5, <1>9, <1>10

(***************************************************************************)
(* TrieNode.find and TrieNode.add lead two paths to one node if and only   *)
(* if they are equal up to a slash at the end: for pieces in any number.   *)
(***************************************************************************)
THEOREM WayIsPlain == \A path \in Path : Way(path) = Plain(path)
<1> SUFFICES ASSUME NEW path \in Path PROVE Way(path) = Plain(path)
  OBVIOUS
<1> DEFINE rest == path.rest
           n == Len(rest)
<1>1. rest \in Rests
  BY DEF Path, Rests
<1>2. /\ Plain(path) = IF rest[n] = Blank /\ (path.first = "/" \/ n > 1)
                       THEN SubSeq(rest, 1, n - 1) ELSE rest
      /\ Cut(rest) = IF rest[n] = Blank THEN SubSeq(rest, 1, n - 1) ELSE rest
  BY DEF Plain, Cut, Blank
<1>3. n \in Nat \ {0}
  BY <1>1, RestParts
<1>4. Way(path) = IF path.first = "/" THEN Steps[rest] ELSE <<Head(rest)>> \o Steps[Remain(rest)]
  BY DEF Way
<1>5. rest # Root => Way(path) = Cut(rest)
  <2> HIDE DEF rest
  <2> QED BY <1>1, <1>4, StepsCut, CutStep
<1>6. CASE path.first = "/"
  <2>1. Way(path) = Cut(rest)
    BY <1>1, <1>4, <1>6, StepsCut
  <2> QED BY <1>2, <1>6, <2>1
<1>7. CASE path.first # "/" /\ n = 1 /\ rest[1] = Blank
  <2>1. rest = Root
    BY <1>1, <1>7, RootOnly
  <2>2. Steps[Root] = <<>> /\ Head(Root) = Blank /\ Remain(Root) = Root
    BY StepsCut, RootOnly
  <2>3. Way(path) = <<Blank>> \o <<>>
    BY <1>4, <1>7, <2>1, <2>2
  <2>4. Way(path) = Root
    BY <2>3, BlankPiece, Singleton
  <2>5. ~(n > 1)
    <3> HIDE DEF n
    <3> QED BY <1>7
  <2>6. Plain(path) = rest
    BY <1>2, <1>7, <2>5
  <2> QED BY <2>1, <2>4, <2>6
<1>8. CASE path.first # "/" /\ ~(n = 1 /\ rest[1] = Blank)
  <2>1. rest # Root
    BY <1>8, RootOnly
  <2> HIDE DEF rest, n
  <2>2. rest[n] = Blank => n > 1
    <3>1. rest[n] = Blank => n # 1
      BY <1>8
    <3> QED BY <1>3, <3>1
  <2> QED BY <1>2, <1>5, <2>1, <2>2
<1> QED BY <1>6, <1>7, <1>8

-----------------------------------------------------------------------------
(* The tries after each registration.                                      *)

\* Where a search leads after an insertion.
LEMMA AddSearch ==
  ASSUME NEW trie, NEW path \in Path, NEW asked \in Path, NEW endpoint
  PROVE  Search(Add(trie, path, endpoint), asked) =
           IF Way(asked) = Way(path) THEN endpoint ELSE Search(trie, asked)
<1>1. Way(path) \in Prefixes(Way(path))
  <2>1. path.rest \in Rests
    BY DEF Path, Rests
  <2>2. Plain(path) \in Seq(Pieces)
    <3> DEFINE rest == path.rest
    <3>1. SubSeq(rest, 1, Len(rest) - 1) \in Seq(Pieces) /\ rest \in Seq(Pieces)
      <4>1. rest \in Seq(Pieces) /\ Len(rest) \in Nat \ {0}
        BY <2>1, RestParts
      <4> HIDE DEF rest
      <4>2. 1 \in Int /\ Len(rest) - 1 \in Int
            /\ \A i \in 1..(Len(rest) - 1) : rest[i] \in Pieces
        BY <4>1, ElementOfSeq
      <4> QED BY <4>1, <4>2, SubSeqProperties
    <3> QED BY <3>1, Zenon DEF Plain
  <2>3. Way(path) \in Seq(Pieces)
    BY <2>2, WayIsPlain
  <2> DEFINE way == Way(path)
  <2> HIDE DEF way
  <2>4. way = SubSeq(way, 1, Len(way)) /\ Len(way) \in Nat
    BY <2>3, SubSeqFull, LenProperties DEF way
  <2>5. Len(way) \in 0..Len(way)
    BY <2>4
  <2> QED BY <2>4, <2>5 DEF Prefixes, way
<1> DEFINE more == Add(trie, path, endpoint)
           nodes == DOMAIN trie \cup Prefixes(Way(path))
<1>2. /\ DOMAIN more = nodes
      /\ \A node \in nodes :
           more[node] = IF node = Way(path) THEN endpoint
                        ELSE IF node \in DOMAIN trie THEN trie[node] ELSE None
  BY DEF Add
<1> HIDE DEF more
<1>3. CASE Way(asked) = Way(path)
  BY <1>1, <1>2, <1>3 DEF Search, more
<1>4. CASE Way(asked) # Way(path)
  BY <1>2, <1>4 DEF Search, more
<1> QED BY <1>3, <1>4

\* A registration leads the paths of its node to its endpoint, and no other.
LEMMA RegisterSearch ==
  ASSUME NEW context, NEW route \in Route, NEW method \in Methods, NEW asked \in Path
  PROVE  Search(Register(context, route)[method], asked) =
           IF /\ method \in Reached(route.methods) /\ IsValid(route.path)
              /\ Plain(route.path) = Plain(asked)
           THEN route.endpoint ELSE Search(context[method], asked)
<1>1. route.path \in Path
  BY DEF Route
<1>2. Register(context, route)[method] =
        IF method \in Reached(route.methods) /\ IsValid(route.path)
        THEN Add(context[method], route.path, route.endpoint) ELSE context[method]
  BY DEF Register
<1> QED BY <1>1, <1>2, AddSearch, WayIsPlain

\* The endpoint of the last of some registrations.
LastOf(routes) == IF routes = {} THEN None ELSE program.routes[Largest(routes)].endpoint

\* The registrations that have been made.
Made == IF pc = "declare" THEN at ELSE Len(program.routes) + 1
RegisteredSoFar(s, method, path) == {i \in Registered(s, method, path) : i < Made}

RoutesFound ==
  \A s \in ServerIds, method \in Methods, path \in Path :
    Search(urlContext[s][method], path) = LastOf(RegisteredSoFar(s, method, path))

LEMMA RegisteredIs ==
  ASSUME NEW s, NEW method, NEW path, NEW i
  PROVE  i \in Registered(s, method, path) <=>
           /\ i \in 1..Len(program.routes) /\ program.routes[i].server = s
           /\ IsValid(program.routes[i].path) /\ Plain(program.routes[i].path) = Plain(path)
           /\ method \in Reached(program.routes[i].methods)
  BY Zenon DEF Registered, Reached

LEMMA FoundInit == Init => RoutesFound
<1> SUFFICES ASSUME Init, NEW s \in ServerIds, NEW method \in Methods, NEW path \in Path
             PROVE  Search(urlContext[s][method], path)
                      = LastOf(RegisteredSoFar(s, method, path))
  BY DEF RoutesFound
<1>1. pc = "declare" /\ at = 1 /\ urlContext[s][method] = EmptyTrie
  BY DEF Init, ServerIds, NoRoutes
<1>2. Search(EmptyTrie, path) = None
  BY DEF Search, EmptyTrie
<1>3. RegisteredSoFar(s, method, path) = {}
  BY <1>1 DEF RegisteredSoFar, Registered, Made
<1> QED BY <1>1, <1>2, <1>3 DEF LastOf

LEMMA FoundDeclare == MainInv /\ RoutesType /\ RoutesFound /\ Declare => RoutesFound'
<1> SUFFICES ASSUME MainInv, RoutesType, RoutesFound, Declare,
                    NEW s \in ServerIds, NEW method \in Methods, NEW path \in Path
             PROVE  (Search(urlContext[s][method], path)
                       = LastOf(RegisteredSoFar(s, method, path)))'
  BY DEF RoutesFound, ServerIds, Declare
<1> DEFINE route == program.routes[at]
           before == RegisteredSoFar(s, method, path)
           all == Registered(s, method, path)
<1>1. /\ program' = program /\ pc' = pc /\ pc = "declare" /\ at' = at + 1
      /\ urlContext' = [urlContext EXCEPT ![route.server] =
                          Register(urlContext[route.server], route)]
      /\ at \in Nat \ {0} /\ at <= Len(program.routes) /\ Len(program.routes) \in Nat
  BY ProgramFields DEF Declare, MainInv, MainType
<1>2. at \in 1..Len(program.routes)
  BY <1>1
<1>3. route \in Route /\ route.server \in ServerIds
  <2>1. program.routes \in Seq(Route) /\ route.server \in ServerIds
    BY <1>2, ProgramFields DEF MainInv, MainType, Program, Route
  <2> QED BY <1>2, <2>1
<1>4. RegisteredSoFar(s, method, path)' = {i \in all : i < at + 1}
  BY <1>1 DEF RegisteredSoFar, Made, Registered
<1>5. before = {i \in all : i < at}
  BY <1>1 DEF RegisteredSoFar, Made
<1>6. all \subseteq 1..Len(program.routes)
  BY RegisteredIs
<1>7. Search(urlContext[s][method], path) = LastOf(before)
  BY DEF RoutesFound
<1> HIDE DEF route, before, all
<1>8. CASE at \in all
  <2>1. /\ route.server = s /\ method \in Reached(route.methods) /\ IsValid(route.path)
        /\ Plain(route.path) = Plain(path)
    BY <1>8, RegisteredIs DEF all, route
  <2>2. urlContext'[s] = Register(urlContext[s], route)
    BY <1>1, <1>3, <2>1 DEF RoutesType
  <2>3. Search(urlContext'[s][method], path) = route.endpoint
    BY <1>3, <2>1, <2>2, RegisterSearch
  <2>4. Largest({i \in all : i < at + 1}) = at
    <3> DEFINE S == {i \in all : i < at + 1}
    <3>1. S \in SUBSET Nat /\ at \in S
      <4>1. at < at + 1 /\ \A i \in all : i \in Nat
        BY <1>1, <1>6
      <4> QED BY <1>8, <4>1
    <3>2. \A i \in S : i <= at
      <4>1. \A i \in Nat : i < at + 1 => i <= at
        BY <1>1
      <4> QED BY <3>1, <4>1
    <3> HIDE DEF S
    <3>3. Largest(S) = at
      BY <3>1, <3>2, LargestIs
    <3> QED BY <3>3 DEF S
  <2>5. {i \in all : i < at + 1} # {}
    BY <1>1, <1>8
  <2>6. LastOf(RegisteredSoFar(s, method, path))' = route.endpoint
    BY <1>1, <1>4, <2>4, <2>5 DEF LastOf, route
  <2> QED BY <2>3, <2>6
<1>9. CASE at \notin all
  <2>1. {i \in all : i < at + 1} = before
    <3>1. \A i \in all : i \in Nat /\ i # at
      BY <1>6, <1>9
    <3>2. \A i \in Nat : i # at => (i < at + 1 <=> i < at)
      BY <1>1
    <3> QED BY <1>5, <3>1, <3>2
  <2>2. Search(urlContext'[s][method], path) = Search(urlContext[s][method], path)
    <3>1. CASE s = route.server
      <4>1. ~(/\ method \in Reached(route.methods) /\ IsValid(route.path)
              /\ Plain(route.path) = Plain(path))
        BY <1>2, <1>9, <3>1, RegisteredIs DEF all, route
      <4>2. urlContext'[s] = Register(urlContext[s], route)
        BY <1>1, <1>3, <3>1 DEF RoutesType
      <4> QED BY <1>3, <4>1, <4>2, RegisterSearch
    <3>2. CASE s # route.server
      BY <1>1, <1>3, <3>2 DEF RoutesType
    <3> QED BY <3>1, <3>2
  <2>3. LastOf(RegisteredSoFar(s, method, path))' = LastOf(before)
    BY <1>1, <1>4, <2>1 DEF LastOf
  <2> QED BY <1>7, <2>2, <2>3
<1> QED BY <1>8, <1>9

LEMMA FoundNext == MainInv /\ RoutesType /\ RoutesFound /\ [Next]_vars => RoutesFound'
<1> SUFFICES ASSUME MainInv, RoutesType, RoutesFound, [Next]_vars PROVE RoutesFound'
  OBVIOUS
<1>1. CASE Declare
  BY <1>1, FoundDeclare
<1>2. CASE ~Declare
  <2>1. /\ UNCHANGED <<program, urlContext>>
        /\ \/ UNCHANGED <<pc, at>>
           \/ pc = "declare" /\ pc' # "declare" /\ at > Len(program.routes)
           \/ pc # "declare" /\ pc' # "declare"
    <3>1. CASE \E c \in Conns : Connection(c)
      BY <3>1, ConnectionKeepsProcess DEF mainVars
    <3>2. CASE Main \/ LeaveRun \/ CancelRun \/ ServingTask \/ Finished \/ UNCHANGED vars
      BY <1>2, <3>2 DEF Main, Declared, AddToExecutor, EnterExecutor, ComposeServer,
           ComposePort, LeaveGather, ExitTask, Exit, LeaveRun, CancelRun, ServingTask,
           Listen, FailToListen, EndServing, Finished, vars, mainVars
    <3> QED BY <3>1, <3>2 DEF Next
  <2>2. ASSUME NEW s \in ServerIds, NEW method \in Methods, NEW path \in Path
        PROVE  RegisteredSoFar(s, method, path)' = RegisteredSoFar(s, method, path)
    <3>1. Registered(s, method, path)' = Registered(s, method, path)
      BY <2>1 DEF Registered
    <3>2. \A i \in Registered(s, method, path) : i \in 1..Len(program.routes)
      BY RegisteredIs
    <3>3. at \in Nat /\ Len(program.routes) \in Nat
      BY ProgramFields DEF MainInv, MainType
    <3>4. \A i \in Registered(s, method, path) : i < Made <=> i < Made'
      BY <2>1, <3>2, <3>3 DEF Made
    <3> QED BY <3>1, <3>4 DEF RegisteredSoFar
  <2> QED BY <2>1, <2>2 DEF RoutesFound, LastOf, ServerIds, Largest
<1> QED BY <1>1, <1>2

-----------------------------------------------------------------------------
(* The endpoint a request has met.                                         *)

\* What of a connection its responses leave alone.
SameCall(old, new) ==
  /\ new.number = old.number /\ new.server = old.server /\ new.version = old.version
  /\ new.request = old.request /\ new.endpoint = old.endpoint
  /\ old.pc \notin {"new", "accepted"} => new.pc \notin {"new", "accepted"}

LEMMA AnswerKeepsCall ==
  ASSUME NEW c \in Conns, NEW conn \in ConnRecord, NEW endpoint, Answer(c, conn, endpoint)
  PROVE  \E next : Update(c, next) /\ SameCall(conn, next)
<1>1. PICK next : /\ Update(c, next)
                  /\ \/ next = Failed(conn)
                     \/ \E dict : next = [conn EXCEPT !.pc = "status", !.dict = dict]
                     \/ \E message : next = [conn EXCEPT !.pc = "idle", !.out = Append(@, message)]
  BY Zenon DEF Answer
<1>2. SameCall(conn, next)
  <2>1. CASE next = Failed(conn)
    BY <2>1 DEF SameCall, Failed, ConnRecord
  <2>2. CASE \E dict : next = [conn EXCEPT !.pc = "status", !.dict = dict]
    BY <2>2 DEF SameCall, ConnRecord
  <2>3. CASE \E message : next = [conn EXCEPT !.pc = "idle", !.out = Append(@, message)]
    BY <2>3 DEF SameCall, ConnRecord
  <2> QED BY <1>1, <2>1, <2>2, <2>3
<1> QED BY <1>1, <1>2

\* The endpoint of a connection is that of the last registration for its request.
Matched(conn) ==
  /\ conn.pc \in {"new", "accepted"} => conn.number = 0
  /\ conn.number > 0 /\ conn.request.method \in Methods =>
       conn.endpoint = LastOf(Registered(conn.server, conn.request.method, conn.request.path))

MatchInv == \A c \in Conns : Matched(conns[c])

\* A step of a connection but Dispatch.
LEMMA MatchKept ==
  ASSUME ServerInv, MatchInv, NEW c \in Conns, NEW next, Update(c, next), Matched(next)
  PROVE  MatchInv'
<1>1. program' = program /\ conns' = [conns EXCEPT ![c] = next] /\ conns \in [Conns -> ConnRecord]
  BY DEF Update, ServerInv, ConnInv
<1>2. ASSUME NEW d \in Conns PROVE Matched(conns[d])'
  <2>1. Matched(conns'[d])
    BY <1>1 DEF MatchInv
  <2> QED BY <1>1, <2>1 DEF Matched, LastOf, Registered
<1> QED BY <1>2 DEF MatchInv

LEMMA SameMatched ==
  ASSUME NEW old, NEW next, Matched(old), SameCall(old, next),
         old.pc \notin {"new", "accepted"}
  PROVE  Matched(next)
  BY DEF Matched, SameCall

LEMMA MatchOther ==
  ASSUME ServerInv, MatchInv, NEW c \in Conns,
         \/ \E t \in 1..Len(tasks), client \in program.clients[c] : Accept(c, t, client)
         \/ HandleRequest(c) \/ Return(c) \/ WriteRest(c) \/ Close(c)
  PROVE  MatchInv'
<1> DEFINE conn == conns[c]
<1>1. conn \in ConnRecord /\ Matched(conn)
  BY DEF ServerInv, ConnInv, MatchInv
<1>2. CASE \E t \in 1..Len(tasks), client \in program.clients[c] : Accept(c, t, client)
  <2>1. PICK next : Update(c, next) /\ next.number = 0
    <3>1. PICK t \in 1..Len(tasks), client \in program.clients[c] : Accept(c, t, client)
      BY <1>2
    <3> DEFINE next == [NewConn EXCEPT
                 !.pc = "accepted", !.task = t, !.version = client.version, !.tls = client.tls,
                 !.sni = IF client.tls THEN client.sni ELSE NoName,
                 !.cert = IF client.tls THEN Certificate(integrated[t], client.sni) ELSE NoCert]
    <3>2. Update(c, next)
      BY <3>1 DEF Accept
    <3>3. next.number = 0
      BY DEF NewConn
    <3> QED BY <3>2, <3>3
  <2>2. Matched(next)
    BY <2>1 DEF Matched
  <2> QED BY <2>1, <2>2, MatchKept
<1>3. CASE HandleRequest(c)
  <2>1. PICK next : Update(c, next) /\ next.number = conn.number /\ conn.pc = "accepted"
    BY <1>1, <1>3 DEF HandleRequest, ConnRecord
  <2>2. Matched(next)
    BY <1>1, <2>1 DEF Matched
  <2> QED BY <2>1, <2>2, MatchKept
<1>4. CASE Return(c) \/ WriteRest(c)
  <2>1. PICK next : Update(c, next) /\ SameCall(conn, next)
    <3>1. CASE Return(c)
      <4>1. \/ Update(c, Failed(conn))
            \/ Answer(c, conn, Endpoints[conn.endpoint])
        BY <3>1 DEF Return
      <4>2. SameCall(conn, Failed(conn))
        BY <1>1 DEF SameCall, Failed, ConnRecord
      <4> QED BY <1>1, <4>1, <4>2, AnswerKeepsCall
    <3>2. CASE WriteRest(c)
      <4>1. \E message : Update(c, [conn EXCEPT !.pc = "idle", !.out = Append(@, message)])
        BY <3>2 DEF WriteRest
      <4>2. ASSUME NEW message
            PROVE  SameCall(conn, [conn EXCEPT !.pc = "idle", !.out = Append(@, message)])
        BY <1>1 DEF SameCall, ConnRecord
      <4> QED BY <4>1, <4>2
    <3> QED BY <1>4, <3>1, <3>2
  <2>2. conn.pc \notin {"new", "accepted"}
    BY <1>4 DEF Return, WriteRest
  <2>3. Matched(next)
    BY <1>1, <2>1, <2>2, SameMatched
  <2> QED BY <2>1, <2>3, MatchKept
<1>5. CASE Close(c)
  <2>1. Update(c, [conn EXCEPT !.pc = "closed"])
    BY <1>5 DEF Close
  <2>2. Matched([conn EXCEPT !.pc = "closed"])
    BY <1>1 DEF Matched, ConnRecord
  <2> QED BY <2>1, <2>2, MatchKept
<1> QED BY <1>2, <1>3, <1>4, <1>5

\* Dispatch finds what was registered last.
LEMMA MatchDispatch ==
  ASSUME ServerInv, RoutesFound, MatchInv, NEW c \in Conns, NEW request \in program.requests,
         Dispatch(c, request)
  PROVE  MatchInv'
<1> DEFINE old == conns[c]
           seen == Seen(old.version, request)
           conn == [old EXCEPT !.number = @ + 1, !.request = seen]
           found == Search(urlContext[conn.server][seen.method], seen.path)
           connection == ConnectionContext(conn.version, c)
           context == RequestContext(conn.version, c, conn.number)
           args == [name \in DOMAIN Params |-> Resolve(name, Params[name], connection, context)]
           unfound == [conn EXCEPT !.endpoint = None]
           called == [conn EXCEPT !.pc = "endpoint", !.endpoint = found, !.args = args]
<1>1. old.pc = "idle" /\ ConnOK(c, old) /\ old \in ConnRecord /\ Placed(old)
  BY DEF Dispatch, ServerInv, ConnInv, ConnOK
<1>2. \/ seen.method \notin Methods /\ Update(c, Failed(unfound))
      \/ seen.method \in Methods /\ found = None /\ Answer(c, unfound, NotFound)
      \/ seen.method \in Methods /\ found # None /\ Update(c, called)
  BY DEF Dispatch
<1>3. pc \notin SetUp /\ old.server # NoServer
  BY <1>1, ConnBehindSetUp DEF Placed, ServerInv
<1>4. old.server \in ServerIds /\ old.version \in {"1", "1.1", "2"} /\ old.number \in Nat
  BY <1>1, <1>3 DEF ConnRecord, ServerIds, NoServer
<1>5. seen \in SeenRequest
  <2>1. request \in Request
    BY ProgramFields DEF ServerInv, HostInv, MainInv, MainType
  <2> QED BY <1>4, <2>1, SeenType
<1>6. seen.path \in Path
  BY <1>5 DEF SeenRequest
<1> HIDE DEF old, seen, args, found
<1>7. /\ conn \in ConnRecord /\ conn.pc = "idle" /\ conn.request = seen
      /\ conn.server = old.server /\ conn.version = old.version
  <2> DEFINE next == old.number + 1
  <2>1. next \in Nat
    BY <1>4
  <2>2. conn = [old EXCEPT !.number = next, !.request = seen]
    BY <1>1 DEF ConnRecord
  <2> HIDE DEF conn, next
  <2> QED BY <1>1, <1>5, <2>1, <2>2 DEF ConnRecord
<1>8. seen.method \in Methods =>
        found = LastOf(Registered(old.server, seen.method, seen.path))
  <2> SUFFICES ASSUME seen.method \in Methods
               PROVE  found = LastOf(Registered(old.server, seen.method, seen.path))
    OBVIOUS
  <2>1. found = LastOf(RegisteredSoFar(old.server, seen.method, seen.path))
    BY <1>4, <1>6, <1>7 DEF RoutesFound, found
  <2>2. \A i \in 1..Len(program.routes) : i < Made
    <3>1. Made = Len(program.routes) + 1
      BY <1>3 DEF Made, SetUp
    <3>2. Len(program.routes) \in Nat
      BY ProgramFields DEF ServerInv, HostInv, MainInv, MainType, Program
    <3> QED BY <3>1, <3>2
  <2>3. RegisteredSoFar(old.server, seen.method, seen.path)
          = Registered(old.server, seen.method, seen.path)
    BY <2>2, RegisteredIs DEF RegisteredSoFar
  <2> QED BY <2>1, <2>3
<1> HIDE DEF conn
<1>9. /\ unfound.pc = "idle" /\ unfound.request = seen /\ unfound.server = old.server
      /\ unfound.endpoint = None /\ unfound \in ConnRecord
      /\ Failed(unfound).pc \notin {"new", "accepted"}
      /\ Failed(unfound).request = seen
  BY <1>7 DEF ConnRecord, Failed, EndpointNames
<1>10. CASE seen.method \notin Methods /\ Update(c, Failed(unfound))
  <2>1. Matched(Failed(unfound))
    BY <1>9, <1>10 DEF Matched
  <2> QED BY <1>10, <2>1, MatchKept
<1>11. CASE seen.method \in Methods /\ found = None /\ Answer(c, unfound, NotFound)
  <2>1. Matched(unfound)
    BY <1>8, <1>9, <1>11 DEF Matched
  <2>2. PICK next : Update(c, next) /\ SameCall(unfound, next)
    BY <1>9, <1>11, AnswerKeepsCall
  <2>3. Matched(next)
    BY <1>9, <2>1, <2>2, SameMatched
  <2> QED BY <2>2, <2>3, MatchKept
<1>12. CASE seen.method \in Methods /\ found # None /\ Update(c, called)
  <2>1. /\ called.pc = "endpoint" /\ called.request = seen /\ called.server = old.server
        /\ called.endpoint = found
    BY <1>7 DEF ConnRecord
  <2> HIDE DEF called
  <2>2. Matched(called)
    BY <1>8, <2>1 DEF Matched
  <2> QED BY <1>12, <2>2, MatchKept
<1> QED BY <1>2, <1>10, <1>11, <1>12

LEMMA MatchNext == ServerInv /\ RoutesFound /\ MatchInv /\ [Next]_vars => MatchInv'
<1> SUFFICES ASSUME ServerInv, RoutesFound, MatchInv, [Next]_vars PROVE MatchInv'
  OBVIOUS
<1>1. CASE \E c \in Conns : Connection(c)
  BY <1>1, MatchOther, MatchDispatch DEF Connection
<1>2. CASE ~\E c \in Conns : Connection(c)
  <2>1. UNCHANGED <<program, conns>>
    BY <1>2 DEF Next, Main, Declare, Declared, AddToExecutor, EnterExecutor, ComposeServer,
         ComposePort, LeaveGather, ExitTask, Exit, LeaveRun, CancelRun, ServingTask,
         Listen, FailToListen, EndServing, Finished, vars, mainVars
  <2>2. ASSUME NEW c \in Conns PROVE Matched(conns[c])'
    <3>1. Matched(conns[c])
      BY DEF MatchInv
    <3> QED BY <2>1, <3>1 DEF Matched, LastOf, Registered
  <2> QED BY <2>2 DEF MatchInv
<1> QED BY <1>1, <1>2

AnswerInv == ServerInv /\ RoutesFound /\ MatchInv

\* The tries hold the registrations made so far, and so did those that the requests
\* were looked up in: the two together are inductive with the invariant of the server.
THEOREM AnswerSafety == Spec => []AnswerInv
<1>1. Init => AnswerInv
  <2>1. Init => MatchInv
    BY DEF Init, MatchInv, Matched, NewConn
  <2> QED BY <2>1, HostInit, ConnInit, FoundInit DEF AnswerInv, ServerInv
<1>2. AnswerInv /\ [Next]_vars => AnswerInv'
  BY HostNext, ConnNext, FoundNext, MatchNext DEF AnswerInv, ServerInv, HostInv
<1> QED BY <1>1, <1>2, PTL DEF Spec

(***************************************************************************)
(* A request is answered by the endpoint registered last, on its own       *)
(* server, for its method and its path up to a slash at the end; with 404  *)
(* if there is none: for any registrations, paths and connections.         *)
(***************************************************************************)
THEOREM RoutesAreFound == Spec => []RoutesMatch
<1>1. AnswerInv => RoutesMatch
  BY DEF AnswerInv, MatchInv, Matched, LastOf, RoutesMatch
<1> QED BY <1>1, AnswerSafety, PTL

-----------------------------------------------------------------------------
(* The ends of the responses.                                              *)

\* The dict of an endpoint that shares none, or that is the first to share it.
FreshDict(endpoint) ==
  IF endpoint.dict = "shared" THEN NoDict ELSE [NoDict EXCEPT !.type = endpoint.type]

\* What Answer makes of a dict.
Converted(protocol, endpoint, dict) ==
  IF protocol = "2" THEN Http2Dict(BuiltDict(endpoint, dict), endpoint.body)
  ELSE ConvertedDict(endpoint, BuiltDict(endpoint, dict))

Neat(message) == IsFramed(message) \/ Careless(message)

\* What it takes, part by part.
LEMMA NeatMessages ==
  ASSUME NEW message
  PROVE  /\ /\ message.endpoint.result = "stream"
            /\ message.dict.chunked = TRUE /\ message.dict.length = NoLength
            => Neat(message)
         /\ /\ message.endpoint.result # "stream" /\ message.dict.chunked = FALSE
            /\ \/ message.dict.length = message.bytes
               \/ message.version = "2" /\ message.dict.length = NoLength
            => Neat(message)
         /\ /\ message.endpoint.result # "stream"
            /\ \/ message.endpoint.body.chars # message.endpoint.body.bytes
               \/ message.version # "2" /\ message.endpoint.body = NoBody
            => Neat(message)
         /\ Mislabelled(message.endpoint) => Neat(message)
<1>1. message.method = "HEAD" \/ Mislabelled(message.endpoint) => Neat(message)
  BY Zenon DEF Neat, Careless
<1>2. /\ message.endpoint.result = "stream"
      /\ message.dict.chunked = TRUE /\ message.dict.length = NoLength
      => Neat(message)
  BY Zenon DEF Neat, IsFramed
<1>3. /\ message.endpoint.result # "stream" /\ message.dict.chunked = FALSE
      /\ message.method # "HEAD"
      /\ \/ message.dict.length = message.bytes
         \/ message.version = "2" /\ message.dict.length = NoLength
      => Neat(message)
  BY Zenon DEF Neat, IsFramed
<1>4. /\ message.endpoint.result # "stream"
      /\ \/ message.endpoint.body.chars # message.endpoint.body.bytes
         \/ message.version # "2" /\ message.endpoint.body = NoBody
      => Neat(message)
  BY Zenon DEF Neat, Careless
<1> QED BY <1>1, <1>2, <1>3, <1>4

\* A response whose dict nobody has used before has an end.
LEMMA FreshNeat ==
  ASSUME NEW endpoint \in Endpoint, NEW version \in {"1", "1.1", "2"}, NEW method,
         NEW protocol, version # "2" => protocol = version,
         version = "2" => endpoint.result # "stream",
         Converts(protocol, BuiltDict(endpoint, FreshDict(endpoint)), endpoint.result)
  PROVE  Neat(Message(version, method, endpoint,
                      Converted(protocol, endpoint, FreshDict(endpoint))))
<1> DEFINE fresh == FreshDict(endpoint)
           built == BuiltDict(endpoint, fresh)
           sent == Converted(protocol, endpoint, fresh)
           message == Message(version, method, endpoint, sent)
<1> SUFFICES Neat(message)
  OBVIOUS
<1>1. /\ fresh.length = NoLength /\ fresh.chunked = FALSE
      /\ fresh.type = IF endpoint.dict = "shared" THEN "none" ELSE endpoint.type
      /\ DOMAIN fresh = {"type", "length", "chunked"}
  BY DEF FreshDict, NoDict
<1>2. /\ message.version = version /\ message.method = method /\ message.endpoint = endpoint
      /\ message.dict = sent
      /\ endpoint.result # "stream" => message.bytes = Bytes(version, endpoint.body)
  BY DEF Message
<1>3. /\ endpoint.body \in Body /\ endpoint.result \in {"response", "stream", "raise"}
      /\ endpoint.media \in {"event", "other"} /\ endpoint.dict \in {"own", "shared"}
  BY DEF Endpoint
<1> HIDE DEF fresh, message, sent, built
<1>4. CASE endpoint.result = "stream"
  <2>1. version # "2" /\ protocol = version /\ built.type = "event"
    BY <1>4 DEF Converts, Converter, ContentType, built, fresh
  <2>2. CASE endpoint.media = "event"
    <3>1. built = [fresh EXCEPT !.type = "event", !.chunked = TRUE]
      BY <1>4, <2>2 DEF built, BuiltDict, StreamDict
    <3>2. sent = [built EXCEPT !.type = "event", !.chunked = TRUE]
      BY <1>4, <2>1, <2>2 DEF sent, built, Converted, ConvertedDict, StreamDict
    <3>3. sent.chunked = TRUE /\ sent.length = NoLength
      BY <1>1, <3>1, <3>2
    <3> QED BY <1>2, <1>4, <3>3, NeatMessages
  <2>3. CASE endpoint.media # "event"
    <3>1. built = fresh
      BY <2>3 DEF built, BuiltDict
    <3>2. endpoint.dict = "own" /\ endpoint.type = "event"
      BY <1>1, <1>3, <2>1, <3>1
    <3>3. Mislabelled(endpoint)
      BY <1>4, <2>3, <3>2 DEF Mislabelled
    <3> QED BY <1>2, <3>3, NeatMessages
  <2> QED BY <2>2, <2>3
<1>5. CASE endpoint.result # "stream"
  <2>1. built = fresh
    BY <1>5 DEF built, BuiltDict
  <2>2. endpoint.result = "response"
    BY <1>5 DEF Converts
  <2>3. CASE endpoint.body.chars # endpoint.body.bytes
               \/ (version # "2" /\ endpoint.body = NoBody)
    BY <1>2, <1>5, <2>3, NeatMessages
  <2>4. CASE endpoint.body.chars = endpoint.body.bytes /\ endpoint.body # NoBody
    <3>1. sent = [fresh EXCEPT !.type = "plain", !.length = endpoint.body.chars]
      BY <2>1, <2>2, <2>4 DEF sent, built, Converted, ConvertedDict, PlainDict, Http2Dict
    <3>2. sent.chunked = FALSE /\ sent.length = endpoint.body.bytes
      BY <1>1, <2>4, <3>1
    <3>3. message.bytes = endpoint.body.bytes
      BY <1>2, <1>5, <2>4 DEF Bytes
    <3> QED BY <1>2, <1>5, <3>2, <3>3, NeatMessages
  <2>5. CASE version = "2" /\ endpoint.body = NoBody
    <3>1. message.bytes = 0
      BY <1>2, <1>5, <2>5 DEF Bytes, NoBody
    <3>2. CASE protocol = "2"
      <4>1. sent = fresh
        BY <2>1, <2>5, <3>2 DEF sent, built, Converted, Http2Dict
      <4> QED BY <1>1, <1>2, <1>5, <2>5, <3>1, <4>1, NeatMessages
    <3>3. CASE protocol # "2"
      <4>1. sent = [fresh EXCEPT !.length = 0]
        BY <2>1, <2>2, <2>5, <3>3 DEF sent, built, Converted, ConvertedDict, PlainDict
      <4>2. sent.chunked = FALSE /\ sent.length = 0
        BY <1>1, <4>1
      <4> QED BY <1>2, <1>5, <3>1, <4>2, NeatMessages
    <3> QED BY <3>2, <3>3
  <2> QED BY <2>3, <2>4, <2>5
<1> QED BY <1>4, <1>5

\* A connection has sent a response with the dict of the application, has begun
\* one, or has ended in one.
SentShared(conn) == \E j \in 1..Len(conn.out) : conn.out[j].endpoint.dict = "shared"
Touched(conn) ==
  \/ SentShared(conn)
  \/ /\ conn.pc \in {"status", "mute", "closed"} /\ conn.number > 0
     /\ Responded(conn).dict = "shared"

OthersTouched(c) == \E d \in Conns \ {c} : Touched(conns[d])

\* The responses of a connection that are out.
SentSettled(c, conn) ==
  \A i \in 1..Len(conn.out) :
    \/ Neat(conn.out[i])
    \/ /\ conn.out[i].endpoint.dict = "shared"
       /\ \/ OthersTouched(c)
          \/ \E j \in 1..Len(conn.out) : j # i /\ conn.out[j].endpoint.dict = "shared"

\* The response it would finish if the dict of the application were this one.
Pending(conn, dict) ==
  Message(conn.version, conn.request.method, Responded(conn),
          IF Responded(conn).dict = "shared" THEN dict ELSE conn.dict)

PendingSettled(c, conn, dict) ==
  conn.pc = "status" =>
    \/ Neat(Pending(conn, dict))
    \/ Responded(conn).dict = "shared" /\ (OthersTouched(c) \/ SentShared(conn))

\* Nothing is sent before a request, and HTTP/1 knows its own protocol only.
Begun(conn) ==
  /\ conn.pc = "new" => conn.out = <<>>
  /\ conn.pc = "endpoint" =>
       conn.number > 0 /\ (conn.version # "2" => conn.request.protocol = conn.version)

FrameInv ==
  /\ (\A c \in Conns : ~Touched(conns[c])) => shared = NoDict
  /\ \A c \in Conns : /\ SentSettled(c, conns[c]) /\ PendingSettled(c, conns[c], shared)
                       /\ Begun(conns[c])

LEMMA FrameInit == Init => FrameInv
<1> SUFFICES ASSUME Init PROVE FrameInv
  OBVIOUS
<1>1. ASSUME NEW c \in Conns
      PROVE  /\ SentSettled(c, conns[c]) /\ PendingSettled(c, conns[c], shared)
             /\ Begun(conns[c])
  <2>1. conns[c].out = <<>> /\ conns[c].pc = "new"
    BY DEF Init, NewConn
  <2> QED BY <2>1 DEF SentSettled, PendingSettled, Begun
<1> QED BY <1>1 DEF FrameInv, Init

\* One connection goes on.
LEMMA FrameStep ==
  ASSUME ServerInv, FrameInv, NEW c \in Conns, NEW next, Update(c, next),
         Touched(conns[c]) => Touched(next), shared' = shared \/ Touched(next),
         SentSettled(c, next), PendingSettled(c, next, shared'), Begun(next)
  PROVE  FrameInv'
<1>1. /\ conns' = [conns EXCEPT ![c] = next] /\ conns \in [Conns -> ConnRecord]
  BY DEF Update, ServerInv, ConnInv
<1>2. conns'[c] = next /\ \A d \in Conns \ {c} : conns'[d] = conns[d]
  BY <1>1
<1>3. OthersTouched(c)' <=> OthersTouched(c)
  <2>1. \A d \in Conns \ {c} : Touched(conns[d])' <=> Touched(conns[d])
    BY <1>2 DEF Touched, SentShared, Responded
  <2> QED BY <2>1 DEF OthersTouched
<1>4. \A d \in Conns : OthersTouched(d) => OthersTouched(d)'
  <2> SUFFICES ASSUME NEW d \in Conns, NEW e \in Conns \ {d}, Touched(conns[e])
               PROVE  OthersTouched(d)'
    BY DEF OthersTouched
  <2>1. Touched(conns'[e])
    BY <1>2
  <2> QED BY <2>1 DEF OthersTouched, Touched, SentShared, Responded
<1>5. (\A d \in Conns : ~Touched(conns'[d])) => shared' = NoDict
  <2> SUFFICES ASSUME \A d \in Conns : ~Touched(conns'[d]) PROVE shared' = NoDict
    OBVIOUS
  <2>1. ~Touched(next) /\ \A d \in Conns : ~Touched(conns[d])
    BY <1>2
  <2> QED BY <2>1 DEF FrameInv
<1>6. ASSUME NEW d \in Conns
      PROVE  SentSettled(d, conns[d])' /\ PendingSettled(d, conns[d], shared)' /\ Begun(conns[d])'
  <2>1. CASE d = c
    <3>1. Begun(conns[d])'
      BY <1>2, <2>1 DEF Begun
    <3>2. SentSettled(d, conns[d])'
      BY <1>2, <1>3, <2>1 DEF SentSettled
    <3>3. PendingSettled(d, conns[d], shared)'
      BY <1>2, <1>3, <2>1 DEF PendingSettled
    <3> QED BY <3>1, <3>2, <3>3
  <2>2. CASE d # c
    <3>1. conns'[d] = conns[d] /\ SentSettled(d, conns[d]) /\ PendingSettled(d, conns[d], shared)
          /\ Begun(conns[d])
      BY <1>2, <2>2 DEF FrameInv
    <3>2. Begun(conns[d])'
      BY <3>1 DEF Begun
    <3>3. SentSettled(d, conns[d])'
      BY <1>4, <3>1 DEF SentSettled
    <3>4. PendingSettled(d, conns[d], shared)'
      <4>1. CASE shared' = shared
        BY <1>4, <3>1, <4>1 DEF PendingSettled
      <4>2. CASE Touched(next)
        <5>1. OthersTouched(d)'
          <6>1. Touched(conns'[c])
            BY <1>2, <4>2
          <6> QED BY <2>2, <6>1 DEF OthersTouched, Touched, SentShared, Responded
        <5>2. Responded(conns[d]).dict # "shared"
                => Pending(conns[d], shared') = Pending(conns[d], shared)
          BY DEF Pending
        <5> QED BY <1>4, <3>1, <5>1, <5>2 DEF PendingSettled
      <4> QED BY <4>1, <4>2
    <3> QED BY <3>2, <3>3, <3>4
  <2> QED BY <2>1, <2>2
<1> QED BY <1>5, <1>6 DEF FrameInv, Touched, SentShared, Responded

\* One response more.
LEMMA SentMore ==
  ASSUME NEW c \in Conns, NEW old, NEW next, NEW message, old.out \in Seq(SentMessage),
         next.out = Append(old.out, message), SentSettled(c, old),
         \/ Neat(message)
         \/ message.endpoint.dict = "shared" /\ (OthersTouched(c) \/ SentShared(old))
  PROVE  /\ SentSettled(c, next)
         /\ SentShared(old) \/ message.endpoint.dict = "shared" => SentShared(next)
<1> DEFINE n == Len(old.out)
<1>1. /\ n \in Nat /\ Len(next.out) = n + 1 /\ next.out[n + 1] = message
      /\ \A i \in 1..n : next.out[i] = old.out[i]
  OBVIOUS
<1> HIDE DEF n
<1>2. /\ \A i \in 1..n : i \in 1..(n + 1) /\ i # n + 1
      /\ \A i \in 1..(n + 1) : i \in 1..n \/ i = n + 1
      /\ n + 1 \in 1..(n + 1)
  BY <1>1
<1>3. ASSUME NEW i \in 1..n
      PROVE  \/ Neat(next.out[i])
             \/ /\ next.out[i].endpoint.dict = "shared"
                /\ \/ OthersTouched(c)
                   \/ \E j \in 1..(n + 1) : j # i /\ next.out[j].endpoint.dict = "shared"
  <2>1. \/ Neat(old.out[i])
        \/ /\ old.out[i].endpoint.dict = "shared"
           /\ \/ OthersTouched(c)
              \/ \E j \in 1..n : j # i /\ old.out[j].endpoint.dict = "shared"
    BY DEF SentSettled, n
  <2>2. next.out[i] = old.out[i] /\ \A j \in 1..n : j \in 1..(n + 1) /\ next.out[j] = old.out[j]
    BY <1>1, <1>2
  <2> QED BY <2>1, <2>2
<1>4. \/ Neat(message)
      \/ /\ message.endpoint.dict = "shared"
         /\ \/ OthersTouched(c)
            \/ \E j \in 1..(n + 1) : j # n + 1 /\ next.out[j].endpoint.dict = "shared"
  BY <1>1, <1>2 DEF SentShared, n
<1>5. SentSettled(c, next)
  BY <1>1, <1>2, <1>3, <1>4 DEF SentSettled
<1>6. SentShared(old) \/ message.endpoint.dict = "shared" => SentShared(next)
  BY <1>1, <1>2 DEF SentShared, n
<1> QED BY <1>5, <1>6

\* Answer leaves a response that is neat, or whose dict has been used before.
LEMMA FrameAnswer ==
  ASSUME ServerInv, FrameInv, NEW c \in Conns, conns[c].pc \in {"idle", "endpoint"},
         NEW conn \in ConnRecord, conn.pc = conns[c].pc, conn.out = conns[c].out,
         conn.number > 0, conn.version # "2" => conn.request.protocol = conn.version,
         NEW endpoint \in Endpoint, Responded(conn) = endpoint, Answer(c, conn, endpoint)
  PROVE  FrameInv'
<1> DEFINE reuses == endpoint.dict = "shared"
           own == [NoDict EXCEPT !.type = endpoint.type]
           dict == IF reuses THEN shared ELSE own
           protocol == conn.request.protocol
           built == BuiltDict(endpoint, dict)
           sent == Converted(protocol, endpoint, dict)
           converts == Converts(protocol, built, endpoint.result)
           message == Message("2", conn.request.method, endpoint, sent)
<1>1. \/ ~converts /\ Update(c, Failed(conn)) /\ shared' = (IF reuses THEN built ELSE shared)
      \/ /\ converts
         /\ shared' = (IF reuses THEN IF protocol = "2" THEN built
                                      ELSE ConvertedDict(endpoint, built)
                       ELSE shared)
         /\ \/ conn.version # "2" /\ Update(c, [conn EXCEPT !.pc = "status", !.dict = sent])
            \/ Update(c, Failed(conn))
            \/ /\ conn.version = "2" /\ endpoint.result # "stream"
               /\ Update(c, [conn EXCEPT !.pc = "idle", !.out = Append(@, message)])
  BY DEF Answer, DictOf, Converted
<1>2. ~reuses => shared' = shared
  BY <1>1
<1>3. /\ conn.version \in {"1", "1.1", "2"} /\ conn.out \in Seq(SentMessage)
      /\ SentSettled(c, conns[c]) /\ SentSettled(c, conn)
  <2>1. SentSettled(c, conns[c])
    BY DEF FrameInv
  <2> QED BY <2>1 DEF ConnRecord, SentSettled
<1>4. Touched(conns[c]) <=> SentShared(conn)
  BY DEF Touched, SentShared
\* The dict has not been used before, or another response shares it.
<1>5. (reuses => OthersTouched(c) \/ SentShared(conn)) \/ dict = FreshDict(endpoint)
  <2>1. CASE reuses /\ ~OthersTouched(c) /\ ~SentShared(conn)
    <3>1. \A d \in Conns : ~Touched(conns[d])
      BY <1>4, <2>1 DEF OthersTouched
    <3>2. shared = NoDict
      BY <3>1 DEF FrameInv
    <3> QED BY <2>1, <3>2 DEF FreshDict
  <2> QED BY <2>1
<1>6. ~reuses => dict = FreshDict(endpoint)
  BY DEF FreshDict
<1>7. ASSUME converts, conn.version = "2" => endpoint.result # "stream"
      PROVE  \/ Neat(Message(conn.version, conn.request.method, endpoint, sent))
             \/ reuses /\ (OthersTouched(c) \/ SentShared(conn))
  <2>1. CASE dict = FreshDict(endpoint)
    <3> HIDE DEF dict
    <3>1. Converts(protocol, BuiltDict(endpoint, FreshDict(endpoint)), endpoint.result)
      BY <1>7, <2>1
    <3>2. conn.version # "2" => protocol = conn.version
      OBVIOUS
    <3> HIDE DEF protocol
    <3>3. Neat(Message(conn.version, conn.request.method, endpoint,
                       Converted(protocol, endpoint, FreshDict(endpoint))))
      BY <1>3, <1>7, <3>1, <3>2, FreshNeat
    <3> QED BY <2>1, <3>3
  <2>2. CASE dict # FreshDict(endpoint)
    BY <1>5, <1>6, <2>2
  <2> QED BY <2>1, <2>2
<1> HIDE DEF sent, built, converts, message, dict, own
<1>8. CASE Update(c, Failed(conn))
  <2> DEFINE next == Failed(conn)
  <2>1. /\ next.pc \in {"mute", "closed"} /\ next.out = conn.out /\ next.number = conn.number
        /\ next.endpoint = conn.endpoint
    BY DEF Failed, ConnRecord
  <2> HIDE DEF next
  <2>2. Responded(next) = endpoint
    BY <2>1 DEF Responded
  <2>3. (SentShared(conn) => Touched(next)) /\ (reuses => Touched(next))
    BY <2>1, <2>2 DEF Touched, SentShared
  <2>4. SentSettled(c, next) /\ PendingSettled(c, next, shared') /\ Begun(next)
    BY <1>3, <2>1 DEF SentSettled, PendingSettled, Begun
  <2>5. Update(c, next)
    BY <1>8 DEF next
  <2> QED BY <1>2, <1>4, <2>3, <2>4, <2>5, FrameStep
<1>9. CASE /\ converts /\ conn.version # "2"
           /\ Update(c, [conn EXCEPT !.pc = "status", !.dict = sent])
           /\ reuses => shared' = sent
  <2> DEFINE next == [conn EXCEPT !.pc = "status", !.dict = sent]
  <2>1. /\ next.pc = "status" /\ next.out = conn.out /\ next.number = conn.number
        /\ next.endpoint = conn.endpoint /\ next.version = conn.version
        /\ next.request = conn.request /\ next.dict = sent
    BY DEF ConnRecord
  <2>2. Update(c, next)
    BY <1>9
  <2> HIDE DEF next
  <2>3. Responded(next) = endpoint
    BY <2>1 DEF Responded
  <2>4. (SentShared(conn) <=> SentShared(next)) /\ (SentShared(conn) => Touched(next))
        /\ (reuses => Touched(next))
    BY <2>1, <2>3 DEF Touched, SentShared
  <2>5. Pending(next, shared') = Message(conn.version, conn.request.method, endpoint, sent)
    BY <1>9, <2>1, <2>3 DEF Pending
  <2>6. PendingSettled(c, next, shared')
    BY <1>7, <1>9, <2>3, <2>4, <2>5 DEF PendingSettled
  <2>7. SentSettled(c, next) /\ Begun(next)
    BY <1>3, <2>1 DEF SentSettled, Begun
  <2> QED BY <1>2, <1>4, <2>2, <2>4, <2>6, <2>7, FrameStep
<1>10. CASE /\ converts /\ conn.version = "2" /\ endpoint.result # "stream"
            /\ Update(c, [conn EXCEPT !.pc = "idle", !.out = Append(@, message)])
  <2> DEFINE next == [conn EXCEPT !.pc = "idle", !.out = Append(@, message)]
  <2>1. next.pc = "idle" /\ next.out = Append(conn.out, message)
    BY DEF ConnRecord
  <2>2. Update(c, next) /\ message.endpoint = endpoint
    BY <1>10 DEF message, Message
  <2> HIDE DEF next
  <2>3. Neat(message) \/ (message.endpoint.dict = "shared" /\ (OthersTouched(c) \/ SentShared(conn)))
    BY <1>7, <1>10, <2>2 DEF message
  <2>4. /\ SentSettled(c, next)
        /\ SentShared(conn) \/ message.endpoint.dict = "shared" => SentShared(next)
    BY <1>3, <2>1, <2>3, SentMore
  <2>5. PendingSettled(c, next, shared') /\ Begun(next)
    BY <2>1 DEF PendingSettled, Begun
  <2> QED BY <1>2, <1>4, <2>2, <2>4, <2>5, FrameStep DEF Touched
<1>11. converts /\ conn.version # "2" /\ reuses /\ ~Update(c, Failed(conn)) => shared' = sent
  <2>1. conn.version # "2" => protocol # "2"
    OBVIOUS
  <2> QED BY <1>1, <2>1 DEF sent, Converted, built
<1> QED BY <1>1, <1>8, <1>9, <1>10, <1>11

\* A step that sends nothing and keeps the dict.
LEMMA FrameQuiet ==
  ASSUME ServerInv, FrameInv, NEW c \in Conns, NEW next, Update(c, next), UNCHANGED shared,
         next.out = conns[c].out, Touched(conns[c]) => Touched(next), next.pc # "status",
         Begun(next)
  PROVE  FrameInv'
<1>1. SentSettled(c, next)
  BY DEF FrameInv, SentSettled
<1>2. PendingSettled(c, next, shared')
  BY DEF PendingSettled
<1> QED BY <1>1, <1>2, FrameStep

LEMMA FrameOpening ==
  ASSUME ServerInv, FrameInv, NEW c \in Conns,
         \/ \E t \in 1..Len(tasks), client \in program.clients[c] : Accept(c, t, client)
         \/ HandleRequest(c) \/ Close(c)
  PROVE  FrameInv'
<1> DEFINE conn == conns[c]
<1>1. conn \in ConnRecord /\ Begun(conn)
  BY DEF ServerInv, ConnInv, FrameInv
<1>2. CASE \E t \in 1..Len(tasks), client \in program.clients[c] : Accept(c, t, client)
  <2>1. PICK t \in 1..Len(tasks), client \in program.clients[c] : Accept(c, t, client)
    BY <1>2
  <2> DEFINE next == [NewConn EXCEPT
               !.pc = "accepted", !.task = t, !.version = client.version, !.tls = client.tls,
               !.sni = IF client.tls THEN client.sni ELSE NoName,
               !.cert = IF client.tls THEN Certificate(integrated[t], client.sni) ELSE NoCert]
  <2>2. Update(c, next) /\ UNCHANGED shared /\ conn.pc = "new"
    BY <2>1 DEF Accept
  <2>3. next.out = <<>> /\ next.pc = "accepted"
    BY DEF NewConn
  <2> HIDE DEF next
  <2>4. conn.out = <<>>
    BY <1>1, <2>2 DEF Begun
  <2> QED BY <2>2, <2>3, <2>4, FrameQuiet DEF Touched, SentShared, Begun
<1>3. CASE HandleRequest(c)
  <2> DEFINE s == FindServer(integrated[conn.task], conn.sni)
             next == [conn EXCEPT !.server = s, !.pc = IF s = NoServer THEN "closed" ELSE "idle"]
  <2>1. Update(c, next) /\ UNCHANGED shared /\ conn.pc = "accepted"
    BY <1>3 DEF HandleRequest
  <2> HIDE DEF s
  <2>2. next.pc \in {"closed", "idle"} /\ next.out = conn.out
    BY <1>1 DEF ConnRecord
  <2> HIDE DEF next
  <2>3. Touched(conn) => Touched(next)
    BY <2>1, <2>2 DEF Touched, SentShared
  <2>4. Begun(next)
    BY <2>2 DEF Begun
  <2> QED BY <2>1, <2>2, <2>3, <2>4, FrameQuiet
<1>4. CASE Close(c)
  <2> DEFINE next == [conn EXCEPT !.pc = "closed"]
  <2>1. Update(c, next) /\ UNCHANGED shared
    BY <1>4 DEF Close
  <2>2. /\ next.pc = "closed" /\ next.out = conn.out /\ next.number = conn.number
        /\ next.endpoint = conn.endpoint
    BY <1>1 DEF ConnRecord
  <2> HIDE DEF next
  <2>3. Touched(conn) => Touched(next)
    BY <2>2 DEF Touched, SentShared, Responded
  <2>4. Begun(next)
    BY <2>2 DEF Begun
  <2> QED BY <2>1, <2>2, <2>3, <2>4, FrameQuiet
<1> QED BY <1>2, <1>3, <1>4

LEMMA FrameReturn ==
  ASSUME ServerInv, FrameInv, NEW c \in Conns, Return(c)
  PROVE  FrameInv'
<1> DEFINE conn == conns[c]
           endpoint == Endpoints[conn.endpoint]
<1>1. /\ conn.pc = "endpoint" /\ conn \in ConnRecord /\ Called(c, conn) /\ Begun(conn)
      /\ IF endpoint.result = "raise" THEN Update(c, Failed(conn)) /\ UNCHANGED shared
         ELSE Answer(c, conn, endpoint)
  BY DEF Return, ServerInv, ConnInv, ConnOK, FrameInv
<1>2. endpoint \in Endpoint /\ Responded(conn) = endpoint
  BY <1>1, EndpointsAssumption DEF Called, Responded
<1>3. CASE Answer(c, conn, endpoint)
  <2>1. conn.number > 0 /\ (conn.version # "2" => conn.request.protocol = conn.version)
    BY <1>1 DEF Begun
  <2> HIDE DEF endpoint
  <2> QED BY <1>1, <1>2, <1>3, <2>1, FrameAnswer
<1>4. CASE Update(c, Failed(conn)) /\ UNCHANGED shared
  <2> DEFINE next == Failed(conn)
  <2>1. next.pc \in {"mute", "closed"} /\ next.out = conn.out
    BY <1>1 DEF Failed, ConnRecord
  <2> HIDE DEF next
  <2>2. Touched(conn) => Touched(next)
    BY <1>1, <2>1 DEF Touched, SentShared
  <2>3. Begun(next)
    BY <2>1 DEF Begun
  <2>4. Update(c, next) /\ UNCHANGED shared
    BY <1>4 DEF next
  <2> QED BY <2>1, <2>2, <2>3, <2>4, FrameQuiet
<1> QED BY <1>1, <1>3, <1>4

LEMMA FrameWriteRest ==
  ASSUME ServerInv, FrameInv, NEW c \in Conns, WriteRest(c)
  PROVE  FrameInv'
<1> DEFINE conn == conns[c]
           message == Pending(conn, shared)
           next == [conn EXCEPT !.pc = "idle", !.out = Append(@, message)]
<1>1. /\ conn.pc = "status" /\ conn \in ConnRecord /\ UNCHANGED shared /\ Update(c, next)
      /\ SentSettled(c, conn) /\ PendingSettled(c, conn, shared)
  BY DEF WriteRest, ServerInv, ConnInv, FrameInv, Pending, DictOf
<1>2. next.pc = "idle" /\ next.out = Append(conn.out, message)
  BY <1>1 DEF ConnRecord
<1>3. message.endpoint = Responded(conn)
  BY DEF Pending, Message
<1>4. conn.out \in Seq(SentMessage)
  BY <1>1 DEF ConnRecord
<1> HIDE DEF next
<1>5. \/ Neat(message)
      \/ message.endpoint.dict = "shared" /\ (OthersTouched(c) \/ SentShared(conn))
  BY <1>1, <1>3 DEF PendingSettled
<1> HIDE DEF message, conn
<1>6. /\ SentSettled(c, next)
      /\ SentShared(conn) \/ message.endpoint.dict = "shared" => SentShared(next)
  BY <1>1, <1>2, <1>4, <1>5, SentMore
<1>7. Touched(conn) => Touched(next)
  BY <1>3, <1>6 DEF Touched
<1>8. PendingSettled(c, next, shared') /\ Begun(next)
  BY <1>2 DEF PendingSettled, Begun
<1> QED BY <1>1, <1>6, <1>7, <1>8, FrameStep DEF conn

LEMMA FrameDispatch ==
  ASSUME ServerInv, FrameInv, NEW c \in Conns, NEW request \in program.requests,
         Dispatch(c, request)
  PROVE  FrameInv'
<1> DEFINE old == conns[c]
           seen == Seen(old.version, request)
           conn == [old EXCEPT !.number = @ + 1, !.request = seen]
           found == Search(urlContext[conn.server][seen.method], seen.path)
           connection == ConnectionContext(conn.version, c)
           context == RequestContext(conn.version, c, conn.number)
           args == [name \in DOMAIN Params |-> Resolve(name, Params[name], connection, context)]
           unfound == [conn EXCEPT !.endpoint = None]
           called == [conn EXCEPT !.pc = "endpoint", !.endpoint = found, !.args = args]
<1>1. old.pc = "idle" /\ ConnOK(c, old) /\ old \in ConnRecord /\ Placed(old)
  BY DEF Dispatch, ServerInv, ConnInv, ConnOK
<1>2. \/ Update(c, Failed(unfound)) /\ UNCHANGED shared
      \/ Answer(c, unfound, NotFound)
      \/ Update(c, called) /\ UNCHANGED shared
  BY DEF Dispatch
<1>3. old.version \in {"1", "1.1", "2"} /\ old.number \in Nat
  BY <1>1 DEF ConnRecord
<1>4. seen \in SeenRequest
  <2>1. request \in Request
    BY ProgramFields DEF ServerInv, HostInv, MainInv, MainType
  <2> QED BY <1>3, <2>1, SeenType
<1>5. old.version # "2" => seen.protocol = old.version
  BY DEF Seen
<1> HIDE DEF old, seen, args, found
<1>6. /\ conn \in ConnRecord /\ conn.pc = "idle" /\ conn.request = seen
      /\ conn.version = old.version /\ conn.number > 0 /\ conn.out = old.out
  <2> DEFINE next == old.number + 1
  <2>1. next \in Nat /\ next > 0
    BY <1>3
  <2>2. conn = [old EXCEPT !.number = next, !.request = seen]
    BY <1>1 DEF ConnRecord
  <2> HIDE DEF conn, next
  <2>3. conn \in ConnRecord
    BY <1>1, <1>4, <2>1, <2>2 DEF ConnRecord
  <2>4. /\ conn.pc = "idle" /\ conn.request = seen
        /\ conn.version = old.version /\ conn.number = next /\ conn.out = old.out
    BY <1>1, <2>2 DEF ConnRecord
  <2> QED BY <2>1, <2>3, <2>4
<1> HIDE DEF conn
<1>7. /\ unfound.pc = "idle" /\ unfound.request = seen /\ unfound.version = old.version
      /\ unfound.number > 0 /\ unfound.out = old.out /\ unfound.endpoint = None
      /\ unfound \in ConnRecord
  BY <1>6 DEF ConnRecord, EndpointNames
<1> HIDE DEF unfound
<1>8. CASE Answer(c, unfound, NotFound)
  <2>1. Responded(unfound) = NotFound
    BY <1>7 DEF Responded
  <2> QED BY <1>1, <1>5, <1>7, <1>8, <2>1, NotFoundType, FrameAnswer DEF old
<1>9. CASE Update(c, Failed(unfound)) /\ UNCHANGED shared
  <2> DEFINE next == Failed(unfound)
  <2>1. next.pc \in {"mute", "closed"} /\ next.out = old.out
    BY <1>7 DEF Failed, ConnRecord
  <2> HIDE DEF next
  <2>2. (Touched(old) => Touched(next)) /\ Begun(next)
    BY <1>1, <2>1 DEF Touched, SentShared, Begun
  <2>3. Update(c, next)
    BY <1>9 DEF next
  <2> QED BY <1>9, <2>1, <2>2, <2>3, FrameQuiet DEF old
<1>10. CASE Update(c, called) /\ UNCHANGED shared
  <2>1. /\ called.pc = "endpoint" /\ called.out = old.out /\ called.number > 0
        /\ called.version = old.version /\ called.request = seen
    BY <1>6 DEF ConnRecord
  <2> HIDE DEF called
  <2>2. (Touched(old) => Touched(called)) /\ Begun(called)
    BY <1>1, <1>5, <2>1 DEF Touched, SentShared, Begun
  <2> QED BY <1>10, <2>1, <2>2, FrameQuiet DEF old
<1> QED BY <1>2, <1>8, <1>9, <1>10

LEMMA FrameNext == ServerInv /\ FrameInv /\ [Next]_vars => FrameInv'
<1> SUFFICES ASSUME ServerInv, FrameInv, [Next]_vars PROVE FrameInv'
  OBVIOUS
<1>1. CASE \E c \in Conns : Connection(c)
  BY <1>1, FrameOpening, FrameReturn, FrameWriteRest, FrameDispatch DEF Connection
<1>2. CASE ~\E c \in Conns : Connection(c)
  <2>1. UNCHANGED <<conns, shared>>
    BY <1>2 DEF Next, Main, Declare, Declared, AddToExecutor, EnterExecutor, ComposeServer,
         ComposePort, LeaveGather, ExitTask, Exit, LeaveRun, CancelRun, ServingTask,
         Listen, FailToListen, EndServing, Finished, vars, mainVars
  <2>2. \A c \in Conns : OthersTouched(c)' <=> OthersTouched(c)
    BY <2>1 DEF OthersTouched, Touched, SentShared, Responded
  <2>3. ASSUME NEW c \in Conns
        PROVE  /\ SentSettled(c, conns[c])' /\ PendingSettled(c, conns[c], shared)'
               /\ Begun(conns[c])'
    <3>1. SentSettled(c, conns[c]) /\ PendingSettled(c, conns[c], shared) /\ Begun(conns[c])
      BY DEF FrameInv
    <3>2. Begun(conns[c])'
      BY <2>1, <3>1 DEF Begun
    <3>3. SentSettled(c, conns[c])'
      BY <2>1, <2>2, <3>1 DEF SentSettled
    <3>4. PendingSettled(c, conns[c], shared)'
      BY <2>1, <2>2, <3>1 DEF PendingSettled
    <3> QED BY <3>2, <3>3, <3>4
  <2>4. ((\A c \in Conns : ~Touched(conns[c])) => shared = NoDict)'
    BY <2>1 DEF FrameInv, Touched, SentShared, Responded
  <2> QED BY <2>3, <2>4 DEF FrameInv
<1> QED BY <1>1, <1>2

\* The invariant of the dict of the application, of the responses that are out and of
\* those that wait behind their status line.
THEOREM FrameSafety == Spec => [](ServerInv /\ FrameInv)
<1>1. Init => ServerInv /\ FrameInv
  BY HostInit, ConnInit, FrameInit DEF ServerInv
<1>2. ServerInv /\ FrameInv /\ [Next]_vars => (ServerInv /\ FrameInv)'
  BY HostNext, ConnNext, FrameNext DEF ServerInv
<1> QED BY <1>1, <1>2, PTL DEF Spec

(***************************************************************************)
(* The receiver finds the end of every response except the kinds that      *)
(* Framed names: for any endpoints and bodies, and however the responses   *)
(* of any number of connections interleave, with one dict of the           *)
(* application among them or with none.                                    *)
(***************************************************************************)
THEOREM ResponsesEnd == Spec => []Framed
<1>1. FrameInv => Framed
  <2> SUFFICES ASSUME FrameInv, NEW c \in Conns, NEW i \in 1..Len(conns[c].out),
                      ~Neat(conns[c].out[i])
               PROVE  Shares(c, i)
    BY DEF Framed, Neat
  <2>1. /\ conns[c].out[i].endpoint.dict = "shared"
        /\ \/ OthersTouched(c)
           \/ \E j \in 1..Len(conns[c].out) : j # i /\ conns[c].out[j].endpoint.dict = "shared"
    BY DEF FrameInv, SentSettled
  <2>2. CASE OthersTouched(c)
    <3>1. PICK d \in Conns \ {c} : Touched(conns[d])
      BY <2>2 DEF OthersTouched
    <3> QED BY <2>1, <3>1 DEF Shares, Touched, SentShared
  <2>3. CASE \E j \in 1..Len(conns[c].out) : j # i /\ conns[c].out[j].endpoint.dict = "shared"
    BY <2>1, <2>3 DEF Shares
  <2> QED BY <2>1, <2>2, <2>3
<1> QED BY <1>1, FrameSafety, PTL
=============================================================================
