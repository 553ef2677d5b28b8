--------------------------- MODULE RequestPipeline ---------------------------
(***************************************************************************)
(* What an HTTP/2 connection promises about its requests, whatever frames  *)
(* arrive and whatever fails: every request is taken at most once, one at  *)
(* a time, in the order of the stream ids, and none is taken after the     *)
(* consumer has ended.  A pending request may be refused: then it is       *)
(* dropped when its turn comes, and no other request is.                   *)
(***************************************************************************)
EXTENDS Naturals, Sequences

CONSTANT Sids

VARIABLES
  pending,   \* the requests completed and not yet taken, oldest first
  refused,   \* those of them that will be dropped, while the consumer lives
  current,   \* the request being answered, 0 when there is none
  last,      \* the request taken last
  serving    \* the consumer has not ended

vars == <<pending, refused, current, last, serving>>

Init == /\ pending = <<>> /\ refused = {}
        /\ current = 0 /\ last = 0 /\ serving = TRUE

\* A request is completed: its id is above everything taken or pending.
Accept(sid) ==
  /\ sid > last
  /\ \A i \in 1..Len(pending) : sid > pending[i]
  /\ pending' = Append(pending, sid)
  /\ UNCHANGED <<refused, current, last, serving>>

Refuse(sid) ==
  /\ serving /\ \E i \in 1..Len(pending) : sid = pending[i]
  /\ refused' = refused \cup {sid}
  /\ UNCHANGED <<pending, current, last, serving>>

\* The oldest request was refused before its turn came.
Drop ==
  /\ serving /\ current = 0 /\ pending # <<>> /\ Head(pending) \in refused
  /\ pending' = Tail(pending)
  /\ refused' = refused \ {Head(pending)}
  /\ UNCHANGED <<current, last, serving>>

Take ==
  /\ serving /\ current = 0 /\ pending # <<>> /\ Head(pending) \notin refused
  /\ current' = Head(pending) /\ last' = Head(pending)
  /\ pending' = Tail(pending)
  /\ UNCHANGED <<refused, serving>>

Answer == current # 0 /\ current' = 0 /\ UNCHANGED <<pending, refused, last, serving>>

End == /\ serving /\ serving' = FALSE
       /\ current' = 0 /\ refused' = {}
       /\ UNCHANGED <<pending, last>>

Next == (\E sid \in Sids : Accept(sid) \/ Refuse(sid)) \/ Drop \/ Take \/ Answer \/ End

Spec == Init /\ [][Next]_vars
=============================================================================
