----------------------------- MODULE ClaimQueue -----------------------------
(***************************************************************************)
(* What the rings of lib/containers promise their users: a bounded queue   *)
(* whose cells are claimed in one step and published in a later one.       *)
(* Values leave in the order their cells were claimed, and never before    *)
(* they are published.  TaskSched is written against this queue.           *)
(***************************************************************************)
EXTENDS Naturals, Sequences

CONSTANTS Values, Capacity

VARIABLES
  q,      \* claimed cells, oldest first: [val, ready]
  taken   \* every value taken out so far, in order

Init == q = <<>> /\ taken = <<>>

Claim(v) ==
  /\ Len(q) < Capacity
  /\ q' = Append(q, [val |-> v, ready |-> FALSE])
  /\ UNCHANGED taken

Publish(i) ==
  /\ ~q[i].ready
  /\ q' = [q EXCEPT ![i].ready = TRUE]
  /\ UNCHANGED taken

\* A consumer that asks for want cells takes the first k: all of them
\* published, and either enough or followed by a cell that is not.
Take(k, want) ==
  /\ k <= want /\ k <= Len(q)
  /\ \A i \in 1 .. k : q[i].ready
  /\ k < want /\ k < Len(q) => ~q[k + 1].ready
  /\ q' = SubSeq(q, k + 1, Len(q))
  /\ taken' = taken \o [i \in 1 .. k |-> q[i].val]

Next ==
  \/ \E v \in Values : Claim(v)
  \/ \E i \in DOMAIN q : Publish(i)
  \/ \E want \in 1 .. Capacity : \E k \in 1 .. want : Take(k, want)

Spec == Init /\ [][Next]_<<q, taken>>
=============================================================================
