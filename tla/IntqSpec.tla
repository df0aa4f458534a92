------------------------------ MODULE IntqSpec ------------------------------
(***************************************************************************)
(* What an interrupt queue promises: bytes come out in the order they went *)
(* in, and at most Capacity of them are in it.  One step of a caller may   *)
(* take a byte and add one.                                                *)
(***************************************************************************)
EXTENDS Naturals, Sequences

CONSTANTS Bytes, Capacity

VARIABLE queue

Init == queue = <<>>

Put(q, r) == Len(q) < Capacity /\ \E b \in Bytes : r = Append(q, b)
Get(q, r) == q # <<>> /\ r = Tail(q)

Next ==
  \/ Put(queue, queue')
  \/ Get(queue, queue')
  \/ queue # <<>> /\ Put(Tail(queue), queue')

Spec == Init /\ [][Next]_queue
=============================================================================
