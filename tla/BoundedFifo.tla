---------------------------- MODULE BoundedFifo ----------------------------
(***************************************************************************)
(* What a switch_queue_t promises its users: a first-in first-out buffer   *)
(* of at most Capacity items.                                              *)
(***************************************************************************)
EXTENDS Naturals, Sequences

CONSTANTS Items, Capacity
VARIABLE q

Init == q = << >>

Put(item) == Len(q) < Capacity /\ q' = Append(q, item)
Get == q # << >> /\ q' = Tail(q)

Next == Get \/ \E item \in Items : Put(item)

Spec == Init /\ [][Next]_q
=============================================================================
