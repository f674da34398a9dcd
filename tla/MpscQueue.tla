------------------------------ MODULE MpscQueue ------------------------------
(***************************************************************************)
(* What a bucket's ring promises its users: a bounded first-in first-out   *)
(* queue.  An accepted item is delivered at most once, in acceptance       *)
(* order, never overwritten, and no more than Capacity items wait at once. *)
(*                                                                         *)
(* Abstract specification; VyukovRing implements it (mt_queue.nim).        *)
(***************************************************************************)
EXTENDS Naturals, Sequences

CONSTANTS Item, Capacity

VARIABLES
    queue,      \* items accepted and not yet handed to the consumer
    delivered   \* items handed to the consumer, in order

vars == <<queue, delivered>>

Init == queue = <<>> /\ delivered = <<>>

Enqueue(x) ==
    /\ Len(queue) < Capacity
    /\ queue' = Append(queue, x)
    /\ UNCHANGED delivered

Dequeue ==
    /\ queue # <<>>
    /\ delivered' = Append(delivered, Head(queue))
    /\ queue' = Tail(queue)

Next == Dequeue \/ \E x \in Item : Enqueue(x)

Spec == Init /\ [][Next]_vars
==============================================================================
