---------------------------- MODULE MCTorpedoDuel ----------------------------
(* A board of three cells in a line and a fleet of one ship of two. *)
EXTENDS TorpedoDuel

Line3 == 1 .. 3
NearOnLine3 == [x \in Line3 |-> {y \in Line3 : y = x + 1 \/ x = y + 1}]
Fleet3 == {{{1, 2}}}
===============================================================================
