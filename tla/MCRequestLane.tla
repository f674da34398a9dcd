---------------------------- MODULE MCRequestLane ----------------------------
(* Model values for RequestLane: see the MCRequestLane_*.cfg files.          *)
EXTENDS RequestLane, TLC

\* Senders, and owners, are interchangeable.
Symmetry == Permutations(Senders) \cup Permutations(Owners)
==============================================================================
