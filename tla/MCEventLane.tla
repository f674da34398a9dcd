----------------------------- MODULE MCEventLane -----------------------------
(* Model values for EventLane: see the MCEventLane_*.cfg files.              *)
EXTENDS EventLane, TLC

\* Threads that may do the same are interchangeable, and so are the cells.
Symmetry == Permutations(Listening \ (Emitting \cup Dropping)) \cup Permutations(Cells)
===============================================================================
