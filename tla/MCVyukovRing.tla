---------------------------- MODULE MCVyukovRing ----------------------------
(* Model values for VyukovRing: see the MCVyukovRing_*.cfg files.           *)
EXTENDS VyukovRing
=============================================================================
