--------------------------- MODULE MCResponseSlots ---------------------------
(* Model values for ResponseSlots: see the MCResponseSlots_*.cfg files.      *)
EXTENDS ResponseSlots
==============================================================================
