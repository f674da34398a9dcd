----------------------------- MODULE MCExtHost -----------------------------
(* Model values for ExtHost: see the MCExtHost_*.cfg files.                *)
EXTENDS ExtHost
=============================================================================
