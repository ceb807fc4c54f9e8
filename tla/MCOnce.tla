------------------------------- MODULE MCOnce -------------------------------
(* Once for TLC: three asks, two answers and one failure. *)
EXTENDS Once
=============================================================================
