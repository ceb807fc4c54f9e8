------------------------------- MODULE MCUnit -------------------------------
(* Unit for TLC: two registrations, a closing, one subject judged by its      *)
(* closure alone and one that needs an observation.                          *)
EXTENDS Unit
=============================================================================
