------------------------------- MODULE MC_Poll -------------------------------
(* Two stops, and the constants of the code in ticks of 5 s. *)
EXTENDS Poll
=============================================================================
