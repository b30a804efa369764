------------------------------ MODULE MC_Device ------------------------------
(* Two networks, one of them with a wrong password, and two of everything the *)
(* user may save.                                                             *)
EXTENDS Device
=============================================================================
