------------------------------ MODULE MCConnection ------------------------------
(* Instance for TLC: two contexts, two connects and two loads under way. *)
EXTENDS Connection
CONSTANTS a, b
=================================================================================
