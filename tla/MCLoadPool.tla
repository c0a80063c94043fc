------------------------------ MODULE MCLoadPool ------------------------------
(* Instances of LoadPool for TLC. *)
EXTENDS LoadPool

CONSTANTS sA, sB

TwoSessions == {sA, sB}
=============================================================================
