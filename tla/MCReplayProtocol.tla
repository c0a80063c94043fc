-------------------------- MODULE MCReplayProtocol --------------------------
(* Instances of ReplayProtocol for TLC. *)
EXTENDS ReplayProtocol

NoKinds == {}

\* Bound: where a registration replaces the source there are no other acts.
RegistersAlone == Replaced => acts.done = 0
=============================================================================
