------------------------ MODULE MCReplayCoordinator ------------------------
(* Instances of ReplayCoordinator for TLC. *)
EXTENDS ReplayCoordinator

ColdKinds == {"cold"}
TailKinds == {"cold", "older"}
AllKinds == {"cold", "delta", "older"}

\* No step reads what was sent before: states that differ only in it have the
\* same future, and the properties checked under this view do not mention it.
WithoutOutput ==
  <<sourceVars, history, bridge, load, persisted, [sock EXCEPT !.out = <<>>], bodies, tail,
    token, replaying>>

\* Of what was sent before, only this is looked at by ShownSourceIsCurrent and
\* RequestsLeaveTold.
Told ==
  LET ended == {m \in Range(Out) : IsFrame(m) /\ m.last}
  IN  <<WithoutOutput, ShownGens, ToldGens, {m.id : m \in ended}>>
=============================================================================
