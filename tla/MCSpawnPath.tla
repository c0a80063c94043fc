----------------------------- MODULE MCSpawnPath -----------------------------
(* An instance of SpawnPath for TLC. *)
EXTENDS SpawnPath, TLC

CONSTANTS rA, rB, tA, b1, b2

TwoSpawns == {rA, rB}
OneTerminal == {tA}
TwoBrowsers == {b1, b2}
FromTwoBrowsers == rA :> b1 @@ rB :> b2
OneDir == [r \in {rA, rB, tA} |-> "dir"]
=============================================================================
