---------------------------- MODULE MCEventStore ----------------------------
(* A small instance of EventStore for TLC. *)
EXTENDS EventStore, TLC

CONSTANTS s1, s2, evA, evB

MCSessions == {s1, s2}
MCEvents == {evA, evB}
\* Session files, one of them long enough for a trim on load, that disagree with
\* what is stored live: whatever names evA may name evB after a reload.
ReplayedSources == {<<evB, evB>>, <<evB, evB, evB, evB>>}
\* Bounds: six names in all, of the first epoch one at most before a restart.
FewStored ==
  /\ Cardinality(issued) <= 6
  /\ epoch > 0 => Cardinality({x \in issued : x.gen[1] = 0}) <= 1
MCSymmetry == Permutations(MCSessions)
=============================================================================
