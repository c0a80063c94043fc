----------------------------- MODULE EventSource -----------------------------
(***************************************************************************)
(* What the replay protocol relies on of one session's event store: a      *)
(* source generation and the retained range lo..hi of sequence numbers     *)
(* under it.  Within a generation the range only moves forward; whatever   *)
(* else happens to the events (an eviction, a deletion, a reload, a        *)
(* restart) shows as a newer generation, never used before.  EventStore is *)
(* shown to implement it for each of its sessions.                         *)
(***************************************************************************)
EXTENDS Integers

VARIABLES
  gen,   \* the source generation <<serverEpoch, revision>>
  lo,    \* first retained sequence number; hi + 1 when nothing is retained
  hi     \* newest sequence number; 0 before the first event

sourceVars == <<gen, lo, hi>>

\* Generations are ordered by server start, then by revision.
Newer(g, h) == g[1] > h[1] \/ (g[1] = h[1] /\ g[2] > h[2])

SourceInit == gen = <<0, 0>> /\ lo = 1 /\ hi = 0

\* One more event; a retention trim may take a prefix, never the new event.
Grow ==
  /\ gen' = gen
  /\ hi' = hi + 1
  /\ lo' >= lo /\ lo' <= hi'

NewSource ==
  /\ Newer(gen', gen)
  /\ lo' >= 1 /\ lo' <= hi' + 1
  /\ hi' = 0 => lo' = 1

SourceNext == Grow \/ NewSource

SourceSpec == SourceInit /\ [][SourceNext]_sourceVars
=============================================================================
