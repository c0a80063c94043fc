--------------------------- MODULE HeadlessRegistry ---------------------------
(***************************************************************************)
(* Which process runs which session                                        *)
(* (packages/server/src/headless-pid-registry.ts), as operators on the     *)
(* registry's entries.                                                     *)
(*                                                                         *)
(* A run is one pi process.  The dashboard starts it under a keeper of its *)
(* own and with a spawn token of its own, so the run names its entry, its  *)
(* keeper, its token and its pid; no pid is used twice.  A run keeps the   *)
(* session it begins with, and names that session too.                     *)
(***************************************************************************)
EXTENDS Integers

CONSTANTS
  Spawns,       \* the runs the dashboard starts
  Terminals,    \* the runs someone starts in a terminal
  DirOf,        \* the directory of each run
  None

Runs == Spawns \cup Terminals

ASSUME RegistryAssumption == Spawns \cap Terminals = {} /\ None \notin Runs

\* An entry: who it is linked to and by what, the pid of its pi when known,
\* whether its process is this server's child, and its place in their order.
NewEntry(place) ==
  [session |-> None, by |-> "none", pi |-> None, child |-> TRUE, place |-> place]

NoEntries == [r \in {} |-> NewEntry(0)]

Without(entries, r) == [x \in DOMAIN entries \ {r} |-> entries[x]]

With(entries, r, place) ==
  [x \in DOMAIN entries \cup {r} |-> IF x = r THEN NewEntry(place) ELSE entries[x]]

\* persist: everything but the link.
Persisted(entries) ==
  [x \in DOMAIN entries |-> [entries[x] EXCEPT !.session = None, !.by = "none", !.child = FALSE]]

\* cleanupOrphans: the entries of the processes that still run.
Reclaimed(disk, running) == [x \in DOMAIN disk \cap running |-> disk[x]]

Free(entries) == {x \in DOMAIN entries : entries[x].session = None}

\* The entry each tier takes for a run that registers: none or one.
\* (mutation) any free entry that was spawned with a token
ByTokenAny(entries, r, token) == IF token THEN {x \in Free(entries) : DirOf[x] = DirOf[r]} ELSE {}

ByToken(entries, r, token) == IF token THEN Free(entries) \cap {r} ELSE {}
ByPid(entries, r) == {x \in Free(entries) : entries[x].pi = r}
ByCwd(entries, r) ==
  {x \in Free(entries) :
     /\ DirOf[x] = DirOf[r]
     /\ \A y \in Free(entries) : DirOf[y] = DirOf[r] => entries[x].place <= entries[y].place}

Linked(entries, x, r, tier) == [entries EXCEPT ![x].session = r, ![x].by = tier]
=============================================================================
