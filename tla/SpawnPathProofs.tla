--------------------------- MODULE SpawnPathProofs ---------------------------
(***************************************************************************)
(* What holds of the registry and of the watchdog for any number of runs,  *)
(* directories, lost connections and crashes of the server.                *)
(*                                                                         *)
(* The argument.  A pid enters an entry with the token of its run only,    *)
(* and is in the file from then on: an entry's known pid is its own, and   *)
(* known it stays, so that the second tier finds what the first one found. *)
(* A run that is entered was not entered or watched before, so the watch   *)
(* its token clears is the only one ever about it.  And a report that is   *)
(* not stranded is backed by the watchdog's record of the same run, which  *)
(* the run's token finds.                                                  *)
(***************************************************************************)
EXTENDS SpawnPath, TLAPS

-----------------------------------------------------------------------------
(* The inductive invariant. *)

\* A table of entries: typed, with its own pids only.
Table(f) ==
  /\ DOMAIN f \subseteq Spawns /\ f = [x \in DOMAIN f |-> f[x]]
  /\ \A x \in DOMAIN f : /\ f[x] \in Entry
                         /\ f[x].pi \in {x, None}
                         /\ f[x].by \in {"token", "pid"} => f[x].session = x

\* The pid of a run that was linked by its token is known.
Knows(f) == \A r \in certain \cap DOMAIN f : f[r].pi = r

WatchType == [byCwd : [Dirs -> Spawns \cup {None}], fired : [Dirs -> Spawns \cup {None}],
              byToken : SUBSET Spawns, timers : SUBSET Spawns, old : SUBSET Dirs]

\* A watchdog: who is watched is not reported.
Watching(W) ==
  /\ W \in WatchType
  /\ W.timers \subseteq W.byToken
  /\ \A d \in Dirs : W.fired[d] \notin W.byToken

\* A run whose token has come is neither watched nor in a record.
Silent ==
  \A r \in Spawns : runs[r].heard => r \notin watch.timers /\ \A d \in Dirs : watch.fired[d] # r

RunType == [phase : {"new", "awaited", "up", "gone"}, token : BOOLEAN,
            online : BOOLEAN, heard : BOOLEAN]

\* A run whose spawn has not returned is entered and watched nowhere.
Fresh ==
  \A r \in Runs : runs[r].phase \in {"new", "awaited"} =>
    /\ r \notin certain /\ r \notin DOMAIN entries /\ r \notin DOMAIN disk
    /\ r \notin watch.byToken /\ \A d \in Dirs : watch.fired[d] # r
    /\ runs[r].phase = "awaited" => r \in Spawns

IInv ==
  /\ runs \in [Runs -> RunType]
  /\ Table(entries) /\ Knows(entries)
  /\ Table(disk) /\ Knows(disk)
  /\ Watching(watch)
  /\ Silent
  /\ Fresh
  /\ certain \subseteq Spawns /\ entered \in Nat

\* What can take back the report of run x by browser b in directory d.
Retractable(W, C, b, d, x) ==
  W.fired[d] = x /\ d \notin W.old /\ x \notin C /\ BrowserOf[x] = b

Backed ==
  \A b \in Browsers, d \in Dirs :
    shown[b][d] \in {None} \cup stranded \/ Retractable(watch, closed, b, d, shown[b][d])

RInv ==
  /\ shown \in [Browsers -> [Dirs -> Spawns \cup {None}]]
  /\ closed \subseteq Spawns /\ stranded \subseteq Spawns
  /\ Backed

-----------------------------------------------------------------------------
(* The registry's operators. *)

LEMMA PersistedTable ==
  ASSUME NEW f, Table(f)
  PROVE  /\ Table(Persisted(f)) /\ DOMAIN Persisted(f) = DOMAIN f
         /\ \A x \in DOMAIN f : Persisted(f)[x].pi = f[x].pi
<1> DEFINE g == Persisted(f)
<1>1. DOMAIN g = DOMAIN f /\ g = [x \in DOMAIN g |-> g[x]]
  BY DEF Persisted
<1>2. ASSUME NEW x \in DOMAIN f
      PROVE  g[x] \in Entry /\ g[x].pi = f[x].pi /\ g[x].by = "none"
  <2>1. g[x] = [f[x] EXCEPT !.session = None, !.by = "none", !.child = FALSE]
    BY DEF Persisted
  <2>2. f[x] \in Entry
    BY DEF Table
  <2> HIDE DEF g
  <2> QED BY <2>1, <2>2 DEF Entry
<1> HIDE DEF g
<1>3. Table(g)
  BY <1>1, <1>2 DEF Table
<1> QED BY <1>1, <1>2, <1>3 DEF g

LEMMA WithoutTable ==
  ASSUME NEW f, Table(f), NEW r
  PROVE  /\ Table(Without(f, r)) /\ DOMAIN Without(f, r) = DOMAIN f \ {r}
         /\ \A x \in DOMAIN f \ {r} : Without(f, r)[x] = f[x]
BY DEF Table, Without

LEMMA WithTable ==
  ASSUME NEW f, Table(f), NEW r \in Spawns, NEW place \in Nat
  PROVE  /\ Table(With(f, r, place)) /\ DOMAIN With(f, r, place) = DOMAIN f \cup {r}
         /\ \A x \in DOMAIN f \ {r} : With(f, r, place)[x] = f[x]
<1>1. NewEntry(place) \in Entry /\ NewEntry(place).pi = None /\ NewEntry(place).by = "none"
  BY DEF NewEntry, Entry
<1> QED BY <1>1 DEF Table, With

LEMMA ReclaimedTable ==
  ASSUME NEW f, Table(f), NEW running
  PROVE  /\ Table(Reclaimed(f, running)) /\ DOMAIN Reclaimed(f, running) \subseteq DOMAIN f
         /\ \A x \in DOMAIN Reclaimed(f, running) : Reclaimed(f, running)[x] = f[x]
BY DEF Table, Reclaimed

\* A link by directory changes a session and never a pid.
LEMMA LinkedTable ==
  ASSUME NEW f, Table(f), NEW x \in DOMAIN f, NEW r \in Runs, NEW tier \in {"token", "pid", "cwd"},
         tier = "cwd" \/ x = r
  PROVE  /\ Table(Linked(f, x, r, tier)) /\ DOMAIN Linked(f, x, r, tier) = DOMAIN f
         /\ Linked(f, x, r, tier)[x].session = r
         /\ Linked(f, x, r, tier)[x].pi = f[x].pi
         /\ \A y \in DOMAIN f \ {x} : Linked(f, x, r, tier)[y] = f[y]
<1> DEFINE g == Linked(f, x, r, tier)
<1>1. g = [f EXCEPT ![x] = [f[x] EXCEPT !.session = r, !.by = tier]]
  BY DEF Linked, Table, Entry
<1>2. /\ DOMAIN g = DOMAIN f /\ g = [y \in DOMAIN g |-> g[y]]
      /\ g[x] = [f[x] EXCEPT !.session = r, !.by = tier]
      /\ \A y \in DOMAIN f \ {x} : g[y] = f[y]
  BY <1>1 DEF Table
<1> HIDE DEF g
<1>3. f[x] \in Entry /\ f[x].pi \in {x, None}
  BY DEF Table
<1>4. /\ g[x] \in Entry /\ g[x].pi = f[x].pi
      /\ g[x].session = r /\ g[x].by = tier
  BY <1>2, <1>3 DEF Entry
<1>5. Table(g)
  BY <1>2, <1>3, <1>4 DEF Table
<1> QED BY <1>2, <1>4, <1>5 DEF g

-----------------------------------------------------------------------------
(* The watchdog's operators. *)

LEMMA DroppedWatch ==
  ASSUME NEW W, Watching(W), NEW w \in Spawns
  PROVE  /\ Watching(Watchdog!Dropped(W, w))
         /\ Watchdog!Dropped(W, w).timers = W.timers \ {w}
         /\ Watchdog!Dropped(W, w).byToken = W.byToken \ {w}
         /\ Watchdog!Dropped(W, w).fired = W.fired
BY DEF Watching, WatchType, Watchdog!Dropped

LEMMA ArmedWatch ==
  ASSUME NEW W, Watching(W), NEW r \in Spawns, \A d \in Dirs : W.fired[d] # r
  PROVE  /\ Watching(Watchdog!Armed(W, r))
         /\ Watchdog!Armed(W, r).timers \subseteq W.timers \cup {r}
         /\ Watchdog!Armed(W, r).byToken = W.byToken \cup {r}
         /\ Watchdog!Armed(W, r).fired = W.fired
BY DEF Watching, WatchType, Watchdog!Armed

LEMMA FiredWatch ==
  ASSUME NEW W, Watching(W), NEW r \in W.timers
  PROVE  /\ Watching(Watchdog!Fired(W, r))
         /\ Watchdog!Fired(W, r).timers = W.timers \ {r}
         /\ Watchdog!Fired(W, r).byToken = W.byToken \ {r}
         /\ \A d \in Dirs : Watchdog!Fired(W, r).fired[d] \in {W.fired[d], r}
<1> DEFINE V == Watchdog!Dropped(W, r)
<1>1. r \in Spawns
  BY DEF Watching, WatchType
<1>2. /\ Watching(V) /\ V.timers = W.timers \ {r} /\ V.byToken = W.byToken \ {r}
      /\ V.fired = W.fired
  BY <1>1, DroppedWatch
<1> DEFINE U == Watchdog!Fired(W, r)
<1>3. U = [V EXCEPT !.fired = [V.fired EXCEPT ![DirOf[r]] = r], !.old = V.old \ {DirOf[r]}]
  BY DEF Watchdog!Fired, Watchdog!Dropped
<1> HIDE DEF V, U
<1>4. /\ U.fired = [W.fired EXCEPT ![DirOf[r]] = r] /\ U.old = V.old \ {DirOf[r]}
      /\ U.timers = W.timers \ {r} /\ U.byToken = W.byToken \ {r} /\ U.byCwd = V.byCwd
      /\ U = [byCwd |-> U.byCwd, fired |-> U.fired, byToken |-> U.byToken,
              timers |-> U.timers, old |-> U.old]
  BY <1>2, <1>3 DEF Watching, WatchType
<1>5. U \in WatchType /\ \A d \in Dirs : U.fired[d] \in {W.fired[d], r}
  BY <1>1, <1>2, <1>4 DEF Watching, WatchType
<1> QED BY <1>2, <1>4, <1>5 DEF U, Watching

LEMMA RecoveredWatch ==
  ASSUME NEW W, Watching(W), NEW D
  PROVE  LET V == Watchdog!Recovered(W, D) IN
           /\ Watching(V) /\ V.timers = W.timers /\ V.byToken = W.byToken
           /\ \A d \in Dirs : V.fired[d] = IF d \in D THEN None ELSE W.fired[d]
<1> DEFINE V == Watchdog!Recovered(W, D)
           fired == [d \in Dirs |-> IF d \in D THEN None ELSE W.fired[d]]
<1>1. V = [W EXCEPT !.fired = fired, !.old = W.old \ D]
  BY DEF Watchdog!Recovered, Watching, WatchType
<1>2. fired \in [Dirs -> Spawns \cup {None}] /\ W.old \ D \subseteq Dirs
  BY DEF Watching, WatchType
<1>3. \A d \in Dirs : fired[d] = IF d \in D THEN None ELSE W.fired[d]
  OBVIOUS
<1> HIDE DEF fired
<1>4. /\ V \in WatchType /\ V.fired = fired
      /\ V.timers = W.timers /\ V.byToken = W.byToken
  BY <1>1, <1>2 DEF Watching, WatchType
<1>5. None \notin W.byToken
  BY RegistryAssumption DEF Watching, WatchType, Runs
<1> HIDE DEF V
<1>6. Watching(V)
  BY <1>3, <1>4, <1>5 DEF Watching
<1> QED BY <1>3, <1>4, <1>6 DEF V

LEMMA ClearedByTokenWatch ==
  ASSUME NEW W, Watching(W), NEW r \in Runs
  PROVE  LET V == Watchdog!ClearedByToken(W, r) IN
           /\ Watching(V)
           /\ V.timers \subseteq W.timers /\ V.byToken \subseteq W.byToken /\ r \notin V.timers
           /\ \A d \in Dirs : V.fired[d] \in {W.fired[d], None} /\ V.fired[d] # r
<1>1. CASE r \in W.byToken
  <2>1. r \in Spawns /\ Watchdog!ClearedByToken(W, r) = Watchdog!Dropped(W, r)
    BY <1>1 DEF Watching, WatchType, Watchdog!ClearedByToken
  <2> QED BY <1>1, <2>1, DroppedWatch DEF Watching
<1>2. CASE r \notin W.byToken
  <2> DEFINE D == {d \in Dirs : W.fired[d] = r}
             V == Watchdog!Recovered(W, D)
  <2>1. Watchdog!ClearedByToken(W, r) = V
    BY <1>2 DEF Watchdog!ClearedByToken
  <2>2. /\ Watching(V) /\ V.timers = W.timers /\ V.byToken = W.byToken
        /\ \A d \in Dirs : V.fired[d] = IF d \in D THEN None ELSE W.fired[d]
    BY RecoveredWatch
  <2> HIDE DEF V
  <2>3. \A d \in Dirs : V.fired[d] \in {W.fired[d], None} /\ V.fired[d] # r
    BY <2>2, RegistryAssumption
  <2> QED BY <1>2, <2>1, <2>2, <2>3 DEF Watching
<1> QED BY <1>1, <1>2

LEMMA ClearedByCwdWatch ==
  ASSUME NEW W, Watching(W), NEW d \in Dirs
  PROVE  LET V == Watchdog!ClearedByCwd(W, d) IN
           /\ Watching(V)
           /\ V.timers \subseteq W.timers /\ V.byToken \subseteq W.byToken
           /\ \A e \in Dirs : V.fired[e] \in {W.fired[e], None}
<1>1. CASE W.byCwd[d] # None
  <2>1. W.byCwd[d] \in Spawns
    BY <1>1 DEF Watching, WatchType
  <2> QED BY <1>1, <2>1, DroppedWatch DEF Watchdog!ClearedByCwd
<1>2. CASE W.byCwd[d] = None
  <2> DEFINE V == Watchdog!Recovered(W, {d})
  <2>1. Watchdog!ClearedByCwd(W, d) = V
    BY <1>2 DEF Watchdog!ClearedByCwd
  <2>2. /\ Watching(V) /\ V.timers = W.timers /\ V.byToken = W.byToken
        /\ \A e \in Dirs : V.fired[e] = IF e \in {d} THEN None ELSE W.fired[e]
    BY RecoveredWatch
  <2> HIDE DEF V
  <2> QED BY <2>1, <2>2
<1> QED BY <1>1, <1>2
-----------------------------------------------------------------------------
(* The invariant, action by action. *)

LEMMA InitInvariant == SpawnInit => IInv
<1> SUFFICES ASSUME SpawnInit PROVE IInv
  OBVIOUS
<1> USE DEF SpawnInit
<1>1. runs \in [Runs -> RunType] /\ \A r \in Runs : runs[r].phase = "new" /\ ~runs[r].heard
  BY DEF NewRun, RunType
<1>2. Table(entries) /\ Knows(entries) /\ Table(disk) /\ Knows(disk)
  BY DEF NoEntries, Table, Knows
<1>3. /\ watch.byToken = {} /\ watch.timers = {} /\ watch \in WatchType
      /\ \A d \in Dirs : watch.fired[d] = None
  BY DEF Watchdog!NewWatchdog, WatchType
<1>4. Watching(watch)
  BY <1>3 DEF Watching
<1>5. Fresh
  BY <1>1, <1>3, RegistryAssumption DEF Fresh, NoEntries
<1>6. Silent
  BY <1>1, <1>3 DEF Silent, Runs
<1> QED BY <1>1, <1>2, <1>4, <1>5, <1>6 DEF IInv

\* What an action preserves that leaves the watchdog, the tables and the history
\* alone, and ages runs: none becomes fresh again or is heard anew.
LEMMA AgedKeepsInvariant ==
  ASSUME IInv, UNCHANGED <<entries, disk, watch, certain, entered>>,
         runs' \in [Runs -> RunType],
         \A r \in Runs :
           /\ runs'[r].heard => runs[r].heard
           /\ runs'[r].phase \in {"new", "awaited"} => runs[r].phase \in {"new", "awaited"}
           /\ runs'[r].phase = "awaited" => r \in Spawns
  PROVE  IInv'
<1>1. Table(entries)' /\ Knows(entries)' /\ Table(disk)' /\ Knows(disk)' /\ Watching(watch)'
  BY DEF IInv, Table, Knows, Watching
<1>2. Silent'
  BY DEF IInv, Silent, Runs
<1>3. Fresh'
  BY DEF IInv, Fresh
<1> QED BY <1>1, <1>2, <1>3 DEF IInv

LEMMA SpawnSessionInvariant ==
  ASSUME IInv, NEW r \in Runs, SpawnSession(r)
  PROVE  IInv'
<1>1. /\ runs' \in [Runs -> RunType] /\ r \in Spawns /\ runs[r].phase = "new"
      /\ runs'[r].heard = runs[r].heard
      /\ \A x \in Runs \ {r} : runs'[x] = runs[x]
  BY DEF SpawnSession, IInv, RunType
<1>2. \A x \in Runs : runs[x].phase = "awaited" => x \in Spawns
  BY DEF IInv, Fresh
<1> QED BY <1>1, <1>2, AgedKeepsInvariant DEF SpawnSession

LEMMA StartInTerminalInvariant ==
  ASSUME IInv, NEW r \in Runs, StartInTerminal(r)
  PROVE  IInv'
<1>1. /\ runs' \in [Runs -> RunType] /\ runs'[r].phase = "up"
      /\ runs'[r].heard = runs[r].heard
      /\ \A x \in Runs \ {r} : runs'[x] = runs[x]
  BY DEF StartInTerminal, IInv, RunType
<1>2. \A x \in Runs : runs[x].phase = "awaited" => x \in Spawns
  BY DEF IInv, Fresh
<1> QED BY <1>1, <1>2, AgedKeepsInvariant DEF StartInTerminal

LEMMA LoseConnectionInvariant ==
  ASSUME IInv, NEW r \in Runs, LoseConnection(r)
  PROVE  IInv'
<1>1. /\ runs' \in [Runs -> RunType]
      /\ runs'[r].heard = runs[r].heard /\ runs'[r].phase = runs[r].phase
      /\ \A x \in Runs \ {r} : runs'[x] = runs[x]
  BY DEF LoseConnection, IInv, RunType
<1>2. \A x \in Runs : runs[x].phase = "awaited" => x \in Spawns
  BY DEF IInv, Fresh
<1> QED BY <1>1, <1>2, AgedKeepsInvariant DEF LoseConnection

LEMMA LoseRegisterInvariant ==
  ASSUME IInv, NEW r \in Runs, LoseRegister(r)
  PROVE  IInv'
<1>1. /\ runs' \in [Runs -> RunType]
      /\ runs'[r].heard = runs[r].heard /\ runs'[r].phase = runs[r].phase
      /\ \A x \in Runs \ {r} : runs'[x] = runs[x]
  BY DEF LoseRegister, IInv, RunType
<1>2. \A x \in Runs : runs[x].phase = "awaited" => x \in Spawns
  BY DEF IInv, Fresh
<1> QED BY <1>1, <1>2, AgedKeepsInvariant DEF LoseRegister

LEMMA SpawnReturnsInvariant ==
  ASSUME IInv, NEW r \in Runs, SpawnReturns(r)
  PROVE  IInv'
<1>1. /\ r \in Spawns /\ r \notin certain /\ r \notin DOMAIN entries /\ r \notin DOMAIN disk
      /\ \A d \in Dirs : watch.fired[d] # r
  BY DEF SpawnReturns, IInv, Fresh
<1>2. /\ runs' \in [Runs -> RunType] /\ runs'[r].phase = "up" /\ ~runs'[r].heard
      /\ \A x \in Runs \ {r} : runs'[x] = runs[x]
  BY DEF SpawnReturns, IInv, RunType
<1>3. /\ Table(entries') /\ DOMAIN entries' = DOMAIN entries \cup {r}
      /\ \A x \in DOMAIN entries : entries'[x] = entries[x]
  <2>1. Table(entries) /\ entered \in Nat /\ entries' = With(entries, r, entered)
    BY DEF SpawnReturns, IInv
  <2>2. DOMAIN entries \ {r} = DOMAIN entries
    BY <1>1
  <2>3. /\ Table(With(entries, r, entered))
        /\ DOMAIN With(entries, r, entered) = DOMAIN entries \cup {r}
        /\ \A x \in DOMAIN entries \ {r} : With(entries, r, entered)[x] = entries[x]
    BY ONLY <2>1, <1>1, WithTable
  <2> QED BY <2>1, <2>2, <2>3
<1>4. /\ Table(disk') /\ DOMAIN disk' = DOMAIN entries'
      /\ \A x \in DOMAIN entries' : disk'[x].pi = entries'[x].pi
  BY <1>3, PersistedTable DEF SpawnReturns
<1>5. /\ Watching(watch') /\ watch'.timers \subseteq watch.timers \cup {r}
      /\ watch'.byToken = watch.byToken \cup {r} /\ watch'.fired = watch.fired
  BY <1>1, ArmedWatch DEF SpawnReturns, IInv
<1>6. certain' = certain /\ entered' \in Nat
  BY DEF SpawnReturns, IInv
<1>7. Knows(entries)' /\ Knows(disk)'
  BY <1>1, <1>3, <1>4, <1>6 DEF IInv, Knows
<1>8. Silent'
  BY <1>2, <1>5 DEF IInv, Silent, Runs
<1>9. Fresh'
  <2> SUFFICES ASSUME NEW x \in Runs, runs'[x].phase \in {"new", "awaited"}
               PROVE  /\ x \notin certain /\ x \notin DOMAIN entries' /\ x \notin watch'.byToken
                      /\ \A d \in Dirs : watch'.fired[d] # x
                      /\ runs'[x].phase = "awaited" => x \in Spawns
    BY <1>4, <1>6 DEF Fresh
  <2>1. x # r /\ runs'[x] = runs[x]
    BY <1>2
  <2> QED BY <2>1, <1>3, <1>5 DEF IInv, Fresh
<1> QED BY <1>2, <1>3, <1>4, <1>5, <1>6, <1>7, <1>8, <1>9 DEF IInv

LEMMA FireTimeoutInvariant ==
  ASSUME IInv, NEW r \in Runs, FireTimeout(r)
  PROVE  IInv'
<1>1. r \in watch.timers /\ r \in watch.byToken /\ r \in Spawns
  BY DEF FireTimeout, IInv, Watching, WatchType
<1>2. /\ Watching(watch') /\ watch'.timers = watch.timers \ {r}
      /\ watch'.byToken = watch.byToken \ {r}
      /\ \A d \in Dirs : watch'.fired[d] \in {watch.fired[d], r}
  BY <1>1, FiredWatch DEF FireTimeout, IInv
<1>3. UNCHANGED <<runs, entries, disk, certain, entered>>
  BY DEF FireTimeout
<1>4. ~runs[r].heard /\ runs[r].phase \notin {"new", "awaited"}
  BY <1>1 DEF IInv, Silent, Fresh, Runs
<1>5. Silent'
  BY <1>2, <1>3, <1>4 DEF IInv, Silent, Runs
<1>6. Fresh'
  <2> SUFFICES ASSUME NEW x \in Runs, runs[x].phase \in {"new", "awaited"}
               PROVE  x \notin watch'.byToken /\ \A d \in Dirs : watch'.fired[d] # x
    BY <1>3 DEF IInv, Fresh
  <2> QED BY <1>2, <1>4 DEF IInv, Fresh
<1>7. Table(entries)' /\ Knows(entries)' /\ Table(disk)' /\ Knows(disk)'
  BY <1>3 DEF IInv, Table, Knows
<1> QED BY <1>2, <1>3, <1>5, <1>6, <1>7 DEF IInv

\* What the three tiers do to the tables.
LinkKeepsTables(r) ==
  /\ Table(entries') /\ DOMAIN entries' = DOMAIN entries
  /\ Table(disk') /\ DOMAIN disk' \subseteq DOMAIN entries \cup DOMAIN disk
  /\ certain' \subseteq certain \cup (DOMAIN entries \cap {r})
  /\ Knows(entries)' /\ Knows(disk)'

LEMMA LinkByTokenTables ==
  ASSUME IInv, NEW r \in Runs, LinkByToken(r)
  PROVE  LinkKeepsTables(r)
<1>1. /\ r \in DOMAIN entries
      /\ entries' = [Linked(entries, r, r, "token") EXCEPT ![r].pi = r]
  BY DEF LinkByToken, ByToken, Free
<1> DEFINE f == Linked(entries, r, r, "token")
<1>2. /\ Table(f) /\ DOMAIN f = DOMAIN entries
      /\ f[r].session = r
      /\ \A y \in DOMAIN entries \ {r} : f[y] = entries[y]
  <2>1. Table(entries)
    BY DEF IInv
  <2> QED BY ONLY <2>1, <1>1, r \in Runs, LinkedTable
<1>4. f[r] \in Entry
  BY <1>1, <1>2 DEF Table
<1> HIDE DEF f
<1>5. entries' = [f EXCEPT ![r] = [f[r] EXCEPT !.pi = r]]
  BY <1>1 DEF f
<1>6. /\ DOMAIN entries' = DOMAIN entries /\ entries' = [x \in DOMAIN entries' |-> entries'[x]]
      /\ entries'[r] = [f[r] EXCEPT !.pi = r]
      /\ \A y \in DOMAIN entries \ {r} : entries'[y] = entries[y]
  BY <1>1, <1>2, <1>5 DEF Table
<1>7. entries'[r] \in Entry /\ entries'[r].pi = r /\ entries'[r].session = r
  BY <1>2, <1>4, <1>6 DEF Entry
<1>8. Table(entries')
  BY <1>6, <1>7 DEF IInv, Table
<1>9. /\ Table(disk') /\ DOMAIN disk' = DOMAIN entries
      /\ \A x \in DOMAIN entries : disk'[x].pi = entries'[x].pi
  <2>1. disk' = Persisted(entries') /\ DOMAIN entries' = DOMAIN entries
    BY <1>6 DEF LinkByToken
  <2> QED BY ONLY <2>1, <1>8, PersistedTable
<1>10. certain' = certain \cup {r}
  BY DEF LinkByToken
<1>11. Knows(entries)' /\ Knows(disk)'
  BY <1>6, <1>7, <1>9, <1>10 DEF IInv, Knows
<1> QED BY <1>1, <1>6, <1>8, <1>9, <1>10, <1>11 DEF LinkKeepsTables

LEMMA LinkByOtherTables ==
  ASSUME IInv, NEW r \in Runs, LinkByPid(r) \/ LinkSession(r)
  PROVE  LinkKeepsTables(r)
<1>1. PICK x \in DOMAIN entries, tier \in {"pid", "cwd"} :
        /\ tier = "cwd" \/ x = r
        /\ entries' = Linked(entries, x, r, tier)
        /\ UNCHANGED <<disk, certain>>
  <2>1. CASE LinkByPid(r)
    <3>1. PICK x \in ByPid(entries, r) : entries' = Linked(entries, x, r, "pid")
      BY <2>1 DEF LinkByPid
    <3>2. x \in DOMAIN entries /\ entries[x].pi = r
      BY <3>1 DEF ByPid, Free
    <3>3. x = r
      BY <3>2, RegistryAssumption DEF IInv, Table
    <3> QED BY <2>1, <3>1, <3>2, <3>3 DEF LinkByPid
  <2>2. CASE LinkSession(r)
    BY <2>2 DEF LinkSession, ByCwd, Free
  <2> QED BY <2>1, <2>2
<1>2. /\ Table(entries') /\ DOMAIN entries' = DOMAIN entries
      /\ \A y \in DOMAIN entries : entries'[y].pi = entries[y].pi
  <2>1. Table(entries)
    BY DEF IInv
  <2>2. LET f == Linked(entries, x, r, tier) IN
          /\ Table(f) /\ DOMAIN f = DOMAIN entries /\ f[x].pi = entries[x].pi
          /\ \A y \in DOMAIN entries \ {x} : f[y] = entries[y]
    BY ONLY <2>1, <1>1, r \in Runs, LinkedTable
  <2> QED BY ONLY <1>1, <2>2
<1>3. Knows(entries)' /\ Knows(disk)'
  BY <1>1, <1>2 DEF IInv, Knows
<1> QED BY <1>1, <1>2, <1>3 DEF IInv, LinkKeepsTables

LEMMA LinkTables ==
  ASSUME IInv, NEW r \in Runs, Link(r)
  PROVE  LinkKeepsTables(r)
<1>1. CASE LinkByToken(r)
  BY <1>1, LinkByTokenTables
<1>2. CASE LinkByPid(r) \/ LinkSession(r)
  BY <1>2, LinkByOtherTables
<1>3. CASE UNCHANGED <<entries, disk, certain>>
  BY <1>3 DEF IInv, Knows, LinkKeepsTables
<1> QED BY <1>1, <1>2, <1>3 DEF Link

LEMMA HeardWatch ==
  ASSUME IInv, NEW r \in Runs
  PROVE  /\ Watching(Heard(r))
         /\ Heard(r).timers \subseteq watch.timers /\ Heard(r).byToken \subseteq watch.byToken
         /\ \A d \in Dirs : Heard(r).fired[d] \in {watch.fired[d], None}
         /\ runs[r].token => r \notin Heard(r).timers /\ \A d \in Dirs : Heard(r).fired[d] # r
<1> DEFINE V == IF runs[r].token THEN Watchdog!ClearedByToken(watch, r) ELSE watch
<1>1. /\ Watching(V) /\ V.timers \subseteq watch.timers /\ V.byToken \subseteq watch.byToken
      /\ \A d \in Dirs : V.fired[d] \in {watch.fired[d], None}
      /\ runs[r].token => r \notin V.timers /\ \A d \in Dirs : V.fired[d] # r
  BY ClearedByTokenWatch DEF IInv
<1>2. Heard(r) = Watchdog!ClearedByCwd(V, DirOf[r]) /\ DirOf[r] \in Dirs
  BY DEF Heard, Dirs
<1> HIDE DEF V
<1>3. LET U == Heard(r) IN
        /\ Watching(U) /\ U.timers \subseteq V.timers /\ U.byToken \subseteq V.byToken
        /\ \A d \in Dirs : U.fired[d] \in {V.fired[d], None}
  BY <1>1, <1>2, ClearedByCwdWatch
<1>4. r # None
  BY RegistryAssumption
<1> QED BY <1>1, <1>3, <1>4

LEMMA SessionRegisterInvariant ==
  ASSUME IInv, NEW r \in Runs, SessionRegister(r)
  PROVE  IInv'
<1>1. /\ watch' = Heard(r) /\ Link(r) /\ entered' = entered
      /\ runs[r].phase \in {"awaited", "up"}
      /\ runs' = [runs EXCEPT ![r].online = TRUE, ![r].token = FALSE,
                              ![r].heard = @ \/ runs[r].token]
  BY DEF SessionRegister, Running
<1>2. /\ runs' \in [Runs -> RunType]
      /\ runs'[r].phase = runs[r].phase
      /\ runs'[r].heard => runs[r].heard \/ runs[r].token
      /\ \A x \in Runs \ {r} : runs'[x] = runs[x]
  <2>1. runs[r] \in RunType /\ runs \in [Runs -> RunType]
    BY DEF IInv
  <2>2. runs' = [runs EXCEPT ![r] = [runs[r] EXCEPT !.online = TRUE, !.token = FALSE,
                                                   !.heard = runs[r].heard \/ runs[r].token]]
    BY <1>1, <2>1
  <2>3. runs'[r] = [runs[r] EXCEPT !.online = TRUE, !.token = FALSE,
                                   !.heard = runs[r].heard \/ runs[r].token]
    BY <2>1, <2>2
  <2>4. /\ runs'[r] \in RunType /\ runs'[r].phase = runs[r].phase
        /\ runs'[r].heard = (runs[r].heard \/ runs[r].token)
    BY <2>1, <2>3 DEF RunType
  <2> QED BY <2>1, <2>2, <2>4
<1>3. LinkKeepsTables(r)
  BY <1>1, LinkTables
<1>4. /\ Watching(watch')
      /\ watch'.timers \subseteq watch.timers /\ watch'.byToken \subseteq watch.byToken
      /\ \A d \in Dirs : watch'.fired[d] \in {watch.fired[d], None}
      /\ runs[r].token => r \notin watch'.timers /\ \A d \in Dirs : watch'.fired[d] # r
  BY <1>1, HeardWatch
<1>5. Silent'
  <2> SUFFICES ASSUME NEW x \in Spawns, runs'[x].heard
               PROVE  x \notin watch'.timers /\ \A d \in Dirs : watch'.fired[d] # x
    BY DEF Silent
  <2>1. x \in Runs /\ x # None
    BY RegistryAssumption DEF Runs
  <2>2. CASE runs[x].heard
    BY <1>4, <2>1, <2>2 DEF IInv, Silent
  <2>3. CASE x = r /\ runs[r].token
    BY <1>4, <2>3
  <2> QED BY <1>2, <2>1, <2>2, <2>3
<1>6. Fresh'
  <2> SUFFICES ASSUME NEW x \in Runs, runs'[x].phase \in {"new", "awaited"}
               PROVE  /\ x \notin certain' /\ x \notin DOMAIN entries' /\ x \notin DOMAIN disk'
                      /\ x \notin watch'.byToken /\ \A d \in Dirs : watch'.fired[d] # x
                      /\ runs'[x].phase = "awaited" => x \in Spawns
    BY DEF Fresh
  <2>1. runs[x].phase = runs'[x].phase /\ x # None
    BY <1>2, RegistryAssumption
  <2>2. /\ x \notin certain /\ x \notin DOMAIN entries /\ x \notin DOMAIN disk
        /\ x \notin watch.byToken /\ \A d \in Dirs : watch.fired[d] # x
        /\ runs[x].phase = "awaited" => x \in Spawns
    BY <2>1 DEF IInv, Fresh
  <2> QED BY <1>3, <1>4, <2>1, <2>2 DEF LinkKeepsTables
<1>7. certain' \subseteq Spawns /\ entered' \in Nat
  BY <1>1, <1>3 DEF IInv, LinkKeepsTables, Table
<1> QED BY <1>2, <1>3, <1>4, <1>5, <1>6, <1>7 DEF IInv, LinkKeepsTables

\* A run ends.
LEMMA GoneRuns ==
  ASSUME IInv, NEW r \in Runs, Gone(r)
  PROVE  /\ runs' \in [Runs -> RunType]
         /\ runs'[r].phase = "gone" /\ runs'[r].heard = runs[r].heard
         /\ \A x \in Runs \ {r} : runs'[x] = runs[x]
<1>1. runs \in [Runs -> RunType] /\ runs[r] \in RunType
  BY DEF IInv
<1>2. runs' = [runs EXCEPT ![r] = [NewRun EXCEPT !.phase = "gone", !.heard = runs[r].heard]]
  BY DEF Gone
<1>3. runs'[r] = [NewRun EXCEPT !.phase = "gone", !.heard = runs[r].heard]
  BY <1>1, <1>2
<1>4. runs'[r] \in RunType /\ runs'[r].phase = "gone" /\ runs'[r].heard = runs[r].heard
  BY <1>1, <1>3 DEF NewRun, RunType
<1> QED BY <1>1, <1>2, <1>4

\* What an action preserves that ages runs and removes an entry.
LEMMA RemovalKeepsInvariant ==
  ASSUME IInv, NEW f, Table(f), Knows(f), DOMAIN f \subseteq DOMAIN entries \cup DOMAIN disk,
         entries' = f, disk' = Persisted(f) \/ disk' = disk,
         UNCHANGED <<watch, certain, entered>>,
         runs' \in [Runs -> RunType],
         \A x \in Runs :
           /\ runs'[x].heard => runs[x].heard
           /\ runs'[x].phase \in {"new", "awaited"} => runs'[x].phase = runs[x].phase
  PROVE  IInv'
<1>1. Table(disk') /\ Knows(disk) /\ DOMAIN disk' \subseteq DOMAIN entries \cup DOMAIN disk
      /\ \A x \in certain \cap DOMAIN disk' : disk'[x].pi = x
  BY PersistedTable DEF IInv, Knows
<1>2. Table(entries)' /\ Knows(entries)' /\ Table(disk)' /\ Knows(disk)' /\ Watching(watch)'
  BY <1>1 DEF IInv, Knows, Watching
<1>3. Silent'
  BY DEF IInv, Silent, Runs
<1>4. Fresh'
  BY <1>1 DEF IInv, Fresh
<1> QED BY <1>2, <1>3, <1>4 DEF IInv

LEMMA ExitInvariant ==
  ASSUME IInv, NEW r \in Runs, Exit(r)
  PROVE  IInv'
<1>1. /\ Gone(r) /\ UNCHANGED <<watch, certain, entered>>
      /\ \/ entries' = Without(entries, r) /\ disk' = Persisted(Without(entries, r))
         \/ entries' = entries /\ disk' = disk
  BY DEF Exit
<1>2. /\ runs' \in [Runs -> RunType]
      /\ \A x \in Runs :
           /\ runs'[x].heard => runs[x].heard
           /\ runs'[x].phase \in {"new", "awaited"} => runs'[x].phase = runs[x].phase
  BY <1>1, GoneRuns
<1>3. CASE entries' = Without(entries, r) /\ disk' = Persisted(Without(entries, r))
  <2> DEFINE f == Without(entries, r)
  <2>1. /\ Table(f) /\ DOMAIN f = DOMAIN entries \ {r}
        /\ \A x \in DOMAIN entries \ {r} : f[x] = entries[x]
    BY WithoutTable DEF IInv
  <2>2. entries' = f /\ disk' = Persisted(f)
    BY <1>3
  <2> HIDE DEF f
  <2>3. Knows(f)
    BY <2>1 DEF IInv, Knows
  <2> QED BY <1>1, <1>2, <2>1, <2>2, <2>3, RemovalKeepsInvariant
<1>4. CASE entries' = entries /\ disk' = disk
  BY <1>1, <1>2, <1>4, RemovalKeepsInvariant DEF IInv
<1> QED BY <1>1, <1>3, <1>4

LEMMA KillSessionInvariant ==
  ASSUME IInv, NEW r \in Runs, KillSession(r)
  PROVE  IInv'
<1>1. PICK k \in DOMAIN entries :
        /\ IF k \in Running THEN Gone(k) ELSE UNCHANGED runs
        /\ entries' = Without(entries, k)
  BY DEF KillSession
<1>2. k \in Runs /\ disk' = Persisted(entries') /\ UNCHANGED <<watch, certain, entered>>
  BY DEF KillSession, IInv, Table, Runs
<1>3. /\ runs' \in [Runs -> RunType]
      /\ \A x \in Runs :
           /\ runs'[x].heard => runs[x].heard
           /\ runs'[x].phase \in {"new", "awaited"} => runs'[x].phase = runs[x].phase
  <2>1. CASE Gone(k)
    BY <1>2, <2>1, GoneRuns
  <2>2. CASE UNCHANGED runs
    BY <2>2 DEF IInv
  <2> QED BY <1>1, <2>1, <2>2
<1> DEFINE f == Without(entries, k)
<1>4. /\ Table(f) /\ DOMAIN f = DOMAIN entries \ {k}
      /\ \A x \in DOMAIN entries \ {k} : f[x] = entries[x]
  BY WithoutTable DEF IInv
<1>5. entries' = f /\ disk' = Persisted(f)
  BY <1>1, <1>2
<1> HIDE DEF f
<1>6. Knows(f)
  BY <1>4 DEF IInv, Knows
<1> QED BY <1>2, <1>3, <1>4, <1>5, <1>6, RemovalKeepsInvariant

LEMMA RestartInvariant ==
  ASSUME IInv, Restart
  PROVE  IInv'
<1>1. /\ runs' \in [Runs -> RunType]
      /\ \A x \in Runs :
           /\ runs'[x].heard = runs[x].heard
           /\ runs'[x].phase = IF runs[x].phase = "awaited" THEN "up" ELSE runs[x].phase
  <2>1. runs' = [x \in Runs |-> [runs[x] EXCEPT !.online = FALSE,
                                                !.phase = IF @ = "awaited" THEN "up" ELSE @]]
    BY DEF Restart
  <2>2. ASSUME NEW x \in Runs
        PROVE  /\ runs'[x] \in RunType /\ runs'[x].heard = runs[x].heard
               /\ runs'[x].phase = IF runs[x].phase = "awaited" THEN "up" ELSE runs[x].phase
    <3>1. runs[x] \in RunType
      BY DEF IInv
    <3>2. runs'[x] = [runs[x] EXCEPT !.online = FALSE,
                        !.phase = IF runs[x].phase = "awaited" THEN "up" ELSE runs[x].phase]
      BY <2>1, <3>1 DEF RunType
    <3> QED BY <3>1, <3>2 DEF RunType
  <2> QED BY <2>1, <2>2
<1> DEFINE f == Reclaimed(disk, Running)
<1>2. /\ Table(f) /\ DOMAIN f \subseteq DOMAIN disk
      /\ \A x \in DOMAIN f : f[x] = disk[x]
  BY ReclaimedTable DEF IInv
<1>3. /\ entries' = f /\ disk' = Persisted(f) /\ certain' = certain /\ entered' = entered
      /\ watch' = Watchdog!NewWatchdog
  BY DEF Restart
<1> HIDE DEF f
<1>4. Knows(f)
  BY <1>2 DEF IInv, Knows
<1>5. /\ Table(disk') /\ DOMAIN disk' = DOMAIN f
      /\ \A x \in DOMAIN f : disk'[x].pi = f[x].pi
  BY <1>2, <1>3, PersistedTable
<1>6. Knows(entries)' /\ Knows(disk)'
  BY <1>3, <1>4, <1>5 DEF Knows
<1>7. /\ Watching(watch') /\ watch'.byToken = {} /\ watch'.timers = {}
      /\ \A d \in Dirs : watch'.fired[d] = None
  BY <1>3 DEF Watchdog!NewWatchdog, Watching, WatchType
<1>8. Silent'
  BY <1>7, RegistryAssumption DEF Silent, Runs
<1>9. Fresh'
  <2> SUFFICES ASSUME NEW x \in Runs, runs'[x].phase \in {"new", "awaited"}
               PROVE  /\ x \notin certain /\ x \notin DOMAIN f
                      /\ x # None /\ runs'[x].phase # "awaited"
    BY <1>3, <1>5, <1>7 DEF Fresh
  <2> QED BY <1>1, <1>2, RegistryAssumption DEF IInv, Fresh
<1> QED BY <1>1, <1>2, <1>3, <1>5, <1>6, <1>7, <1>8, <1>9 DEF IInv

LEMMA ExpireTimeoutInvariant ==
  ASSUME IInv, NEW d \in Dirs, ExpireTimeout(d)
  PROVE  IInv'
<1>1. /\ Watching(watch') /\ watch'.timers = watch.timers
      /\ watch'.byToken = watch.byToken /\ watch'.fired = watch.fired
  BY DEF ExpireTimeout, Watchdog!Expired, IInv, Watching, WatchType
<1>2. UNCHANGED <<runs, entries, disk, certain, entered>>
  BY DEF ExpireTimeout
<1>3. Table(entries)' /\ Knows(entries)' /\ Table(disk)' /\ Knows(disk)'
  BY <1>2 DEF IInv, Table, Knows
<1>4. Silent' /\ Fresh'
  BY <1>1, <1>2 DEF IInv, Silent, Fresh
<1> QED BY <1>1, <1>2, <1>3, <1>4 DEF IInv

LEMMA NextKeepsInvariant == IInv /\ [SpawnNext]_spawnVars => IInv'
<1> SUFFICES ASSUME IInv, [SpawnNext]_spawnVars PROVE IInv'
  OBVIOUS
<1>1. CASE Restart
  BY <1>1, RestartInvariant
<1>2. ASSUME NEW r \in Runs,
             \/ SpawnSession(r) \/ SpawnReturns(r) \/ StartInTerminal(r) \/ FireTimeout(r)
             \/ SessionRegister(r) \/ LoseRegister(r) \/ LoseConnection(r) \/ Exit(r) \/ KillSession(r)
      PROVE  IInv'
  BY <1>2, SpawnSessionInvariant, SpawnReturnsInvariant, StartInTerminalInvariant,
     FireTimeoutInvariant, SessionRegisterInvariant, LoseRegisterInvariant, LoseConnectionInvariant,
     ExitInvariant, KillSessionInvariant
<1>3. ASSUME NEW d \in Dirs, ExpireTimeout(d)
      PROVE  IInv'
  BY <1>3, ExpireTimeoutInvariant
<1>4. ASSUME NEW b \in Browsers, LoseBrowser(b)
      PROVE  IInv'
  <2>1. UNCHANGED <<runs, entries, disk, watch, certain, entered>>
    BY <1>4 DEF LoseBrowser
  <2>2. \A r \in Runs : runs[r].phase = "awaited" => r \in Spawns
    BY DEF IInv, Fresh
  <2>3. runs' \in [Runs -> RunType]
    BY <2>1 DEF IInv
  <2> QED BY <2>1, <2>2, <2>3, AgedKeepsInvariant
<1>5. CASE UNCHANGED spawnVars
  <2>1. \A r \in Runs : runs[r].phase = "awaited" => r \in Spawns
    BY DEF IInv, Fresh
  <2>2. runs' \in [Runs -> RunType]
    BY <1>5 DEF IInv, spawnVars
  <2> QED BY <1>5, <2>1, <2>2, AgedKeepsInvariant DEF spawnVars
<1> QED BY <1>1, <1>2, <1>3, <1>4, <1>5 DEF SpawnNext

LEMMA InvariantHolds == SpawnSpec => []IInv
BY InitInvariant, NextKeepsInvariant, PTL DEF SpawnSpec

-----------------------------------------------------------------------------
(* The reports, action by action. *)

\* A report stays backed while the records, the sockets and the history that
\* back it stay.
LEMMA ReportsKeep ==
  ASSUME RInv, UNCHANGED <<watch, reportVars>>
  PROVE  RInv'
BY DEF RInv, Backed, Retractable, reportVars

\* A message to the browser of a spawn changes one report, of the spawn's directory.
LEMMA ReportedOne ==
  ASSUME RInv, NEW r \in Spawns, NEW x \in Spawns \cup {None}
  PROVE  /\ Reported(r, x) \in [Browsers -> [Dirs -> Spawns \cup {None}]]
         /\ \A b \in Browsers, d \in Dirs :
              Reported(r, x)[b][d] = IF r \notin closed /\ b = BrowserOf[r] /\ d = DirOf[r]
                                     THEN x ELSE shown[b][d]
<1>1. BrowserOf[r] \in Browsers /\ DirOf[r] \in Dirs
  BY SpawnAssumption DEF Dirs, Runs
<1>2. shown \in [Browsers -> [Dirs -> Spawns \cup {None}]]
  BY DEF RInv
<1>3. CASE r \in closed
  BY <1>2, <1>3 DEF Reported
<1>4. CASE r \notin closed
  <2> DEFINE row == [shown[BrowserOf[r]] EXCEPT ![DirOf[r]] = x]
  <2>1. Reported(r, x) = [shown EXCEPT ![BrowserOf[r]] = row]
    BY <1>4 DEF Reported
  <2>2. /\ row \in [Dirs -> Spawns \cup {None}]
        /\ \A d \in Dirs : row[d] = IF d = DirOf[r] THEN x ELSE shown[BrowserOf[r]][d]
    BY <1>1, <1>2
  <2> HIDE DEF row
  <2> QED BY <1>1, <1>2, <1>4, <2>1, <2>2
<1> QED BY <1>3, <1>4

LEMMA SpawnReturnsReports ==
  ASSUME IInv, RInv, NEW r \in Runs, SpawnReturns(r)
  PROVE  RInv'
<1>1. r \in Spawns /\ \A d \in Dirs : watch.fired[d] # r
  BY DEF SpawnReturns, IInv, Fresh
<1>2. /\ shown' = Reported(r, None) /\ UNCHANGED <<closed, stranded>>
      /\ watch' = Watchdog!Armed(watch, r)
  BY DEF SpawnReturns
<1>3. watch'.fired = watch.fired /\ watch'.old = watch.old
  BY <1>2 DEF IInv, Watching, WatchType, Watchdog!Armed
<1>4. /\ shown' \in [Browsers -> [Dirs -> Spawns \cup {None}]]
      /\ \A b \in Browsers, d \in Dirs : shown'[b][d] \in {None, shown[b][d]}
  BY <1>1, <1>2, ReportedOne
<1>5. Backed'
  BY <1>2, <1>3, <1>4 DEF RInv, Backed, Retractable
<1> QED BY <1>2, <1>4, <1>5 DEF RInv

\* The record of the run that fires backs its own report and no longer that of
\* the one it replaces.
LEMMA FireTimeoutReports ==
  ASSUME IInv, RInv, NEW r \in Runs, FireTimeout(r)
  PROVE  RInv'
<1>1. r \in Spawns /\ DirOf[r] \in Dirs
  BY DEF FireTimeout, IInv, Watching, WatchType, Dirs, Runs
<1>2. /\ shown' = Reported(r, r) /\ closed' = closed
      /\ stranded' = stranded \cup ({watch.fired[DirOf[r]]} \ {None})
      /\ watch' = Watchdog!Fired(watch, r)
  BY DEF FireTimeout
<1>3. /\ watch'.fired = [watch.fired EXCEPT ![DirOf[r]] = r]
      /\ watch'.old = watch.old \ {DirOf[r]}
  BY <1>2 DEF IInv, Watching, WatchType, Watchdog!Fired, Watchdog!Dropped
<1>4. watch.fired \in [Dirs -> Spawns \cup {None}]
  BY DEF IInv, Watching, WatchType
<1>5. shown' \in [Browsers -> [Dirs -> Spawns \cup {None}]] /\ stranded' \subseteq Spawns
  BY <1>1, <1>2, <1>4, ReportedOne DEF RInv
<1>6. ASSUME NEW b \in Browsers, NEW d \in Dirs
      PROVE  \/ shown'[b][d] \in {None} \cup stranded'
             \/ Retractable(watch', closed', b, d, shown'[b][d])
  <2>1. shown'[b][d] = IF r \notin closed /\ b = BrowserOf[r] /\ d = DirOf[r] THEN r ELSE shown[b][d]
    BY <1>1, <1>2, ReportedOne
  <2>2. CASE r \notin closed /\ b = BrowserOf[r] /\ d = DirOf[r]
    BY <1>2, <1>3, <1>4, <2>1, <2>2 DEF Retractable
  <2>3. CASE ~(r \notin closed /\ b = BrowserOf[r] /\ d = DirOf[r])
    <3>1. shown'[b][d] = shown[b][d]
      BY <2>1, <2>3
    <3>2. shown[b][d] \in {None} \cup stranded \/ Retractable(watch, closed, b, d, shown[b][d])
      BY DEF RInv, Backed
    <3>3. CASE d = DirOf[r] /\ Retractable(watch, closed, b, d, shown[b][d])
      BY <1>2, <3>1, <3>3 DEF Retractable
    <3>4. CASE d # DirOf[r] /\ Retractable(watch, closed, b, d, shown[b][d])
      BY <1>2, <1>3, <1>4, <3>1, <3>4 DEF Retractable
    <3> QED BY <1>2, <3>1, <3>2, <3>3, <3>4
  <2> QED BY <2>2, <2>3
<1>7. Backed'
  BY <1>6 DEF Backed
<1> QED BY <1>2, <1>5, <1>7 DEF RInv

LEMMA ExpireTimeoutReports ==
  ASSUME IInv, RInv, NEW d \in Dirs, ExpireTimeout(d)
  PROVE  RInv'
<1>1. /\ UNCHANGED <<shown, closed>> /\ watch.fired[d] # None
      /\ stranded' = stranded \cup {watch.fired[d]}
      /\ watch' = [watch EXCEPT !.old = @ \cup {d}]
  BY DEF ExpireTimeout, Watchdog!Expired
<1>2. watch'.fired = watch.fired /\ watch'.old = watch.old \cup {d} /\ watch.fired[d] \in Spawns
  BY <1>1 DEF IInv, Watching, WatchType
<1>3. Backed'
  BY <1>1, <1>2 DEF RInv, Backed, Retractable
<1> QED BY <1>1, <1>2, <1>3 DEF RInv

LEMMA LoseBrowserReports ==
  ASSUME IInv, RInv, NEW b \in Browsers, LoseBrowser(b)
  PROVE  RInv'
<1>1. /\ UNCHANGED <<shown, watch>>
      /\ closed' = closed \cup {r \in Asked : BrowserOf[r] = b}
      /\ stranded' = stranded \cup ReportedIn(b)
  BY DEF LoseBrowser
<1>2. closed' \subseteq Spawns /\ stranded' \subseteq Spawns
  BY <1>1 DEF RInv, Asked, ReportedIn
<1>3. ASSUME NEW c \in Browsers, NEW d \in Dirs
      PROVE  \/ shown[c][d] \in {None} \cup stranded'
             \/ Retractable(watch, closed', c, d, shown[c][d])
  <2>1. CASE c = b
    BY <1>1, <2>1 DEF ReportedIn
  <2>2. CASE c # b
    BY <1>1, <2>2 DEF RInv, Backed, Retractable
  <2> QED BY <2>1, <2>2
<1>4. Backed'
  BY <1>1, <1>3 DEF Backed
<1> QED BY <1>1, <1>2, <1>4 DEF RInv

LEMMA RestartReports ==
  ASSUME IInv, RInv, Restart
  PROVE  RInv'
<1>1. /\ shown' = shown /\ closed' = closed \cup Asked
      /\ stranded' = stranded \cup UNION {ReportedIn(b) : b \in Browsers}
  BY DEF Restart
<1>2. closed' \subseteq Spawns /\ stranded' \subseteq Spawns
  BY <1>1 DEF RInv, Asked, ReportedIn
<1>3. \A b \in Browsers, d \in Dirs : shown[b][d] \in {None} \cup stranded'
  BY <1>1 DEF ReportedIn
<1>4. Backed'
  BY <1>1, <1>3 DEF Backed
<1> QED BY <1>1, <1>2, <1>4 DEF RInv

\* A clear leaves a record as old as it is, or takes it away.
LEMMA HeardRecords ==
  ASSUME IInv, NEW r \in Runs
  PROVE  \A d \in Dirs : Heard(r).fired[d] # None => (d \in Heard(r).old <=> d \in watch.old)
<1> DEFINE Ages(W, U) ==
             U.old \subseteq W.old /\ \A d \in Dirs : U.fired[d] # None => (d \in U.old <=> d \in W.old)
           V == IF runs[r].token THEN Watchdog!ClearedByToken(watch, r) ELSE watch
<1>1. ASSUME NEW W, Watching(W), NEW w PROVE Ages(W, Watchdog!Dropped(W, w))
  BY <1>1 DEF Watching, WatchType, Watchdog!Dropped
<1>2. ASSUME NEW W, Watching(W), NEW D PROVE Ages(W, Watchdog!Recovered(W, D))
  BY <1>2 DEF Watching, WatchType, Watchdog!Recovered
<1>3. Watching(watch)
  BY DEF IInv
<1>4. Watching(V) /\ Ages(watch, V)
  BY <1>1, <1>2, <1>3, ClearedByTokenWatch DEF Watchdog!ClearedByToken
<1>5. Heard(r) = Watchdog!ClearedByCwd(V, DirOf[r]) /\ DirOf[r] \in Dirs
  BY DEF Heard, Dirs
<1> HIDE DEF V
<1>6. Ages(V, Heard(r))
  BY <1>1, <1>2, <1>4, <1>5 DEF Watchdog!ClearedByCwd
<1>7. \A d \in Dirs : Heard(r).fired[d] \in {V.fired[d], None}
  BY <1>4, <1>5, ClearedByCwdWatch
<1> QED BY <1>4, <1>6, <1>7

\* A record a registration removes in time takes its report back with it.
LEMMA SessionRegisterReports ==
  ASSUME IInv, RInv, NEW r \in Runs, SessionRegister(r)
  PROVE  RInv'
<1> DEFINE D == Watchdog!TakenBack(watch, watch')
<1>1. /\ watch' = Heard(r) /\ shown' = TakenBack(D) /\ UNCHANGED <<closed, stranded>>
  BY DEF SessionRegister
<1>2. \A d \in Dirs : watch'.fired[d] \in {watch.fired[d], None}
  BY <1>1, HeardWatch
<1>3. \A d \in Dirs : watch'.fired[d] # None => (d \in watch'.old <=> d \in watch.old)
  BY <1>1, HeardRecords
<1>4. \A d \in Dirs : d \in D <=> d \notin watch.old /\ watch.fired[d] # None /\ watch'.fired[d] = None
  BY DEF Watchdog!TakenBack
<1> HIDE DEF D
<1>5. /\ shown' \in [Browsers -> [Dirs -> Spawns \cup {None}]]
      /\ \A b \in Browsers, d \in Dirs :
           shown'[b][d] = IF d \in D /\ watch.fired[d] \notin closed /\ BrowserOf[watch.fired[d]] = b
                          THEN None ELSE shown[b][d]
  BY <1>1 DEF TakenBack, RInv
<1>6. ASSUME NEW b \in Browsers, NEW d \in Dirs, shown'[b][d] # None, shown'[b][d] \notin stranded
      PROVE  Retractable(watch', closed, b, d, shown'[b][d])
  <2>1. shown'[b][d] = shown[b][d]
    BY <1>5, <1>6
  <2>2. Retractable(watch, closed, b, d, shown[b][d])
    BY <1>6, <2>1 DEF RInv, Backed
  <2>3. d \notin D
    BY <1>5, <1>6, <2>1, <2>2 DEF Retractable
  <2> QED BY <1>2, <1>3, <1>4, <1>6, <2>1, <2>2, <2>3 DEF Retractable
<1>7. Backed'
  BY <1>1, <1>6 DEF Backed
<1> QED BY <1>1, <1>5, <1>7 DEF RInv

LEMMA NextKeepsReports == IInv /\ RInv /\ [SpawnNext]_spawnVars => RInv'
<1> SUFFICES ASSUME IInv, RInv, [SpawnNext]_spawnVars PROVE RInv'
  OBVIOUS
<1>1. CASE Restart
  BY <1>1, RestartReports
<1>2. ASSUME NEW d \in Dirs, ExpireTimeout(d) PROVE RInv'
  BY <1>2, ExpireTimeoutReports
<1>3. ASSUME NEW b \in Browsers, LoseBrowser(b) PROVE RInv'
  BY <1>3, LoseBrowserReports
<1>4. ASSUME NEW r \in Runs, SpawnReturns(r) \/ FireTimeout(r) \/ SessionRegister(r) PROVE RInv'
  BY <1>4, SpawnReturnsReports, FireTimeoutReports, SessionRegisterReports
<1>5. ASSUME NEW r \in Runs,
             \/ SpawnSession(r) \/ StartInTerminal(r) \/ LoseRegister(r) \/ LoseConnection(r)
             \/ Exit(r) \/ KillSession(r)
      PROVE  RInv'
  <2>1. UNCHANGED <<watch, reportVars>>
    BY <1>5 DEF SpawnSession, StartInTerminal, LoseRegister, LoseConnection, Exit, KillSession
  <2> QED BY <2>1, ReportsKeep
<1>6. CASE UNCHANGED spawnVars
  BY <1>6, ReportsKeep DEF spawnVars
<1> QED BY <1>1, <1>2, <1>3, <1>4, <1>5, <1>6 DEF SpawnNext

LEMMA ReportsHold == SpawnSpec => [](IInv /\ RInv)
<1>1. SpawnInit => RInv
  BY DEF SpawnInit, RInv, Backed
<1> QED BY <1>1, InitInvariant, NextKeepsInvariant, NextKeepsReports, PTL DEF SpawnSpec

-----------------------------------------------------------------------------
(* What follows. *)

\* The state keeps its shape; in particular a timer runs only for a spawn that
\* is watched (spawn-register-watchdog.ts), whatever fires and is cleared.
THEOREM SpawnTypeCorrect == SpawnSpec => []SpawnTypeOK
<1>1. IInv /\ RInv => SpawnTypeOK
  BY DEF IInv, RInv, Table, Watching, WatchType, RunType, SpawnTypeOK
<1> QED BY <1>1, ReportsHold, PTL

\* The tiers by token and by pid link a session to its own process only
\* (linkByToken and linkByPid of headless-pid-registry.ts), across crashes.
THEOREM StrongLinksAreOwn == SpawnSpec => []StrongLinkIsOwn
<1>1. IInv => StrongLinkIsOwn
  BY DEF IInv, Table, StrongLinkIsOwn
<1> QED BY <1>1, InvariantHolds, PTL

\* A spawn whose token has come is not watched, and what a browser reports of it
\* is taken back by the token unless nothing was left to do so (clearByToken,
\* clearByCwd and _emitRecovery of spawn-register-watchdog.ts).
THEOREM RegisteredSpawnNotReported == SpawnSpec => []RegisteredIsNotReported
<1>1. IInv /\ RInv => RegisteredIsNotReported
  <2> SUFFICES ASSUME IInv, RInv, NEW r \in Spawns, runs[r].heard
               PROVE  /\ r \notin watch.timers
                      /\ r \notin stranded => \A b \in Browsers, d \in Dirs : shown[b][d] # r
    BY DEF RegisteredIsNotReported
  <2>1. r \notin watch.timers /\ r # None /\ \A d \in Dirs : watch.fired[d] # r
    BY RegistryAssumption DEF IInv, Silent, Runs
  <2> QED BY <2>1 DEF RInv, Backed, Retractable
<1> QED BY <1>1, ReportsHold, PTL

\* A run that was linked by its token takes its own entry again whenever that
\* entry is free, and no other (the tiers of event-wiring.ts, with the entries
\* cleanupOrphans gives back).
THEOREM OwnEntryFirst == SpawnSpec => LinksOwnFirst
<1> DEFINE Step == \A r \in Runs :
             /\ ~runs[r].online /\ runs'[r].online
             /\ r \in Free(entries) /\ (runs[r].token \/ r \in certain)
             => entries'[r].session = r /\ \A x \in DOMAIN entries \ {r} : entries'[x] = entries[x]
<1>1. ASSUME IInv, SpawnNext, NEW r \in Runs, ~runs[r].online, runs'[r].online
      PROVE  Link(r)
  <2>1. runs[r] \in RunType /\ runs \in [Runs -> RunType]
    BY <1>1 DEF IInv
  <2>2. ASSUME NEW x \in Runs, Gone(x) PROVE FALSE
    <3>1. runs'[x] = [NewRun EXCEPT !.phase = "gone", !.heard = runs[x].heard]
      BY <2>1, <2>2 DEF Gone
    <3>2. ~runs'[x].online
      BY <3>1 DEF NewRun
    <3>3. \A y \in Runs \ {x} : runs'[y] = runs[y]
      BY <2>1, <2>2 DEF Gone
    <3> QED BY <1>1, <3>2, <3>3
  <2>3. ASSUME UNCHANGED runs PROVE FALSE
    BY <1>1, <2>3
  <2>4. CASE Restart
    <3>1. runs' = [x \in Runs |-> [runs[x] EXCEPT !.online = FALSE,
                                                  !.phase = IF @ = "awaited" THEN "up" ELSE @]]
      BY <2>4 DEF Restart
    <3>2. ~runs'[r].online
      BY <2>1, <3>1 DEF RunType
    <3> QED BY <1>1, <3>2
  <2>5. ASSUME NEW x \in Runs,
               \/ SpawnSession(x) \/ SpawnReturns(x) \/ StartInTerminal(x) \/ LoseRegister(x) \/ LoseConnection(x)
        PROVE  FALSE
    <3>1. runs'[r].online => runs[r].online
      BY <2>1, <2>5 DEF SpawnSession, SpawnReturns, StartInTerminal, LoseRegister, LoseConnection, RunType
    <3> QED BY <1>1, <3>1
  <2>6. ASSUME NEW x \in Runs, FireTimeout(x) \/ Exit(x) \/ KillSession(x) PROVE FALSE
    <3>1. \/ UNCHANGED runs \/ \E y \in Runs : Gone(y)
      BY <1>1, <2>6 DEF FireTimeout, Exit, KillSession, Running
    <3> QED BY <3>1, <2>2, <2>3
  <2>7. ASSUME NEW x \in Runs, SessionRegister(x) PROVE Link(r)
    <3>1. \A y \in Runs \ {x} : runs'[y] = runs[y]
      BY <2>1, <2>7 DEF SessionRegister
    <3> QED BY <1>1, <2>7, <3>1 DEF SessionRegister
  <2>8. ASSUME NEW d \in Dirs, ExpireTimeout(d) PROVE FALSE
    BY <2>3, <2>8 DEF ExpireTimeout
  <2>9. ASSUME NEW b \in Browsers, LoseBrowser(b) PROVE FALSE
    BY <2>3, <2>9 DEF LoseBrowser
  <2> QED BY <1>1, <2>4, <2>5, <2>6, <2>7, <2>8, <2>9 DEF SpawnNext
<1>2. ASSUME IInv, NEW r \in Runs, Link(r), r \in Free(entries), runs[r].token \/ r \in certain
      PROVE  /\ entries'[r].session = r
             /\ \A x \in DOMAIN entries \ {r} : entries'[x] = entries[x]
  <2>1. r \in DOMAIN entries /\ Table(entries) /\ entries[r] \in Entry
    BY <1>2 DEF IInv, Table, Free
  <2>2. /\ DOMAIN Linked(entries, r, r, "token") = DOMAIN entries
        /\ Linked(entries, r, r, "token")[r].session = r
        /\ Linked(entries, r, r, "token")[r] \in Entry
        /\ \A y \in DOMAIN entries \ {r} : Linked(entries, r, r, "token")[y] = entries[y]
    <3>1. Table(Linked(entries, r, r, "token"))
      BY ONLY <2>1, r \in Runs, LinkedTable
    <3>2. /\ DOMAIN Linked(entries, r, r, "token") = DOMAIN entries
          /\ Linked(entries, r, r, "token")[r].session = r
          /\ \A y \in DOMAIN entries \ {r} : Linked(entries, r, r, "token")[y] = entries[y]
      BY ONLY <2>1, r \in Runs, LinkedTable
    <3> QED BY <2>1, <3>1, <3>2 DEF Table
  <2>3. CASE runs[r].token
    <3>1. ByToken(entries, r, runs[r].token) = {r}
      BY <1>2, <2>3 DEF ByToken
    <3>2. LinkByToken(r)
      BY <1>2, <3>1 DEF Link
    <3>3. entries' = [Linked(entries, r, r, "token") EXCEPT ![r].pi = r]
      BY <3>1, <3>2 DEF LinkByToken
    <3> QED BY <2>1, <2>2, <3>3 DEF Entry
  <2>4. CASE ~runs[r].token
    <3>1. entries[r].pi = r
      BY <1>2, <2>1, <2>4 DEF IInv, Knows
    <3>2. ByToken(entries, r, runs[r].token) = {}
      BY <2>4 DEF ByToken
    <3>3. ByPid(entries, r) = {r}
      BY <1>2, <2>1, <3>1, RegistryAssumption DEF ByPid, Free, Table
    <3>4. LinkByPid(r)
      BY <1>2, <3>2, <3>3 DEF Link
    <3>5. entries' = Linked(entries, r, r, "pid")
      BY <3>3, <3>4 DEF LinkByPid
    <3> QED BY ONLY <2>1, r \in Runs, <3>5, LinkedTable
  <2>5. runs[r].token \in BOOLEAN
    BY <1>2 DEF IInv, RunType
  <2> QED BY <2>3, <2>4
<1>3. IInv /\ [SpawnNext]_spawnVars => [Step]_spawnVars
  BY <1>1, <1>2
<1> QED BY <1>3, InvariantHolds, PTL DEF SpawnSpec, LinksOwnFirst
=============================================================================
