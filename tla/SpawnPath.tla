------------------------------ MODULE SpawnPath ------------------------------
(***************************************************************************)
(* A spawn's way from the browser's request to the registration of its     *)
(* bridge: spawn_session (session-action-handler.ts), the bridge's         *)
(* session_register (session-sync.ts, pi-gateway.ts, event-wiring.ts),     *)
(* kills and restarts, with the registry of HeadlessRegistry and the       *)
(* watchdog of SpawnWatchdog.                                              *)
(*                                                                         *)
(* spawnPiSession is awaited while the keeper and its pi already run: the  *)
(* bridge may register before it returns.                                  *)
(***************************************************************************)
EXTENDS HeadlessRegistry

CONSTANTS
  Early,          \* whether a bridge may register before its spawn returns
  MaxLosses,      \* bound on connections and registrations lost
  MaxRestarts,    \* bound on crashes of the server
  Fading,         \* what may go while it is needed: "record", "socket"
  Browsers,
  BrowserOf       \* the browser that asks for a spawn

ASSUME SpawnAssumption ==
  /\ Early \in BOOLEAN /\ MaxLosses \in Nat /\ MaxRestarts \in Nat
  /\ \A r \in Spawns : BrowserOf[r] \in Browsers

VARIABLES
  runs,       \* per run: [phase, token, online, heard]
  entries,    \* the registry's, by run
  disk,       \* what its file holds
  watch,
  shown,      \* per browser and directory: the run whose timeout is reported there
  closed,     \* runs whose request came over a socket that has closed since
  stranded,   \* history: runs reported with nothing left to take the report back
  certain,    \* history: runs once linked by their token
  entered,    \* entries made so far, which is their order
  losses, restarts

reportVars == <<shown, closed, stranded>>
spawnVars == <<runs, entries, disk, watch, reportVars, certain, entered, losses, restarts>>

Dirs == {DirOf[r] : r \in Runs}
Watchdog == INSTANCE SpawnWatchdog

\* token: not yet sent; heard: sent, since its spawn returned.
NewRun == [phase |-> "new", token |-> FALSE, online |-> FALSE, heard |-> FALSE]

SpawnInit ==
  /\ runs = [r \in Runs |-> NewRun]
  /\ entries = NoEntries
  /\ disk = NoEntries
  /\ watch = Watchdog!NewWatchdog
  /\ shown = [b \in Browsers |-> [d \in Dirs |-> None]]
  /\ closed = {} /\ stranded = {}
  /\ certain = {}
  /\ entered = 0 /\ losses = 0 /\ restarts = 0

\* A run is awaited until its spawn returns, up while it runs, then gone.
Running == {r \in Runs : runs[r].phase \in {"awaited", "up"}}

-----------------------------------------------------------------------------
\* spawn_session, up to the await.
SpawnSession(r) ==
  /\ r \in Spawns /\ runs[r].phase = "new"
  /\ runs' = [runs EXCEPT ![r].phase = "awaited", ![r].token = TRUE]
  /\ UNCHANGED <<entries, disk, watch, reportVars, certain, entered, losses, restarts>>

\* What the browser of run r reports of r's directory, unless the message that
\* says so has no socket to go by.
Reported(r, x) ==
  IF r \in closed THEN shown ELSE [shown EXCEPT ![BrowserOf[r]][DirOf[r]] = x]

\* It returns, which clears what the browser reports: the run is entered, and its
\* registration is awaited.
SpawnReturns(r) ==
  /\ runs[r].phase = "awaited"
  /\ runs' = [runs EXCEPT ![r].phase = "up", ![r].heard = FALSE]
  /\ entries' = With(entries, r, entered)
  /\ entered' = entered + 1
  /\ disk' = Persisted(entries')
  /\ watch' = Watchdog!Armed(watch, r)
  /\ shown' = Reported(r, None)
  /\ UNCHANGED <<closed, stranded, certain, losses, restarts>>

StartInTerminal(r) ==
  /\ r \in Terminals /\ runs[r].phase = "new"
  /\ runs' = [runs EXCEPT ![r].phase = "up"]
  /\ UNCHANGED <<entries, disk, watch, reportVars, certain, entered, losses, restarts>>

\* The watch of a spawn that did not register in time.  The record it replaces
\* was all that could take another browser's report back.
FireTimeout(r) ==
  /\ r \in watch.timers
  /\ watch' = Watchdog!Fired(watch, r)
  /\ shown' = Reported(r, r)
  /\ stranded' = stranded \cup ({watch.fired[DirOf[r]]} \ {None})
  /\ UNCHANGED <<runs, entries, disk, closed, certain, entered, losses, restarts>>

\* A minute passes without a registration.
ExpireTimeout(d) ==
  /\ "record" \in Fading
  /\ watch.fired[d] # None /\ d \notin watch.old
  /\ watch' = Watchdog!Expired(watch, d)
  /\ stranded' = stranded \cup {watch.fired[d]}
  /\ UNCHANGED <<runs, entries, disk, shown, closed, certain, entered, losses, restarts>>

\* (mutation) the link by token is not persisted
LinkByTokenInMemory(r) ==
  /\ ByToken(entries, r, runs[r].token) # {}
  /\ \E x \in ByToken(entries, r, runs[r].token) :
       entries' = [Linked(entries, x, r, "token") EXCEPT ![x].pi = r]
  /\ certain' = certain \cup {r}
  /\ UNCHANGED disk

\* The three tiers, each tried when those before it find nothing.
LinkByToken(r) ==
  /\ \E x \in ByToken(entries, r, runs[r].token) :
       entries' = [Linked(entries, x, r, "token") EXCEPT ![x].pi = r]
  /\ disk' = Persisted(entries')
  /\ certain' = certain \cup {r}
LinkByPid(r) ==
  /\ \E x \in ByPid(entries, r) : entries' = Linked(entries, x, r, "pid")
  /\ UNCHANGED <<disk, certain>>
LinkSession(r) ==
  /\ \E x \in ByCwd(entries, r) : entries' = Linked(entries, x, r, "cwd")
  /\ UNCHANGED <<disk, certain>>

Link(r) ==
  CASE ByToken(entries, r, runs[r].token) # {} -> LinkByToken(r)
    [] ByToken(entries, r, runs[r].token) = {} /\ ByPid(entries, r) # {} -> LinkByPid(r)
    [] OTHER -> \/ LinkSession(r)
                \/ ByCwd(entries, r) = {} /\ UNCHANGED <<entries, disk, certain>>

\* (mutation) a watch is cleared by the directory alone
HeardByCwd(r) == Watchdog!ClearedByCwd(watch, DirOf[r])

\* The watches a registration clears: by its token, and by its directory.
Heard(r) ==
  Watchdog!ClearedByCwd(IF runs[r].token THEN Watchdog!ClearedByToken(watch, r) ELSE watch,
                        DirOf[r])

\* What is reported once the timeouts of a set D of directories are told to be
\* over: a browser takes the message for whatever it reports of the directory.
TakenBack(D) ==
  [b \in Browsers |-> [d \in Dirs |->
     IF d \in D /\ watch.fired[d] \notin closed /\ BrowserOf[watch.fired[d]] = b THEN None
     ELSE shown[b][d]]]

\* session_register: the token goes with the first one of a process only.
SessionRegister(r) ==
  /\ r \in Running /\ ~runs[r].online
  /\ runs[r].phase = "awaited" => Early
  /\ runs' = [runs EXCEPT ![r].online = TRUE, ![r].token = FALSE,
                          ![r].heard = @ \/ runs[r].token]
  /\ watch' = Heard(r)
  /\ shown' = TakenBack(Watchdog!TakenBack(watch, watch'))
  /\ Link(r)
  /\ UNCHANGED <<closed, stranded, entered, losses, restarts>>

\* The first registration is sent to a server that is gone: the token with it.
LoseRegister(r) ==
  /\ r \in Running /\ runs[r].token /\ losses < MaxLosses
  /\ runs[r].phase = "awaited" => Early
  /\ losses' = losses + 1
  /\ runs' = [runs EXCEPT ![r].token = FALSE]
  /\ UNCHANGED <<entries, disk, watch, reportVars, certain, entered, restarts>>

\* The bridge's connection is lost; it will register again.
LoseConnection(r) ==
  /\ runs[r].online /\ losses < MaxLosses
  /\ losses' = losses + 1
  /\ runs' = [runs EXCEPT ![r].online = FALSE]
  /\ UNCHANGED <<entries, disk, watch, reportVars, certain, entered, restarts>>

\* A browser's socket closes and it connects again, with what it reports.
Asked == {r \in Spawns : runs[r].phase # "new"}
ReportedIn(b) == {shown[b][d] : d \in Dirs} \ {None}
LoseBrowser(b) ==
  /\ "socket" \in Fading /\ losses < MaxLosses
  /\ losses' = losses + 1
  /\ closed' = closed \cup {r \in Asked : BrowserOf[r] = b}
  /\ stranded' = stranded \cup ReportedIn(b)
  /\ UNCHANGED <<runs, entries, disk, watch, shown, certain, entered, restarts>>

\* A run ends.  The entry of a process that is not the server's child stays.
Gone(r) == runs' = [runs EXCEPT ![r] = [NewRun EXCEPT !.phase = "gone", !.heard = runs[r].heard]]
Exit(r) ==
  /\ r \in Running
  /\ Gone(r)
  /\ IF r \in DOMAIN entries /\ entries[r].child
     THEN entries' = Without(entries, r) /\ disk' = Persisted(entries')
     ELSE UNCHANGED <<entries, disk>>
  /\ UNCHANGED <<watch, reportVars, certain, entered, losses, restarts>>

\* killBySessionId, of the session of run r: the first entry linked to it.
KillSession(r) ==
  /\ \E x \in DOMAIN entries :
       /\ entries[x].session = r
       /\ \A y \in DOMAIN entries : entries[y].session = r => entries[x].place <= entries[y].place
       /\ IF x \in Running THEN Gone(x) ELSE UNCHANGED runs
       /\ entries' = Without(entries, x)
  /\ disk' = Persisted(entries')
  /\ UNCHANGED <<watch, reportVars, certain, entered, losses, restarts>>

\* The server crashes and starts again; the keepers and their pis go on.
Restart ==
  /\ restarts < MaxRestarts
  /\ restarts' = restarts + 1
  /\ runs' = [r \in Runs |-> [runs[r] EXCEPT !.online = FALSE,
                                             !.phase = IF @ = "awaited" THEN "up" ELSE @]]
  /\ entries' = Reclaimed(disk, Running)
  /\ disk' = Persisted(entries')
  /\ watch' = Watchdog!NewWatchdog
  /\ closed' = closed \cup Asked
  /\ stranded' = stranded \cup UNION {ReportedIn(b) : b \in Browsers}
  /\ UNCHANGED <<shown, certain, entered, losses>>

SpawnNext ==
  \/ Restart
  \/ \E d \in Dirs : ExpireTimeout(d)
  \/ \E b \in Browsers : LoseBrowser(b)
  \/ \E r \in Runs :
       \/ SpawnSession(r) \/ SpawnReturns(r) \/ StartInTerminal(r) \/ FireTimeout(r)
       \/ SessionRegister(r) \/ LoseRegister(r) \/ LoseConnection(r) \/ Exit(r) \/ KillSession(r)

SpawnSpec == SpawnInit /\ [][SpawnNext]_spawnVars

-----------------------------------------------------------------------------
Entry == [session : Runs \cup {None}, by : {"none", "token", "pid", "cwd"},
          pi : Runs \cup {None}, child : BOOLEAN, place : Nat]

SpawnTypeOK ==
  /\ runs \in [Runs -> [phase : {"new", "awaited", "up", "gone"}, token : BOOLEAN,
                        online : BOOLEAN, heard : BOOLEAN]]
  /\ DOMAIN entries \subseteq Spawns /\ \A x \in DOMAIN entries : entries[x] \in Entry
  /\ DOMAIN disk \subseteq Spawns /\ \A x \in DOMAIN disk : disk[x] \in Entry
  /\ watch \in [byCwd : [Dirs -> Spawns \cup {None}], fired : [Dirs -> Spawns \cup {None}],
                byToken : SUBSET Spawns, timers : SUBSET Spawns, old : SUBSET Dirs]
  /\ shown \in [Browsers -> [Dirs -> Spawns \cup {None}]]
  /\ closed \subseteq Spawns /\ stranded \subseteq Spawns
  /\ watch.timers \subseteq watch.byToken
  /\ certain \subseteq Spawns /\ entered \in Nat

\* A link by token or by pid is never to another process, across crashes and
\* whatever else runs in the directory: what is killed for such a session, or
\* written to its keeper, is its own.
StrongLinkIsOwn ==
  \A x \in DOMAIN entries :
    /\ entries[x].pi \in {x, None}
    /\ entries[x].by \in {"token", "pid"} => entries[x].session = x

\* A run whose first registration found its entry is linked to it whenever it
\* registers while the entry is free, as after a restart ("cleanupOrphans
\* reclaims entries", headless-pid-registry.ts): it takes no other's.
LinksOwnFirst ==
  [][\A r \in Runs :
       /\ ~runs[r].online /\ runs'[r].online
       /\ r \in Free(entries) /\ (runs[r].token \/ r \in certain)
       => entries'[r].session = r /\ \A x \in DOMAIN entries \ {r} : entries'[x] = entries[x]]_spawnVars

\* A spawn whose token has come is not watched, and no browser goes on reporting
\* that it "never registered": "late registrations ... auto-clear the timeout
\* banner" (spawn-register-watchdog.ts:13-16).  A report outlives this only if
\* what would take it back was gone first: the record past its minute, replaced by
\* another timeout of the directory or lost with the server, or the socket closed.
RegisteredIsNotReported ==
  \A r \in Spawns : runs[r].heard =>
    /\ r \notin watch.timers
    /\ r \notin stranded => \A b \in Browsers, d \in Dirs : shown[b][d] # r
=============================================================================
