---------------------------- MODULE SpawnWatchdog ----------------------------
(***************************************************************************)
(* The watchdog that reports a spawn which does not register               *)
(* (packages/server/src/spawn-register-watchdog.ts), as operators on       *)
(*   [byCwd, fired : directory -> run, byToken, timers : sets of runs,     *)
(*    old : the directories whose fired record is past its 60 seconds].    *)
(* A run is armed under its directory, its token and its keeper's pid.  A  *)
(* registration carries pi's pid, which is no keeper's, so that the third  *)
(* index holds what byToken holds and finds nothing.                       *)
(***************************************************************************)
CONSTANTS DirOf, Dirs, None

NewWatchdog == [byCwd |-> [d \in Dirs |-> None], fired |-> [d \in Dirs |-> None],
                byToken |-> {}, timers |-> {}, old |-> {}]

\* arm: the timer of the directory's prior spawn is cleared, its token is kept.
Armed(W, r) ==
  [W EXCEPT !.timers = (@ \ {W.byCwd[DirOf[r]]}) \cup {r},
            !.byToken = @ \cup {r},
            !.byCwd[DirOf[r]] = r]

\* (mutation) the timer goes on
DroppedWithTimer(W, w) ==
  [W EXCEPT !.byToken = @ \ {w}, !.byCwd[DirOf[w]] = IF @ = w THEN None ELSE @]

\* The entry of w leaves the indices that hold it.
Dropped(W, w) ==
  [W EXCEPT !.timers = @ \ {w}, !.byToken = @ \ {w},
            !.byCwd[DirOf[w]] = IF @ = w THEN None ELSE @]

\* _fireEntry: the timeout is kept for a late registration, in the place of the
\* one the directory had.
Fired(W, r) == [Dropped(W, r) EXCEPT !.fired[DirOf[r]] = r, !.old = @ \ {DirOf[r]}]

\* RECENTLY_FIRED_TTL_MS has passed since the timeout in d.
Expired(W, d) == [W EXCEPT !.old = @ \cup {d}]

\* _emitRecovery, for the records of a set D of directories: they go, old or not.
Recovered(W, D) ==
  [W EXCEPT !.fired = [d \in Dirs |-> IF d \in D THEN None ELSE @[d]], !.old = @ \ D]

\* clearByToken: the run's watch, or else the record of its timeout.
ClearedByToken(W, r) ==
  IF r \in W.byToken THEN Dropped(W, r) ELSE Recovered(W, {d \in Dirs : W.fired[d] = r})

\* clearByCwd: whoever the directory's watch or record is about.
ClearedByCwd(W, d) ==
  IF W.byCwd[d] # None THEN Dropped(W, W.byCwd[d]) ELSE Recovered(W, {d})

\* The directories whose timeout is told to be over while W becomes V: a record
\* past its time goes without a word.
TakenBack(W, V) == {d \in Dirs \ W.old : W.fired[d] # None /\ V.fired[d] = None}
=============================================================================
