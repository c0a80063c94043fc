--------------------------- MODULE AutomationEngine ---------------------------
(***************************************************************************)
(* The runs of the automations (packages/automation-plugin/src/server:     *)
(* engine.ts, runner.ts, run-store.ts).  A fire of a trigger starts a run  *)
(* unless the automation's slot is taken; a run has a record on disk, a    *)
(* context in the engine's memory, and a session that a spawn brings up.   *)
(* It is finished by its session's end or death, by a failed spawn, by the *)
(* user, or by the reaper; a crash of the server leaves only the record.   *)
(*                                                                         *)
(* The automations are of one scope and have names of their own.           *)
(***************************************************************************)
EXTENDS Integers, FiniteSets

CONSTANTS
  Automations,
  Policy,         \* of each: what a fire does while the slot is taken
  Retention,      \* records kept per automation
  MaxRuns,        \* bound on the runs ever started or queued
  MaxStops,       \* bound on the stops that are under way
  MaxRestarts,    \* bound on crashes of the server
  None

ASSUME AutomationAssumption ==
  /\ None \notin Automations
  /\ Policy \in [Automations -> {"skip", "queue", "parallel"}]
  /\ {Retention, MaxRuns, MaxStops, MaxRestarts} \subseteq Nat

VARIABLES
  store,      \* the records: run -> "none", "running", "ended", "pruned"
  runs,       \* per run: [of, tracked, now, phase]
  active,     \* the runner's slots: automation -> [run, queue], run 0 when free
  nextRun,
  stops,      \* per run: the stops that await its abort
  restarts

autoVars == <<store, runs, active, nextRun, stops, restarts>>

RunIds == 1..MaxRuns

\* of: its automation; tracked: its context is in pending; now: started by hand;
\* phase: its spawn is "awaited", "spawned" once that has returned, "up" once its
\* session is bound to the context, "early" when the session came before the
\* spawn's return.
Untracked(a, phase) == [of |-> a, tracked |-> FALSE, now |-> FALSE, phase |-> phase]
NewRun == Untracked(None, "none")
FreeSlot == [run |-> 0, queue |-> 0]

AutoInit ==
  /\ store = [r \in RunIds |-> "none"]
  /\ runs = [r \in RunIds |-> NewRun]
  /\ active = [a \in Automations |-> FreeSlot]
  /\ nextRun = 1
  /\ stops = [r \in RunIds |-> 0]
  /\ restarts = 0

\* startRunFor, once the records and the runs are what it is given: the record,
\* the context, and the spawn that is awaited.  The bound never bites: see Room.
StartRun(records, contexts, a, byHand) ==
  /\ nextRun \in RunIds
  /\ store' = [records EXCEPT ![nextRun] = "running"]
  /\ runs' = [contexts EXCEPT ![nextRun] =
               [of |-> a, tracked |-> TRUE, now |-> byHand, phase |-> "awaited"]]
  /\ nextRun' = nextRun + 1

\* begin: the run takes the slot, and the queue that waits for it.
Begin(records, contexts, a, queue) ==
  /\ StartRun(records, contexts, a, FALSE)
  /\ active' = [active EXCEPT ![a] = [run |-> nextRun, queue |-> queue]]

Release(records, contexts, a) ==
  /\ store' = records /\ runs' = contexts
  /\ active' = [active EXCEPT ![a] = FreeSlot]
  /\ UNCHANGED nextRun

\* (mutation) the rest of the queue is not carried over
CompleteForgetting(records, contexts, a) ==
  \/ active[a].queue > 0 /\ Begin(records, contexts, a, 0)
  \/ active[a].queue = 0 /\ Release(records, contexts, a)

\* completeRun: whichever run has the slot, it goes to the next in the queue.
CompleteRun(records, contexts, a) ==
  \/ active[a].queue > 0 /\ Begin(records, contexts, a, active[a].queue - 1)
  \/ active[a].queue = 0 /\ Release(records, contexts, a)

\* finishRun of the store, with pruneRuns: nothing when the record is gone, else
\* the oldest records of the automation go, whatever their status.
Records(a) == {x \in RunIds : runs[x].of = a /\ store[x] \in {"running", "ended"}}
Finished(r) ==
  LET S    == Records(runs[r].of)
      kept == {x \in S : Cardinality({y \in S : y > x}) < Retention}
  IN  IF store[r] = "pruned" THEN store
      ELSE [x \in RunIds |-> CASE x \in S \ kept -> "pruned"
                               [] x = r /\ r \in kept -> "ended"
                               [] OTHER -> store[x]]

\* removePending.
Removed(r, phase) == [runs EXCEPT ![r] = Untracked(runs[r].of, phase)]

\* (mutation) the run is finished and its slot is not released
FinishHoldingSlot(r, phase) ==
  store' = Finished(r) /\ runs' = Removed(r, phase) /\ UNCHANGED <<active, nextRun>>

\* finishAndRelease
FinishAndRelease(r, phase) == CompleteRun(Finished(r), Removed(r, phase), runs[r].of)

\* The spawn's promise is outstanding.
Awaits(r) == runs[r].phase \in {"awaited", "early"}

\* Without its context, a run may still see its spawn fail.
Left(r) == IF Awaits(r) THEN "awaited" ELSE "over"

-----------------------------------------------------------------------------
\* A bound: what is queued has its place among the runs.
Queued == {q \in Automations \X RunIds : q[2] <= active[q[1]].queue}
Room == nextRun + Cardinality(Queued) <= MaxRuns

\* fire of the runner; a fire that is skipped changes nothing.
Fire(a) ==
  /\ Room
  /\ \/ active[a].run = 0 /\ Begin(store, runs, a, 0)
     \/ active[a].run # 0 /\ Policy[a] = "parallel" /\ Begin(store, runs, a, active[a].queue)
     \/ /\ active[a].run # 0 /\ Policy[a] = "queue"
        /\ active' = [active EXCEPT ![a].queue = @ + 1]
        /\ UNCHANGED <<store, runs, nextRun>>
  /\ UNCHANGED <<stops, restarts>>

\* runNowViaEngine: past the runner.
RunNow(a) == Room /\ StartRun(store, runs, a, TRUE) /\ UNCHANGED <<active, stops, restarts>>

\* The spawn's promise: a success has no effect by itself, a failure finishes the
\* run, whatever became of it meanwhile.
SpawnReturns(r) ==
  /\ Awaits(r)
  /\ runs' = [runs EXCEPT ![r].phase =
               IF ~runs[r].tracked THEN "over" ELSE IF @ = "early" THEN "up" ELSE "spawned"]
  /\ UNCHANGED <<store, active, nextRun, stops, restarts>>
SpawnFails(r) ==
  /\ Awaits(r)
  /\ FinishAndRelease(r, "over")
  /\ UNCHANGED <<stops, restarts>>

\* The first event of the run's session, which may precede the spawn's return:
\* the action is delivered to it, and the run's context is bound to it.
SessionRegistered(r) ==
  /\ runs[r].tracked /\ runs[r].phase \in {"awaited", "spawned"}
  /\ runs' = [runs EXCEPT ![r].phase = IF @ = "awaited" THEN "early" ELSE "up"]
  /\ UNCHANGED <<store, active, nextRun, stops, restarts>>

\* The agent ends: onSessionEnded; or the session is gone: onSessionDeath.
SessionEnded(r) ==
  /\ runs[r].tracked /\ runs[r].phase \in {"up", "early"}
  /\ FinishAndRelease(r, Left(r))
  /\ UNCHANGED <<stops, restarts>>

\* A session that never registered dies unnoticed.
SessionDeath(r) ==
  /\ runs[r].tracked /\ runs[r].phase = "spawned"
  /\ runs' = [runs EXCEPT ![r].phase = "over"]
  /\ UNCHANGED <<store, active, nextRun, stops, restarts>>

\* A bound: the stops under way.
Stopping == {s \in RunIds \X (1..MaxStops) : s[2] <= stops[s[1]]}

\* stopRun, up to the await of the abort, and after it.
StopRun(r) ==
  /\ runs[r].tracked /\ Cardinality(Stopping) < MaxStops
  /\ stops' = [stops EXCEPT ![r] = @ + 1]
  /\ UNCHANGED <<store, runs, active, nextRun, restarts>>
RunStopped(r) ==
  /\ stops[r] > 0
  /\ stops' = [stops EXCEPT ![r] = @ - 1]
  /\ FinishAndRelease(r, Left(r))
  /\ UNCHANGED restarts

\* The oldest of the records that still run.
Stale(r) == store[r] = "running" /\ \A x \in RunIds : store[x] = "running" => r <= x

\* (mutation) only the runs of this server's life are reaped
ReapTracked ==
  /\ \E r \in RunIds : Stale(r) /\ runs[r].tracked /\ FinishAndRelease(r, Left(r))
  /\ UNCHANGED <<stops, restarts>>

\* reapStaleRuns, one record at a time: of a run without a context only the record.
ReapStaleRuns ==
  /\ \E r \in RunIds :
       /\ Stale(r)
       /\ \/ runs[r].tracked /\ FinishAndRelease(r, Left(r))
          \/ ~runs[r].tracked /\ store' = Finished(r) /\ UNCHANGED <<runs, active, nextRun>>
  /\ UNCHANGED <<stops, restarts>>

\* The server crashes and starts again: pending and active are empty.
Restart ==
  /\ restarts < MaxRestarts
  /\ restarts' = restarts + 1
  /\ runs' = [r \in RunIds |-> Untracked(runs[r].of, IF r < nextRun THEN "over" ELSE "none")]
  /\ active' = [a \in Automations |-> FreeSlot]
  /\ stops' = [r \in RunIds |-> 0]
  /\ UNCHANGED <<store, nextRun>>

AutoNext ==
  \/ Restart \/ ReapStaleRuns
  \/ \E a \in Automations : Fire(a) \/ RunNow(a)
  \/ \E r \in RunIds :
       \/ SpawnReturns(r) \/ SpawnFails(r)
       \/ SessionRegistered(r) \/ SessionEnded(r) \/ SessionDeath(r)
       \/ StopRun(r) \/ RunStopped(r)

AutoSpec == AutoInit /\ [][AutoNext]_autoVars

\* The reaper's interval runs for the server's life, unless maxRunAgeMs is zero.
FairAutoSpec == AutoSpec /\ WF_autoVars(ReapStaleRuns)

-----------------------------------------------------------------------------
Tracked(a) == {r \in RunIds : runs[r].tracked /\ runs[r].of = a}

\* "else skip/queue automations deadlock (the prior run stays 'active' forever)"
\* (engine.ts:477): while an automation's slot is taken one of its runs is yet to
\* end, and with it the slot.
SlotHasRun == \A a \in Automations : active[a].run # 0 => Tracked(a) # {}

\* A fire leaves the queue only as the run that starts, one at a time; else it is
\* lost with the server.
QueuedFiresStart ==
  [][\A a \in Automations : active'[a].queue < active[a].queue =>
       \/ restarts' # restarts
       \/ /\ active'[a].queue = active[a].queue - 1
          /\ nextRun' = nextRun + 1 /\ runs'[nextRun].of = a /\ active'[a].run = nextRun]_autoVars

\* No record says "running" for ever: not when the session's end was never heard
\* of, nor when the server that started the run is gone.
RecordsEnd == \A r \in RunIds : store[r] = "running" ~> store[r] # "running"

\* "skip (default): drop the fire", "queue: enqueue; start when the active run
\* ends" (runner.ts:7-8): of such an automation the triggers have one run at a time.
OneRunAtATime ==
  \A a \in Automations : Policy[a] # "parallel" =>
    Cardinality({r \in Tracked(a) : ~runs[r].now}) <= 1
=============================================================================
