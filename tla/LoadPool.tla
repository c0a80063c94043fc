------------------------------- MODULE LoadPool -------------------------------
(***************************************************************************)
(* Loading session files off the main thread: the worker pool of           *)
(* session-load-worker-pool.ts and its one user, loadSessionEvents and     *)
(* cancelLoad of directory-service.ts.                                     *)
(*                                                                         *)
(* A job is dispatched to a free slot or queues for one.  It is answered   *)
(* by its worker, run on the main thread when the worker failed, or        *)
(* cancelled when the last subscriber of its session leaves.  A worker     *)
(* that is terminated may still have an answer or an error under way.      *)
(***************************************************************************)
EXTENDS Integers, FiniteSets, SequencesExt

CONSTANTS
  Sessions,
  Size,          \* worker slots
  MaxJobs,       \* bound on the jobs ever created
  MaxFailures    \* bound on workers that fail to spawn, crash or exit

ASSUME PoolAssumption == Size \in Nat \ {0} /\ MaxJobs \in Nat /\ MaxFailures \in Nat

VARIABLES
  pool,       \* [jobs, queue, slots, retired, disabled, disposed]
  deferred,   \* jobs whose in-process run is a microtask to come
  nextId,
  loading,    \* per session: the job it waits for, 0 when it waits for none
  failures    \* failures so far

loadVars == <<pool, deferred, nextId, loading, failures>>

Jobs  == 1..MaxJobs
Slots == 1..Size

NewJob  == [live |-> FALSE, slot |-> 0, timer |-> FALSE, abandoned |-> FALSE, result |-> "none"]
NewSlot == [alive |-> FALSE, busy |-> FALSE, inbox |-> <<>>]

LoadInit ==
  /\ pool = [jobs |-> [j \in Jobs |-> NewJob], queue |-> <<>>,
             slots |-> [i \in Slots |-> NewSlot], retired |-> {},
             disabled |-> FALSE, disposed |-> FALSE]
  /\ deferred = {}
  /\ nextId = 1
  /\ loading = [s \in Sessions |-> 0]
  /\ failures = 0

(***************************************************************************)
(* The pool's helpers, on a pool P.  "spawns" says whether a worker can    *)
(* be started in this step; once it cannot, workers are disabled for good. *)
(***************************************************************************)
\* finish: the first result stands.
Finish(P, j, result) ==
  IF P.jobs[j].result = "none" THEN [P EXCEPT !.jobs[j].result = result] ELSE P

\* The job leaves jobs: its timer is off, and freeSlot.
Ended(P, j) ==
  LET Q == [P EXCEPT !.jobs[j].live = FALSE, !.jobs[j].timer = FALSE]
  IN  IF P.jobs[j].slot = 0 THEN Q ELSE [Q EXCEPT !.slots[P.jobs[j].slot].busy = FALSE]

\* fallbackSettle, before it drains the queue.
RunInProcess(P, j) ==
  Finish(Ended(P, j), j, IF P.jobs[j].abandoned THEN "cancelled" ELSE "inprocess")

FreeSlots(P) == {i \in Slots : ~P.slots[i].busy}

\* (mutation) the job is posted without a timer
DispatchUntimed(P, j, i, spawns) ==
  [P EXCEPT !.jobs[j].slot = i,
            !.slots[i] = [alive |-> TRUE, busy |-> TRUE, inbox |-> Append(@.inbox, j)]]

\* dispatch, with spawnSlot: a job is never abandoned here, nor the pool disposed.
Dispatch(P, j, i, spawns) ==
  IF ~P.slots[i].alive /\ ~spawns
  THEN RunInProcess([P EXCEPT !.disabled = TRUE], j)
  ELSE [P EXCEPT !.jobs[j].slot = i, !.jobs[j].timer = TRUE,
                 !.slots[i] = [alive |-> TRUE, busy |-> TRUE, inbox |-> Append(@.inbox, j)]]

\* A pass of drainQueue's loop: the head of the queue is run, or dispatched to
\* the first free slot, or waits for one.
Pass(P, spawns) ==
  LET Q == [P EXCEPT !.queue = Tail(@)] IN
  CASE P.queue # <<>> /\ P.disabled -> RunInProcess(Q, Head(P.queue))
    [] P.queue # <<>> /\ ~P.disabled /\ FreeSlots(P) # {} ->
         Dispatch(Q, Head(P.queue), Min(FreeSlots(P)), spawns)
    [] OTHER -> P

\* drainQueue: a pass for each job that queues.
Drain(P, spawns) ==
  LET after[k \in 0..Len(P.queue)] == IF k = 0 THEN P ELSE Pass(after[k - 1], spawns)
  IN  after[Len(P.queue)]

FallbackSettle(P, j, spawns) == Drain(RunInProcess(P, j), spawns)

\* A terminated worker's answers under way, and an error unless that was why.
Retire(P, i, failed) ==
  IF P.slots[i].alive
  THEN [P EXCEPT !.slots[i] = NewSlot,
                 !.retired = @ \cup {[slot |-> i, inbox |-> P.slots[i].inbox, failed |-> failed]}]
  ELSE [P EXCEPT !.slots[i] = NewSlot]

\* killSlot after an error: every job bound to the slot falls back, also those
\* that the queue bound to it while this loop runs.
OnWorker(P, j, i) == P.jobs[j].live /\ P.jobs[j].slot = i
Crash(P, i, failed, spawns) ==
  LET after[j \in 0..MaxJobs] ==
        IF j = 0 THEN Retire(P, i, failed)
        ELSE IF OnWorker(after[j - 1], j, i) THEN FallbackSettle(after[j - 1], j, spawns)
        ELSE after[j - 1]
  IN  after[MaxJobs]

\* A message: of no effect when its job is gone, else it ends the job.
Answered(P, j, spawns) ==
  IF ~P.jobs[j].live THEN P
  ELSE Drain(IF P.jobs[j].abandoned THEN Ended(P, j) ELSE Finish(Ended(P, j), j, "worker"), spawns)

(***************************************************************************)
(* directory-service.ts, on the server's main thread.                      *)
(***************************************************************************)
\* loadSessionEvents, unless the session is already loading, with load.
LoadSession(s) ==
  /\ loading[s] = 0 /\ nextId <= MaxJobs /\ ~pool.disposed
  /\ loading' = [loading EXCEPT ![s] = nextId]
  /\ nextId' = nextId + 1
  /\ LET P == [pool EXCEPT !.jobs[nextId].live = TRUE] IN
       IF pool.disabled THEN pool' = P /\ deferred' = deferred \cup {nextId}
       ELSE /\ IF FreeSlots(P) = {} THEN pool' = [P EXCEPT !.queue = Append(@, nextId)]
               ELSE \E spawns \in BOOLEAN : pool' = Dispatch(P, nextId, Min(FreeSlots(P)), spawns)
            /\ UNCHANGED deferred
  /\ UNCHANGED failures

\* The microtask of a load while workers are disabled.
RunDeferred(j) ==
  /\ j \in deferred
  /\ deferred' = deferred \ {j}
  /\ \E spawns \in BOOLEAN : pool' = FallbackSettle(pool, j, spawns)
  /\ UNCHANGED <<nextId, loading, failures>>

\* (mutation) a job on a worker loses its timer and waits for the worker
CancelLoadUnresolved(s) ==
  /\ loading[s] # 0 /\ ~pool.disposed
  /\ LET j == loading[s] IN
       /\ pool.jobs[j].live /\ pool.jobs[j].result = "none" /\ ~pool.jobs[j].abandoned
       /\ pool.jobs[j].slot # 0
       /\ pool' = [pool EXCEPT !.jobs[j].abandoned = TRUE, !.jobs[j].timer = FALSE]
  /\ UNCHANGED <<deferred, nextId, loading, failures>>

\* cancelLoad, with cancel: a queued job is dropped; one on a worker is resolved
\* and loses its timer, its worker goes on; one that is a microtask is marked.
CancelLoad(s) ==
  /\ loading[s] # 0 /\ ~pool.disposed
  /\ LET j == loading[s]
         P == [pool EXCEPT !.jobs[j].abandoned = TRUE]
     IN  /\ P.jobs[j].live /\ P.jobs[j].result = "none" /\ ~pool.jobs[j].abandoned
         /\ pool' =
              CASE j \in Range(P.queue) ->
                     Finish([P EXCEPT !.queue = RemoveFirst(@, j), !.jobs[j].live = FALSE],
                            j, "cancelled")
                [] j \notin Range(P.queue) /\ P.jobs[j].slot # 0 ->
                     Finish([P EXCEPT !.jobs[j].timer = FALSE], j, "cancelled")
                [] OTHER -> P
  /\ UNCHANGED <<deferred, nextId, loading, failures>>

\* The end of loadSessionEvents, once its job has a result.
Loaded(s) ==
  /\ loading[s] # 0 /\ pool.jobs[loading[s]].result # "none"
  /\ loading' = [loading EXCEPT ![s] = 0]
  /\ UNCHANGED <<pool, deferred, nextId, failures>>

(***************************************************************************)
(* The workers and the timers.                                             *)
(***************************************************************************)
\* The worker of slot i answers the first job it was posted.
Answer(i) ==
  /\ pool.slots[i].alive /\ pool.slots[i].inbox # <<>>
  /\ LET j == Head(pool.slots[i].inbox) IN
       \E spawns \in BOOLEAN :
         pool' = Answered([pool EXCEPT !.slots[i].inbox = Tail(@)], j, spawns)
  /\ UNCHANGED <<deferred, nextId, loading, failures>>

\* What a terminated worker had posted arrives.
LateAnswer(w) ==
  /\ w \in pool.retired /\ w.inbox # <<>>
  /\ LET rest == [w EXCEPT !.inbox = Tail(@)]
         P    == [pool EXCEPT !.retired = (@ \ {w}) \cup {rest}]
     IN  \E spawns \in BOOLEAN : pool' = Answered(P, Head(w.inbox), spawns)
  /\ UNCHANGED <<deferred, nextId, loading, failures>>

Failure == failures < MaxFailures /\ failures' = failures + 1

\* An "error" of the worker of slot i, or of one that was terminated: either way
\* the worker the slot has now is killed.
Error(i) ==
  /\ pool.slots[i].alive /\ Failure
  /\ \E spawns \in BOOLEAN : pool' = Crash(pool, i, TRUE, spawns)
  /\ UNCHANGED <<deferred, nextId, loading>>
LateError(w) ==
  /\ w \in pool.retired /\ ~w.failed /\ Failure
  /\ LET P == [pool EXCEPT !.retired = (@ \ {w}) \cup {[w EXCEPT !.failed = TRUE]}]
     IN  \E spawns \in BOOLEAN : pool' = Crash(P, w.slot, FALSE, spawns)
  /\ UNCHANGED <<deferred, nextId, loading>>

\* An "exit" of a worker the slot still has.  Nothing else is done about its job.
Exit(i) ==
  /\ pool.slots[i].alive
  /\ pool.disposed \/ failures < MaxFailures
  /\ failures' = IF pool.disposed THEN failures ELSE failures + 1
  /\ pool' = [pool EXCEPT !.slots[i] = NewSlot]
  /\ UNCHANGED <<deferred, nextId, loading>>

\* (mutation) the job is run on the main thread, the queue waits for an answer
TimeoutWithoutDrain(j) ==
  /\ pool.jobs[j].timer
  /\ pool' = RunInProcess(Retire(pool, pool.jobs[j].slot, FALSE), j)
  /\ UNCHANGED <<deferred, nextId, loading, failures>>

\* The timer of a dispatched job: killSlot, then fallbackSettle.
Timeout(j) ==
  /\ pool.jobs[j].timer
  /\ \E spawns \in BOOLEAN :
       pool' = FallbackSettle(Retire(pool, pool.jobs[j].slot, FALSE), j, spawns)
  /\ UNCHANGED <<deferred, nextId, loading, failures>>

\* dispose: what queues is run at once, and every worker is terminated.  A slot
\* is cleared when its worker has exited (Exit).
Dispose ==
  /\ ~pool.disposed
  /\ pool' = [pool EXCEPT
       !.disposed = TRUE, !.queue = <<>>,
       !.jobs = [j \in Jobs |-> IF j \in Range(pool.queue) THEN RunInProcess(pool, j).jobs[j]
                                ELSE @[j]],
       !.slots = [i \in Slots |-> IF @[i].alive THEN @[i] ELSE NewSlot]]
  /\ UNCHANGED <<deferred, nextId, loading, failures>>

-----------------------------------------------------------------------------
LoadNext ==
  \/ Dispose
  \/ \E s \in Sessions : LoadSession(s) \/ CancelLoad(s) \/ Loaded(s)
  \/ \E i \in Slots : Answer(i) \/ Error(i) \/ Exit(i)
  \/ \E j \in Jobs : RunDeferred(j) \/ Timeout(j)
  \/ \E w \in pool.retired : LateAnswer(w) \/ LateError(w)

LoadSpec == LoadInit /\ [][LoadNext]_loadVars

\* Timers, microtasks and continuations run; a worker need not answer.
FairLoadSpec ==
  /\ LoadSpec
  /\ \A j \in Jobs : WF_loadVars(RunDeferred(j)) /\ WF_loadVars(Timeout(j))
  /\ \A s \in Sessions : WF_loadVars(Loaded(s))

-----------------------------------------------------------------------------
OnSlot(i) == {j \in Jobs : OnWorker(pool, j, i)}

\* A load without a result is on one of the ways to one: it queues, it is a
\* microtask, or it runs under its timer.
WaitingLoadIsWatched ==
  \A j \in Jobs : pool.jobs[j].live /\ pool.jobs[j].result = "none" =>
    Cardinality({w \in {"queue", "microtask", "timer"} :
                   CASE w = "queue" -> j \in Range(pool.queue)
                     [] w = "microtask" -> j \in deferred
                     [] w = "timer" -> pool.jobs[j].timer}) = 1

\* While loads queue, every slot has a job whose end will take the next of them:
\* a free worker is not forgotten.
QueueIsServed == pool.queue # <<>> => \A i \in Slots : OnSlot(i) # {}

\* Cancelled and without a timer, its worker not heard of.
Unwatched(j) == pool.jobs[j].live /\ pool.jobs[j].abandoned /\ pool.jobs[j].slot # 0

\* Whatever workers crash, hang or cannot be started, a session does not stay in
\* loadingSet, where it answers "already_loading" to everyone, provided that the
\* workers which run cancelled loads are heard of in the end.
LoadsEnd ==
  (\A j \in Jobs : []<>~Unwatched(j)) => \A s \in Sessions : loading[s] # 0 ~> loading[s] = 0
=============================================================================
