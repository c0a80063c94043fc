------------------------------ MODULE SlotProofs ------------------------------
(***************************************************************************)
(* Theorems about the two parts of the server that queue work for slots:   *)
(* LoadPool and AutomationEngine.  They share no state.                    *)
(*                                                                         *)
(* LoadPool, for every set of sessions, every number of workers and every  *)
(* bound of the model: no load is left without a way to its result, and no *)
(* worker is left idle while loads queue.  A step of the pool passes       *)
(* through states in which a job that has just been taken from the queue,  *)
(* or from a killed worker, is on no way yet.  Sound is therefore stated   *)
(* of any pool P, with a set X of such jobs, and each operator is shown to *)
(* keep it; drainQueue and the loop of killSlot keep it by induction along *)
(* their passes.                                                           *)
(*                                                                         *)
(* AutomationEngine, for any automations, policies, retention and bounds:  *)
(* a slot is taken together with the start of a run of its automation, and *)
(* a run leaves pending only in finishAndRelease, which frees the slot or  *)
(* starts the next run.  It is of no matter that the run which ends need   *)
(* not be the one that holds the slot.                                     *)
(***************************************************************************)
EXTENDS LoadPool, AutomationEngine, DataLemmas, FiniteSetTheorems

-----------------------------------------------------------------------------
(* LoadPool: the inductive invariant. *)

Results == {"none", "worker", "inprocess", "cancelled"}
JobType == [live : BOOLEAN, slot : 0..Size, timer : BOOLEAN, abandoned : BOOLEAN, result : Results]
SlotType == [alive : BOOLEAN, busy : BOOLEAN, inbox : Seq(Jobs)]
Terminated == [slot : Slots, inbox : Seq(Jobs), failed : BOOLEAN]
PoolType == [jobs : [Jobs -> JobType], queue : Seq(Jobs), slots : [Slots -> SlotType],
             retired : SUBSET Terminated, disabled : BOOLEAN, disposed : BOOLEAN]

\* What queues is to be dispatched yet, once.
Queueing(P) ==
  /\ \A m \in DOMAIN P.queue : LET j == P.jobs[P.queue[m]] IN
       j.live /\ j.slot = 0 /\ j.result = "none" /\ ~j.abandoned
  /\ \A m, k \in DOMAIN P.queue : P.queue[m] = P.queue[k] => m = k

\* So is a microtask.
Deferred(P, D) ==
  \A j \in D : /\ j \in Jobs
               /\ P.jobs[j].live /\ P.jobs[j].slot = 0 /\ P.jobs[j].result = "none"
               /\ \A m \in DOMAIN P.queue : P.queue[m] # j

\* A timer is that of a job which waits for a worker.
Timed(P) ==
  \A j \in Jobs : P.jobs[j].timer =>
    P.jobs[j].live /\ P.jobs[j].slot # 0 /\ P.jobs[j].result = "none" /\ ~P.jobs[j].abandoned

\* A job without a result is on one of the three ways, but those of X.
Awaited(P, D, X) ==
  \A j \in Jobs \ X : P.jobs[j].live /\ P.jobs[j].result = "none" =>
    P.jobs[j].timer \/ j \in D \/ \E m \in DOMAIN P.queue : P.queue[m] = j

\* A busy slot has a job that will free it.
Busy(P) == \A i \in Slots : P.slots[i].busy => \E j \in Jobs : OnWorker(P, j, i)

\* What a worker was posted has been dispatched.
Dispatched(P, inbox) == \A m \in DOMAIN inbox : inbox[m] \in Jobs /\ P.jobs[inbox[m]].slot # 0
Posted(P) ==
  /\ \A i \in Slots : Dispatched(P, P.slots[i].inbox)
  /\ \A w \in P.retired : Dispatched(P, w.inbox)

Untouched(P, n) == \A j \in Jobs : j >= n => P.jobs[j] = NewJob

Sound(P, D, X, n) ==
  /\ P \in PoolType
  /\ Queueing(P) /\ Deferred(P, D) /\ Timed(P) /\ Awaited(P, D, X)
  /\ Busy(P) /\ Posted(P) /\ Untouched(P, n)

Served(P) == P.queue = <<>> \/ FreeSlots(P) = {}

PoolInv ==
  /\ Sound(pool, deferred, {}, nextId)
  /\ nextId \in Nat \ {0}
  /\ loading \in [Sessions -> 0..MaxJobs]
  /\ failures \in Nat
  /\ QueueIsServed

-----------------------------------------------------------------------------
(* The pool's operators. *)

\* A job that leaves jobs, with a result, in terms of the fields.
LEMMA EndedJob ==
  ASSUME NEW P \in PoolType, NEW j \in Jobs
  PROVE  LET Q == Ended(P, j) IN
         /\ Q \in PoolType
         /\ Q.queue = P.queue /\ Q.retired = P.retired
         /\ Q.disabled = P.disabled /\ Q.disposed = P.disposed
         /\ Q.jobs = [P.jobs EXCEPT ![j] = [P.jobs[j] EXCEPT !.live = FALSE, !.timer = FALSE]]
         /\ \A i \in Slots : Q.slots[i] = IF i = P.jobs[j].slot THEN [P.slots[i] EXCEPT !.busy = FALSE]
                                          ELSE P.slots[i]
<1> DEFINE Q == Ended(P, j)
           gone == [P.jobs[j] EXCEPT !.live = FALSE, !.timer = FALSE]
           rest == [P.jobs EXCEPT ![j] = gone]
           R == [P EXCEPT !.jobs[j].live = FALSE, !.jobs[j].timer = FALSE]
<1>1. P.jobs \in [Jobs -> JobType] /\ P.slots \in [Slots -> SlotType]
  BY DEF PoolType
<1>2. P.jobs[j] \in JobType /\ P.jobs[j].slot \in 0..Size /\ gone \in JobType
  BY <1>1 DEF JobType
<1>3. rest \in [Jobs -> JobType]
  BY <1>1, <1>2
<1>4. R = [P EXCEPT !.jobs = rest]
  BY <1>1, <1>2 DEF PoolType, JobType
<1> HIDE DEF gone, rest, R
<1>5. /\ R \in PoolType /\ R.queue = P.queue /\ R.retired = P.retired
      /\ R.disabled = P.disabled /\ R.disposed = P.disposed
      /\ R.jobs = rest /\ R.slots = P.slots
  BY <1>3, <1>4 DEF PoolType
<1>6. CASE P.jobs[j].slot = 0
  <2>1. Q = R
    BY <1>6 DEF Ended, R
  <2>2. \A i \in Slots : i # P.jobs[j].slot
    BY <1>6, PoolAssumption DEF Slots
  <2> QED BY <1>5, <2>1, <2>2 DEF rest, gone
<1>7. CASE P.jobs[j].slot # 0
  <2> DEFINE i == P.jobs[j].slot
             idle == [P.slots[i] EXCEPT !.busy = FALSE]
             slots == [P.slots EXCEPT ![i] = idle]
  <2>1. i \in Slots
    BY <1>2, <1>7, PoolAssumption DEF Slots
  <2> HIDE DEF i
  <2>2. idle \in SlotType
    BY <1>1, <2>1 DEF SlotType
  <2>3. slots \in [Slots -> SlotType]
    BY <1>1, <2>1, <2>2
  <2>4. Q = [R EXCEPT !.slots[i].busy = FALSE]
    BY <1>7 DEF Ended, R, i
  <2>5. Q = [R EXCEPT !.slots = slots]
    BY <1>1, <1>5, <2>1, <2>4 DEF PoolType, SlotType
  <2> HIDE DEF Q, slots
  <2>6. /\ Q \in PoolType /\ Q.queue = R.queue /\ Q.retired = R.retired
        /\ Q.disabled = R.disabled /\ Q.disposed = R.disposed
        /\ Q.jobs = R.jobs /\ Q.slots = slots
    BY <1>5, <2>3, <2>5 DEF PoolType
  <2>7. \A k \in Slots : slots[k] = IF k = i THEN idle ELSE P.slots[k]
    BY <1>1, <2>1 DEF slots
  <2> QED BY <1>5, <2>6, <2>7 DEF rest, gone, i, Q
<1> QED BY <1>6, <1>7

\* finish writes the first result and nothing else.
LEMMA FinishedJob ==
  ASSUME NEW P \in PoolType, NEW j \in Jobs, NEW result \in Results
  PROVE  LET Q == Finish(P, j, result) IN
         /\ Q \in PoolType
         /\ Q.queue = P.queue /\ Q.retired = P.retired /\ Q.slots = P.slots
         /\ Q.disabled = P.disabled /\ Q.disposed = P.disposed
         /\ Q.jobs[j] = [P.jobs[j] EXCEPT !.result = IF @ = "none" THEN result ELSE @]
         /\ \A x \in Jobs \ {j} : Q.jobs[x] = P.jobs[x]
<1> DEFINE Q == Finish(P, j, result)
           done == [P.jobs[j] EXCEPT !.result = result]
           jobs == [P.jobs EXCEPT ![j] = done]
<1>1. P.jobs \in [Jobs -> JobType] /\ P.jobs[j] \in JobType /\ done \in JobType
  BY DEF PoolType, JobType
<1>2. CASE P.jobs[j].result # "none"
  BY <1>1, <1>2 DEF Finish, JobType
<1>3. CASE P.jobs[j].result = "none"
  <2>1. Q = [P EXCEPT !.jobs = jobs]
    BY <1>1, <1>3 DEF Finish, PoolType, JobType
  <2>2. jobs \in [Jobs -> JobType] /\ jobs[j] = done /\ \A x \in Jobs \ {j} : jobs[x] = P.jobs[x]
    BY <1>1
  <2> HIDE DEF Q, jobs, done
  <2>3. /\ Q \in PoolType /\ Q.queue = P.queue /\ Q.retired = P.retired /\ Q.slots = P.slots
        /\ Q.disabled = P.disabled /\ Q.disposed = P.disposed /\ Q.jobs = jobs
    BY <2>1, <2>2 DEF PoolType
  <2>4. done = [P.jobs[j] EXCEPT !.result = IF @ = "none" THEN result ELSE @]
    BY <1>3 DEF done
  <2> QED BY <2>2, <2>3, <2>4 DEF Q
<1> QED BY <1>2, <1>3

\* What an end of job j does to the pool, whatever its result.
Ends(P, Q, j) ==
  /\ Q \in PoolType
  /\ Q.queue = P.queue /\ Q.retired = P.retired
  /\ Q.disabled = P.disabled /\ Q.disposed = P.disposed
  /\ ~Q.jobs[j].live /\ ~Q.jobs[j].timer /\ Q.jobs[j].slot = P.jobs[j].slot
  /\ \A x \in Jobs \ {j} : Q.jobs[x] = P.jobs[x]
  /\ \A i \in Slots : Q.slots[i] = IF i = P.jobs[j].slot THEN [P.slots[i] EXCEPT !.busy = FALSE]
                                   ELSE P.slots[i]

LEMMA EndedEnds ==
  ASSUME NEW P \in PoolType, NEW j \in Jobs
  PROVE  Ends(P, Ended(P, j), j)
<1> DEFINE Q == Ended(P, j)
           gone == [P.jobs[j] EXCEPT !.live = FALSE, !.timer = FALSE]
<1>1. P.jobs \in [Jobs -> JobType] /\ P.jobs[j] \in JobType
  BY DEF PoolType
<1>2. ~gone.live /\ ~gone.timer /\ gone.slot = P.jobs[j].slot
  BY <1>1 DEF JobType
<1>3. /\ Q \in PoolType
      /\ Q.queue = P.queue /\ Q.retired = P.retired
      /\ Q.disabled = P.disabled /\ Q.disposed = P.disposed
      /\ Q.jobs = [P.jobs EXCEPT ![j] = gone]
      /\ \A i \in Slots : Q.slots[i] = IF i = P.jobs[j].slot THEN [P.slots[i] EXCEPT !.busy = FALSE]
                                       ELSE P.slots[i]
  BY EndedJob
<1> HIDE DEF Q, gone
<1>4. Q.jobs[j] = gone /\ \A x \in Jobs \ {j} : Q.jobs[x] = P.jobs[x]
  BY <1>1, <1>3
<1> QED BY <1>2, <1>3, <1>4 DEF Ends, Q

LEMMA FinishedEnds ==
  ASSUME NEW P \in PoolType, NEW j \in Jobs, NEW result \in Results
  PROVE  Ends(P, Finish(Ended(P, j), j, result), j)
<1> DEFINE E == Ended(P, j)
           Q == Finish(E, j, result)
<1>1. Ends(P, E, j)
  BY EndedEnds
<1>2. E \in PoolType /\ E.jobs[j] \in JobType
  BY <1>1 DEF Ends, PoolType
<1>3. /\ Q \in PoolType
      /\ Q.queue = E.queue /\ Q.retired = E.retired /\ Q.slots = E.slots
      /\ Q.disabled = E.disabled /\ Q.disposed = E.disposed
      /\ Q.jobs[j] = [E.jobs[j] EXCEPT !.result = IF @ = "none" THEN result ELSE @]
      /\ \A x \in Jobs \ {j} : Q.jobs[x] = E.jobs[x]
  <2> HIDE DEF E
  <2> QED BY <1>2, FinishedJob
<1> HIDE DEF E, Q
<1>4. /\ Q.jobs[j].live = E.jobs[j].live /\ Q.jobs[j].timer = E.jobs[j].timer
      /\ Q.jobs[j].slot = E.jobs[j].slot
  BY <1>2, <1>3 DEF JobType
<1>5. Ends(P, Q, j)
  BY <1>1, <1>3, <1>4 DEF Ends
<1> QED BY <1>5 DEF E, Q

LEMMA RunEnds ==
  ASSUME NEW P \in PoolType, NEW j \in Jobs
  PROVE  Ends(P, RunInProcess(P, j), j)
BY FinishedEnds DEF RunInProcess, Results

\* A job that ends outside the queue and the microtasks leaves a sound pool.
LEMMA EndKeepsSound ==
  ASSUME NEW P, NEW Q, NEW D, NEW X, NEW n \in Nat, NEW j \in Jobs,
         Sound(P, D, X, n), Ends(P, Q, j), P.jobs[j].live,
         \A m \in DOMAIN P.queue : P.queue[m] # j
  PROVE  Sound(Q, D \ {j}, X \ {j}, n)
<1> USE DEF Sound, Ends
<1>1. Queueing(Q) /\ Timed(Q)
  BY DEF Queueing, Timed, PoolType
<1>2. Deferred(Q, D \ {j})
  BY DEF Deferred, PoolType
<1>3. Awaited(Q, D \ {j}, X \ {j})
  BY DEF Awaited, PoolType
<1>4. Busy(Q)
  <2> SUFFICES ASSUME NEW i \in Slots, Q.slots[i].busy
               PROVE  \E x \in Jobs : OnWorker(Q, x, i)
    BY DEF Busy
  <2>1. P.slots[i] \in SlotType
    BY DEF PoolType
  <2>2. i # P.jobs[j].slot /\ P.slots[i].busy
    BY <2>1 DEF SlotType
  <2>3. PICK x \in Jobs : OnWorker(P, x, i)
    BY <2>2 DEF Busy
  <2> QED BY <2>2, <2>3 DEF OnWorker
<1>5. Posted(Q)
  <2>1. \A x \in Jobs : Q.jobs[x].slot = P.jobs[x].slot
    OBVIOUS
  <2>2. \A inbox : Dispatched(P, inbox) => Dispatched(Q, inbox)
    BY <2>1 DEF Dispatched
  <2>3. ASSUME NEW i \in Slots PROVE Q.slots[i].inbox = P.slots[i].inbox
    <3>1. P.slots[i] \in SlotType
      BY DEF PoolType
    <3>2. Q.slots[i] = P.slots[i] \/ Q.slots[i] = [P.slots[i] EXCEPT !.busy = FALSE]
      OBVIOUS
    <3> HIDE DEF Sound, Ends
    <3> QED BY <3>1, <3>2 DEF SlotType
  <2> QED BY <2>2, <2>3 DEF Posted
<1>6. Untouched(Q, n)
  BY DEF Untouched, NewJob
<1> QED BY <1>1, <1>2, <1>3, <1>4, <1>5, <1>6

\* A job that is to be dispatched.
Pending(P, D, j) ==
  /\ j \in Jobs \ D /\ \A m \in DOMAIN P.queue : P.queue[m] # j
  /\ P.jobs[j].live /\ P.jobs[j].slot = 0 /\ P.jobs[j].result = "none" /\ ~P.jobs[j].abandoned

\* The head of the queue, taken from it, is the one job not seen to.
LEMMA TakenFromQueue ==
  ASSUME NEW P, NEW D, NEW n \in Nat, Sound(P, D, {}, n), P.queue # <<>>
  PROVE  LET Q == [P EXCEPT !.queue = Tail(@)]
             j == Head(P.queue)
         IN  /\ Sound(Q, D, {j}, n) /\ Pending(Q, D, j)
             /\ Len(Q.queue) = Len(P.queue) - 1 /\ Q.slots = P.slots
<1> DEFINE Q == [P EXCEPT !.queue = Tail(@)]
           j == Head(P.queue)
<1> USE DEF Sound
<1>1. P \in PoolType /\ P.queue \in Seq(Jobs) /\ 1 \in DOMAIN P.queue /\ j = P.queue[1] /\ j \in Jobs
  BY DEF PoolType
<1>2. /\ Q \in PoolType /\ Q.queue \in Seq(Jobs) /\ Q.queue = Tail(P.queue)
      /\ Q.jobs = P.jobs /\ Q.slots = P.slots /\ Q.retired = P.retired
  <2> DEFINE tail == Tail(P.queue)
  <2>1. tail \in Seq(Jobs)
    BY <1>1
  <2> HIDE DEF tail
  <2>2. Q = [P EXCEPT !.queue = tail]
    BY DEF tail
  <2> HIDE DEF Q
  <2>3. /\ Q \in PoolType /\ Q.queue = tail
        /\ Q.jobs = P.jobs /\ Q.slots = P.slots /\ Q.retired = P.retired
    BY <1>1, <2>1, <2>2 DEF PoolType
  <2> QED BY <2>1, <2>3 DEF tail
<1> HIDE DEF Q
<1>3. /\ Len(Q.queue) = Len(P.queue) - 1
      /\ \A m \in DOMAIN Q.queue : m + 1 \in DOMAIN P.queue /\ Q.queue[m] = P.queue[m + 1]
      /\ \A m \in DOMAIN P.queue : m # 1 => m - 1 \in DOMAIN Q.queue /\ P.queue[m] = Q.queue[m - 1]
  BY <1>1, <1>2
<1>4. Queueing(Q)
  <2>1. \A m \in DOMAIN Q.queue : m \in Nat
    BY <1>2
  <2> QED BY <1>2, <1>3, <2>1, SMTT(30) DEF Queueing
<1>5. \A m \in DOMAIN Q.queue : Q.queue[m] # j
  <2> SUFFICES ASSUME NEW m \in DOMAIN Q.queue, Q.queue[m] = j PROVE FALSE
    OBVIOUS
  <2>1. m \in Nat \ {0} /\ m + 1 \in DOMAIN P.queue /\ P.queue[m + 1] = P.queue[1]
    BY <1>1, <1>2, <1>3
  <2> QED BY <1>1, <2>1 DEF Queueing
<1>6. Deferred(Q, D) /\ j \notin D
  BY <1>1, <1>2, <1>3 DEF Deferred
<1>7. Timed(Q) /\ Untouched(Q, n)
  BY <1>2 DEF Timed, Untouched
<1>8. Awaited(Q, D, {j})
  <2> SUFFICES ASSUME NEW x \in Jobs \ {j}, Q.jobs[x].live, Q.jobs[x].result = "none",
                      ~Q.jobs[x].timer, x \notin D
               PROVE  \E m \in DOMAIN Q.queue : Q.queue[m] = x
    BY DEF Awaited
  <2>1. PICK m \in DOMAIN P.queue : P.queue[m] = x
    BY <1>2 DEF Awaited
  <2> QED BY <1>1, <1>3, <2>1
<1>9. Busy(Q) /\ Posted(Q)
  BY <1>2 DEF Busy, Posted, Dispatched, OnWorker
<1>10. /\ P.jobs[j].live /\ P.jobs[j].slot = 0 /\ P.jobs[j].result = "none"
       /\ ~P.jobs[j].abandoned
  BY <1>1 DEF Queueing
<1> QED BY <1>1, <1>2, <1>3, <1>4, <1>5, <1>6, <1>7, <1>8, <1>9, <1>10 DEF Q, Pending

\* A dispatched job waits for its worker, or has run when there is none.
LEMMA DispatchKeepsSound ==
  ASSUME NEW P, NEW D, NEW n \in Nat, NEW j, NEW i \in Slots, NEW spawns \in BOOLEAN,
         Sound(P, D, {j}, n), Pending(P, D, j), j < n
  PROVE  LET Q == Dispatch(P, j, i, spawns) IN
         /\ Sound(Q, D, {}, n) /\ Q.queue = P.queue
         /\ \A x \in Jobs \ {j} : Q.jobs[x] = P.jobs[x]
<1> DEFINE Q == Dispatch(P, j, i, spawns)
<1>1. /\ P \in PoolType /\ P.jobs \in [Jobs -> JobType] /\ P.jobs[j] \in JobType
      /\ P.slots \in [Slots -> SlotType] /\ P.slots[i] \in SlotType
      /\ j \in Jobs \ D /\ \A m \in DOMAIN P.queue : P.queue[m] # j
      /\ P.jobs[j].live /\ P.jobs[j].slot = 0 /\ P.jobs[j].result = "none" /\ ~P.jobs[j].abandoned
  BY DEF Sound, PoolType, Pending
<1>2. CASE ~P.slots[i].alive /\ ~spawns
  <2> DEFINE R == [P EXCEPT !.disabled = TRUE]
  <2>1. /\ R \in PoolType /\ R.jobs = P.jobs /\ R.queue = P.queue
        /\ R.slots = P.slots /\ R.retired = P.retired
    BY <1>1 DEF PoolType
  <2>2. Sound(R, D, {j}, n)
    BY <2>1, SMTT(30) DEF Sound, Queueing, Deferred, Timed, Awaited, Busy, Posted, Dispatched, Untouched, OnWorker
  <2>3. Q = RunInProcess(R, j)
    BY <1>2 DEF Dispatch
  <2> HIDE DEF Q, R
  <2>4. Ends(R, Q, j)
    BY <1>1, <2>1, <2>3, RunEnds
  <2>5. Sound(Q, D \ {j}, {j} \ {j}, n)
    BY <1>1, <2>1, <2>2, <2>4, EndKeepsSound
  <2>6. D \ {j} = D /\ {j} \ {j} = {}
    BY <1>1
  <2> QED BY <2>1, <2>4, <2>5, <2>6 DEF Ends, Q
<1>3. CASE P.slots[i].alive \/ spawns
  <2> DEFINE job == [P.jobs[j] EXCEPT !.slot = i, !.timer = TRUE]
             slot == [alive |-> TRUE, busy |-> TRUE, inbox |-> Append(P.slots[i].inbox, j)]
             jobs == [P.jobs EXCEPT ![j] = job]
             slots == [P.slots EXCEPT ![i] = slot]
  <2>1. i # 0 /\ i \in 0..Size
    BY PoolAssumption DEF Slots
  <2>2. job \in JobType
    BY <1>1, <2>1 DEF JobType
  <2>3. slot \in SlotType /\ slot.inbox = Append(P.slots[i].inbox, j)
    BY <1>1 DEF SlotType
  <2>4. /\ job.live /\ job.slot = i /\ job.timer /\ job.result = "none" /\ ~job.abandoned
    BY <1>1 DEF JobType
  <2>5. Q = [P EXCEPT !.jobs = jobs, !.slots = slots]
    BY <1>1, <1>3 DEF Dispatch, PoolType, JobType, SlotType
  <2> HIDE DEF Q, job, slot
  <2>6. /\ jobs \in [Jobs -> JobType] /\ slots \in [Slots -> SlotType]
        /\ jobs[j] = job /\ \A x \in Jobs \ {j} : jobs[x] = P.jobs[x]
        /\ slots[i] = slot /\ \A k \in Slots \ {i} : slots[k] = P.slots[k]
    BY <1>1, <2>2, <2>3
  <2> HIDE DEF jobs, slots
  <2>7. /\ Q \in PoolType /\ Q.queue = P.queue /\ Q.retired = P.retired
        /\ Q.jobs = jobs /\ Q.slots = slots
    BY <1>1, <2>5, <2>6 DEF PoolType
  <2>8. \A m \in DOMAIN P.queue : P.queue[m] \in Jobs \ {j}
    BY <1>1 DEF PoolType
  <2>9. Queueing(Q)
    <3>1. Queueing(P) /\ Q.queue = P.queue
      BY <2>7 DEF Sound
    <3>2. \A m \in DOMAIN P.queue : Q.jobs[P.queue[m]] = P.jobs[P.queue[m]]
      BY <2>6, <2>7, <2>8
    <3> QED BY <3>1, <3>2 DEF Queueing
  <2>10. Deferred(Q, D)
    BY <1>1, <2>6, <2>7 DEF Sound, Deferred
  <2>11. Timed(Q)
    BY <2>1, <2>4, <2>6, <2>7 DEF Sound, Timed
  <2>12. Awaited(Q, D, {}) /\ Untouched(Q, n)
    BY <2>4, <2>6, <2>7 DEF Sound, Awaited, Untouched, Jobs
  <2>13. Busy(Q)
    <3> SUFFICES ASSUME NEW k \in Slots, Q.slots[k].busy
                 PROVE  \E x \in Jobs : OnWorker(Q, x, k)
      BY DEF Busy
    <3>1. CASE k = i
      BY <1>1, <2>4, <2>6, <2>7, <3>1 DEF OnWorker
    <3>2. CASE k # i
      <4>1. PICK x \in Jobs : OnWorker(P, x, k)
        BY <2>6, <2>7, <3>2 DEF Sound, Busy
      <4>2. x # j
        BY <1>1, <4>1, PoolAssumption DEF OnWorker, Slots
      <4> QED BY <2>6, <2>7, <4>1, <4>2 DEF OnWorker
    <3> QED BY <3>1, <3>2
  <2>14. Posted(Q)
    <3>1. \A x \in Jobs : P.jobs[x].slot # 0 => Q.jobs[x].slot # 0
      BY <2>1, <2>4, <2>6, <2>7
    <3>2. \A inbox : Dispatched(P, inbox) => Dispatched(Q, inbox)
      BY <3>1 DEF Dispatched
    <3>3. Dispatched(Q, slot.inbox)
      <4>1. P.slots[i].inbox \in Seq(Jobs)
        BY <1>1 DEF SlotType
      <4>2. \A m \in DOMAIN slot.inbox : \/ slot.inbox[m] = j
                                         \/ m \in DOMAIN P.slots[i].inbox /\ slot.inbox[m] = P.slots[i].inbox[m]
        BY <2>3, <4>1
      <4>3. Dispatched(Q, P.slots[i].inbox)
        BY <3>2 DEF Sound, Posted
      <4>4. Q.jobs[j].slot # 0
        BY <2>1, <2>4, <2>6, <2>7
      <4> QED BY <1>1, <4>2, <4>3, <4>4 DEF Dispatched
    <3> QED BY <2>6, <2>7, <3>2, <3>3 DEF Sound, Posted
  <2> QED BY <2>6, <2>7, <2>9, <2>10, <2>11, <2>12, <2>13, <2>14 DEF Sound, Q
<1> QED BY <1>2, <1>3

\* The first free slot is one.
LEMMA FirstFreeSlot ==
  ASSUME NEW P, FreeSlots(P) # {}
  PROVE  Min(FreeSlots(P)) \in Slots
<1>1. FreeSlots(P) \in SUBSET Nat /\ FreeSlots(P) \subseteq Slots
  BY PoolAssumption DEF FreeSlots, Slots
<1> HIDE DEF FreeSlots
<1> QED BY <1>1, MinIsLeast

LEMMA PassKeepsSound ==
  ASSUME NEW P, NEW D, NEW n \in Nat, NEW spawns \in BOOLEAN, Sound(P, D, {}, n)
  PROVE  LET Q == Pass(P, spawns) IN
         /\ Sound(Q, D, {}, n)
         /\ Served(P) => Served(Q)
         /\ Served(Q) \/ Len(Q.queue) = Len(P.queue) - 1
<1> DEFINE Q == [P EXCEPT !.queue = Tail(@)]
           j == Head(P.queue)
           R == Pass(P, spawns)
<1>1. CASE P.queue = <<>>
  BY <1>1 DEF Pass, Served
<1>2. CASE P.queue # <<>>
  <2>1. /\ Sound(Q, D, {j}, n) /\ Pending(Q, D, j)
        /\ Len(Q.queue) = Len(P.queue) - 1 /\ Q.slots = P.slots
    BY <1>2, TakenFromQueue
  <2> HIDE DEF Q, j
  <2>2. /\ Q \in PoolType /\ j \in Jobs \ D /\ Q.jobs[j].live /\ Q.jobs[j].slot = 0
        /\ \A m \in DOMAIN Q.queue : Q.queue[m] # j
    BY <2>1 DEF Sound, Pending
  <2>3. j < n
    BY <2>1, <2>2 DEF Sound, Untouched, NewJob, Jobs
  <2>4. CASE P.disabled
    <3>1. R = RunInProcess(Q, j)
      BY <1>2, <2>4 DEF Pass, Q, j
    <3> HIDE DEF R
    <3>2. Ends(Q, R, j)
      BY <2>2, <3>1, RunEnds
    <3>3. Sound(R, D \ {j}, {j} \ {j}, n)
      BY <2>1, <2>2, <3>2, EndKeepsSound
    <3>4. D \ {j} = D /\ {j} \ {j} = {}
      BY <2>2
    <3>5. Len(R.queue) = Len(P.queue) - 1
      BY <2>1, <3>2 DEF Ends
    <3>6. FreeSlots(R) = FreeSlots(P)
      <4>1. \A i \in Slots : i # Q.jobs[j].slot
        BY <2>2, PoolAssumption DEF Slots
      <4>2. \A i \in Slots : R.slots[i] = P.slots[i]
        BY <2>1, <3>2, <4>1 DEF Ends
      <4> QED BY <4>2 DEF FreeSlots
    <3>7. Served(P) => Served(R)
      BY <1>2, <3>6 DEF Served
    <3> QED BY <3>3, <3>4, <3>5, <3>7 DEF R
  <2>5. CASE ~P.disabled /\ FreeSlots(P) # {}
    <3> DEFINE i == Min(FreeSlots(P))
    <3>1. R = Dispatch(Q, j, i, spawns) /\ i \in Slots
      BY <1>2, <2>5, FirstFreeSlot DEF Pass, Q, j
    <3> HIDE DEF R, i
    <3>2. i \in Slots /\ Sound(Q, D, {j}, n) /\ Pending(Q, D, j) /\ j < n
      BY <2>1, <2>3, <3>1
    <3>3. Sound(Dispatch(Q, j, i, spawns), D, {}, n) /\ Dispatch(Q, j, i, spawns).queue = Q.queue
      BY <3>2, DispatchKeepsSound
    <3> QED BY <1>2, <2>1, <2>5, <3>1, <3>3 DEF Served, R
  <2>6. CASE ~P.disabled /\ FreeSlots(P) = {}
    <3>1. R = P
      BY <1>2, <2>6 DEF Pass
    <3> QED BY <2>6, <3>1 DEF Served
  <2> QED BY <2>4, <2>5, <2>6
<1> QED BY <1>1, <1>2

\* The loop of drainQueue, by induction on its passes: afterwards nothing queues,
\* or no slot is free.
LEMMA DrainKeepsSound ==
  ASSUME NEW P, NEW D, NEW n \in Nat, NEW spawns \in BOOLEAN, Sound(P, D, {}, n)
  PROVE  Sound(Drain(P, spawns), D, {}, n) /\ Served(Drain(P, spawns))
<1> DEFINE N == Len(P.queue)
           Pools == {Q \in PoolType : Sound(Q, D, {}, n)}
           step == [k \in 1..N |-> [Q \in Pools |-> Pass(Q, spawns)]]
           Loop(f) == f = [k \in 0..N |-> IF k = 0 THEN P ELSE Pass(f[k - 1], spawns)]
           after == CHOOSE f : Loop(f)
<1>1. N \in Nat /\ P \in Pools
  BY DEF Sound, PoolType
<1>2. \A Q \in Pools : Pass(Q, spawns) \in Pools
  BY PassKeepsSound DEF Sound
<1>3. Loop(after)
  <2> HIDE DEF Pools, N
  <2>1. \A k \in 1..N, Q \in Pools : step[k][Q] = Pass(Q, spawns)
    OBVIOUS
  <2> HIDE DEF step
  <2>2. Leads(step, N, Pools)
    BY <1>2, <2>1 DEF Leads
  <2>3. PICK f : Recursion(f, N, Pools, P, step)
    BY <1>1, <2>2, RecursionExists
  <2>4. f \in [0..N -> Pools] /\ f[0] = P /\ \A k \in 1..N : f[k] = step[k][f[k - 1]]
    BY <2>3 DEF Recursion
  <2>5. \A k \in 0..N : k # 0 => k \in 1..N /\ f[k - 1] \in Pools
    BY <1>1, <2>4
  <2>6. \A k \in 0..N : f[k] = IF k = 0 THEN P ELSE Pass(f[k - 1], spawns)
    BY <2>1, <2>4, <2>5
  <2>7. Loop(f)
    BY <2>4, <2>6
  <2> HIDE DEF Loop
  <2> QED BY <2>7
<1>4. Drain(P, spawns) = after[N]
  BY DEF Drain
<1> DEFINE T == {k \in 0..N : /\ after[k] \in Pools
                              /\ Served(after[k]) \/ Len(after[k].queue) = N - k}
<1> HIDE DEF after
<1>5. 0 \in T
  BY <1>1, <1>3
<1>6. ASSUME NEW k \in 0..(N - 1), k \in T PROVE k + 1 \in T
  <2>1. after[k + 1] = Pass(after[k], spawns) /\ k + 1 \in 0..N
    BY <1>1, <1>3
  <2>2. /\ after[k + 1] \in Pools
        /\ Served(after[k]) => Served(after[k + 1])
        /\ Served(after[k + 1]) \/ Len(after[k + 1].queue) = Len(after[k].queue) - 1
    BY <1>2, <1>6, <2>1, PassKeepsSound
  <2> HIDE DEF N, Pools
  <2>3. Len(after[k].queue) = N - k => Len(after[k].queue) - 1 = N - (k + 1)
    BY <1>1
  <2> QED BY <1>6, <2>1, <2>2, <2>3
<1>7. N \in T
  <2> HIDE DEF T, N
  <2>1. 0..N \subseteq T
    BY <1>1, <1>5, <1>6, UpTo
  <2> QED BY <1>1, <2>1
<1>8. Len(after[N].queue) = 0 => after[N].queue = <<>>
  BY <1>7 DEF PoolType
<1> QED BY <1>1, <1>4, <1>7, <1>8, SMTT(30) DEF Served

\* While jobs queue every slot has one, whether or not the slot is busy.
SlotsTaken(P) == P.queue # <<>> => \A i \in Slots : \E j \in Jobs : OnWorker(P, j, i)

LEMMA ServedIsTaken ==
  ASSUME NEW P, Busy(P), Served(P)
  PROVE  SlotsTaken(P)
BY DEF Busy, Served, SlotsTaken, FreeSlots

\* A job on a slot is neither in the queue nor a microtask.
LEMMA OnWorkerIsDispatched ==
  ASSUME NEW P, NEW D, NEW n, NEW j \in Jobs, Sound(P, D, {}, n),
         P.jobs[j].slot # 0
  PROVE  j \notin D /\ \A m \in DOMAIN P.queue : P.queue[m] # j
BY DEF Sound, Queueing, Deferred

LEMMA FallbackKeepsSound ==
  ASSUME NEW P, NEW D, NEW n \in Nat, NEW j \in Jobs, NEW spawns \in BOOLEAN,
         Sound(P, D, {}, n), P.jobs[j].live, \A m \in DOMAIN P.queue : P.queue[m] # j
  PROVE  /\ Sound(FallbackSettle(P, j, spawns), D \ {j}, {}, n)
         /\ SlotsTaken(FallbackSettle(P, j, spawns))
<1> DEFINE Q == RunInProcess(P, j)
<1>1. Ends(P, Q, j)
  BY RunEnds DEF Sound
<1> HIDE DEF Q
<1>2. Sound(Q, D \ {j}, {} \ {j}, n)
  BY <1>1, EndKeepsSound
<1>3. {} \ {j} = {}
  OBVIOUS
<1>4. Sound(Drain(Q, spawns), D \ {j}, {}, n) /\ Served(Drain(Q, spawns))
  BY <1>2, <1>3, DrainKeepsSound
<1> QED BY <1>4, ServedIsTaken DEF FallbackSettle, Sound, Q

LEMMA RetireKeepsSound ==
  ASSUME NEW P, NEW D, NEW n \in Nat, NEW i \in Slots, NEW failed \in BOOLEAN,
         Sound(P, D, {}, n)
  PROVE  LET Q == Retire(P, i, failed) IN
         Sound(Q, D, {}, n) /\ Q.jobs = P.jobs /\ Q.queue = P.queue
<1> DEFINE Q == Retire(P, i, failed)
           w == [slot |-> i, inbox |-> P.slots[i].inbox, failed |-> failed]
<1>1. /\ P \in PoolType /\ P.slots \in [Slots -> SlotType] /\ P.slots[i] \in SlotType
      /\ P.retired \subseteq Terminated
  BY DEF Sound, PoolType
<1>2. NewSlot \in SlotType /\ ~NewSlot.busy /\ NewSlot.inbox = <<>> /\ w \in Terminated
  BY <1>1 DEF NewSlot, SlotType, Terminated
<1>3. /\ Q \in PoolType /\ Q.jobs = P.jobs /\ Q.queue = P.queue
      /\ Q.slots = [P.slots EXCEPT ![i] = NewSlot]
      /\ Q.retired = P.retired \/ Q.retired = P.retired \cup {w}
  BY <1>1, <1>2 DEF Retire, PoolType
<1> HIDE DEF Q
<1>4. Queueing(Q) /\ Deferred(Q, D) /\ Timed(Q) /\ Awaited(Q, D, {}) /\ Untouched(Q, n)
  BY <1>3 DEF Sound, Queueing, Deferred, Timed, Awaited, Untouched
<1>5. Busy(Q)
  BY <1>1, <1>2, <1>3 DEF Sound, Busy, OnWorker
<1>6. Posted(Q)
  <2>1. Dispatched(P, w.inbox)
    BY DEF Sound, Posted
  <2> HIDE DEF w
  <2>2. \A inbox : Dispatched(P, inbox) => Dispatched(Q, inbox)
    BY <1>3 DEF Dispatched
  <2>3. \A x \in Q.retired : Dispatched(Q, x.inbox)
    BY <1>3, <2>1, <2>2 DEF Sound, Posted
  <2>4. Dispatched(Q, NewSlot.inbox)
    BY <1>2 DEF Dispatched
  <2>5. \A k \in Slots : Q.slots[k] = NewSlot \/ Q.slots[k] = P.slots[k]
    BY <1>1, <1>3
  <2> QED BY <2>2, <2>3, <2>4, <2>5 DEF Sound, Posted
<1> QED BY <1>3, <1>4, <1>5, <1>6 DEF Sound, Q

\* The loop of killSlot, by induction on the jobs.
LEMMA CrashKeepsSound ==
  ASSUME NEW P, NEW D, NEW n \in Nat, NEW i \in Slots, NEW failed \in BOOLEAN,
         NEW spawns \in BOOLEAN, Sound(P, D, {}, n), SlotsTaken(P)
  PROVE  Sound(Crash(P, i, failed, spawns), D, {}, n) /\ SlotsTaken(Crash(P, i, failed, spawns))
<1> DEFINE Pools == {Q \in PoolType : Sound(Q, D, {}, n) /\ SlotsTaken(Q)}
           Turn(Q, j) == IF OnWorker(Q, j, i) THEN FallbackSettle(Q, j, spawns) ELSE Q
           start == Retire(P, i, failed)
           step == [j \in Jobs |-> [Q \in Pools |-> Turn(Q, j)]]
           Loop(f) == f = [j \in 0..MaxJobs |->
                             IF j = 0 THEN start
                             ELSE IF OnWorker(f[j - 1], j, i) THEN FallbackSettle(f[j - 1], j, spawns)
                             ELSE f[j - 1]]
           after == CHOOSE f : Loop(f)
<1>1. MaxJobs \in Nat /\ start \in Pools
  BY RetireKeepsSound, PoolAssumption DEF Sound, SlotsTaken, OnWorker
<1>2. ASSUME NEW j \in Jobs, NEW Q \in Pools PROVE Turn(Q, j) \in Pools
  <2>1. CASE OnWorker(Q, j, i)
    <3>1. Q.jobs[j].live /\ Q.jobs[j].slot # 0
      BY <2>1, PoolAssumption DEF OnWorker, Slots
    <3>2. j \notin D /\ \A m \in DOMAIN Q.queue : Q.queue[m] # j
      BY <3>1, OnWorkerIsDispatched
    <3>3. /\ Sound(FallbackSettle(Q, j, spawns), D \ {j}, {}, n)
          /\ SlotsTaken(FallbackSettle(Q, j, spawns))
      BY <3>1, <3>2, FallbackKeepsSound
    <3>4. D \ {j} = D
      BY <3>2
    <3> QED BY <2>1, <3>3, <3>4 DEF Sound
  <2> QED BY <2>1
<1>3. Loop(after)
  <2> HIDE DEF Pools, start, Turn
  <2>1. \A j \in 1..MaxJobs, Q \in Pools : step[j][Q] = Turn(Q, j)
    BY DEF Jobs
  <2> HIDE DEF step
  <2>2. Leads(step, MaxJobs, Pools)
    BY <1>2, <2>1 DEF Leads, Jobs
  <2>3. PICK f : Recursion(f, MaxJobs, Pools, start, step)
    BY <1>1, <2>2, RecursionExists
  <2>4. /\ f \in [0..MaxJobs -> Pools] /\ f[0] = start
        /\ \A j \in 1..MaxJobs : f[j] = step[j][f[j - 1]]
    BY <2>3 DEF Recursion
  <2>5. \A j \in 0..MaxJobs : j # 0 => j \in 1..MaxJobs /\ f[j - 1] \in Pools
    BY <1>1, <2>4
  <2>6. \A j \in 0..MaxJobs : f[j] = IF j = 0 THEN start ELSE Turn(f[j - 1], j)
    BY <2>1, <2>4, <2>5
  <2>7. Loop(f)
    BY <2>4, <2>6 DEF Turn
  <2> HIDE DEF Loop
  <2> QED BY <2>7
<1>4. Crash(P, i, failed, spawns) = after[MaxJobs]
  BY DEF Crash
<1> DEFINE T == {j \in 0..MaxJobs : after[j] \in Pools}
<1> HIDE DEF after, start
<1>5. 0 \in T
  BY <1>1, <1>3
<1>6. ASSUME NEW j \in 0..(MaxJobs - 1), j \in T PROVE j + 1 \in T
  <2>1. j + 1 \in 0..MaxJobs /\ j + 1 \in Jobs /\ after[j + 1] = Turn(after[j], j + 1)
    BY <1>1, <1>3 DEF Jobs
  <2> HIDE DEF Turn, Pools
  <2> QED BY <1>2, <1>6, <2>1
<1>7. MaxJobs \in T
  <2> HIDE DEF T
  <2>1. 0..MaxJobs \subseteq T
    BY <1>1, <1>5, <1>6, UpTo
  <2> QED BY <1>1, <2>1
<1> QED BY <1>4, <1>7

\* A message ends its job, if that is still there.
LEMMA AnsweredKeepsSound ==
  ASSUME NEW P, NEW D, NEW n \in Nat, NEW j \in Jobs, NEW spawns \in BOOLEAN,
         Sound(P, D, {}, n), SlotsTaken(P), P.jobs[j].slot # 0
  PROVE  Sound(Answered(P, j, spawns), D, {}, n) /\ SlotsTaken(Answered(P, j, spawns))
<1>1. P \in PoolType /\ j \notin D /\ \A m \in DOMAIN P.queue : P.queue[m] # j
  BY OnWorkerIsDispatched DEF Sound
<1>2. ASSUME NEW Q, Ends(P, Q, j), P.jobs[j].live
      PROVE  Sound(Drain(Q, spawns), D, {}, n) /\ SlotsTaken(Drain(Q, spawns))
  <2>1. Sound(Q, D \ {j}, {} \ {j}, n)
    BY <1>1, <1>2, EndKeepsSound
  <2>2. D \ {j} = D /\ {} \ {j} = {}
    BY <1>1
  <2>3. Sound(Drain(Q, spawns), D, {}, n) /\ Served(Drain(Q, spawns))
    BY <2>1, <2>2, DrainKeepsSound
  <2> QED BY <2>3, ServedIsTaken DEF Sound
<1>3. CASE ~P.jobs[j].live
  BY <1>3 DEF Answered
<1>4. CASE P.jobs[j].live /\ P.jobs[j].abandoned
  <2>1. Ends(P, Ended(P, j), j)
    BY <1>1, EndedEnds
  <2> QED BY <1>2, <1>4, <2>1 DEF Answered
<1>5. CASE P.jobs[j].live /\ ~P.jobs[j].abandoned
  <2>1. Ends(P, Finish(Ended(P, j), j, "worker"), j)
    BY <1>1, FinishedEnds DEF Results
  <2> QED BY <1>2, <1>5, <2>1 DEF Answered
<1> QED BY <1>3, <1>4, <1>5

-----------------------------------------------------------------------------
(* The steps. *)

LEMMA PoolInitHolds == LoadInit => PoolInv
<1> SUFFICES ASSUME LoadInit PROVE PoolInv
  OBVIOUS
<1>1. NewJob \in JobType /\ NewSlot \in SlotType /\ ~NewJob.live /\ ~NewSlot.busy
      /\ ~NewJob.timer /\ NewSlot.inbox = <<>>
  BY PoolAssumption DEF NewJob, NewSlot, JobType, SlotType, Results
<1>2. /\ pool \in PoolType /\ pool.queue = <<>> /\ pool.retired = {}
      /\ pool.jobs = [j \in Jobs |-> NewJob] /\ pool.slots = [i \in Slots |-> NewSlot]
  BY <1>1 DEF LoadInit, PoolType
<1>3. \A j \in Jobs : pool.jobs[j] = NewJob
  BY <1>2
<1>4. \A i \in Slots : pool.slots[i] = NewSlot
  BY <1>2
<1>5. Queueing(pool) /\ Deferred(pool, deferred) /\ Timed(pool) /\ Awaited(pool, deferred, {})
  BY <1>1, <1>2, <1>3 DEF LoadInit, Queueing, Deferred, Timed, Awaited
<1>6. Busy(pool) /\ Posted(pool) /\ Untouched(pool, nextId)
  BY <1>1, <1>2, <1>3, <1>4 DEF Busy, Posted, Dispatched, Untouched
<1>7. Sound(pool, deferred, {}, nextId)
  BY <1>2, <1>5, <1>6 DEF Sound
<1> QED BY <1>2, <1>7, PoolAssumption DEF LoadInit, PoolInv, QueueIsServed

\* QueueIsServed is SlotsTaken of the pool.
LEMMA ServedOfPool ==
  /\ QueueIsServed <=> SlotsTaken(pool)
  /\ QueueIsServed' <=> SlotsTaken(pool')
BY DEF QueueIsServed, SlotsTaken, OnSlot, OnWorker

\* A load: the new job is run as a microtask, queues, or is dispatched.
LEMMA LoadSessionHolds ==
  ASSUME PoolInv, NEW s \in Sessions, LoadSession(s)
  PROVE  PoolInv'
<1> DEFINE j == nextId
           job == [NewJob EXCEPT !.live = TRUE]
           P == [pool EXCEPT !.jobs[nextId].live = TRUE]
<1>1. /\ j \in Jobs /\ j \in Nat /\ pool \in PoolType /\ pool.jobs \in [Jobs -> JobType]
      /\ pool.jobs[j] = NewJob /\ pool.queue \in Seq(Jobs) /\ pool.slots \in [Slots -> SlotType]
  BY DEF PoolInv, LoadSession, Sound, PoolType, Untouched, Jobs
<1>2. /\ job.live /\ job.slot = 0 /\ job.result = "none" /\ ~job.abandoned /\ ~job.timer
      /\ job \in JobType
  BY <1>1 DEF NewJob, JobType
<1>3. P = [pool EXCEPT !.jobs = [pool.jobs EXCEPT ![j] = job]]
  BY <1>1 DEF PoolType, JobType
<1>4. /\ P \in PoolType /\ P.queue = pool.queue /\ P.slots = pool.slots /\ P.retired = pool.retired
      /\ P.jobs[j] = job /\ \A x \in Jobs \ {j} : P.jobs[x] = pool.jobs[x]
  BY <1>1, <1>2, <1>3 DEF PoolType
<1> HIDE DEF P, job
<1>5. \A m \in DOMAIN P.queue : P.queue[m] # j
  BY <1>1, <1>4 DEF PoolInv, Sound, Queueing, NewJob
<1>6. j \notin deferred
  BY <1>1 DEF PoolInv, Sound, Deferred, NewJob
<1>7. Queueing(P) /\ Deferred(P, deferred) /\ Timed(P)
  <2>1. Queueing(pool) /\ Deferred(pool, deferred) /\ Timed(pool)
    BY DEF PoolInv, Sound
  <2>2. \A m \in DOMAIN pool.queue : pool.queue[m] \in Jobs \ {j}
    BY <1>1, <1>4, <1>5
  <2>3. \A m \in DOMAIN pool.queue : P.jobs[pool.queue[m]] = pool.jobs[pool.queue[m]]
    BY <1>4, <2>2
  <2>4. Queueing(P)
    BY <1>4, <2>1, <2>3 DEF Queueing
  <2>5. Deferred(P, deferred)
    BY <1>4, <1>6, <2>1 DEF Deferred
  <2>6. Timed(P)
    BY <1>2, <1>4, <2>1 DEF Timed
  <2> QED BY <2>4, <2>5, <2>6
<1>8. Awaited(P, deferred, {j}) /\ Untouched(P, nextId + 1)
  BY <1>1, <1>4 DEF PoolInv, Sound, Awaited, Untouched, Jobs
<1>9. Busy(P)
  BY <1>1, <1>4 DEF PoolInv, Sound, Busy, OnWorker, NewJob
<1>10. Posted(P)
  <2>1. \A x \in Jobs : pool.jobs[x].slot # 0 => P.jobs[x].slot # 0
    BY <1>1, <1>4 DEF NewJob
  <2>2. \A inbox : Dispatched(pool, inbox) => Dispatched(P, inbox)
    BY <2>1 DEF Dispatched
  <2> QED BY <1>4, <2>2 DEF PoolInv, Sound, Posted
<1>11. Sound(P, deferred, {j}, nextId + 1)
  BY <1>4, <1>7, <1>8, <1>9, <1>10 DEF Sound
<1>12. SlotsTaken(P)
  <2> SUFFICES ASSUME P.queue # <<>>, NEW k \in Slots PROVE \E x \in Jobs : OnWorker(P, x, k)
    BY DEF SlotsTaken
  <2>1. PICK x \in Jobs : OnWorker(pool, x, k)
    BY <1>4, ServedOfPool DEF PoolInv, SlotsTaken
  <2>2. x # j
    BY <1>1, <2>1 DEF OnWorker, NewJob
  <2> QED BY <1>4, <2>1, <2>2 DEF OnWorker
<1>13. /\ nextId' = nextId + 1 /\ nextId' \in Nat \ {0} /\ nextId + 1 \in Nat
       /\ loading' \in [Sessions -> 0..MaxJobs] /\ failures' \in Nat
  BY <1>1 DEF PoolInv, LoadSession, Jobs
<1>14. CASE pool.disabled
  <2>1. pool' = P /\ deferred' = deferred \cup {j}
    BY <1>14 DEF LoadSession, P
  <2>2. Deferred(P, deferred \cup {j})
    BY <1>1, <1>2, <1>4, <1>5, <1>7 DEF Deferred
  <2>3. Awaited(P, deferred \cup {j}, {})
    BY <1>8 DEF Awaited
  <2>4. Sound(P, deferred \cup {j}, {}, nextId + 1)
    BY <1>11, <2>2, <2>3 DEF Sound
  <2> QED BY <1>1, <1>12, <1>13, <2>1, <2>4, ServedOfPool DEF PoolInv
<1>15. CASE ~pool.disabled /\ FreeSlots(P) = {}
  <2> DEFINE Q == [P EXCEPT !.queue = Append(@, j)]
  <2>1. pool' = Q /\ deferred' = deferred
    BY <1>15 DEF LoadSession, P
  <2>2. /\ Q \in PoolType /\ Q.queue = Append(pool.queue, j) /\ Q.slots = P.slots
        /\ Q.retired = P.retired /\ Q.jobs = P.jobs
    <3> DEFINE queue == Append(P.queue, j)
    <3>1. queue \in Seq(Jobs)
      BY <1>1, <1>4
    <3>2. Q = [P EXCEPT !.queue = queue]
      OBVIOUS
    <3> HIDE DEF queue, Q
    <3>3. /\ Q \in PoolType /\ Q.queue = queue /\ Q.slots = P.slots
          /\ Q.retired = P.retired /\ Q.jobs = P.jobs
      BY <1>4, <3>1, <3>2 DEF PoolType
    <3> QED BY <1>4, <3>3 DEF queue
  <2> HIDE DEF Q
  <2>3. /\ DOMAIN Q.queue = 1..(Len(pool.queue) + 1) /\ Len(pool.queue) \in Nat
        /\ DOMAIN pool.queue = 1..Len(pool.queue)
        /\ Q.queue[Len(pool.queue) + 1] = j
        /\ \A m \in DOMAIN pool.queue : Q.queue[m] = pool.queue[m]
    BY <1>1, <2>2
  <2>4. \A m \in DOMAIN Q.queue : m \in DOMAIN pool.queue \/ m = Len(pool.queue) + 1
    BY <2>3
  <2>5. Queueing(Q)
    <3>1. ASSUME NEW m \in DOMAIN Q.queue
          PROVE  LET x == Q.jobs[Q.queue[m]] IN x.live /\ x.slot = 0 /\ x.result = "none" /\ ~x.abandoned
      BY <1>2, <1>4, <1>7, <2>2, <2>3, <2>4 DEF Queueing
    <3>2. ASSUME NEW m \in DOMAIN Q.queue, NEW k \in DOMAIN Q.queue, Q.queue[m] = Q.queue[k]
          PROVE  m = k
      BY <1>4, <1>5, <1>7, <2>3, <2>4, <3>2 DEF Queueing
    <3> QED BY <3>1, <3>2 DEF Queueing
  <2>6. Deferred(Q, deferred)
    BY <1>4, <1>6, <1>7, <2>2, <2>3, <2>4 DEF Deferred
  <2>7. Awaited(Q, deferred, {})
    <3>1. Len(pool.queue) + 1 \in DOMAIN Q.queue /\ DOMAIN pool.queue \subseteq DOMAIN Q.queue
      BY <2>3
    <3> QED BY <1>4, <1>8, <2>2, <2>3, <3>1 DEF Awaited
  <2>8. Timed(Q) /\ Busy(Q) /\ Posted(Q) /\ Untouched(Q, nextId + 1)
    BY <1>11, <2>2 DEF Sound, Timed, Busy, Posted, Dispatched, Untouched, OnWorker
  <2>9. Sound(Q, deferred, {}, nextId + 1)
    BY <2>2, <2>5, <2>6, <2>7, <2>8 DEF Sound
  <2>10. SlotsTaken(Q)
    BY <1>15, <2>2, <2>8, ServedIsTaken DEF Served, FreeSlots
  <2> QED BY <1>13, <2>1, <2>9, <2>10, ServedOfPool DEF PoolInv
<1>16. CASE ~pool.disabled /\ FreeSlots(P) # {}
  <2> DEFINE i == Min(FreeSlots(P))
  <2>1. PICK spawns \in BOOLEAN : pool' = Dispatch(P, j, i, spawns) /\ deferred' = deferred
    BY <1>16 DEF LoadSession, P
  <2>2. i \in Slots
    BY <1>16, FirstFreeSlot
  <2> HIDE DEF i
  <2>3. LET Q == Dispatch(P, j, i, spawns) IN
        /\ Sound(Q, deferred, {}, nextId + 1) /\ Q.queue = P.queue
        /\ \A x \in Jobs \ {j} : Q.jobs[x] = P.jobs[x]
    <3> DEFINE n == nextId + 1
    <3>1. Pending(P, deferred, j)
      BY <1>1, <1>2, <1>4, <1>5, <1>6 DEF Pending
    <3>2. n \in Nat /\ j < n /\ Sound(P, deferred, {j}, n)
      BY <1>1, <1>11
    <3> HIDE DEF j, n
    <3>3. LET Q == Dispatch(P, j, i, spawns) IN
          /\ Sound(Q, deferred, {}, n) /\ Q.queue = P.queue
          /\ \A x \in Jobs \ {j} : Q.jobs[x] = P.jobs[x]
      BY <2>2, <3>1, <3>2, DispatchKeepsSound
    <3> QED BY <3>3 DEF n, j
  <2>4. SlotsTaken(pool')
    <3> SUFFICES ASSUME pool'.queue # <<>>, NEW k \in Slots
                 PROVE  \E x \in Jobs : OnWorker(pool', x, k)
      BY DEF SlotsTaken
    <3>1. PICK x \in Jobs : OnWorker(P, x, k)
      BY <1>12, <2>1, <2>3 DEF SlotsTaken
    <3>2. x # j
      BY <1>2, <1>4, <3>1, PoolAssumption DEF OnWorker, Slots
    <3> QED BY <2>1, <2>3, <3>1, <3>2 DEF OnWorker
  <2> QED BY <1>13, <2>1, <2>3, <2>4, ServedOfPool DEF PoolInv
<1> QED BY <1>14, <1>15, <1>16

\* Every other step keeps the loads it knows.
LEMMA PoolStep ==
  ASSUME PoolInv, Sound(pool', deferred', {}, nextId), SlotsTaken(pool'),
         nextId' = nextId, loading' = loading, failures' \in Nat
  PROVE  PoolInv'
BY ServedOfPool DEF PoolInv

LEMMA RunDeferredHolds ==
  ASSUME PoolInv, NEW j \in Jobs, RunDeferred(j)
  PROVE  PoolInv'
<1>1. /\ Sound(pool, deferred, {}, nextId) /\ nextId \in Nat
      /\ pool.jobs[j].live /\ \A m \in DOMAIN pool.queue : pool.queue[m] # j
  BY DEF PoolInv, RunDeferred, Sound, Deferred
<1>2. PICK spawns \in BOOLEAN : pool' = FallbackSettle(pool, j, spawns)
  BY DEF RunDeferred
<1>3. /\ Sound(FallbackSettle(pool, j, spawns), deferred \ {j}, {}, nextId)
      /\ SlotsTaken(FallbackSettle(pool, j, spawns))
  BY <1>1, FallbackKeepsSound
<1> QED BY <1>2, <1>3, PoolStep DEF RunDeferred, PoolInv

\* A job outside the queue that keeps its place, with or without a result.
LEMMA JobChangeKeepsSound ==
  ASSUME NEW P, NEW Q, NEW D, NEW n \in Nat, NEW j \in Jobs, Sound(P, D, {}, n),
         Q \in PoolType, Q.queue = P.queue, Q.slots = P.slots, Q.retired = P.retired,
         \A x \in Jobs \ {j} : Q.jobs[x] = P.jobs[x],
         P.jobs[j].live, Q.jobs[j].live, Q.jobs[j].slot = P.jobs[j].slot,
         \A m \in DOMAIN P.queue : P.queue[m] # j,
         ~Q.jobs[j].timer,
         Q.jobs[j].result = "none" <=> j \in D
  PROVE  Sound(Q, D, {}, n) /\ (SlotsTaken(P) => SlotsTaken(Q))
<1>1. Queueing(Q)
  <2>1. Queueing(P)
    BY DEF Sound
  <2>2. \A m \in DOMAIN P.queue : P.queue[m] \in Jobs \ {j}
    BY DEF Sound, PoolType
  <2>3. \A m \in DOMAIN P.queue : Q.jobs[P.queue[m]] = P.jobs[P.queue[m]]
    BY <2>2
  <2> QED BY <2>1, <2>3 DEF Queueing
<1>2. Deferred(Q, D)
  BY DEF Sound, Deferred
<1>3. Timed(Q) /\ Untouched(Q, n)
  BY DEF Sound, Timed, Untouched, NewJob
<1>4. Awaited(Q, D, {})
  BY DEF Sound, Awaited
<1>5. \A x \in Jobs, i \in Slots : OnWorker(P, x, i) <=> OnWorker(Q, x, i)
  BY DEF OnWorker
<1>6. Busy(Q) /\ (SlotsTaken(P) => SlotsTaken(Q))
  BY <1>5 DEF Sound, Busy, SlotsTaken
<1>7. Posted(Q)
  <2>1. \A x \in Jobs : Q.jobs[x].slot = P.jobs[x].slot
    OBVIOUS
  <2>2. \A inbox : Dispatched(P, inbox) => Dispatched(Q, inbox)
    BY <2>1 DEF Dispatched
  <2> QED BY <2>2 DEF Sound, Posted
<1> QED BY <1>1, <1>2, <1>3, <1>4, <1>6, <1>7 DEF Sound

\* Workers that lose messages, or are gone.
LEMMA MailKeepsSound ==
  ASSUME NEW P, NEW Q, NEW D, NEW n \in Nat, Sound(P, D, {}, n),
         Q \in PoolType, Q.queue = P.queue, Q.jobs = P.jobs,
         \A i \in Slots : Q.slots[i].busy => P.slots[i].busy,
         \A i \in Slots : Dispatched(P, Q.slots[i].inbox),
         \A w \in Q.retired : Dispatched(P, w.inbox)
  PROVE  Sound(Q, D, {}, n) /\ (SlotsTaken(P) => SlotsTaken(Q))
<1>1. Queueing(Q) /\ Deferred(Q, D) /\ Timed(Q) /\ Awaited(Q, D, {}) /\ Untouched(Q, n)
  BY DEF Sound, Queueing, Deferred, Timed, Awaited, Untouched
<1>2. \A x \in Jobs, i \in Slots : OnWorker(P, x, i) <=> OnWorker(Q, x, i)
  BY DEF OnWorker
<1>3. Busy(Q) /\ (SlotsTaken(P) => SlotsTaken(Q))
  BY <1>2 DEF Sound, Busy, SlotsTaken
<1>4. Posted(Q)
  BY DEF Posted, Dispatched
<1> QED BY <1>1, <1>3, <1>4 DEF Sound


\* A queued job that is cancelled is dropped from the queue.
LEMMA DroppedKeepsSound ==
  ASSUME NEW P, NEW Q, NEW D, NEW n \in Nat, NEW k \in DOMAIN P.queue, Sound(P, D, {}, n),
         SlotsTaken(P), Q \in PoolType, Q.queue = RemoveFirst(P.queue, P.queue[k]),
         Q.slots = P.slots, Q.retired = P.retired,
         \A x \in Jobs \ {P.queue[k]} : Q.jobs[x] = P.jobs[x],
         Q.jobs[P.queue[k]].slot = P.jobs[P.queue[k]].slot,
         ~Q.jobs[P.queue[k]].live, ~Q.jobs[P.queue[k]].timer
  PROVE  Sound(Q, D, {}, n) /\ SlotsTaken(Q)
<1> DEFINE j == P.queue[k]
           N == Len(P.queue)
<1>1. /\ P.queue \in Seq(Jobs) /\ N \in Nat /\ DOMAIN P.queue = 1..N /\ j \in Jobs
      /\ \A m \in DOMAIN P.queue : P.queue[m] \in Jobs
  BY DEF Sound, PoolType
<1>2. /\ \A m, l \in DOMAIN P.queue : P.queue[m] = P.queue[l] => m = l
      /\ P.jobs[j].live /\ P.jobs[j].slot = 0
  BY DEF Sound, Queueing
<1>3. /\ DOMAIN Q.queue = 1..(N - 1)
      /\ \A m \in DOMAIN Q.queue : Q.queue[m] = IF m < k THEN P.queue[m] ELSE P.queue[m + 1]
  <2>1. PICK s : s = P.queue
    OBVIOUS
  <2>2. s \in Seq(Jobs) /\ k \in DOMAIN s /\ \A m, l \in DOMAIN s : s[m] = s[l] => m = l
    BY <1>1, <1>2, <2>1
  <2>3. LET r == RemoveFirst(s, s[k])
        IN  /\ DOMAIN r = 1..(Len(s) - 1)
            /\ \A m \in DOMAIN r : r[m] = IF m < k THEN s[m] ELSE s[m + 1]
    BY <2>2, RemovedFirst
  <2> QED BY <2>1, <2>3
<1> HIDE DEF j, N
<1> DEFINE was(m) == IF m < k THEN m ELSE m + 1
<1>4. \A m \in DOMAIN Q.queue :
        was(m) \in DOMAIN P.queue /\ was(m) # k /\ Q.queue[m] = P.queue[was(m)]
  BY <1>1, <1>3
<1>5. \A m, l \in DOMAIN Q.queue : was(m) = was(l) => m = l
  BY <1>1, <1>3
<1>6. \A m \in DOMAIN P.queue : m # k => \E l \in DOMAIN Q.queue : Q.queue[l] = P.queue[m]
  <2> SUFFICES ASSUME NEW m \in DOMAIN P.queue, m # k
               PROVE  \E l \in DOMAIN Q.queue : Q.queue[l] = P.queue[m]
    OBVIOUS
  <2> DEFINE l == IF m < k THEN m ELSE m - 1
  <2>1. l \in DOMAIN Q.queue /\ Q.queue[l] = P.queue[m]
    BY <1>1, <1>3
  <2> QED BY <2>1
<1> HIDE DEF was
<1>7. \A m \in DOMAIN Q.queue : Q.queue[m] \in Jobs \ {j}
  BY <1>1, <1>2, <1>4 DEF j
<1>8. \A x \in Jobs \ {j} : Q.jobs[x] = P.jobs[x]
  BY DEF j
<1>9. Queueing(Q)
  <2>1. Queueing(P)
    BY DEF Sound
  <2>2. \A m \in DOMAIN Q.queue : Q.jobs[Q.queue[m]] = P.jobs[P.queue[was(m)]]
    BY <1>4, <1>7, <1>8
  <2>3. \A m, l \in DOMAIN Q.queue : Q.queue[m] = Q.queue[l] => m = l
    BY <1>2, <1>4, <1>5
  <2>4. \A m \in DOMAIN Q.queue : LET x == P.jobs[P.queue[was(m)]] IN
          x.live /\ x.slot = 0 /\ x.result = "none" /\ ~x.abandoned
    BY <1>4, <2>1 DEF Queueing
  <2> QED BY <2>2, <2>3, <2>4 DEF Queueing
<1>10. Deferred(Q, D)
  <2>1. j \notin D
    BY DEF Sound, Deferred, j
  <2> QED BY <1>4, <1>8, <2>1 DEF Sound, Deferred
<1>11. Timed(Q) /\ Untouched(Q, n)
  BY <1>2, <1>8 DEF Sound, Timed, Untouched, NewJob, j
<1>12. Awaited(Q, D, {})
  BY <1>2, <1>6, <1>8 DEF Sound, Awaited, j
<1>13. \A x \in Jobs, i \in Slots : OnWorker(P, x, i) => OnWorker(Q, x, i)
  BY <1>2, <1>8, PoolAssumption DEF OnWorker, Slots
<1>14. Busy(Q) /\ SlotsTaken(Q)
  <2>1. P.queue # <<>>
    BY <1>1
  <2> QED BY <1>13, <2>1 DEF Sound, Busy, SlotsTaken
<1>15. Posted(Q)
  <2>1. \A x \in Jobs : Q.jobs[x].slot = P.jobs[x].slot
    BY <1>8 DEF j
  <2>2. \A inbox : Dispatched(P, inbox) => Dispatched(Q, inbox)
    BY <2>1 DEF Dispatched
  <2> QED BY <2>2 DEF Sound, Posted
<1> QED BY <1>9, <1>10, <1>11, <1>12, <1>14, <1>15 DEF Sound

\* A cancelled load leaves the queue, or goes on under its worker or as a microtask.
LEMMA CancelLoadHolds ==
  ASSUME PoolInv, NEW s \in Sessions, CancelLoad(s)
  PROVE  PoolInv'
<1> DEFINE j == loading[s]
           job == [pool.jobs[j] EXCEPT !.abandoned = TRUE]
           P == [pool EXCEPT !.jobs[loading[s]].abandoned = TRUE]
<1>1. /\ j \in Jobs /\ pool \in PoolType /\ pool.jobs \in [Jobs -> JobType] /\ pool.jobs[j] \in JobType
      /\ Sound(pool, deferred, {}, nextId) /\ nextId \in Nat /\ SlotsTaken(pool)
  <2>1. j \in Jobs
    BY PoolAssumption DEF PoolInv, CancelLoad, Jobs
  <2>2. Sound(pool, deferred, {}, nextId) /\ nextId \in Nat /\ SlotsTaken(pool)
    BY ServedOfPool DEF PoolInv
  <2>3. pool \in PoolType
    BY <2>2 DEF Sound
  <2> QED BY <2>1, <2>2, <2>3 DEF PoolType
<1>2. P = [pool EXCEPT !.jobs = [pool.jobs EXCEPT ![j] = job]]
  BY <1>1 DEF PoolType, JobType
<1>3. /\ job \in JobType /\ job.abandoned /\ job.live = pool.jobs[j].live
      /\ job.slot = pool.jobs[j].slot /\ job.timer = pool.jobs[j].timer
      /\ job.result = pool.jobs[j].result
  BY <1>1 DEF JobType
<1> HIDE DEF job
<1>4. /\ P \in PoolType /\ P.queue = pool.queue /\ P.slots = pool.slots /\ P.retired = pool.retired
      /\ P.jobs[j] = job /\ \A x \in Jobs \ {j} : P.jobs[x] = pool.jobs[x]
  <2> DEFINE jobs == [pool.jobs EXCEPT ![j] = job]
  <2>1. jobs \in [Jobs -> JobType] /\ jobs[j] = job /\ \A x \in Jobs \ {j} : jobs[x] = pool.jobs[x]
    BY <1>1, <1>3
  <2> HIDE DEF jobs, P
  <2>2. P = [pool EXCEPT !.jobs = jobs]
    BY <1>2 DEF jobs
  <2> QED BY <1>1, <2>1, <2>2 DEF PoolType
<1>5. /\ job.live /\ job.result = "none"
      /\ pool' = CASE j \in Range(P.queue) ->
                        Finish([P EXCEPT !.queue = RemoveFirst(@, j), !.jobs[j].live = FALSE], j, "cancelled")
                   [] j \notin Range(P.queue) /\ P.jobs[j].slot # 0 ->
                        Finish([P EXCEPT !.jobs[j].timer = FALSE], j, "cancelled")
                   [] OTHER -> P
  BY <1>4 DEF CancelLoad
<1>6. /\ deferred' = deferred /\ nextId' = nextId /\ loading' = loading /\ failures' \in Nat
  BY DEF CancelLoad, PoolInv
<1> HIDE DEF j, P
<1>7. Range(P.queue) = {P.queue[m] : m \in DOMAIN P.queue}
  BY DEF Range
<1>8. CASE j \in Range(P.queue)
  <2> DEFINE queue == RemoveFirst(P.queue, j)
             gone == [job EXCEPT !.live = FALSE]
             jobs == [P.jobs EXCEPT ![j] = gone]
             R == [P EXCEPT !.queue = RemoveFirst(@, j), !.jobs[j].live = FALSE]
             Q == Finish(R, j, "cancelled")
  <2>1. PICK k \in DOMAIN pool.queue : pool.queue[k] = j
    BY <1>4, <1>7, <1>8
  <2>2. pool.queue \in Seq(Jobs) /\ \A m, l \in DOMAIN pool.queue : pool.queue[m] = pool.queue[l] => m = l
    BY <1>1 DEF Sound, Queueing, PoolType
  <2>3. queue \in Seq(Jobs)
    BY <1>4, <2>1, <2>2, RemovedFirst
  <2>4. /\ gone \in JobType /\ ~gone.live /\ gone.timer = job.timer /\ gone.slot = job.slot
    BY <1>3 DEF JobType
  <2>5. P.jobs \in [Jobs -> JobType]
    BY <1>4 DEF PoolType
  <2>6. R = [P EXCEPT !.queue = queue, !.jobs = jobs]
    BY <1>1, <1>4, <2>5 DEF PoolType, JobType
  <2> HIDE DEF queue, gone, R
  <2>7. /\ jobs \in [Jobs -> JobType] /\ jobs[j] = gone /\ \A x \in Jobs \ {j} : jobs[x] = P.jobs[x]
    BY <1>1, <2>4, <2>5
  <2> HIDE DEF jobs
  <2>8. /\ R \in PoolType /\ R.queue = queue /\ R.jobs = jobs
        /\ R.slots = P.slots /\ R.retired = P.retired
    BY <1>4, <2>3, <2>6, <2>7 DEF PoolType
  <2>9. /\ Q \in PoolType
        /\ Q.queue = R.queue /\ Q.retired = R.retired /\ Q.slots = R.slots
        /\ Q.jobs[j] = [R.jobs[j] EXCEPT !.result = IF @ = "none" THEN "cancelled" ELSE @]
        /\ \A x \in Jobs \ {j} : Q.jobs[x] = R.jobs[x]
    BY <1>1, <2>8, FinishedJob DEF Results
  <2> HIDE DEF Q
  <2>10. ~Q.jobs[j].live /\ Q.jobs[j].timer = job.timer /\ Q.jobs[j].slot = job.slot
    BY <2>4, <2>7, <2>8, <2>9 DEF JobType
  <2>11. ~job.timer
    BY <1>1, <1>3, <2>1 DEF Sound, Queueing, Timed
  <2>12. Q.queue = RemoveFirst(pool.queue, pool.queue[k])
    BY <1>4, <2>1, <2>8, <2>9 DEF queue
  <2>13. Sound(Q, deferred, {}, nextId) /\ SlotsTaken(Q)
    <3>1. /\ Q \in PoolType /\ Q.slots = pool.slots /\ Q.retired = pool.retired
          /\ \A x \in Jobs \ {pool.queue[k]} : Q.jobs[x] = pool.jobs[x]
          /\ Q.jobs[pool.queue[k]].slot = pool.jobs[pool.queue[k]].slot
          /\ ~Q.jobs[pool.queue[k]].live /\ ~Q.jobs[pool.queue[k]].timer
      BY <1>3, <1>4, <2>1, <2>7, <2>8, <2>9, <2>10, <2>11
    <3> QED BY <1>1, <2>1, <2>12, <3>1, DroppedKeepsSound
  <2>14. pool' = Q
    BY <1>5, <1>8 DEF Q, R
  <2> QED BY <1>6, <2>13, <2>14, PoolStep
<1>9. CASE j \notin Range(P.queue)
  <2>1. \A m \in DOMAIN pool.queue : pool.queue[m] # j
    BY <1>4, <1>7, <1>9
  <2>2. CASE job.slot # 0
    <3> DEFINE left == [job EXCEPT !.timer = FALSE]
               jobs == [P.jobs EXCEPT ![j] = left]
               R == [P EXCEPT !.jobs[j].timer = FALSE]
               Q == Finish(R, j, "cancelled")
    <3>1. /\ left \in JobType /\ left.live /\ ~left.timer /\ left.slot = job.slot /\ left.result = "none"
      BY <1>3, <1>5 DEF JobType
    <3>2. P.jobs \in [Jobs -> JobType]
      BY <1>4 DEF PoolType
    <3>3. R = [P EXCEPT !.jobs = jobs]
      BY <1>1, <1>4, <3>2 DEF PoolType, JobType
    <3> HIDE DEF left, R
    <3>4. /\ jobs \in [Jobs -> JobType] /\ jobs[j] = left /\ \A x \in Jobs \ {j} : jobs[x] = P.jobs[x]
      BY <1>1, <3>1, <3>2
    <3> HIDE DEF jobs
    <3>5. /\ R \in PoolType /\ R.queue = P.queue /\ R.jobs = jobs
          /\ R.slots = P.slots /\ R.retired = P.retired
      BY <1>4, <3>3, <3>4 DEF PoolType
    <3>6. /\ Q \in PoolType
          /\ Q.queue = R.queue /\ Q.retired = R.retired /\ Q.slots = R.slots
          /\ Q.jobs[j] = [R.jobs[j] EXCEPT !.result = IF @ = "none" THEN "cancelled" ELSE @]
          /\ \A x \in Jobs \ {j} : Q.jobs[x] = R.jobs[x]
      BY <1>1, <3>5, FinishedJob DEF Results
    <3> HIDE DEF Q
    <3>7. /\ Q.jobs[j].live /\ ~Q.jobs[j].timer /\ Q.jobs[j].slot = job.slot
          /\ Q.jobs[j].result = "cancelled"
      BY <3>1, <3>4, <3>5, <3>6 DEF JobType
    <3>8. j \notin deferred
      BY <1>1, <1>3, <2>2 DEF Sound, Deferred
    <3>9. Sound(Q, deferred, {}, nextId) /\ SlotsTaken(Q)
      <4>1. /\ Q \in PoolType /\ Q.queue = pool.queue /\ Q.slots = pool.slots /\ Q.retired = pool.retired
            /\ \A x \in Jobs \ {j} : Q.jobs[x] = pool.jobs[x]
            /\ pool.jobs[j].live /\ Q.jobs[j].live /\ Q.jobs[j].slot = pool.jobs[j].slot
            /\ ~Q.jobs[j].timer /\ (Q.jobs[j].result = "none" <=> j \in deferred)
        BY <1>3, <1>4, <1>5, <3>4, <3>5, <3>6, <3>7, <3>8
      <4> QED BY <1>1, <2>1, <4>1, JobChangeKeepsSound
    <3>10. pool' = Q
      BY <1>4, <1>5, <1>9, <2>2 DEF Q, R
    <3> QED BY <1>6, <3>9, <3>10, PoolStep
  <2>3. CASE job.slot = 0
    <3>1. ~job.timer
      BY <1>1, <1>3, <2>3 DEF Sound, Timed
    <3>2. j \in deferred
      BY <1>1, <1>3, <1>5, <2>1, <3>1 DEF Sound, Awaited
    <3>3. Sound(P, deferred, {}, nextId) /\ SlotsTaken(P)
      <4>1. /\ pool.jobs[j].live /\ P.jobs[j].live /\ P.jobs[j].slot = pool.jobs[j].slot
            /\ ~P.jobs[j].timer /\ (P.jobs[j].result = "none" <=> j \in deferred)
        BY <1>3, <1>4, <1>5, <3>1, <3>2
      <4> QED BY <1>1, <1>4, <2>1, <4>1, JobChangeKeepsSound
    <3>4. pool' = P
      BY <1>4, <1>5, <1>9, <2>3
    <3> QED BY <1>6, <3>3, <3>4, PoolStep
  <2> QED BY <2>2, <2>3
<1> QED BY <1>8, <1>9

LEMMA LoadedHolds ==
  ASSUME PoolInv, NEW s \in Sessions, Loaded(s)
  PROVE  PoolInv'
<1>1. loading' \in [Sessions -> 0..MaxJobs]
  BY PoolAssumption DEF PoolInv, Loaded
<1> QED BY <1>1, ServedOfPool DEF PoolInv, Loaded

\* The first message of an inbox names a job that was dispatched.
LEMMA HeadOfInbox ==
  ASSUME NEW P, NEW inbox \in Seq(Jobs), inbox # <<>>, Dispatched(P, inbox)
  PROVE  /\ Head(inbox) \in Jobs /\ P.jobs[Head(inbox)].slot # 0
         /\ Tail(inbox) \in Seq(Jobs) /\ Dispatched(P, Tail(inbox))
<1>1. 1 \in DOMAIN inbox /\ Head(inbox) = inbox[1] /\ Tail(inbox) \in Seq(Jobs)
  OBVIOUS
<1>2. \A m \in DOMAIN Tail(inbox) : m + 1 \in DOMAIN inbox /\ Tail(inbox)[m] = inbox[m + 1]
  OBVIOUS
<1> QED BY <1>1, <1>2 DEF Dispatched

LEMMA AnswerHolds ==
  ASSUME PoolInv, NEW i \in Slots, Answer(i)
  PROVE  PoolInv'
<1> DEFINE inbox == pool.slots[i].inbox
           slot == [pool.slots[i] EXCEPT !.inbox = Tail(@)]
           slots == [pool.slots EXCEPT ![i] = slot]
           P == [pool EXCEPT !.slots[i].inbox = Tail(@)]
<1>1. /\ Sound(pool, deferred, {}, nextId) /\ nextId \in Nat /\ SlotsTaken(pool)
      /\ pool \in PoolType
  BY ServedOfPool DEF PoolInv, Sound
<1>2. pool.slots \in [Slots -> SlotType] /\ pool.slots[i] \in SlotType /\ inbox \in Seq(Jobs)
  BY <1>1 DEF PoolType, SlotType
<1>3. Dispatched(pool, inbox) /\ inbox # <<>>
  BY <1>1 DEF Sound, Posted, Answer
<1>4. PICK spawns \in BOOLEAN : pool' = Answered(P, Head(inbox), spawns)
  BY DEF Answer
<1>5. P = [pool EXCEPT !.slots = slots]
  BY <1>1, <1>2 DEF PoolType, SlotType
<1> HIDE DEF inbox, P
<1>6. /\ Head(inbox) \in Jobs /\ pool.jobs[Head(inbox)].slot # 0
      /\ Tail(inbox) \in Seq(Jobs) /\ Dispatched(pool, Tail(inbox))
  BY <1>2, <1>3, HeadOfInbox
<1>7. slot \in SlotType /\ slot.inbox = Tail(inbox) /\ slot.busy = pool.slots[i].busy
  BY <1>2, <1>6 DEF SlotType, inbox
<1> HIDE DEF slot
<1>8. /\ slots \in [Slots -> SlotType]
      /\ \A k \in Slots : slots[k] = IF k = i THEN slot ELSE pool.slots[k]
  BY <1>2, <1>7
<1> HIDE DEF slots
<1>9. /\ P \in PoolType /\ P.queue = pool.queue /\ P.jobs = pool.jobs /\ P.slots = slots
      /\ P.retired = pool.retired
  BY <1>1, <1>5, <1>8 DEF PoolType
<1>10. /\ \A k \in Slots : P.slots[k].busy => pool.slots[k].busy
       /\ \A k \in Slots : Dispatched(pool, P.slots[k].inbox)
       /\ \A w \in P.retired : Dispatched(pool, w.inbox)
  BY <1>1, <1>6, <1>7, <1>8, <1>9 DEF Sound, Posted
<1>11. Sound(P, deferred, {}, nextId) /\ SlotsTaken(P)
  BY <1>1, <1>9, <1>10, MailKeepsSound
<1>12. P.jobs[Head(inbox)].slot # 0
  BY <1>6, <1>9
<1>13. /\ Sound(Answered(P, Head(inbox), spawns), deferred, {}, nextId)
       /\ SlotsTaken(Answered(P, Head(inbox), spawns))
  BY <1>1, <1>6, <1>11, <1>12, AnsweredKeepsSound
<1> QED BY <1>4, <1>13, PoolStep DEF Answer, PoolInv

\* A terminated worker whose entry is replaced.
LEMMA RetiredReplaced ==
  ASSUME NEW w \in pool.retired, NEW rest \in Terminated,
         Sound(pool, deferred, {}, nextId), nextId \in Nat, SlotsTaken(pool),
         Dispatched(pool, rest.inbox)
  PROVE  LET P == [pool EXCEPT !.retired = (@ \ {w}) \cup {rest}] IN
         /\ Sound(P, deferred, {}, nextId) /\ SlotsTaken(P) /\ P.jobs = pool.jobs
<1> DEFINE retired == (pool.retired \ {w}) \cup {rest}
           P == [pool EXCEPT !.retired = (@ \ {w}) \cup {rest}]
<1>1. pool \in PoolType
  BY DEF Sound
<1>2. retired \subseteq Terminated
  BY <1>1 DEF PoolType
<1>3. P = [pool EXCEPT !.retired = retired]
  OBVIOUS
<1>4. \A x \in retired : x \in pool.retired \/ x = rest
  OBVIOUS
<1> HIDE DEF retired, P
<1>5. /\ P \in PoolType /\ P.queue = pool.queue /\ P.jobs = pool.jobs /\ P.slots = pool.slots
      /\ P.retired = retired
  BY <1>1, <1>2, <1>3 DEF PoolType
<1>6. /\ \A k \in Slots : P.slots[k].busy => pool.slots[k].busy
      /\ \A k \in Slots : Dispatched(pool, P.slots[k].inbox)
      /\ \A x \in P.retired : Dispatched(pool, x.inbox)
  BY <1>4, <1>5 DEF Sound, Posted
<1>7. Sound(P, deferred, {}, nextId) /\ SlotsTaken(P)
  BY <1>5, <1>6, MailKeepsSound
<1> QED BY <1>5, <1>7 DEF P

LEMMA LateAnswerHolds ==
  ASSUME PoolInv, NEW w \in pool.retired, LateAnswer(w)
  PROVE  PoolInv'
<1> DEFINE rest == [w EXCEPT !.inbox = Tail(@)]
           P == [pool EXCEPT !.retired = (@ \ {w}) \cup {rest}]
<1>1. /\ Sound(pool, deferred, {}, nextId) /\ nextId \in Nat /\ SlotsTaken(pool)
      /\ w \in Terminated
  BY ServedOfPool DEF PoolInv, Sound, PoolType
<1>2. w.inbox \in Seq(Jobs) /\ Dispatched(pool, w.inbox) /\ w.inbox # <<>>
  BY <1>1 DEF Sound, Posted, LateAnswer, Terminated
<1>3. /\ Head(w.inbox) \in Jobs /\ pool.jobs[Head(w.inbox)].slot # 0
      /\ Tail(w.inbox) \in Seq(Jobs) /\ Dispatched(pool, Tail(w.inbox))
  BY <1>2, HeadOfInbox
<1>4. rest \in Terminated /\ rest.inbox = Tail(w.inbox)
  BY <1>1, <1>3 DEF Terminated
<1>5. PICK spawns \in BOOLEAN : pool' = Answered(P, Head(w.inbox), spawns)
  BY DEF LateAnswer
<1> HIDE DEF rest
<1>6. Sound(P, deferred, {}, nextId) /\ SlotsTaken(P) /\ P.jobs = pool.jobs
  BY <1>1, <1>3, <1>4, RetiredReplaced
<1> HIDE DEF P
<1>7. /\ Sound(Answered(P, Head(w.inbox), spawns), deferred, {}, nextId)
      /\ SlotsTaken(Answered(P, Head(w.inbox), spawns))
  BY <1>1, <1>3, <1>6, AnsweredKeepsSound
<1> QED BY <1>5, <1>7, PoolStep DEF LateAnswer, PoolInv

\* What holds between the steps.
Steady(P, D, n) == Sound(P, D, {}, n) /\ SlotsTaken(P)

LEMMA CrashKeepsSteady ==
  ASSUME NEW P, NEW Q, NEW D, NEW n \in Nat, NEW i \in Slots, Steady(P, D, n),
         \E failed, spawns \in BOOLEAN : Q = Crash(P, i, failed, spawns)
  PROVE  Steady(Q, D, n)
BY CrashKeepsSound DEF Steady

LEMMA ErrorHolds ==
  ASSUME PoolInv, NEW i \in Slots, Error(i)
  PROVE  PoolInv'
<1>1. Steady(pool, deferred, nextId) /\ nextId \in Nat
  BY ServedOfPool DEF PoolInv, Steady
<1>2. \E failed, spawns \in BOOLEAN : pool' = Crash(pool, i, failed, spawns)
  BY DEF Error
<1>3. Steady(pool', deferred, nextId)
  BY <1>1, <1>2, CrashKeepsSteady
<1>4. deferred' = deferred /\ nextId' = nextId /\ loading' = loading /\ failures' \in Nat
  BY DEF Error, Failure, PoolInv
<1> QED BY <1>3, <1>4, PoolStep DEF Steady

LEMMA LateErrorHolds ==
  ASSUME PoolInv, NEW w \in pool.retired, LateError(w)
  PROVE  PoolInv'
<1> DEFINE rest == [w EXCEPT !.failed = TRUE]
           P == [pool EXCEPT !.retired = (@ \ {w}) \cup {rest}]
<1>1. /\ Sound(pool, deferred, {}, nextId) /\ nextId \in Nat /\ SlotsTaken(pool)
      /\ w \in Terminated /\ Dispatched(pool, w.inbox)
  BY ServedOfPool DEF PoolInv, Sound, PoolType, Posted
<1>2. w.slot \in Slots /\ rest \in Terminated /\ rest.inbox = w.inbox
  BY <1>1 DEF Terminated
<1>3. \E failed, spawns \in BOOLEAN : pool' = Crash(P, w.slot, failed, spawns)
  BY DEF LateError
<1> HIDE DEF rest
<1>4. Steady(P, deferred, nextId)
  BY <1>1, <1>2, RetiredReplaced DEF Steady
<1> HIDE DEF P
<1>5. Steady(pool', deferred, nextId)
  BY <1>1, <1>2, <1>3, <1>4, CrashKeepsSteady
<1>6. deferred' = deferred /\ nextId' = nextId /\ loading' = loading /\ failures' \in Nat
  BY DEF LateError, Failure, PoolInv
<1> QED BY <1>5, <1>6, PoolStep DEF Steady

LEMMA ExitHolds ==
  ASSUME PoolInv, NEW i \in Slots, Exit(i)
  PROVE  PoolInv'
<1> DEFINE slots == [pool.slots EXCEPT ![i] = NewSlot]
<1>1. /\ Sound(pool, deferred, {}, nextId) /\ nextId \in Nat /\ SlotsTaken(pool)
      /\ pool \in PoolType /\ pool.slots \in [Slots -> SlotType]
  BY ServedOfPool DEF PoolInv, Sound, PoolType
<1>2. NewSlot \in SlotType /\ ~NewSlot.busy /\ NewSlot.inbox = <<>>
  BY DEF NewSlot, SlotType
<1>3. pool' = [pool EXCEPT !.slots = slots]
  BY <1>1 DEF Exit, PoolType
<1>4. /\ slots \in [Slots -> SlotType]
      /\ \A k \in Slots : slots[k] = NewSlot \/ slots[k] = pool.slots[k]
  BY <1>1, <1>2
<1> HIDE DEF slots
<1>5. /\ pool' \in PoolType /\ pool'.queue = pool.queue /\ pool'.jobs = pool.jobs
      /\ pool'.slots = slots /\ pool'.retired = pool.retired
  BY <1>1, <1>3, <1>4 DEF PoolType
<1>6. Dispatched(pool, NewSlot.inbox)
  BY <1>2 DEF Dispatched
<1>7. /\ \A k \in Slots : pool'.slots[k].busy => pool.slots[k].busy
      /\ \A k \in Slots : Dispatched(pool, pool'.slots[k].inbox)
      /\ \A w \in pool'.retired : Dispatched(pool, w.inbox)
  BY <1>1, <1>2, <1>4, <1>5, <1>6 DEF Sound, Posted
<1>8. Sound(pool', deferred, {}, nextId) /\ SlotsTaken(pool')
  BY <1>1, <1>5, <1>7, MailKeepsSound
<1> QED BY <1>8, PoolStep DEF Exit, PoolInv

LEMMA TimeoutHolds ==
  ASSUME PoolInv, NEW j \in Jobs, Timeout(j)
  PROVE  PoolInv'
<1> DEFINE i == pool.jobs[j].slot
           P == Retire(pool, i, FALSE)
<1>1. /\ Sound(pool, deferred, {}, nextId) /\ nextId \in Nat /\ pool.jobs[j] \in JobType
  BY DEF PoolInv, Sound, PoolType
<1>2. pool.jobs[j].live /\ i # 0
  BY <1>1 DEF Timeout, Sound, Timed
<1>3. i \in Slots
  BY <1>1, <1>2, PoolAssumption DEF JobType, Slots
<1>4. PICK spawns \in BOOLEAN : pool' = FallbackSettle(P, j, spawns)
  BY DEF Timeout
<1>5. j \notin deferred /\ \A m \in DOMAIN pool.queue : pool.queue[m] # j
  BY <1>1, <1>2, OnWorkerIsDispatched
<1> HIDE DEF i
<1>6. Sound(P, deferred, {}, nextId) /\ P.jobs = pool.jobs /\ P.queue = pool.queue
  BY <1>1, <1>3, RetireKeepsSound
<1> HIDE DEF P
<1>7. P.jobs[j].live /\ \A m \in DOMAIN P.queue : P.queue[m] # j
  BY <1>2, <1>5, <1>6
<1>8. /\ Sound(FallbackSettle(P, j, spawns), deferred \ {j}, {}, nextId)
      /\ SlotsTaken(FallbackSettle(P, j, spawns))
  BY <1>1, <1>6, <1>7, FallbackKeepsSound
<1>9. deferred \ {j} = deferred
  BY <1>5
<1> QED BY <1>4, <1>8, <1>9, PoolStep DEF Timeout, PoolInv

\* dispose: what queued has run, every busy slot still has its job.
LEMMA DisposeHolds ==
  ASSUME PoolInv, Dispose
  PROVE  PoolInv'
<1> DEFINE Waits(j) == \E m \in DOMAIN pool.queue : pool.queue[m] = j
           jobs == [j \in Jobs |-> IF j \in Range(pool.queue) THEN RunInProcess(pool, j).jobs[j]
                                   ELSE pool.jobs[j]]
           slots == [i \in Slots |-> IF pool.slots[i].alive THEN pool.slots[i] ELSE NewSlot]
<1>1. /\ Sound(pool, deferred, {}, nextId) /\ nextId \in Nat /\ pool \in PoolType
      /\ pool.jobs \in [Jobs -> JobType] /\ pool.slots \in [Slots -> SlotType]
  BY DEF PoolInv, Sound, PoolType
<1>2. pool' = [pool EXCEPT !.disposed = TRUE, !.queue = <<>>, !.jobs = jobs, !.slots = slots]
  BY <1>1 DEF Dispose, PoolType
<1>3. \A j : j \in Range(pool.queue) <=> Waits(j)
  BY DEF Range
<1>4. \A j \in Jobs : LET x == RunInProcess(pool, j).jobs[j] IN
        x \in JobType /\ ~x.live /\ ~x.timer /\ x.slot = pool.jobs[j].slot
  BY <1>1, RunEnds DEF Ends, PoolType
<1>5. /\ jobs \in [Jobs -> JobType]
      /\ \A j \in Jobs : ~Waits(j) => jobs[j] = pool.jobs[j]
      /\ \A j \in Jobs : Waits(j) => ~jobs[j].live /\ ~jobs[j].timer /\ jobs[j].slot = pool.jobs[j].slot
  BY <1>1, <1>3, <1>4
<1>6. NewSlot \in SlotType /\ ~NewSlot.busy /\ NewSlot.inbox = <<>>
  BY DEF NewSlot, SlotType
<1>7. /\ slots \in [Slots -> SlotType]
      /\ \A k \in Slots : slots[k] = NewSlot \/ slots[k] = pool.slots[k]
  BY <1>1, <1>6
<1> HIDE DEF jobs, slots
<1>8. /\ pool' \in PoolType /\ pool'.queue = <<>> /\ pool'.jobs = jobs
      /\ pool'.slots = slots /\ pool'.retired = pool.retired
  <2> DEFINE queue == <<>>
             disposed == TRUE
  <2>1. queue \in Seq(Jobs) /\ disposed \in BOOLEAN
    OBVIOUS
  <2>2. pool' = [pool EXCEPT !.disposed = disposed, !.queue = queue, !.jobs = jobs, !.slots = slots]
    BY <1>2
  <2> HIDE DEF queue, disposed
  <2>3. /\ pool' \in PoolType /\ pool'.queue = queue /\ pool'.jobs = jobs
        /\ pool'.slots = slots /\ pool'.retired = pool.retired
    BY <1>1, <1>5, <1>7, <2>1, <2>2 DEF PoolType
  <2> QED BY <2>3 DEF queue
<1>9. \A j \in Jobs : Waits(j) => pool.jobs[j].live /\ pool.jobs[j].slot = 0 /\ j \notin deferred
  BY <1>1 DEF Sound, Queueing, Deferred
<1> HIDE DEF Waits
<1>10. Queueing(pool') /\ Deferred(pool', deferred)
  BY <1>1, <1>5, <1>8, <1>9 DEF Sound, Queueing, Deferred
<1>11. Timed(pool') /\ Untouched(pool', nextId)
  BY <1>1, <1>5, <1>8, <1>9 DEF Sound, Timed, Untouched, NewJob
<1>12. Awaited(pool', deferred, {})
  BY <1>1, <1>5, <1>8 DEF Sound, Awaited, Waits
<1>13. Busy(pool')
  <2>1. \A j \in Jobs, i \in Slots : OnWorker(pool, j, i) => OnWorker(pool', j, i)
    BY <1>5, <1>8, <1>9, PoolAssumption DEF OnWorker, Slots
  <2> QED BY <1>1, <1>6, <1>7, <1>8, <2>1 DEF Sound, Busy
<1>14. Posted(pool')
  <2>1. \A j \in Jobs : jobs[j].slot = pool.jobs[j].slot
    BY <1>5
  <2>2. \A inbox : Dispatched(pool, inbox) => Dispatched(pool', inbox)
    BY <1>8, <2>1 DEF Dispatched
  <2>3. Dispatched(pool', NewSlot.inbox)
    BY <1>6 DEF Dispatched
  <2> QED BY <1>1, <1>7, <1>8, <2>2, <2>3 DEF Sound, Posted
<1>15. Sound(pool', deferred, {}, nextId) /\ SlotsTaken(pool')
  BY <1>8, <1>10, <1>11, <1>12, <1>13, <1>14 DEF Sound, SlotsTaken
<1> QED BY <1>15, PoolStep DEF Dispose, PoolInv

LEMMA NextHolds == PoolInv /\ [LoadNext]_loadVars => PoolInv'
<1> SUFFICES ASSUME PoolInv, [LoadNext]_loadVars PROVE PoolInv'
  OBVIOUS
<1>1. CASE Dispose
  BY <1>1, DisposeHolds
<1>2. ASSUME NEW s \in Sessions, LoadSession(s) \/ CancelLoad(s) \/ Loaded(s) PROVE PoolInv'
  BY <1>2, LoadSessionHolds, CancelLoadHolds, LoadedHolds
<1>3. ASSUME NEW i \in Slots, Answer(i) \/ Error(i) \/ Exit(i) PROVE PoolInv'
  BY <1>3, AnswerHolds, ErrorHolds, ExitHolds
<1>4. ASSUME NEW j \in Jobs, RunDeferred(j) \/ Timeout(j) PROVE PoolInv'
  BY <1>4, RunDeferredHolds, TimeoutHolds
<1>5. ASSUME NEW w \in pool.retired, LateAnswer(w) \/ LateError(w) PROVE PoolInv'
  BY <1>5, LateAnswerHolds, LateErrorHolds
<1>6. CASE UNCHANGED loadVars
  BY <1>6, ServedOfPool DEF PoolInv, loadVars
<1> QED BY <1>1, <1>2, <1>3, <1>4, <1>5, <1>6 DEF LoadNext

\* The invariant gives each load without a result one way to it, and no second:
\* a queued or deferred job has no slot, one with a timer has.
LEMMA InvariantIsEnough == PoolInv => WaitingLoadIsWatched
<1> SUFFICES ASSUME PoolInv, NEW j \in Jobs, pool.jobs[j].live, pool.jobs[j].result = "none"
             PROVE  Cardinality({w \in {"queue", "microtask", "timer"} :
                                   CASE w = "queue" -> j \in Range(pool.queue)
                                     [] w = "microtask" -> j \in deferred
                                     [] w = "timer" -> pool.jobs[j].timer}) = 1
  BY DEF WaitingLoadIsWatched
<1> DEFINE Way(w) == CASE w = "queue" -> j \in Range(pool.queue)
                       [] w = "microtask" -> j \in deferred
                       [] w = "timer" -> pool.jobs[j].timer
           ways == {w \in {"queue", "microtask", "timer"} : Way(w)}
<1>1. /\ Way("queue") <=> j \in Range(pool.queue)
      /\ Way("microtask") <=> j \in deferred
      /\ Way("timer") <=> pool.jobs[j].timer
  OBVIOUS
<1>2. j \in Range(pool.queue) <=> \E m \in DOMAIN pool.queue : pool.queue[m] = j
  BY DEF Range
<1>3. Way("queue") \/ Way("microtask") \/ Way("timer")
  BY <1>1, <1>2 DEF PoolInv, Sound, Awaited
<1>4. /\ ~(Way("queue") /\ Way("microtask"))
      /\ ~(Way("queue") /\ Way("timer"))
      /\ ~(Way("microtask") /\ Way("timer"))
  BY <1>1, <1>2 DEF PoolInv, Sound, Queueing, Deferred, Timed
<1> HIDE DEF Way
<1>5. \E w : ways = {w}
  BY <1>3, <1>4
<1>6. Cardinality(ways) = 1
  BY <1>5, FS_Singleton
<1> QED BY <1>6 DEF Way

-----------------------------------------------------------------------------
(* LoadPool: the theorems. *)

\* The invariant holds in every state, for any number of workers, loads and
\* failures.
THEOREM PoolIsSound == LoadSpec => []PoolInv
BY PoolInitHolds, NextHolds, PTL DEF LoadSpec

\* No load is lost: one without a result queues, or is a microtask, or runs under
\* a timer, whatever workers crashed, exited or could not be started.
THEOREM LoadsAreWatched == LoadSpec => []WaitingLoadIsWatched
BY PoolIsSound, InvariantIsEnough, PTL

\* While loads queue every slot is bound to one, so that some end of a load will
\* take the next of them.
THEOREM QueueKeepsWorkers == LoadSpec => []QueueIsServed
<1>1. PoolInv => QueueIsServed
  BY DEF PoolInv
<1> QED BY <1>1, PoolIsSound, PTL

-----------------------------------------------------------------------------
(* AutomationEngine: the inductive invariant. *)

RunType == [of : Automations \cup {None}, tracked : BOOLEAN, now : BOOLEAN,
            phase : {"none", "awaited", "early", "spawned", "up", "over"}]

Typed ==
  /\ store \in [RunIds -> {"none", "running", "ended", "pruned"}]
  /\ runs \in [RunIds -> RunType]
  /\ active \in [Automations -> [run : Nat, queue : Nat]]
  /\ nextRun \in Nat \ {0}
  /\ stops \in [RunIds -> Nat]
  /\ restarts \in Nat

\* The runs so far are of an automation, the others untouched.
Numbered ==
  \A r \in RunIds :
    IF r < nextRun THEN runs[r].of \in Automations ELSE runs[r] = NewRun /\ stops[r] = 0

\* Fires wait for a slot that is taken.
NoIdleQueue == \A a \in Automations : active[a].run = 0 => active[a].queue = 0

AutoInv == Typed /\ Numbered /\ NoIdleQueue /\ SlotHasRun

-----------------------------------------------------------------------------
LEMMA AutoInitHolds == AutoInit => AutoInv
<1> SUFFICES ASSUME AutoInit PROVE AutoInv
  OBVIOUS
<1>1. NewRun \in RunType
  BY DEF NewRun, Untracked, RunType
<1>2. Typed
  BY <1>1 DEF AutoInit, Typed, FreeSlot
<1>3. Numbered
  BY DEF AutoInit, Numbered, RunIds
<1>4. NoIdleQueue /\ SlotHasRun
  BY DEF AutoInit, NoIdleQueue, SlotHasRun, FreeSlot
<1> QED BY <1>2, <1>3, <1>4 DEF AutoInv

\* What a run that starts leaves behind: contexts are the runs it starts from.
LEMMA StartedRun ==
  ASSUME Typed, NEW records, NEW contexts, NEW a \in Automations, NEW byHand \in BOOLEAN,
         records \in [RunIds -> {"none", "running", "ended", "pruned"}],
         contexts \in [RunIds -> RunType],
         StartRun(records, contexts, a, byHand)
  PROVE  /\ store' \in [RunIds -> {"none", "running", "ended", "pruned"}]
         /\ runs' \in [RunIds -> RunType]
         /\ nextRun \in RunIds /\ nextRun' = nextRun + 1 /\ nextRun' \in Nat \ {0}
         /\ runs'[nextRun].of = a /\ runs'[nextRun].tracked
         /\ \A r \in RunIds \ {nextRun} : runs'[r] = contexts[r]
<1>1. /\ nextRun \in RunIds
      /\ store' = [records EXCEPT ![nextRun] = "running"]
      /\ runs' = [contexts EXCEPT ![nextRun] =
                   [of |-> a, tracked |-> TRUE, now |-> byHand, phase |-> "awaited"]]
      /\ nextRun' = nextRun + 1
  BY DEF StartRun
<1>2. store' \in [RunIds -> {"none", "running", "ended", "pruned"}]
  BY <1>1
<1>3. [of |-> a, tracked |-> TRUE, now |-> byHand, phase |-> "awaited"] \in RunType
  BY DEF RunType
<1>4. runs' \in [RunIds -> RunType] /\ runs'[nextRun].of = a /\ runs'[nextRun].tracked
  BY <1>1, <1>3
<1>5. \A r \in RunIds \ {nextRun} : runs'[r] = contexts[r]
  BY <1>1
<1> QED BY <1>1, <1>2, <1>4, <1>5 DEF Typed

\* The records a run leaves when it is finished.
LEMMA FinishedTyped ==
  ASSUME Typed, NEW r \in RunIds
  PROVE  Finished(r) \in [RunIds -> {"none", "running", "ended", "pruned"}]
  BY DEF Typed, Finished

\* A run that leaves pending: every other stays as it is.
LEMMA RemovedRun ==
  ASSUME Typed, NEW r \in RunIds, NEW phase \in {"none", "awaited", "early", "spawned", "up", "over"}
  PROVE  /\ Removed(r, phase) \in [RunIds -> RunType]
         /\ Removed(r, phase)[r].of = runs[r].of
         /\ \A x \in RunIds \ {r} : Removed(r, phase)[x] = runs[x]
<1>1. runs[r].of \in Automations \cup {None}
  BY DEF Typed, RunType
<1>2. Untracked(runs[r].of, phase) \in RunType
  BY <1>1 DEF RunType, Untracked
<1> QED BY <1>2 DEF Removed, Typed, Untracked

\* begin: the slot is taken by a run that goes on.
LEMMA BegunRun ==
  ASSUME AutoInv, NEW records, NEW contexts, NEW a \in Automations, NEW queue \in Nat,
         records \in [RunIds -> {"none", "running", "ended", "pruned"}],
         contexts \in [RunIds -> RunType],
         \A r \in RunIds : r < nextRun => contexts[r].of = runs[r].of,
         \A r \in RunIds : r >= nextRun => contexts[r] = runs[r],
         \A r \in RunIds : runs[r].of # a => contexts[r] = runs[r],
         Begin(records, contexts, a, queue),
         stops' \in [RunIds -> Nat], \A r \in RunIds : stops'[r] <= stops[r],
         restarts' = restarts
  PROVE  AutoInv'
<1>1. /\ store' \in [RunIds -> {"none", "running", "ended", "pruned"}]
      /\ runs' \in [RunIds -> RunType]
      /\ nextRun \in RunIds /\ nextRun' = nextRun + 1 /\ nextRun' \in Nat \ {0}
      /\ runs'[nextRun].of = a /\ runs'[nextRun].tracked
      /\ \A r \in RunIds \ {nextRun} : runs'[r] = contexts[r]
  BY StartedRun DEF Begin, AutoInv
<1>2. active' = [active EXCEPT ![a] = [run |-> nextRun, queue |-> queue]]
  BY DEF Begin
<1>3. Typed'
  BY <1>1, <1>2 DEF AutoInv, Typed
<1>4. Numbered'
  <2> SUFFICES ASSUME NEW r \in RunIds
               PROVE  IF r < nextRun' THEN runs'[r].of \in Automations
                                      ELSE runs'[r] = NewRun /\ stops'[r] = 0
    BY DEF Numbered
  <2>1. CASE r = nextRun
    BY <1>1, <2>1 DEF RunIds
  <2>2. CASE r # nextRun
    <3>1. r \in Nat /\ nextRun \in Nat /\ (r < nextRun' <=> r < nextRun)
      BY <1>1, <2>2 DEF RunIds
    <3>2. CASE r < nextRun
      BY <1>1, <2>2, <3>1, <3>2 DEF AutoInv, Numbered
    <3>3. CASE ~(r < nextRun)
      <4>1. runs'[r] = runs[r] /\ runs[r] = NewRun /\ stops[r] = 0
        BY <1>1, <2>2, <3>1, <3>3 DEF AutoInv, Numbered
      <4>2. stops'[r] <= 0 /\ stops'[r] \in Nat
        BY <4>1
      <4> QED BY <3>1, <3>3, <4>1, <4>2
    <3> QED BY <3>2, <3>3
  <2> QED BY <2>1, <2>2
<1>5. NoIdleQueue'
  BY <1>1, <1>2 DEF AutoInv, Typed, NoIdleQueue, RunIds
<1>6. SlotHasRun'
  <2> SUFFICES ASSUME NEW b \in Automations, active'[b].run # 0
               PROVE  \E r \in RunIds : runs'[r].tracked /\ runs'[r].of = b
    BY DEF SlotHasRun, Tracked
  <2>1. CASE b = a
    BY <1>1, <2>1
  <2>2. CASE b # a
    <3>1. active[b].run # 0
      BY <1>2, <2>2 DEF AutoInv, Typed
    <3>2. PICK r \in RunIds : runs[r].tracked /\ runs[r].of = b
      BY <3>1 DEF AutoInv, SlotHasRun, Tracked
    <3>3. r # nextRun
      BY <1>1, <3>2 DEF AutoInv, Numbered, NewRun, Untracked, RunIds
    <3>4. runs'[r] = runs[r]
      BY <1>1, <2>2, <3>2, <3>3
    <3> QED BY <3>2, <3>4
  <2> QED BY <2>1, <2>2
<1> QED BY <1>3, <1>4, <1>5, <1>6 DEF AutoInv

\* finishAndRelease, whichever run it is about and however often.
LEMMA FinishKeeps ==
  ASSUME AutoInv, NEW r \in RunIds, r < nextRun,
         NEW phase \in {"none", "awaited", "early", "spawned", "up", "over"},
         FinishAndRelease(r, phase),
         stops' \in [RunIds -> Nat], \A x \in RunIds : stops'[x] <= stops[x],
         restarts' = restarts
  PROVE  AutoInv'
<1> DEFINE a == runs[r].of
<1>1. a \in Automations
  BY DEF AutoInv, Numbered
<1>2. /\ Finished(r) \in [RunIds -> {"none", "running", "ended", "pruned"}]
      /\ Removed(r, phase) \in [RunIds -> RunType]
      /\ Removed(r, phase)[r].of = a
      /\ \A x \in RunIds \ {r} : Removed(r, phase)[x] = runs[x]
  BY FinishedTyped, RemovedRun DEF AutoInv
<1>3. CASE active[a].queue > 0 /\ Begin(Finished(r), Removed(r, phase), a, active[a].queue - 1)
  <2>1. active[a].queue - 1 \in Nat
    BY <1>1, <1>3 DEF AutoInv, Typed
  <2>2. \A x \in RunIds : x < nextRun => Removed(r, phase)[x].of = runs[x].of
    BY <1>2
  <2>3. \A x \in RunIds : x >= nextRun => Removed(r, phase)[x] = runs[x]
    BY <1>2 DEF AutoInv, Typed, RunIds
  <2>4. \A x \in RunIds : runs[x].of # a => Removed(r, phase)[x] = runs[x]
    BY <1>2
  <2> QED BY <1>1, <1>2, <1>3, <2>1, <2>2, <2>3, <2>4, BegunRun
<1>4. CASE active[a].queue = 0 /\ Release(Finished(r), Removed(r, phase), a)
  <2>1. /\ store' = Finished(r) /\ runs' = Removed(r, phase) /\ nextRun' = nextRun
        /\ active' = [active EXCEPT ![a] = [run |-> 0, queue |-> 0]]
    BY <1>4 DEF Release, FreeSlot
  <2>2. Typed'
    BY <1>1, <1>2, <2>1 DEF AutoInv, Typed
  <2>3. Numbered'
    <3> SUFFICES ASSUME NEW x \in RunIds
                 PROVE  IF x < nextRun THEN runs'[x].of \in Automations
                                       ELSE runs'[x] = NewRun /\ stops'[x] = 0
      BY <2>1 DEF Numbered
    <3>1. CASE x < nextRun
      BY <1>1, <1>2, <2>1, <3>1 DEF AutoInv, Numbered
    <3>2. CASE ~(x < nextRun)
      <4>1. runs[x] = NewRun /\ stops[x] = 0 /\ x # r
        BY <3>2 DEF AutoInv, Numbered
      <4>2. stops'[x] <= 0 /\ stops'[x] \in Nat
        BY <4>1
      <4> QED BY <1>2, <2>1, <3>2, <4>1, <4>2
    <3> QED BY <3>1, <3>2
  <2>4. NoIdleQueue'
    BY <1>1, <2>1 DEF AutoInv, Typed, NoIdleQueue
  <2>5. SlotHasRun'
    <3> SUFFICES ASSUME NEW b \in Automations, active'[b].run # 0
                 PROVE  \E x \in RunIds : runs'[x].tracked /\ runs'[x].of = b
      BY DEF SlotHasRun, Tracked
    <3>1. b # a /\ active[b].run # 0
      BY <1>1, <2>1 DEF AutoInv, Typed
    <3>2. PICK x \in RunIds : runs[x].tracked /\ runs[x].of = b
      BY <3>1 DEF AutoInv, SlotHasRun, Tracked
    <3>3. x # r
      BY <3>1, <3>2
    <3> QED BY <1>2, <2>1, <3>2, <3>3
  <2> QED BY <2>2, <2>3, <2>4, <2>5 DEF AutoInv
<1> QED BY <1>3, <1>4 DEF FinishAndRelease, CompleteRun

-----------------------------------------------------------------------------
(* The steps. *)

\* Steps that change a run in progress, or nothing the invariant is about.
LEMMA RunStep ==
  ASSUME AutoInv, NEW r \in RunIds, r < nextRun,
         NEW run \in RunType, run.of = runs[r].of, runs[r].tracked => run.tracked,
         runs' = [runs EXCEPT ![r] = run],
         stops' \in [RunIds -> Nat],
         \A x \in RunIds : ~(x < nextRun) => stops'[x] = stops[x],
         UNCHANGED <<store, active, nextRun, restarts>>
  PROVE  AutoInv'
<1>1. Typed'
  BY DEF AutoInv, Typed
<1>2. Numbered'
  BY DEF AutoInv, Typed, Numbered
<1>3. NoIdleQueue'
  BY DEF AutoInv, NoIdleQueue
<1>4. SlotHasRun'
  <2> SUFFICES ASSUME NEW a \in Automations, active[a].run # 0
               PROVE  \E x \in RunIds : runs'[x].tracked /\ runs'[x].of = a
    BY DEF SlotHasRun, Tracked
  <2>1. PICK x \in RunIds : runs[x].tracked /\ runs[x].of = a
    BY DEF AutoInv, SlotHasRun, Tracked
  <2>2. runs'[x].of = a /\ (x = r => runs'[x] = run) /\ (x # r => runs'[x] = runs[x])
    BY <2>1 DEF AutoInv, Typed
  <2> QED BY <2>1, <2>2
<1> QED BY <1>1, <1>2, <1>3, <1>4 DEF AutoInv

LEMMA FireKeeps ==
  ASSUME AutoInv, NEW a \in Automations, Fire(a)
  PROVE  AutoInv'
<1>1. stops' = stops /\ restarts' = restarts
  BY DEF Fire
<1>2. stops' \in [RunIds -> Nat] /\ \A r \in RunIds : stops'[r] <= stops[r]
  BY <1>1 DEF AutoInv, Typed
<1>3. active[a].queue \in Nat
  BY DEF AutoInv, Typed
<1>4. ASSUME NEW queue \in Nat, Begin(store, runs, a, queue) PROVE AutoInv'
  <2>1. /\ store \in [RunIds -> {"none", "running", "ended", "pruned"}]
        /\ runs \in [RunIds -> RunType]
    BY DEF AutoInv, Typed
  <2> QED BY <1>1, <1>2, <1>4, <2>1, BegunRun
<1>5. CASE /\ active[a].run # 0
           /\ active' = [active EXCEPT ![a].queue = @ + 1]
           /\ UNCHANGED <<store, runs, nextRun>>
  <2>1. active' \in [Automations -> [run : Nat, queue : Nat]]
    BY <1>5 DEF AutoInv, Typed
  <2>2. \A b \in Automations : active'[b].run = active[b].run
    BY <1>5 DEF AutoInv, Typed
  <2>3. Typed'
    BY <1>1, <1>5, <2>1 DEF AutoInv, Typed
  <2>4. Numbered'
    BY <1>1, <1>5 DEF AutoInv, Numbered
  <2>5. NoIdleQueue'
    BY <1>5, <2>2 DEF AutoInv, Typed, NoIdleQueue
  <2>6. SlotHasRun'
    BY <1>5, <2>2 DEF AutoInv, SlotHasRun, Tracked
  <2> QED BY <2>3, <2>4, <2>5, <2>6 DEF AutoInv
<1> QED BY <1>3, <1>4, <1>5 DEF Fire

\* A run started by hand takes no slot.
LEMMA RunNowKeeps ==
  ASSUME AutoInv, NEW a \in Automations, RunNow(a)
  PROVE  AutoInv'
<1>1. StartRun(store, runs, a, TRUE) /\ UNCHANGED <<active, stops, restarts>>
  BY DEF RunNow
<1>2. /\ store' \in [RunIds -> {"none", "running", "ended", "pruned"}]
      /\ runs' \in [RunIds -> RunType]
      /\ nextRun \in RunIds /\ nextRun' = nextRun + 1 /\ nextRun' \in Nat \ {0}
      /\ runs'[nextRun].of = a /\ runs'[nextRun].tracked
      /\ \A r \in RunIds \ {nextRun} : runs'[r] = runs[r]
  BY <1>1, StartedRun DEF AutoInv, Typed
<1>3. Typed'
  BY <1>1, <1>2 DEF AutoInv, Typed
<1>4. Numbered'
  <2> SUFFICES ASSUME NEW r \in RunIds
               PROVE  IF r < nextRun + 1 THEN runs'[r].of \in Automations
                                         ELSE runs'[r] = NewRun /\ stops[r] = 0
    BY <1>1, <1>2 DEF Numbered
  <2>1. CASE r = nextRun
    BY <1>2, <2>1 DEF RunIds
  <2>2. CASE r # nextRun
    <3>1. r \in Nat /\ nextRun \in Nat /\ (r < nextRun + 1 <=> r < nextRun)
      BY <1>2, <2>2 DEF RunIds
    <3> QED BY <1>2, <2>2, <3>1 DEF AutoInv, Numbered
  <2> QED BY <2>1, <2>2
<1>5. NoIdleQueue'
  BY <1>1 DEF AutoInv, NoIdleQueue
<1>6. SlotHasRun'
  <2> SUFFICES ASSUME NEW b \in Automations, active[b].run # 0
               PROVE  \E r \in RunIds : runs'[r].tracked /\ runs'[r].of = b
    BY <1>1 DEF SlotHasRun, Tracked
  <2>1. PICK r \in RunIds : runs[r].tracked /\ runs[r].of = b
    BY DEF AutoInv, SlotHasRun, Tracked
  <2>2. r # nextRun
    BY <1>2, <2>1 DEF AutoInv, Numbered, NewRun, Untracked, RunIds
  <2> QED BY <1>2, <2>1, <2>2
<1> QED BY <1>3, <1>4, <1>5, <1>6 DEF AutoInv

\* Whoever has begun: an untouched run awaits no spawn, is tracked nowhere and is
\* not being stopped.
LEMMA Begun ==
  ASSUME AutoInv, NEW r \in RunIds,
         runs[r].tracked \/ Awaits(r) \/ stops[r] > 0
  PROVE  r < nextRun
  BY DEF AutoInv, Numbered, NewRun, Untracked, Awaits

LEMMA LeftIsPhase ==
  ASSUME NEW r \in RunIds
  PROVE  Left(r) \in {"none", "awaited", "early", "spawned", "up", "over"}
  BY DEF Awaits, Left

LEMMA RunKeeps ==
  ASSUME AutoInv, NEW r \in RunIds,
         \/ SpawnReturns(r) \/ SpawnFails(r)
         \/ SessionRegistered(r) \/ SessionEnded(r) \/ SessionDeath(r)
         \/ StopRun(r) \/ RunStopped(r)
  PROVE  AutoInv'
<1>1. stops \in [RunIds -> Nat] /\ runs \in [RunIds -> RunType] /\ runs[r] \in RunType
  BY DEF AutoInv, Typed
<1>2. ASSUME NEW phase \in {"none", "awaited", "early", "spawned", "up", "over"}
      PROVE  LET run == [runs[r] EXCEPT !.phase = phase]
             IN  run \in RunType /\ run.of = runs[r].of /\ run.tracked = runs[r].tracked
  BY <1>1 DEF RunType
<1>3. CASE SpawnReturns(r)
  <2>1. r < nextRun
    BY <1>3, Begun DEF Awaits, SpawnReturns
  <2> DEFINE phase == IF ~runs[r].tracked THEN "over"
                   ELSE IF runs[r].phase = "early" THEN "up" ELSE "spawned"
  <2>2. runs' = [runs EXCEPT ![r] = [runs[r] EXCEPT !.phase = phase]]
    BY <1>1, <1>3 DEF Awaits, SpawnReturns
  <2>3. /\ [runs[r] EXCEPT !.phase = phase] \in RunType
        /\ [runs[r] EXCEPT !.phase = phase].of = runs[r].of
        /\ [runs[r] EXCEPT !.phase = phase].tracked = runs[r].tracked
    BY <1>2
  <2>4. stops' = stops /\ UNCHANGED <<store, active, nextRun, restarts>>
    BY <1>3 DEF Awaits, SpawnReturns
  <2> HIDE DEF phase
  <2> QED BY <1>1, <2>1, <2>2, <2>3, <2>4, RunStep
<1>4. CASE SpawnFails(r)
  <2>1. r < nextRun
    BY <1>4, Begun DEF Awaits, SpawnFails
  <2>2. FinishAndRelease(r, "over") /\ stops' = stops /\ restarts' = restarts
    BY <1>4 DEF Awaits, SpawnFails
  <2>3. \A x \in RunIds : stops'[x] <= stops[x]
    BY <1>1, <2>2
  <2> QED BY <1>1, <2>1, <2>2, <2>3, FinishKeeps
<1>5. CASE SessionRegistered(r)
  <2> DEFINE phase == IF runs[r].phase = "awaited" THEN "early" ELSE "up"
  <2>1. r < nextRun
    BY <1>5, Begun DEF SessionRegistered
  <2>2. runs' = [runs EXCEPT ![r] = [runs[r] EXCEPT !.phase = phase]]
    BY <1>1, <1>5 DEF SessionRegistered
  <2>3. /\ [runs[r] EXCEPT !.phase = phase] \in RunType
        /\ [runs[r] EXCEPT !.phase = phase].of = runs[r].of
        /\ [runs[r] EXCEPT !.phase = phase].tracked = runs[r].tracked
    BY <1>2
  <2>4. stops' = stops /\ UNCHANGED <<store, active, nextRun, restarts>>
    BY <1>5 DEF SessionRegistered
  <2> HIDE DEF phase
  <2> QED BY <1>1, <2>1, <2>2, <2>3, <2>4, RunStep
<1>6. CASE SessionEnded(r)
  <2>1. r < nextRun
    BY <1>6, Begun DEF SessionEnded
  <2>2. FinishAndRelease(r, Left(r)) /\ stops' = stops /\ restarts' = restarts
    BY <1>6 DEF SessionEnded
  <2>3. \A x \in RunIds : stops'[x] <= stops[x]
    BY <1>1, <2>2
  <2> QED BY <1>1, <2>1, <2>2, <2>3, LeftIsPhase, FinishKeeps
<1>7. CASE SessionDeath(r)
  <2>1. r < nextRun
    BY <1>7, Begun DEF SessionDeath
  <2>2. runs' = [runs EXCEPT ![r] = [runs[r] EXCEPT !.phase = "over"]]
    BY <1>1, <1>7 DEF SessionDeath
  <2>3. stops' = stops /\ UNCHANGED <<store, active, nextRun, restarts>>
    BY <1>7 DEF SessionDeath
  <2> QED BY <1>1, <1>2, <2>1, <2>2, <2>3, RunStep
<1>8. CASE StopRun(r)
  <2>1. r < nextRun
    BY <1>8, Begun DEF StopRun
  <2>2. runs' = [runs EXCEPT ![r] = runs[r]] /\ UNCHANGED <<store, active, nextRun, restarts>>
    BY <1>1, <1>8 DEF StopRun
  <2>3. stops' \in [RunIds -> Nat] /\ \A x \in RunIds : ~(x < nextRun) => stops'[x] = stops[x]
    BY <1>1, <1>8, <2>1 DEF StopRun
  <2> QED BY <1>1, <2>1, <2>2, <2>3, RunStep
<1>9. CASE RunStopped(r)
  <2>1. r < nextRun
    BY <1>9, Begun DEF RunStopped
  <2>2. /\ FinishAndRelease(r, Left(r)) /\ restarts' = restarts
        /\ stops[r] > 0 /\ stops' = [stops EXCEPT ![r] = @ - 1]
    BY <1>9 DEF RunStopped
  <2>3. stops' \in [RunIds -> Nat] /\ \A x \in RunIds : stops'[x] <= stops[x]
    BY <1>1, <2>2
  <2> QED BY <2>1, <2>2, <2>3, FinishKeeps, LeftIsPhase
<1> QED BY <1>3, <1>4, <1>5, <1>6, <1>7, <1>8, <1>9

LEMMA ReapKeeps ==
  ASSUME AutoInv, ReapStaleRuns
  PROVE  AutoInv'
<1>1. PICK r \in RunIds :
        \/ runs[r].tracked /\ FinishAndRelease(r, Left(r))
        \/ ~runs[r].tracked /\ store' = Finished(r) /\ UNCHANGED <<runs, active, nextRun>>
  BY DEF ReapStaleRuns
<1>2. stops' = stops /\ restarts' = restarts
  BY DEF ReapStaleRuns
<1>3. stops' \in [RunIds -> Nat] /\ \A x \in RunIds : stops'[x] <= stops[x]
  BY <1>2 DEF AutoInv, Typed
<1>4. CASE runs[r].tracked /\ FinishAndRelease(r, Left(r))
  BY <1>2, <1>3, <1>4, Begun, FinishKeeps, LeftIsPhase
<1>5. CASE store' = Finished(r) /\ UNCHANGED <<runs, active, nextRun>>
  <2>1. Typed'
    BY <1>2, <1>5, FinishedTyped DEF AutoInv, Typed
  <2>2. Numbered' /\ NoIdleQueue'
    BY <1>2, <1>5 DEF AutoInv, Numbered, NoIdleQueue
  <2>3. SlotHasRun'
    BY <1>5 DEF AutoInv, SlotHasRun, Tracked
  <2> QED BY <2>1, <2>2, <2>3 DEF AutoInv
<1> QED BY <1>1, <1>4, <1>5

LEMMA RestartKeeps ==
  ASSUME AutoInv, Restart
  PROVE  AutoInv'
<1>1. /\ restarts' = restarts + 1
      /\ runs' = [r \in RunIds |-> Untracked(runs[r].of, IF r < nextRun THEN "over" ELSE "none")]
      /\ active' = [a \in Automations |-> FreeSlot]
      /\ stops' = [r \in RunIds |-> 0]
      /\ store' = store /\ nextRun' = nextRun
  BY DEF Restart
<1>2. \A r \in RunIds : Untracked(runs[r].of, IF r < nextRun THEN "over" ELSE "none") \in RunType
  BY DEF AutoInv, Typed, RunType, Untracked
<1>3. Typed'
  BY <1>1, <1>2 DEF AutoInv, Typed, FreeSlot
<1>4. Numbered'
  <2> SUFFICES ASSUME NEW r \in RunIds
               PROVE  IF r < nextRun THEN runs'[r].of \in Automations
                                     ELSE runs'[r] = NewRun /\ stops'[r] = 0
    BY <1>1 DEF Numbered
  <2>1. CASE r < nextRun
    BY <1>1, <2>1 DEF AutoInv, Numbered, Untracked
  <2>2. CASE ~(r < nextRun)
    <3>1. runs[r] = NewRun
      BY <2>2 DEF AutoInv, Numbered
    <3>2. runs[r].of = None
      BY <3>1 DEF NewRun, Untracked
    <3>3. runs'[r] = Untracked(None, "none") /\ stops'[r] = 0
      BY <1>1, <2>2, <3>2
    <3> QED BY <2>2, <3>3 DEF NewRun
  <2> QED BY <2>1, <2>2
<1>5. NoIdleQueue' /\ SlotHasRun'
  BY <1>1 DEF NoIdleQueue, SlotHasRun, FreeSlot
<1> QED BY <1>3, <1>4, <1>5 DEF AutoInv

LEMMA NextKeeps == AutoInv /\ [AutoNext]_autoVars => AutoInv'
<1> SUFFICES ASSUME AutoInv, [AutoNext]_autoVars PROVE AutoInv'
  OBVIOUS
<1>1. CASE Restart
  BY <1>1, RestartKeeps
<1>2. CASE ReapStaleRuns
  BY <1>2, ReapKeeps
<1>3. ASSUME NEW a \in Automations, Fire(a) \/ RunNow(a) PROVE AutoInv'
  BY <1>3, FireKeeps, RunNowKeeps
<1>4. ASSUME NEW r \in RunIds,
             \/ SpawnReturns(r) \/ SpawnFails(r)
             \/ SessionRegistered(r) \/ SessionEnded(r) \/ SessionDeath(r)
             \/ StopRun(r) \/ RunStopped(r)
      PROVE  AutoInv'
  BY <1>4, RunKeeps
<1>5. CASE UNCHANGED autoVars
  <2>1. UNCHANGED <<store, runs, active, nextRun, stops, restarts>>
    BY <1>5 DEF autoVars
  <2>2. Typed' /\ Numbered' /\ NoIdleQueue'
    BY <2>1 DEF AutoInv, Typed, Numbered, NoIdleQueue
  <2>3. SlotHasRun'
    BY <2>1 DEF AutoInv, SlotHasRun, Tracked
  <2> QED BY <2>2, <2>3 DEF AutoInv
<1> QED BY <1>1, <1>2, <1>3, <1>4, <1>5 DEF AutoNext

LEMMA InvariantHolds == AutoSpec => []AutoInv
<1> QED BY AutoInitHolds, NextKeeps, PTL DEF AutoSpec

-----------------------------------------------------------------------------
\* While the slot of an automation is taken one of its runs is in pending, and
\* every way for that run to leave frees the slot or starts the next run
\* (finishAndRelease of engine.ts): the automation does not deadlock.
THEOREM TakenSlotsAreFreed == AutoSpec => []SlotHasRun
<1>1. AutoInv => SlotHasRun
  BY DEF AutoInv
<1> QED BY <1>1, InvariantHolds, PTL

\* What a queue loses when a run is finished is the fire that starts.
LEMMA FinishServes ==
  ASSUME AutoInv, NEW r \in RunIds, r < nextRun,
         NEW phase \in {"none", "awaited", "early", "spawned", "up", "over"},
         FinishAndRelease(r, phase),
         NEW a \in Automations, active'[a].queue < active[a].queue
  PROVE  /\ active'[a].queue = active[a].queue - 1
         /\ nextRun' = nextRun + 1 /\ runs'[nextRun].of = a /\ active'[a].run = nextRun
<1> DEFINE b == runs[r].of
<1>1. /\ b \in Automations
      /\ active \in [Automations -> [run : Nat, queue : Nat]]
  BY DEF AutoInv, Typed, Numbered
<1>2. /\ Finished(r) \in [RunIds -> {"none", "running", "ended", "pruned"}]
      /\ Removed(r, phase) \in [RunIds -> RunType]
  BY FinishedTyped, RemovedRun DEF AutoInv
<1>3. CASE active[b].queue > 0 /\ Begin(Finished(r), Removed(r, phase), b, active[b].queue - 1)
  <2>1. active' = [active EXCEPT ![b] = [run |-> nextRun, queue |-> active[b].queue - 1]]
    BY <1>3 DEF Begin
  <2>2. a = b
    BY <1>1, <2>1
  <2>3. StartRun(Finished(r), Removed(r, phase), b, FALSE)
    BY <1>3 DEF Begin
  <2>4. nextRun' = nextRun + 1 /\ runs'[nextRun].of = b
    BY <1>1, <1>2, <2>3, StartedRun DEF AutoInv
  <2> QED BY <1>1, <2>1, <2>2, <2>4
<1>4. CASE active[b].queue = 0 /\ Release(Finished(r), Removed(r, phase), b)
  <2>1. active' = [active EXCEPT ![b] = [run |-> 0, queue |-> 0]]
    BY <1>4 DEF Release, FreeSlot
  <2>2. active'[a].queue = active[a].queue
    BY <1>1, <1>4, <2>1
  <2>3. active[a].queue \in Nat
    BY <1>1
  <2> QED BY <2>2, <2>3
<1> QED BY <1>3, <1>4 DEF FinishAndRelease, CompleteRun

\* A fire leaves the queue of its automation only as the run that starts, one at
\* a time and the rest kept (completeRun of runner.ts); only a crash loses it.
THEOREM QueuedFiresAreKept == AutoSpec => QueuedFiresStart
<1> DEFINE Serves(a) == /\ active'[a].queue = active[a].queue - 1
                        /\ nextRun' = nextRun + 1 /\ runs'[nextRun].of = a
                        /\ active'[a].run = nextRun
           Step == \A a \in Automations : active'[a].queue < active[a].queue =>
                     \/ restarts' # restarts
                     \/ /\ active'[a].queue = active[a].queue - 1
                        /\ nextRun' = nextRun + 1 /\ runs'[nextRun].of = a /\ active'[a].run = nextRun
<1>1. ASSUME AutoInv, AutoNext, NEW a \in Automations,
             active'[a].queue < active[a].queue, restarts' = restarts
      PROVE  Serves(a)
  <2>1. active[a] \in [run : Nat, queue : Nat] /\ restarts \in Nat
    BY <1>1 DEF AutoInv, Typed
  <2>2. active' # active
    BY <1>1, <2>1
  <2>3. ASSUME NEW r \in RunIds, NEW phase \in {"none", "awaited", "early", "spawned", "up", "over"},
               r < nextRun, FinishAndRelease(r, phase)
        PROVE  Serves(a)
    BY <1>1, <2>3, FinishServes
  <2>4. ~Restart
    BY <1>1, <2>1 DEF Restart
  <2>5. CASE ReapStaleRuns
    <3>1. PICK r \in RunIds : runs[r].tracked /\ FinishAndRelease(r, Left(r))
      BY <2>2, <2>5 DEF ReapStaleRuns
    <3> QED BY <1>1, <2>3, <3>1, Begun, LeftIsPhase
  <2>6. ASSUME NEW b \in Automations, Fire(b) PROVE FALSE
    <3>1. active \in [Automations -> [run : Nat, queue : Nat]]
      BY <1>1 DEF AutoInv, Typed
    <3>2. CASE active[b].run = 0 /\ Begin(store, runs, b, 0)
      <4>1. active[b].queue = 0 /\ active' = [active EXCEPT ![b] = [run |-> nextRun, queue |-> 0]]
        BY <1>1, <3>2 DEF Begin, AutoInv, NoIdleQueue
      <4>2. active'[a].queue = active[a].queue
        BY <3>1, <4>1
      <4> QED BY <1>1, <2>1, <4>2
    <3>3. CASE Begin(store, runs, b, active[b].queue)
      <4>1. active' = [active EXCEPT ![b] = [run |-> nextRun, queue |-> active[b].queue]]
        BY <3>3 DEF Begin
      <4>2. active'[a].queue = active[a].queue
        BY <3>1, <4>1
      <4> QED BY <1>1, <2>1, <4>2
    <3>4. CASE active' = [active EXCEPT ![b].queue = @ + 1]
      <4>1. active'[a].queue \in {active[a].queue, active[a].queue + 1}
        BY <3>1, <3>4
      <4> QED BY <1>1, <2>1, <4>1
    <3> QED BY <2>6, <3>2, <3>3, <3>4 DEF Fire
  <2>7. ASSUME NEW b \in Automations, RunNow(b) PROVE FALSE
    BY <2>2, <2>7 DEF RunNow
  <2>8. ASSUME NEW r \in RunIds, SpawnFails(r) \/ SessionEnded(r) \/ RunStopped(r)
        PROVE  Serves(a)
    <3>1. r < nextRun
      BY <1>1, <2>8, Begun DEF Awaits, SpawnFails, SessionEnded, RunStopped
    <3>2. FinishAndRelease(r, "over") \/ FinishAndRelease(r, Left(r))
      BY <2>8 DEF Awaits, SpawnFails, SessionEnded, RunStopped
    <3> QED BY <2>3, <3>1, <3>2, LeftIsPhase
  <2>9. ASSUME NEW r \in RunIds,
               SpawnReturns(r) \/ SessionRegistered(r) \/ SessionDeath(r) \/ StopRun(r)
        PROVE  FALSE
    BY <2>2, <2>9 DEF Awaits, SpawnReturns, SessionRegistered, SessionDeath, StopRun
  <2> HIDE DEF Serves
  <2> QED BY <1>1, <2>4, <2>5, <2>6, <2>7, <2>8, <2>9 DEF AutoNext
<1>2. AutoInv /\ [AutoNext]_autoVars => [Step]_autoVars
  <2> SUFFICES ASSUME AutoInv, AutoNext PROVE Step
    BY DEF autoVars
  <2> QED BY <1>1
<1> QED BY <1>2, InvariantHolds, PTL DEF AutoSpec, QueuedFiresStart
=============================================================================
