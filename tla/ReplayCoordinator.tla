-------------------------- MODULE ReplayCoordinator --------------------------
(***************************************************************************)
(* The server half of session replay (server/src/replay-coordinator.ts)    *)
(* for one browser socket and one session, with the handlers of            *)
(* event-wiring.ts and browser-gateway.ts that drive it.                   *)
(*                                                                         *)
(* A subscribe request is served by an asynchronous body: it waits for the *)
(* history to be loaded, for the bodies before it (deliveryTail), plans    *)
(* its frames from one snapshot of the store, and hands them one by one to *)
(* a queue whose drain waits while the socket is congested.  Live events   *)
(* arriving meanwhile are held in pendingLive until the barrier queued     *)
(* behind the terminal frame.                                              *)
(*                                                                         *)
(* JavaScript runs a task's promise continuations before the next task, so *)
(* the steps below are of two kinds: continuations (Microtask), and tasks, *)
(* which need Quiet: no continuation is ready.  The places where other     *)
(* tasks may get in between are the waits for a congested socket and for   *)
(* the worker that reads a session file.                                   *)
(*                                                                         *)
(* An event is [gen, seq]: the generation it was stored under and its      *)
(* sequence number, which by EventStore!GenerationNamesOneEvent determine  *)
(* its content.  Byte budgets are counted in frames of equal size; assets  *)
(* and user interface replay are left out.                                 *)
(***************************************************************************)
EXTENDS EventSource, SequencesExt, FiniteSetsExt

CONSTANTS
  None,          \* no value: nothing loading, nothing in hand, no generation known
  QueueCap,      \* REPLAY_QUEUE_EVENT_CAP
  FrameSize,     \* REPLAY_BATCH_SIZE
  WindowFrames,  \* frames one request's byte budget admits
  Keep,          \* events the store retains; 0 keeps all
  HasFile,       \* the session has a file the directory service can load
  Incidents,     \* which of the rarer events occur, see CoordNext
  Bridged,       \* at the start a bridge is connected and its history stored
  InitialHistory \* events the session has at the start

ASSUME CoordinatorAssumption ==
  /\ QueueCap \in Nat \ {0} /\ FrameSize \in Nat \ {0} /\ WindowFrames \in Nat \ {0}
  /\ Keep \in Nat /\ HasFile \in BOOLEAN /\ Bridged \in BOOLEAN
  /\ InitialHistory \in Nat \ {0}

VARIABLES
  history,    \* events of the session so far; its file holds them
  bridge,     \* the bridge: events of its history still to come, and whether
              \* its replay_complete is; None when no bridge is connected
  load,       \* the load of the session file in progress (hydration map), or None
  persisted,  \* persistedSources: what was last loaded, for which generation, or None
  sock,       \* the socket: SocketSessionState and what was sent on it
  bodies,     \* the deliveries in progress, by token
  tail,       \* deliveryTail: the tokens of the bodies queued for delivery
  token,      \* nextToken
  replaying   \* replayingSessions: the bridge is sending its history

coordVars == <<history, bridge, load, persisted, sock, bodies, tail, token, replaying>>
serverVars == <<sourceVars, coordVars>>

NoId == 0
Min2(a, b) == IF a < b THEN a ELSE b
Max2(a, b) == IF a > b THEN a ELSE b

HasEvents == lo <= hi
EmptySocket == [open |-> TRUE, present |-> FALSE, queue |-> <<>>, queued |-> 0,
                inflight |-> None, pendingLive |-> <<>>, suppressed |-> FALSE,
                requests |-> <<>>, out |-> <<>>, stray |-> <<>>]

\* The elements of es that are in S, in their order.
Those(es, S) ==
  LET kept[i \in 0..Len(es)] ==
        IF i = 0 THEN <<>> ELSE IF es[i] \in S THEN Append(kept[i - 1], es[i]) ELSE kept[i - 1]
  IN  kept[Len(es)]

(***************************************************************************)
(* Messages and queue items.  A request's key is the browser's request id; *)
(* the server's own bridge replays have negative keys and no id to show.   *)
(***************************************************************************)
Entries(g, from, to) == [i \in 1..(to - from + 1) |-> [gen |-> g, seq |-> from + i - 1]]
Newest(s, n) == SubSeq(s, Max2(1, Len(s) - n + 1), Len(s))

\* The messages a browser is sent, and their place in the queue.
KindSet == {"cold", "delta", "older"}
Gens == Nat \X Nat
Event == [gen : Gens, seq : Nat]
Msg ==
  [type : {"event"}, entry : Event]
  \cup [type : {"session_state_reset"}, id : Int, gen : Gens]
  \cup [type : {"event_replay"}, id : Int, kind : KindSet, gen : Gens, events : Seq(Event),
        last : BOOLEAN, more : BOOLEAN, error : BOOLEAN]
MessageItem == [kind : {"message"}, msg : Msg, key : Int, count : Nat \ {0}]
Item == MessageItem \cup [kind : {"barrier"}, token : Nat, key : Int]

ASSUME NoneAssumption == None \notin MessageItem

IdOf(key) == IF key > 0 THEN key ELSE NoId
Live(e) == [type |-> "event", entry |-> e]
Reset(id) == [type |-> "session_state_reset", id |-> id, gen |-> gen]
Frame(r, events, last, more, error) ==
  [type |-> "event_replay", id |-> IdOf(r.key), kind |-> r.kind, gen |-> gen,
   events |-> events, last |-> last, more |-> more, error |-> error]
FailedTerminal(r) == Frame(r, <<>>, TRUE, FALSE, TRUE)

Message(msg, key) ==
  [kind |-> "message", msg |-> msg, key |-> key,
   count |-> IF msg.type = "event_replay" THEN Max2(1, Len(msg.events)) ELSE 1]
LiveItem(e) == Message(Live(e), NoId)
\* (mutation) the barrier names the request to come
BarrierMisnamed(r) == [kind |-> "barrier", token |-> r.token + 1, key |-> r.key]

Barrier(r) == [kind |-> "barrier", token |-> r.token, key |-> r.key]

(***************************************************************************)
(* Operations on the socket state s; each returns the new one.             *)
(***************************************************************************)
HasRequest(s, key) == \E i \in DOMAIN s.requests : s.requests[i].key = key
Active(s, t) == \E i \in DOMAIN s.requests : s.requests[i].token = t
RequestOf(s, t) == s.requests[CHOOSE i \in DOMAIN s.requests : s.requests[i].token = t]
Without(s, t) == Those(s.requests, {r \in Range(s.requests) : r.token # t})
LiveRequests(rs) == \E i \in DOMAIN rs : rs[i].kind # "older"

\* (mutation) requests that are cancelled are not told
TerminalsForgotten(rs) == <<>>

Terminals(rs) == [i \in DOMAIN rs |-> FailedTerminal(rs[i])]

\* A message sent past the queue; lost when the socket holds too much already.
Direct(s, msgs) ==
  {[s EXCEPT !.out = @ \o msgs]}
  \cup IF "overrun" \in Incidents /\ s.inflight # None THEN {s} ELSE {}

QueueOverflow(s) ==
  [EmptySocket EXCEPT !.open = FALSE, !.out = s.out \o Terminals(s.requests)]

Enqueue(s, item) ==
  IF item.kind = "message" /\ s.queued + item.count > QueueCap
  THEN QueueOverflow(s)
  ELSE [s EXCEPT !.queue = Append(@, item),
                 !.queued = @ + IF item.kind = "message" THEN item.count ELSE 0]

\* (mutation) held events are not charged against the cap
SuppressLiveUncapped(s, e) ==
  IF \E i \in DOMAIN s.pendingLive : s.pendingLive[i].seq = e.seq THEN s
  ELSE [s EXCEPT !.pendingLive = Append(@, e)]

SuppressLive(s, e) ==
  IF \E i \in DOMAIN s.pendingLive : s.pendingLive[i].seq = e.seq THEN s
  ELSE IF s.queued + 1 > QueueCap THEN QueueOverflow(s)
  ELSE [s EXCEPT !.pendingLive = Append(@, e), !.queued = @ + 1]

\* (mutation) every request that completes releases the held events
CompleteRequestEager(s, t) ==
  IF ~Active(s, t) THEN s
  ELSE [s EXCEPT !.requests = Without(s, t), !.suppressed = FALSE, !.pendingLive = <<>>,
                 !.queue = @ \o [i \in DOMAIN s.pendingLive |-> LiveItem(s.pendingLive[i])]]

\* (mutation) the held events are dropped when the request completes
CompleteRequestForgetting(s, t) ==
  IF ~Active(s, t) THEN s
  ELSE LET rest == Without(s, t) IN
       IF LiveRequests(rest) THEN [s EXCEPT !.requests = rest]
       ELSE [s EXCEPT !.requests = rest, !.suppressed = FALSE, !.pendingLive = <<>>,
                      !.queued = Max2(0, @ - Len(s.pendingLive))]

\* (mutation) a request that completes takes the others with it
CompleteRequestAll(s, t) ==
  IF ~Active(s, t) THEN s
  ELSE [s EXCEPT !.requests = <<>>, !.suppressed = FALSE, !.pendingLive = <<>>,
                 !.queue = @ \o [i \in DOMAIN s.pendingLive |-> LiveItem(s.pendingLive[i])]]

\* The last live request releases the held events behind what is queued; each
\* gives its reservation back and takes it again, if the cap still has room.
CompleteRequest(s, t) ==
  IF ~Active(s, t) THEN s
  ELSE LET rest == Without(s, t) IN
       IF LiveRequests(rest) THEN [s EXCEPT !.requests = rest]
       ELSE IF s.pendingLive # <<>> /\ s.queued > QueueCap
            THEN QueueOverflow([s EXCEPT !.requests = rest])
       ELSE [s EXCEPT !.requests = rest, !.suppressed = FALSE, !.pendingLive = <<>>,
                      !.queue = @ \o [i \in DOMAIN s.pendingLive |-> LiveItem(s.pendingLive[i])],
                      !.queued = IF s.pendingLive = <<>> THEN @ ELSE Max2(@, 1)]

\* (mutation) the reservation is given back twice over
SentUnclamped(s, item) ==
  [s EXCEPT !.out = Append(@, item.msg), !.queued = @ - item.count]

Sent(s, item) ==
  [s EXCEPT !.out = Append(@, item.msg), !.queued = Max2(0, @ - item.count)]

(***************************************************************************)
(* Continuations.                                                          *)
(***************************************************************************)
Valid(t) == sock.open /\ Active(sock, t)
InPhase(t, phases) == t \in DOMAIN bodies /\ bodies[t].phase \in phases
Delivering(phases) == tail # <<>> /\ InPhase(Head(tail), phases)
Drained == sock.queue = <<>> /\ sock.inflight = None

CanAdmit == \E t \in DOMAIN bodies : InPhase(t, {"hydrated", "unavailable"})
CanPlan == Delivering({"waiting", "loaded"})
CanSend == Drained /\ (Delivering({"sending", "closing"})
                      \/ \E t \in DOMAIN bodies : InPhase(t, {"failing"}))
CanTake == sock.open /\ sock.queue # <<>> /\ sock.inflight = None
Quiet == ~CanAdmit /\ ~CanPlan /\ ~CanSend /\ ~CanTake

DropBody(bs, t) == [u \in DOMAIN bs \ {t} |-> bs[u]]
Empty == [u \in {} |-> None]

\* The socket becomes s and the bodies bs; a closed socket's bodies find their
\* request invalid when they wake and do nothing more.
Become(s, bs, tl) ==
  /\ sock' = s
  /\ bodies' = IF s.open THEN bs ELSE Empty
  /\ tail' = IF s.open THEN tl ELSE <<>>

\* subscribe, after ensureHydrated: check the browser's cursor against the
\* store and queue for delivery.
Admit(t) ==
  LET b          == bodies[t]
      mismatch   == b.known # None /\ b.known # gen
      outOfRange == b.kind = "delta" /\ HasEvents /\ (b.at < lo - 1 \/ b.at > hi)
      cold       == mismatch \/ outOfRange
      asCold     == [i \in DOMAIN sock.requests |->
                       IF cold /\ sock.requests[i].token = t
                       THEN [sock.requests[i] EXCEPT !.kind = "cold"] ELSE sock.requests[i]]
  IN  /\ InPhase(t, {"hydrated"})
      /\ IF Valid(t)
         THEN Become([sock EXCEPT !.requests = asCold, !.suppressed = @ \/ cold],
                     [bodies EXCEPT ![t].phase = "waiting", ![t].reset = cold,
                                    ![t].kind = IF cold THEN "cold" ELSE @],
                     Append(tail, t))
         ELSE Become(sock, DropBody(bodies, t), tail)
      /\ UNCHANGED <<sourceVars, history, bridge, load, persisted, token, replaying>>

\* The history could not be loaded: an error terminal, and for a live request
\* the barrier behind it.
AdmitUnavailable(t) ==
  LET r == RequestOf(sock, t)
      s == Enqueue(sock, Message(FailedTerminal(r), r.key))
  IN  /\ InPhase(t, {"unavailable"})
      /\ IF ~Valid(t) THEN Become(sock, DropBody(bodies, t), tail)
         ELSE IF r.kind = "older" THEN Become(s, [bodies EXCEPT ![t].phase = "failing"], tail)
         ELSE Become(IF s.open THEN Enqueue(s, Barrier(r)) ELSE s, DropBody(bodies, t), tail)
      /\ UNCHANGED <<sourceVars, history, bridge, load, persisted, token, replaying>>

\* deliverRequestBody up to its first await: the snapshot of the store, and
\* the load of the session file when older history lies below a trimmed head.
TakeSnapshot(t) ==
  LET b      == bodies[t]
      raw    == [gen |-> gen, lo |-> lo, hi |-> hi]
      paging == HasEvents /\ lo > 1 /\ HasFile
                /\ (b.kind = "older" \/ (b.kind = "cold" /\ b.tailMode))
      cached == persisted # None /\ persisted.gen = gen
  IN  /\ Delivering({"waiting"}) /\ t = Head(tail)
      /\ IF ~Valid(t) THEN Become(sock, DropBody(bodies, t), Tail(tail)) /\ UNCHANGED load
         ELSE /\ Become(sock, [bodies EXCEPT
                     ![t].raw = raw,
                     ![t].phase = IF paging /\ ~cached THEN "paging" ELSE "loaded",
                     ![t].file = IF paging /\ cached THEN persisted.n ELSE 0], tail)
              /\ load' = IF paging /\ ~cached /\ load = None
                         THEN [gen |-> gen, hydrate |-> FALSE, from |-> history] ELSE load
      /\ UNCHANGED <<sourceVars, history, bridge, persisted, token, replaying>>

\* The events a request selects from its snapshot, before the byte budget.
Selected(b) ==
  CASE b.kind = "older" -> IF b.file > 0 /\ b.at <= b.raw.lo
                           THEN Entries(b.raw.gen, 1, Min2(b.at - 1, b.file))
                           ELSE Entries(b.raw.gen, b.raw.lo, Min2(b.at - 1, b.raw.hi))
    [] b.kind = "delta" -> Entries(b.raw.gen, Max2(b.raw.lo, b.at + 1), b.raw.hi)
    [] OTHER -> Entries(b.raw.gen, b.raw.lo, b.raw.hi)

\* (mutation) the batch that follows repeats the last event
BatchesOverlapping(es) ==
  [i \in 1..((Len(es) + FrameSize - 1) \div FrameSize) |->
     SubSeq(es, Max2(1, (i - 1) * FrameSize), Min2(i * FrameSize, Len(es)))]

Batches(es) ==
  [i \in 1..((Len(es) + FrameSize - 1) \div FrameSize) |->
     SubSeq(es, (i - 1) * FrameSize + 1, Min2(i * FrameSize, Len(es)))]

\* (mutation) what the snapshot holds stays held
HeldBack(b) == sock.pendingLive

\* The held events that are not in the snapshot.
Held(b) ==
  Those(sock.pendingLive, {e \in Range(sock.pendingLive) : e.seq < b.raw.lo \/ e.seq > b.raw.hi})

\* deliverRequestBody's plan: the snapshot's selection and what the store holds
\* above it by now, cut into frames.  A delta keeps the oldest frames its
\* budget admits, every other kind the newest ones.
Plan(t) ==
  LET b       == bodies[t]
      found   == Selected(b)
      chosen  == IF b.kind = "delta" \/ (b.kind = "cold" /\ ~b.tailMode) THEN found
                 ELSE Newest(found, WindowFrames * FrameSize)
      catchup == IF b.kind = "older" THEN <<>>
                 ELSE Entries(gen, Max2(lo, (IF b.raw.lo <= b.raw.hi THEN b.raw.hi ELSE 0) + 1), hi)
      batches == Batches(chosen \o catchup)
      kept    == IF b.kind = "delta" THEN SubSeq(batches, 1, Min2(WindowFrames, Len(batches)))
                                     ELSE Newest(batches, WindowFrames)
  IN  /\ Delivering({"loaded"}) /\ t = Head(tail)
      /\ IF ~Valid(t) THEN Become(sock, DropBody(bodies, t), Tail(tail))
         ELSE Become([sock EXCEPT !.pendingLive = Held(b),
                                  !.queued = Max2(0, @ - (Len(sock.pendingLive) - Len(Held(b))))],
                     [bodies EXCEPT ![t].phase = "sending", ![t].batches = kept,
                        ![t].more = \/ Len(chosen) < Len(found)
                                    \/ b.kind # "delta" /\ Len(kept) < Len(batches)
                                    \/ b.kind = "cold" /\ b.file > 0],
                     tail)
      /\ UNCHANGED <<sourceVars, history, bridge, load, persisted, token, replaying>>

\* The next message of the body, once the one before it has been drained; each
\* is stamped with the store's generation of that moment.
SendNext(t) ==
  LET b == bodies[t]
      r == RequestOf(sock, t)
      next(msg, c) == Become(Enqueue(sock, Message(msg, r.key)), [bodies EXCEPT ![t] = c], tail)
  IN  /\ Drained /\ Delivering({"sending"}) /\ t = Head(tail)
      /\ IF ~Valid(t) THEN Become(sock, DropBody(bodies, t), Tail(tail))
         ELSE IF b.reset THEN next(Reset(IdOf(r.key)), [b EXCEPT !.reset = FALSE])
         ELSE IF b.batches # <<>>
              THEN next(Frame(r, Head(b.batches), FALSE, b.more, FALSE), [b EXCEPT !.batches = Tail(@)])
         ELSE IF ~b.ended THEN next(Frame(r, <<>>, TRUE, b.more, FALSE), [b EXCEPT !.ended = TRUE])
         ELSE Become(IF r.kind = "older" THEN CompleteRequest(sock, t) ELSE Enqueue(sock, Barrier(r)),
                     [bodies EXCEPT ![t].phase = "closing"], tail)
      /\ UNCHANGED <<sourceVars, history, bridge, load, persisted, token, replaying>>

\* The body is through: it releases the delivery tail.
Close(t) ==
  /\ Drained
  /\ \/ /\ Delivering({"closing"}) /\ t = Head(tail)
        /\ Become(sock, DropBody(bodies, t), Tail(tail))
     \/ /\ InPhase(t, {"failing"})
        /\ Become(CompleteRequest(sock, t), DropBody(bodies, t), tail)
  /\ UNCHANGED <<sourceVars, history, bridge, load, persisted, token, replaying>>

\* drain takes the head of the queue: a barrier completes its request, an item
\* of a request that is gone is dropped, anything else is sent, or kept in
\* hand while the socket is congested.  The put-back of an item that send refuses
\* is left out: what drain has waited for is less than the limit of send.
DrainTake ==
  LET item == Head(sock.queue)
      s    == [sock EXCEPT !.queue = Tail(@)]
  IN  /\ CanTake
      /\ \/ /\ item.kind = "barrier"
            /\ Become(CompleteRequest(s, item.token), bodies, tail)
         \/ /\ item.kind = "message" /\ item.key # NoId /\ ~HasRequest(s, item.key)
            /\ Become([s EXCEPT !.queued = Max2(0, @ - item.count)], bodies, tail)
         \/ /\ item.kind = "message" /\ (item.key = NoId \/ HasRequest(s, item.key))
            /\ \E n \in {Sent(s, item), [s EXCEPT !.inflight = item]} : Become(n, bodies, tail)
      /\ UNCHANGED <<sourceVars, history, bridge, load, persisted, token, replaying>>

Microtask ==
  \/ \E t \in DOMAIN bodies : Admit(t) \/ AdmitUnavailable(t) \/ TakeSnapshot(t)
                              \/ Plan(t) \/ SendNext(t) \/ Close(t)
  \/ DrainTake

(***************************************************************************)
(* Tasks: messages from the browser and the bridge, timers, the worker.    *)
(***************************************************************************)
NewBody(kind, at, known, phase) ==
  [kind |-> kind, at |-> at, known |-> known, tailMode |-> kind = "cold", phase |-> phase,
   reset |-> FALSE, raw |-> None, file |-> 0, batches |-> <<>>, more |-> FALSE, ended |-> FALSE]

\* A message m = [id, kind, at, known] from the browser: at is its cursor, the
\* exclusive bound of the page it asks for, or 0; known the generation its
\* ledger is of, or None.  A request under a key in use supersedes it.
Subscribe(m) ==
  LET t     == token + 1
      r     == [token |-> t, key |-> m.id, kind |-> m.kind]
      same  == {x \in Range(sock.requests) : x.key = m.id}
      prior == Those(sock.requests, same)
      rest  == Those(sock.requests, Range(sock.requests) \ same)
      loads == ~HasEvents /\ HasFile
  IN  /\ Quiet /\ sock.open
      /\ token' = t
      /\ sock' \in Direct([sock EXCEPT !.present = TRUE,
                   !.requests = Append(rest, r), !.suppressed = @ \/ m.kind # "older"], Terminals(prior))
      /\ bodies' = [u \in DOMAIN bodies \cup {t} |-> IF u # t THEN bodies[u] ELSE
                     NewBody(m.kind, m.at, m.known, IF loads THEN "hydrating" ELSE "hydrated")]
      /\ load' = IF ~loads THEN load
                 ELSE IF load = None THEN [gen |-> gen, hydrate |-> TRUE, from |-> history]
                 ELSE [load EXCEPT !.hydrate = TRUE]
      /\ UNCHANGED <<sourceVars, history, bridge, persisted, tail, replaying>>

\* replaceEvents with n events.
Fill(n) ==
  /\ gen' = <<gen[1], gen[2] + 1>>
  /\ hi' = n
  /\ lo' = IF Keep > 0 THEN Max2(1, n + 1 - Keep) ELSE 1

\* (mutation) what was stored while the file was read is replaced
LoadFillsAlways(ok) == ok /\ load.hydrate

\* ensureHydrated looks again behind its await: only a session still without
\* events takes those of its file, as a new source.
LoadFills(ok) == ok /\ load.hydrate /\ ~HasEvents

\* The worker answers: the events the file held at some moment of the load, or
\* an error.
LoadDone(ok) ==
  \E n \in load.from..history :
    LET fills == LoadFills(ok)
    IN  /\ Quiet
        /\ load' = None
        /\ IF fills THEN Fill(n) ELSE UNCHANGED sourceVars
        /\ persisted' = IF ok THEN [gen |-> IF fills THEN gen' ELSE load.gen, n |-> n]
                              ELSE persisted
        /\ bodies' = [t \in DOMAIN bodies |->
              CASE bodies[t].phase = "hydrating" ->
                     [bodies[t] EXCEPT !.phase = IF ok THEN "hydrated" ELSE "unavailable"]
                [] bodies[t].phase = "paging" ->
                     [bodies[t] EXCEPT !.phase = "loaded", !.file = IF ok THEN n ELSE 0]
                [] OTHER -> bodies[t]]
        /\ UNCHANGED <<history, bridge, sock, tail, token, replaying>>

\* The socket has drained below the threshold.
DrainSend ==
  /\ Quiet /\ sock.open /\ sock.inflight # None
  /\ sock' = [Sent(sock, sock.inflight) EXCEPT !.inflight = None]
  /\ UNCHANGED <<sourceVars, history, bridge, load, persisted, bodies, tail, token, replaying>>

\* So has it for an item an unsubscribed state had in hand.
StraySend ==
  /\ Quiet /\ sock.open /\ sock.stray # <<>>
  /\ sock' = [sock EXCEPT !.out = Append(@, Head(sock.stray)), !.stray = Tail(@)]
  /\ UNCHANGED <<sourceVars, history, bridge, load, persisted, bodies, tail, token, replaying>>

\* insertEvent, with the retention trim of the store.
Insert ==
  /\ gen' = gen
  /\ hi' = hi + 1
  /\ lo' = IF Keep > 0 THEN Max2(lo, hi' + 1 - Keep) ELSE lo

\* event_forward: the next event of the bridge's history, or a new one once the
\* bridge is through with it; published unless a bridge replay is on.
EventForward ==
  LET e == [gen |-> gen, seq |-> hi + 1]
  IN  /\ Quiet /\ bridge # None
      /\ Insert
      /\ \/ /\ bridge.due > 0
            /\ bridge' = [bridge EXCEPT !.due = @ - 1] /\ history' = history
         \/ /\ ~bridge.owed
            /\ bridge' = bridge /\ history' = history + 1
      /\ Become(IF ~sock.open \/ ~sock.present \/ replaying THEN sock
                ELSE IF sock.suppressed THEN SuppressLive(sock, e)
                ELSE Enqueue(sock, LiveItem(e)),
                bodies, tail)
      /\ UNCHANGED <<load, persisted, token, replaying>>

\* A bridge (re)registers: the session's events are dropped, its subscribers
\* told so, and its history will be forwarded again.  The notice is sent past
\* the queue.
SessionRegister ==
  /\ Quiet
  /\ replaying' = TRUE
  /\ bridge' = [due |-> history, owed |-> TRUE]
  /\ gen' \in {<<gen[1], gen[2] + 1>>} \cup (IF hi = 0 THEN {gen} ELSE {})
  /\ lo' = 1 /\ hi' = 0
  /\ sock' \in IF sock.open /\ sock.present
               THEN Direct(sock, <<[type |-> "session_state_reset", id |-> NoId, gen |-> gen']>>)
               ELSE {sock}
  /\ UNCHANGED <<history, load, persisted, bodies, tail, token>>

\* completeBridgeReplay: whatever was under way for the subscriber fails, and
\* the whole store is delivered under a request of the server's own.
CompleteBridgeReplay ==
  LET t == token + 1
      r == [token |-> t, key |-> -t, kind |-> "cold"]
      b == [NewBody("cold", 0, None, "waiting") EXCEPT !.tailMode = FALSE]
  IN  /\ replaying' = FALSE
      /\ IF ~sock.open \/ ~sock.present THEN UNCHANGED <<sock, bodies, tail, token>>
         ELSE /\ token' = t
              /\ sock' \in Direct([sock EXCEPT !.requests = <<r>>, !.queue = <<>>,
                             !.suppressed = TRUE, !.queued = Len(sock.pendingLive)],
                           Terminals(sock.requests))
              /\ bodies' = [u \in DOMAIN bodies \cup {t} |-> IF u = t THEN b ELSE bodies[u]]
              /\ tail' = Append(tail, t)
      /\ UNCHANGED <<sourceVars, history, load, persisted>>

\* replay_complete, sent behind the bridge's history.
ReplayComplete ==
  /\ Quiet /\ bridge # None /\ bridge.owed /\ bridge.due = 0
  /\ bridge' = [bridge EXCEPT !.owed = FALSE]
  /\ CompleteBridgeReplay

\* The safety timer of this registration, or of an earlier one.
SafetyTimeout ==
  /\ Quiet /\ replaying
  /\ CompleteBridgeReplay
  /\ UNCHANGED bridge

\* The state goes; what it has in hand is still sent.  Its bodies find their
\* request gone.
Unsubscribe ==
  /\ Quiet /\ sock.open /\ sock.present
  /\ sock' = [EmptySocket EXCEPT !.out = sock.out,
                !.stray = IF sock.inflight = None THEN sock.stray
                          ELSE Append(sock.stray, sock.inflight.msg)]
  /\ bodies' = Empty /\ tail' = <<>>
  /\ UNCHANGED <<sourceVars, history, bridge, load, persisted, token, replaying>>

Closed(s) == [EmptySocket EXCEPT !.open = FALSE, !.out = s.out]

\* The connection is lost, with everything held for it.
Disconnect ==
  /\ Quiet /\ sock.open
  /\ Become(Closed(sock), bodies, tail)
  /\ UNCHANGED <<sourceVars, history, bridge, load, persisted, token, replaying>>

\* The browser connects again, over a fresh socket.
Connect ==
  /\ Quiet /\ ~sock.open
  /\ sock' = EmptySocket
  /\ UNCHANGED <<sourceVars, history, bridge, load, persisted, bodies, tail, token, replaying>>

\* The server process starts anew, without events, under a fresh epoch.
ServerRestart ==
  /\ Quiet
  /\ gen' = <<gen[1] + 1, 0>> /\ lo' = 1 /\ hi' = 0
  /\ bridge' = None /\ load' = None /\ persisted' = None /\ replaying' = FALSE
  /\ Become(Closed(sock), bodies, tail)
  /\ UNCHANGED <<history, token>>

CoordInit ==
  /\ gen = <<0, 0>>
  /\ history = InitialHistory
  /\ IF Bridged
     THEN /\ bridge = [due |-> 0, owed |-> FALSE]
          /\ hi = history /\ lo = IF Keep > 0 THEN Max2(1, history + 1 - Keep) ELSE 1
     ELSE bridge = None /\ lo = 1 /\ hi = 0
  /\ load = None /\ persisted = None
  /\ sock = EmptySocket
  /\ bodies = Empty /\ tail = <<>>
  /\ token = 0
  /\ replaying = FALSE

-----------------------------------------------------------------------------
(* The coordinator on its own, with a browser that may send anything. *)

CONSTANTS
  Kinds,      \* the kinds of requests the browser sends
  MaxToken, MaxHistory, MaxRevision   \* bounds, see WithinBounds and FewSources

ASSUME KindsAssumption == Kinds \subseteq KindSet

\* A browser names each request afresh, or a name again it still waits for.
Ids == {token + 1} \cup (IF "supersede" \in Incidents
                         THEN {sock.requests[i].key : i \in DOMAIN sock.requests} \cap Nat ELSE {})
BrowserMessages ==
  (UNION {[id : Ids, kind : {kind}, at : 1..(hi + 1), known : {gen, <<0, 0>>}]
            : kind \in Kinds \ {"cold"}})
  \cup [id : Ids, kind : Kinds \cap {"cold"}, at : {0}, known : {None, gen}]

WithinBounds ==
  token <= MaxToken /\ history <= MaxHistory
\* New sources are few, and no registration comes while another is under way.
FewSources == gen[1] + gen[2] < MaxRevision /\ ~replaying

BridgeStep == (FewSources /\ SessionRegister) \/ ReplayComplete \/ SafetyTimeout

CoordNext ==
  /\ \/ Microtask
     \/ DrainSend
     \/ \E m \in BrowserMessages : Subscribe(m)
     \/ EventForward
     \/ load # None /\ LoadDone(TRUE)
     \/ "loadError" \in Incidents /\ load # None /\ LoadDone(FALSE)
     \/ "register" \in Incidents /\ BridgeStep
     \/ "unsubscribe" \in Incidents /\ (Unsubscribe \/ StraySend)
     \/ "disconnect" \in Incidents /\ Disconnect
     \/ "restart" \in Incidents /\ FewSources /\ ServerRestart
     \/ Incidents \cap {"disconnect", "restart"} # {} /\ Connect
  /\ WithinBounds'

\* Continuations run, the socket drains, the worker answers.
CoordFairness ==
  /\ WF_serverVars(Microtask) /\ WF_serverVars(DrainSend)
  /\ WF_serverVars(load # None /\ LoadDone(TRUE))

CoordSpec == CoordInit /\ [][CoordNext]_serverVars
FairCoordSpec == CoordSpec /\ CoordFairness

-----------------------------------------------------------------------------
(* Properties. *)

\* The state keeps its shape, the queue's accounting never goes below zero, the
\* delivery tail waits only for bodies there are, and a loaded file is
\* remembered only for a source that has events.
CoordTypeOK ==
  /\ gen \in Nat \X Nat /\ hi \in Nat /\ lo \in 1..(hi + 1)
  /\ sock.open \in BOOLEAN /\ sock.present \in BOOLEAN /\ sock.suppressed \in BOOLEAN
  /\ sock.queued \in Nat
  /\ DOMAIN bodies \subseteq 1..token
  /\ \A i \in DOMAIN tail : tail[i] \in DOMAIN bodies
  /\ persisted # None => persisted.gen # gen \/ HasEvents

\* Live events are held back while a cold or delta request is being served, or
\* they would overtake it; and only while some request is, or they would be
\* held for ever.
SuppressedWhileServing ==
  /\ LiveRequests(sock.requests) => sock.suppressed
  /\ sock.suppressed => sock.requests # <<>>
  /\ ~sock.suppressed => sock.pendingLive = <<>>

\* A request that is being served has a body that will complete it, or its
\* barrier is queued.
RequestHasServer ==
  \A i \in DOMAIN sock.requests : LET r == sock.requests[i] IN
    \/ r.token \in DOMAIN bodies
    \/ \E j \in DOMAIN sock.queue :
         sock.queue[j].kind = "barrier" /\ sock.queue[j].token = r.token

\* The events queued, held and in hand.
Cost(item) == IF item.kind = "message" THEN item.count ELSE 0
Weight(items) ==
  LET sum[i \in 0..Len(items)] == IF i = 0 THEN 0 ELSE sum[i - 1] + Cost(items[i])
  IN  sum[Len(items)]
Backlog == Weight(sock.queue) + Len(sock.pendingLive)
           + IF sock.inflight = None THEN 0 ELSE sock.inflight.count

\* "Its queue accounting stays reserved while the retry waits, keeping the
\* queue within its caps" (replay-coordinator.ts:250-252): what waits for the
\* socket, the events held back included, never exceeds the cap.
BacklogWithinCap == Backlog <= QueueCap

\* The messages sent, as a browser reads them.
Out == sock.out
IsFrame(m) == m.type = "event_replay"
FramesOf(id) == Those(Out, {m \in Range(Out) : IsFrame(m) /\ m.id = id})

\* The frames that answer a request are one dense run of events, and what
\* follows its terminal is at most the error of a queue that overflows before
\* the request is done with.
AnswersAreDense ==
  \A id \in 1..token :
    LET fs == FramesOf(id)
        es == FlattenSeq([i \in DOMAIN fs |-> fs[i].events])
    IN  /\ \A i \in DOMAIN fs : \A j \in 1..(i - 1) : fs[j].last => fs[i].error
        /\ \A i \in 1..(Len(es) - 1) : es[i + 1].seq = es[i].seq + 1

\* A browser whose request is no longer served has been sent its terminal.
EveryRequestTold ==
  sock.open => \A id \in 1..token :
    HasRequest(sock, id) \/ \E i \in DOMAIN Out : IsFrame(Out[i]) /\ Out[i].id = id /\ Out[i].last

\* What message m tells a browser of new events.
News(m) == CASE m.type = "event" -> <<m.entry>>
             [] IsFrame(m) /\ m.kind # "older" -> m.events
             [] OTHER -> <<>>

\* "delivers a live event once across the replay barrier"
\* (replay-coordinator.test.ts:205): no event is sent live when a frame, or the
\* live stream, has already delivered it.
LiveDeliveredOnce ==
  \A j \in DOMAIN Out : Out[j].type = "event" =>
    \A i \in 1..(j - 1) : \A k \in DOMAIN News(Out[i]) : News(Out[i])[k] # Out[j].entry

\* The live stream goes on where the last request left off: the event sent live
\* follows the newest event delivered before it.
LiveContinues ==
  \A j \in DOMAIN Out :
    LET before == FlattenSeq([i \in 1..(j - 1) |-> News(Out[i])])
    IN  Out[j].type = "event" /\ before # <<>>
          => Out[j].entry.seq = before[Len(before)].seq + 1

\* A request leaves a subscribed socket only with its terminal sent, be it
\* served, failed for want of its file, or cancelled by a bridge's replay while
\* the drain still holds an item of its own: a browser that is not told waits out
\* its deadline of 90 seconds.
RequestsLeaveTold ==
  [][\A i \in DOMAIN sock.requests : LET id == sock.requests[i].key IN
       id > 0 /\ ~HasRequest(sock', id) /\ sock'.present
         => \E j \in DOMAIN sock'.out :
              IsFrame(sock'.out[j]) /\ sock'.out[j].id = id /\ sock'.out[j].last]_serverVars

\* The generations a browser has been told of, and those it was sent events of.
GenOf(m) == IF m.type = "event" THEN m.entry.gen ELSE m.gen
ToldGens == {GenOf(m) : m \in Range(Out)}
ShownGens == {e.gen : e \in UNION {Range(News(m)) : m \in Range(Out)}}

\* The events a browser shows are not replaced behind its back: if it has been
\* sent events of the newest source it was told of, and is owed nothing, that
\* source is the store's.  A load that ends late, a registration and a bridge's
\* replay may all change the store between two of its messages.
ShownSourceIsCurrent ==
  /\ sock.open /\ sock.present /\ sock.requests = <<>> /\ Drained
  => \A g \in ShownGens : g = gen \/ \E h \in ToldGens : Newer(h, g)

\* Every request is eventually done with, as long as the socket lives.
EveryRequestEnds ==
  \A t \in 1..MaxToken : Active(sock, t) ~> ~Active(sock, t)
=============================================================================
