# The dashboard's protocols: specifications, checks and proofs

The dashboard lets browser tabs follow the sessions of coding agents. A session
runs in a process of its own; a *bridge* extension inside it forwards every event
to the dashboard server; the server keeps the recent events in memory and streams
them to the tabs, live and as *replays* of the history. What an agent asks its user
travels the same way, and the answers travel back. The server also starts agents,
for a browser or on the schedule of an *automation*, and must find out which process
is which session. All of this goes on while tabs, bridges and the server come and go.

This project states what that requires of each part, models the parts from the
source, checks them with TLC and proves what carries the rest with TLAPS. Five
protocols are covered:

1. **Replay**: a tab shows the session's events, each once, in order, without a
   hole, up to the newest.
2. **Prompts**: a question is answered once, is shown as long as it waits, and no
   longer.
3. **Loading**: a session file is loaded by a worker, whatever workers do.
4. **Spawning**: a session is linked to the process it runs in.
5. **Automations**: a run takes its slot, ends, and gives it back.

Paths below are relative to `src/packages/` unless they start with `src/`.

## 1. Inventory

### 1.1 The replay core (modelled)

| Component | State | Operations | What makes it correct |
|---|---|---|---|
| **Event store** `server/src/memory-event-store.ts` | per session a buffer (events, `nextSeq`, revision, `historyTruncated`, last access), a map of revisions that outlives the buffers, the server epoch | `insertEvent`, `replaceEvents`, `deleteEventsForSession`, the reads, eviction under the session cap, batch trim | a generation and a sequence number name one event for ever; what is retained is one dense suffix and says when its head is cut; used sessions are not evicted |
| **Replay coordinator** `server/src/replay-coordinator.ts` | per socket and session: requests by key, a bounded queue with its accounting, `pendingLive`, `suppressLive`, the delivery tail; globally the loads under way and `persistedSources` | `subscribe` and its asynchronous body, `drain`, `publishLive`, `completeBridgeReplay`, `unsubscribe`, `disconnect` | an answer is one dense run with one terminal; live events neither overtake nor repeat a replay; no request is forgotten; the backlog is bounded |
| **Event wiring, browser gateway** `server/src/event-wiring.ts`, `server/src/browser-gateway.ts` | which sessions are replaying, their safety timers, the open sockets | `event_forward`, `session_register`, `replay_complete`, its 5 s safety timeout, `sendTo`, open and close of sockets | a registration replaces the history as a new source; direct sends may be dropped, queued ones not |
| **Session replay ledger** `client/src/lib/session-replay-ledger.ts` | events by sequence number, gap buffer, the active request, source, retention cap, kinds that failed | `begin`, `admit`, `admitLive`, `cancel`, `fail`, `reset`, `seed`, `setMaxRetainedBytes` | only what follows the cursor is rendered; a gap waits for a repair; a page joins the boundary it was asked for |
| **Replay controller and App** `client/src/hooks/useSessionReplayController.ts`, `client/src/App.tsx`, `client/src/lib/replay-window.ts`, `client/src/lib/session-subscribe.ts`, `client/src/lib/subscription-decision.ts` | the pending request and its deadline, the window flags, the rendered transcript, the source last seen | handlers for live events, frames, resets and timeouts; select, reconnect, load older, refresh, reading mode, expand | the transcript is dense and ends with the newest event once nothing is under way; the tab never waits in vain |
| **Browser WebSocket** `client/src/hooks/useWebSocket.ts` | open or not | loss, replacement | what was under way is lost, and only a suffix of it |

How they interact. A tab sends *subscribe* messages naming a request id, a kind
(cold tail, delta from a cursor, page older than a boundary) and the source
generation it knows. The coordinator answers with *frames* (`event_replay`), the
last one a terminal, through the queue of the socket; resets and error terminals of
superseded requests bypass the queue. Live events go through the same queue, or are
held while a cold or delta request is being served. The store's generation is
stamped on every frame; the ledger compares it with its own. The bridge's
registration empties the store and broadcasts a reset; its `replay_complete` makes
the coordinator deliver the whole store to every subscriber under a request of the
server's own.

What is hard: the coordinator's body awaits three times (the session file, the
bodies before it, a congested socket) and reads the store before and after; a
request may be superseded, cancelled or cut off at every one of these points; the
safety timer is not tied to the registration that started it; the tab retries on a
deadline that races the answer; live events carry no generation; every queue and
cache has a limit that is reached in the middle of something.

### 1.2 Prompts, loading, spawning, automations (modelled)

| Component | State | Operations | What makes it correct |
|---|---|---|---|
| **Prompt bus** `extension/src/prompt-bus.ts`, its adapters in `bridge.ts` | pending prompts, the terminal's dialogs | `request`, `respond`, `cancel`, a dialog left without an answer | the first response wins, the other adapters close what they show |
| **Bridge connection** `extension/src/connection.ts` | the socket, a ring buffer | `send`, loss, reconnect, flush | what is sent on a reconnect precedes the buffer |
| **Prompts on the server** `server/src/browser-gateway.ts`, `event-wiring.ts`, `pi-gateway.ts` | per session the prompts kept for later subscribers and the answers queued for the bridge with their retry timers | track, clear, queue, retry, give up, replay to a subscriber | a waiting prompt is shown after any loss; an answer takes effect |
| **Interactive cards** `client/src/lib/event-reducer.ts` | per prompt pending, resolved or dismissed | add, dismiss, end of the tool, reset | no card outlives its tool |
| **Session load pool** `server/src/session-load-worker-pool.ts`, its user in `directory-service.ts` | jobs, queue, slots with their workers, timers, the sessions that load | `load`, `cancel`, answers, errors, exits, timeouts, `dispose` | every load ends, with one result; no worker is forgotten |
| **Headless registry** `server/src/headless-pid-registry.ts` | entries by pid, on disk without their links | register, three tiers of links, exit, kill, reclaim after a crash | a strong link is to the session's own process |
| **Spawn watchdog** `server/src/spawn-register-watchdog.ts` | watches by directory, token and pid, timeouts lately told | `arm`, fire, clear | a spawn that was heard of is not reported |
| **Automation engine** `automation-plugin/src/server/{engine,runner,run-store}.ts` | slots with queues, run contexts, records on disk | fire, run now, spawn outcomes, session end and death, stop, reaper, crash | a slot is freed, a queued fire starts, a record ends; one run at a time |

What is hard here: the same answer comes from several actors and over a link that
loses any suffix; a server restart forgets what waits, a page reload what was
answered; a terminated worker's messages still arrive, and a cancelled load leaves
its worker running; a bridge may register before the spawn that started it returns,
its first message may be lost with the token in it, and several spawns share a
directory; a run is finished by six different events, two of which may both happen.

### 1.3 The rest of the system (not modelled)

`PROJECT.json` lists every part with its sources and the reason. Those with a
protocol worth a specification:

- **Session manager and heartbeat** (`server/src/memory-session-manager.ts`,
  `pi-gateway.ts`): a live session is not declared dead; a replaced connection does
  not unregister its successor.
- **Pending fork, attach and resume registries**: an intent is consumed once, by the
  session it was meant for.
- **Push dispatcher, model-proxy concurrency slots, home lock, RPC keeper, goal
  supervisor, package operations**: counters released on every exit, one owner.
- **Replay cache** (`client/src/lib/replay-cache.ts`): a seed never contradicts the
  replay that follows.

`pending-load-manager.ts` is used by nothing but its tests, and
`openspec-poll-worker-pool.ts` is the load pool without the cancellation. Left aside
for good, as input/output, pure folds or presentation: the rest of the event reducer,
terminals, git and file services, plugins, the Electron shell, knowledge base and
document conversion, pairing and tickets.

## 2. Modules

```
EventSource  <---- implemented by ----  EventStore  <- EventStoreProofs
     ^                                   (many sessions, caps, restarts)
     | EXTENDS
ReplayCoordinator <- CoordinatorProofs     ReplayLedger
     ^               <- StreamProofs            ^
     | EXTENDS                                  | EXTENDS
     |                                  ReplayController, LedgerCalls <- LedgerProofs
     |                                          | INSTANCE
     +------------- ReplayProtocol -------------+

PromptBus  <---- implemented by ----  PromptPath  <- PromptPathProofs
     ^------------ EXTENDS ---------------+   +-- INSTANCE BridgeConnection

HeadlessRegistry <- EXTENDS - SpawnPath <- SpawnPathProofs
                                 +-- INSTANCE SpawnWatchdog

LoadPool, AutomationEngine  <- SlotProofs

DataLemmas  <- EXTENDS - CoordinatorProofs, LedgerProofs, SlotProofs
```

`MC*.tla` only give constants their values for TLC.

**EventSource** is what the rest relies on of the store: a generation and the
retained range `lo..hi`. Within a generation the range only moves forward; anything
else is a newer generation.

**EventStore** is `memory-event-store.ts` over several sessions. One action per
operation; `EvictIfNeeded` and `Trimmed` are part of the operations that call them.
`Victims` leaves open which of several sessions with the same `lastAccess` goes,
as the order of equal keys is an accident of the Map. `clock` is `Date.now()`;
`pinned` is the predicate `isSessionPinned` of `server.ts`; `issued` is a history
variable, the events ever stored, that no action reads.

**ReplayCoordinator** EXTENDS EventSource: its `gen, lo, hi` are the store as one
session sees it, and its handlers change them by the operations that `EventStore` is
shown to implement `EventSource` with. It has one session and one socket. A subscribe request is a *body* with
a phase, one phase per stretch of `deliverRequestBody` between two awaits:

| phase | waits for | code |
|---|---|---|
| `hydrating` / `hydrated` / `unavailable` | `ensureHydrated` | replay-coordinator.ts:316-325 |
| `waiting` | its turn in the delivery tail | 363-373 |
| `paging` / `loaded` | the session file under a trimmed head | 375-392 |
| `sending` | the drain of the message before | 468-565 |
| `closing` / `failing` | the drain of the terminal | 566-581 |

JavaScript runs the continuations of a promise before the next task, so
`Microtask` steps come first and every task (a message, a timer, an answer of the
worker, a drained socket) has the guard `Quiet`. The interleavings that remain are
exactly those an await lets in. `inflight` is the item the drain loop holds while
the socket is congested. That the code puts back an item which `send` refuses
(`replay-coordinator.ts:249-256`) is left out: line 246 has just waited for the socket to
hold less than 1 MiB, and `send` refuses only above `maxWsBufferBytes`, which is 4 MiB
unless it is set lower than that. `Direct` is `sendTo`: past the queue, and possibly dropped.
Incidents (a constant set) select the rarer events: registration, superseding, load
errors, unsubscribe, disconnect, restart, a socket over its buffer limit.

**ReplayLedger** is the ledger class as pure operators on a record, one per method,
returning the new ledger and what the caller is told (`accepted`, `repair`,
`reset`, `stale`, `rebuild`, `evicted`). **LedgerCalls** lets anyone call them in
any order with any arguments; what holds there does not rest on the server or on
the controller.

**ReplayController** is the tab: one record, every handler an operator from tab to
tab, the App effects the controller calls included (the subscribe it sends, the
reset of the view, the rows it applies).

**ReplayProtocol** composes coordinator and tab over one WebSocket, FIFO in each
direction. The tab acts only when no server continuation is ready: continuations
only append to what it receives, so it could not tell the difference, and the state
space stays small.

**PromptBus** is the bus and its two answerers: the terminal, whose adapter opens a
dialog, and the dashboard. It is also the abstract specification of the whole path.

**BridgeConnection** is the bridge's socket as operators on a link. A `dead` socket is
one that the bridge still takes for open: what it sends there is lost.

**PromptPath** EXTENDS PromptBus with everything between the tool and the tabs. Each
handler of `event-wiring.ts` is an action on the head of the link: `SessionRegister`,
`PromptRequest`, `PromptDismiss`, `PromptResponseAck`, `ToolExecutionEnd`. The server
keeps `tracked` (pendingPromptRequests), `queued` (pendingPromptResponses) and the ends
of tools it has stored. A tab is `live`, `wanted` (a subscription under way),
`orphaned` (a reset that named no request has ended its own, which the server still
serves), `behind` (its next live event may or may not join what it has: it then takes
the event, or subscribes) or `off`. A reset leaves the tab `live` with nothing: the next
event is its first (`session-replay-ledger.ts:291`). A prompt is asked by a tool call,
whose end is a stored event, or floats free. What the server sends a tab arrives at
once, since the one thing that could come in between, a click, is an answer under way
in `out`; or not at all: `sendTo` (`browser-gateway.ts:528-535`) drops a prompt, live or
replayed, a dismissal or a reset when the socket's buffer is over its limit (fault
`drop`, any set of tabs at once). Events are not dropped, they wait in the coordinator's
queue. An answer to a subscription may be cut to its budget (fault `cut`): any part of
the stored ends. Three history variables say what properties must except: `abandoned`,
answers the server has given up; per tab `missed`, prompts it was not sent, and `doubt`,
prompts whose card it showed when their end may have begun to pass it by.

**LoadPool** is `session-load-worker-pool.ts` statement by statement where order
matters: `drainQueue` runs inside the handlers that call it, `killSlot` falls back for
every job bound to the slot while the loop that drains the queue binds new ones.
`retired` are terminated workers with the messages they had posted. Whether a worker
can be started is a choice of every step that starts one.

**HeadlessRegistry**, **SpawnWatchdog** and **SpawnPath**: a *run* is one pi process.
It names its keeper, its token and its session, as no two runs share them; pids are not
used again. `spawnPiSession` is awaited between `SpawnSession` and `SpawnReturns`, and
the bridge may register in between (`Early`). `Link` is the three tiers of
`event-wiring.ts:1056-1077`; what a registration clears is `Heard`. `shown` is what each
browser reports of a directory (`useMessageHandler.ts:1053-1080`): a timeout puts a run
there, and its recovery takes it back for whom the timeout was told to, if the record is
not more than a minute old (`Watchdog!TakenBack`, spawn-register-watchdog.ts:238-255)
and the socket the spawn was asked over is still open (`closed`). `Fading` selects
whether records grow old and browsers' sockets close; `stranded` is a history
variable, the runs reported when that happened. A crash leaves the
keepers, their pis and the registry's file. Left out: sessions begun by `/new` in a
running process, the 60 seconds in which a reload may return, the kill of orphans
after seven days, `killAll` on a graceful stop, and the intents recorded beside a
spawn. The third index of the watchdog, by pid, holds the keeper's pid while a
registration carries pi's: it never finds anything and is not kept.

**AutomationEngine** is runner, engine and record store of one scope. A run is
`awaited` until its spawn returns, `spawned`, `up` once its session is bound to its
context (`early` when that comes before the spawn's return), `over`. A run that ends
while its spawn is awaited may be finished a second time by the spawn's failure. `tracked` is membership in `pending`. `FinishAndRelease` is the common
end of six handlers, with the pruning of records and the start of the next queued run
in the same step. Fires come at will, as the triggers decide nothing else.

## 3. Runs

The bounds are named in the modules: `MaxSeq`, `MaxRevision`, `MaxClock`,
`MaxEpoch` (EventStore), `MaxToken`, `MaxHistory`, `MaxRevision` (coordinator),
`Top`, `FrameEnd`, `MaxGaps` (ledger), `MaxActs` (protocol: acts of the user,
deadlines and lost connections together), `MaxCopies`, `MaxFaults`, `BufferCap`
(prompts), `MaxJobs`, `MaxFailures` (loads), `MaxLosses`, `MaxRestarts` (spawns),
`MaxRuns`, `MaxStops`, `MaxRestarts` (automations).

| Run | Question | Bounds, and why they are enough |
|---|---|---|
| `store` | Is what is retained a dense suffix, flagged when cut, within the cap? Does eviction spare pinned and recent sessions? Does a name ever stand for two events? Does each session refine `EventSource`? | two sessions compete for one cached buffer; limit 2 and slack 1, so that a buffer holds up to three entries and a trim removes two at once; six names in all (`FewStored`), so that a second trim follows the first in one buffer; two different events, session files shorter and longer than the limit that disagree with what was stored live; one restart, after at most one name: evictions, reloads and every way of starting a numbering anew occur, several in a row |
| `coordinator` | Does a live event overtake a replay, or stay held for nothing? Does a request lose its server? Does every request end? | all kinds and all incidents, two requests, one of them possibly of the bridge, one event in the store and one to come. Histories of sent messages are not distinguished (`VIEW`), as no step reads them and these properties do not mention them |
| `coordinator_stream` | What is sent, over overlapping requests | three overlapping cold and older requests, up to six events, queue of three, two-event frames: answers of several frames, queue overflow before and behind a terminal, live events during each stage |
| `coordinator_register` | Is a request ever taken away without its terminal? Can the store's source change behind the back of a browser that shows it? | up to three overlapping cold requests, those of a bridge's replay among them; one registration, failing loads of the session file, superseding, unsubscribing; loads that end before and after a registration and the bridge's events. Full queues and histories of several frames are left to `coordinator_stream` |
| `ledger` | Gap buffer, cursor and page joins under any calls | two sources, four events, frames of up to two events of any content, two caps, one buffered gap, failing cold requests |
| `protocol_reconnect` | Dense transcript, and settled on the newest event | connections lost and deadlines expired at any point, up to three acts in all, so a deadline, the deadline of its retry and a loss; reading mode, refresh, expand; a cap of two under four events so that the tab trims; or, instead of these acts (`RegistersAlone`), a registration at any point of a replay, completed by its timer or by the bridge, before or after the bridge's events |
| `protocol_paging` | Does the tab ever wait in vain? | pages asked for by the user and automatically (partial heads), frames of one event |

| `prompt_path` | Does the first answer stand? Is a waiting prompt shown again after any loss, and a finished one not? Does a queued answer take effect? | one tool prompt, one tab and the terminal, two copies of an answer, a buffer of two, any three of: link lost, server restarted, tab lost, page reloaded, a message dropped for a full socket, an answer cut to its budget. Tabs share only what the server keeps; all but `AnswerTakesEffect` is proved for any number of them |
| `load_pool` | Does every load have one way to its result? Is a worker idle while loads queue? Does every load end? | three loads of two sessions on two slots, so that one queues and a session loads twice; two failures, workers that hang, cancellations, disposal |
| `spawn_path` | Is a strong link to the session's own process? Does a known run take its own entry? Is a spawn reported, or watched, that was heard of? | two spawns and a terminal session, all in one directory, so that each tier has another's entry to mistake for its own; the spawns are asked for by two browsers, so that one timeout replaces another's record; records that grow old, two lost registrations, connections or browsers' sockets, two crashes, exits and kills at any time. All four properties are proved for any number of spawns |
| `automation` | Is a slot always given back? Do queued fires start? Do records end? | a queueing and a parallel automation, three runs in all, retention of one so that running records are pruned, one stop under way at a time, one crash |
| `automation_slot` | has a counterexample, see section 6 | one automation that skips, three runs |

Every action and disjunct fires in some passing run. Each property has a mutant in
`PROJECT.json`: a plausible bug of the definition it names, written beside it with
the comment `(mutation)`, under which the same run finds the property violated.

The properties about settled states are safety properties: `Idle` and, for prompts,
`Quiet` say that nothing is under way in either direction and no timer but a deadline
could act. `SettledShowsNewest` then demands the newest event, `RequestAnswered` that
the tab has no pending request, `WaitingPromptShown` a card on every tab that has not
resolved its own and was sent the prompt, `NoStaleToolCard` no card of a tool that has
ended, unless the tab showed it when a reset passed it by or an answer was cut.

Deltas and the byte budget. In `protocol_reconnect` what a tab
misses fits the budget of one request (`WindowFrames * FrameSize`). Beyond it the
code sends a prefix and stops, see section 6, and the property would not hold.

**Fairness.** Each is weak, and of what the code itself schedules:

- `FairCoordSpec`: the continuations (the event loop runs what is ready), `DrainSend`
  (a live socket drains; a dead one is closed, which ends the request too) and a
  load's completion (`LoadsEnd` of the pool). Nothing of bridge, browser or timers.
- `FairPathSpec`: messages of a live link arrive, the bridge's watchdog notices a dead
  one, its reconnect timer fires, and so does each answer's retry timer. Nothing of the
  users, nor of the faults, whose number is bounded.
- `FairLoadSpec`: timers, microtasks and continuations. A worker need not ever answer:
  that is what the timers are for. Cancelling a load takes its timer away, and
  `LoadsEnd` therefore assumes that the workers that run cancelled loads are heard of
  in the end; section 6 says what happens otherwise.
- `FairAutoSpec`: the reaper's interval, which runs for the server's life unless
  `maxRunAgeMs` is zero. Nothing of sessions or spawns.

`CHECK_DEADLOCK FALSE` everywhere: the instances stop at their bounds, and a
dashboard where nothing happens is in order.

## 4. Proofs

**The event store** (`EventStoreProofs`), for every set of sessions and events, every
limit, slack and cap and every bound:

| Theorem | Statement |
|---|---|
| `InductiveInvariant` | `Spec => []IInv` |
| `TypeCorrect` | `Spec => []TypeOK` |
| `NamesAreUnique` | `Spec => []GenerationNamesOneEvent` |
| `RetainedIsDense` | `Spec => []RetainedDense` |
| `TruncationIsFlagged` | `Spec => []TruncationFlagged` |
| `RetentionIsBounded` | `Spec => []RetentionBounded` |
| `StoreImplementsSource` | `Spec => ImplementsEventSource` |
| `EvictionSparesWhatIsUsed` | `Spec => EvictionSparesUsed` |

Assumed is `StoreAssumption` only: limits are naturals, at least one buffer may be
cached, session files are sequences of events, the sessions are finite.

`GenerationNamesOneEvent` is not inductive: nothing in it keeps a step from issuing
a name that is already taken. `IInv` adds what does. `IssuedBelow`: a name issued
under the present epoch is of an older revision of its session, or of the present
one while its buffer is still cached and the number is below `nextSeq`; no name is
of a later epoch. `CurrentRevision`: a cached buffer is of the revision the map
records, so that dropping the buffer and moving the revision on leaves no name
behind. And each buffer is well formed (dense, flagged), because an insert issues
`nextSeq`. `StoredBufferKeepsInvariant` is the common part of insert and replace:
store a buffer whose new names are unused, evict, and the invariant holds. The step
proofs go action by action. Eviction is where the argument is delicate: the victim
may be the very session that was just written, and its revision moves on from the
buffer's, not from the map's.

`RetentionIsBounded` needs one more conjunct, `Bounded`, which is inductive relative
to `IInv`: a trim brings a buffer of any length to the limit and keeps its newest
event. The refinement rests on both. `QueriesSeeBuffer` turns the queries, which read
the first and last entry, into arithmetic on `nextSeq` and the number of entries;
density and "never empty once used" make that exact. Then each operation is a step of
every session's source: an insert is `Grow`; reload, deletion, restart and eviction,
of the session written or of a bystander, are `NewSource`; the rest stutters. This is
what lets the coordinator's runs use three variables for a store of any size.

`EvictionSparesWhatIsUsed` needs that no buffer was used after the present time
(`UsedBefore`): the session just written may be the victim itself, and what the
property compares is the recency of its buffer before the write.

**The coordinator** (`CoordinatorProofs`, and for the events it sends `StreamProofs`), for
any caps, frame sizes, retention, sets of kinds and incidents, and any bounds:

| Theorem | Statement |
|---|---|
| `CoordinatorIsSound` | `CoordSpec => []IInv` |
| `CoordinatorTyped` | `CoordSpec => []CoordTypeOK` |
| `LiveEventsWait` | `CoordSpec => []SuppressedWhileServing` |
| `RequestsHaveServers` | `CoordSpec => []RequestHasServer` |
| `BacklogIsBounded` | `CoordSpec => []BacklogWithinCap`, assumed `"register" \notin Incidents` |
| `RequestsAreTold` | `CoordSpec => []EveryRequestTold`, assumed `Incidents \cap Upsets = {}` |
| `LiveEventsAreSentOnce` | `CoordSpec => []LiveDeliveredOnce`, assumed `Unpaged` and `"unsubscribe" \notin Incidents` |
| `AnswersAreRuns` | `CoordSpec => []AnswersAreDense`, assumed `Unpaged` and `Incidents \cap Mixers = {}` |
| `LiveStreamContinues` | `CoordSpec => []LiveContinues`, assumed `Keep = 0`, `"delta" \notin Kinds` and `Incidents \cap Mixers = {}` |

`IInv` has two parts. `StoreInv` is about generations: a load, or what is remembered of
one, is of a generation there has been since the server started (`Past`), and of the
present one only if that has events or a load under way; without it a late answer of a
worker could rewrite a source it was not read for. `SocketInv` is about tokens. Requests
have tokens of their own (`OwnTokens`), so that removing one removes no other. Live
events are held exactly while a live request is open (`Suppressing`). Each body is in
the delivery tail at most once (`TailOK`), which keeps two answers from interleaving.
And `RequestHasServer` is not inductive: the body that serves a request ends in the step
that drains its terminal, when the request must already be left to its barrier. `Served`
and `Closing` say that a body in its last phase has its barrier in the queue.

`BacklogIsBounded` adds `Charged`: what the queue is charged for is, item by item, what
is in it and in hand. The proof follows `Weight`, a fold over the queue, through every
append, replacement and removal. That is what a bridge's replay breaks (section 6), and
the only place where the theorem needs its assumption.

`RequestsAreTold` says that a request which is no longer served has been answered with
its terminal. Its invariant `ToldInv` follows the terminal: once a body is through
(`ended`, or given up) its terminal is sent, in hand or queued (`OnWay`); a barrier is
always behind the terminal of its own request (`BehindEnd`), so the step that takes the
request away finds it sent; and an item is dropped as stale only when its request is
gone, hence told. `Upsets` are the incidents under which the statement itself makes no
sense for a request id: an id used again, the server's own negative ones, an unsubscribe
(which answers nothing, by design), and a connection whose output is gone. Failed loads,
full queues and lost direct messages are all admitted.

`LiveEventsAreSentOnce` is about the events themselves. Its invariant `OnceInv` follows
an event from the store to the socket. `Once`: a live event in hand, queued or held
back is not also ahead of itself, in a frame or alone. `Clear`: nothing that a body is
going to send is held back, as a body strikes from the held events what its snapshot
contains. `Lined` and `Cut`: whatever is on its way has been stored, so that the next
event of the bridge is on no way yet; a generation is never used again, which makes
this hold over registrations and restarts. `SnapOK`: a body plans from the store as it
is, in the same run of microtasks as it takes its snapshot. That is what `Unpaged`
(`Keep = 0 \/ ~HasFile`) stands for: no request awaits older history from the session
file. Where one does, the property is false (section 6), and so it is when a browser
unsubscribes with a live event in hand.

`AnswersAreRuns` is about the frames of a request as the browser reads them. Its
invariant `DenseInv` speaks of one sequence, the `Line`: the messages sent, the one in
hand, and what the queue will say of each item in it. `Kept`: along the line the frames
of each request are one run of events, only an error follows once it is concluded,
and what is queued for a request is ahead of its barrier. `Says`: a body that has not
planned yet has said nothing, and the batches of one that sends are each a run, go on
from one another (`Chained`) and start where the line's frames for its request end
(`Joins`). An action moves a message along the line, which changes nothing, appends to
its end, or breaks its end off; that is why neither windows, nor drains, nor an
overflow in the middle of an answer can break it. `Mixers` are a request id that is used
again (`supersede`), after which two answers share it; a registration, which empties the
store between the snapshot and the catch-up of one answer; and an unsubscribe, which
`OnceInv` and with it the proof leaves out: of the answers themselves TLC finds none that
it breaks. With paging, events stored while the session file is read may be trimmed from
the store before the catch-up takes them, and the frames miss them (`Keep = 1`, three
events stored and two more during the load); hence `Unpaged`.

`LiveStreamContinues` is about the stream that goes on after an answer: a live event is
the next one after the newest that was delivered before it, in a frame or alone. Its
invariant `FlowInv` stands beside `OnceInv` and `DenseInv` and says up to where the line
has brought the browser. `Follows`: on the whole `Line`, queued and in hand included,
every live event comes right after the news before it. `Level`: the events held back are
the newest of the store, without a gap; before them ends what a body is still going to
send (`Due`), and, where no body owes anything, the line itself. `Sorted`: of the bodies
that send, only the first of the delivery tail does, so that the line ends where its
batches go on. `Still`: without a bridge there are no live events and nothing to follow.
Failed loads, disconnects, restarts and sockets past their limit are admitted. The
hypotheses are each necessary, TLC finds a counterexample without it: a retention, under
which a held event is trimmed and sent late (section 6); a delta, which ends where its
budget does, below the live events (section 6); a request id used again, a registration,
and an unsubscribe with an event in hand.

Assumed are `CoordinatorAssumption` (bounds and caps are naturals, a frame holds an
event), `KindsAssumption` and `NoneAssumption` (`None` is no message).

**The ledger** (`LedgerProofs`), for any range of sequence numbers, any length of frame
and gap buffer and any set of retention caps:

| Theorem | Statement |
|---|---|
| `LedgerIsSound` | `Spec => []IInv` |
| `LedgerTypeCorrect` | `Spec => []LedgerTypeOK` |
| `GapsAreRepaired` | `Spec => []GapsAwaitRepair` |
| `CursorNeverJumps` | `Spec => CursorFollowsStream` |
| `PagesJoin` | `Spec => PageJoins` |

`Sound` says that the gap buffer is drained, latched exactly while it holds something,
within its limit and never without a baseline; that a request is of the ledger's own
source and that a page ends below the cursor. A method passes through ledgers that are
not `Sound`: `Extends` is what admission may do before a trim, `Continues` what is left
of it after one. A frame is admitted entry by entry, so the effect of one on a ledger is
an induction along its entries (`ForwardExtends`), and a page is one run because each
entry meets the one before (`ContiguousRun`). `PagesJoin` needs that the frames already
taken of a page end at the boundary it was asked for, over any calls in between.

**The load pool** (`SlotProofs`, which holds the theorems about the load pool and the
automations, the two parts that queue work for slots; they share no state), for any number
of sessions, workers, loads and failures:

| Theorem | Statement |
|---|---|
| `PoolIsSound` | `LoadSpec => []PoolInv` |
| `LoadsAreWatched` | `LoadSpec => []WaitingLoadIsWatched` |
| `QueueKeepsWorkers` | `LoadSpec => []QueueIsServed` |

`Sound(P, D, X, n)` is stated of any pool, with the jobs `X` that a step has in hand and
that are on no way to a result for the moment: the head of the queue that `drainQueue`
took off, the jobs of a worker that `killSlot` has still to settle. Each operator takes
one such pool to another. `drainQueue` makes any number of passes and may run inside the
loop of `killSlot`, which may disable the pool in the middle; both are followed by
induction on the number of passes, with a pool and a set `X` at each. Of a busy slot the
invariant says that it has a live job which will free it, be that job cancelled or not.

**Induction** (`DataLemmas`). The library states its induction theorems for an operator,
which the provers cannot instantiate. `UpTo` states induction for a *set*: one that
holds 0 and with every number below `n` its successor holds all of `0..n`; it follows
from the theorem that `<` is well founded. `RecursionExists` does the same for functions
defined by recursion, from which follow what the folds and recursive functions of the
coordinator, the ledger and the pool compute.

**Prompts** (`PromptPathProofs`), for any prompts, tabs, copies, buffer and faults:

| Theorem | Statement |
|---|---|
| `BusTypeCorrect`, `DialogsAreOfWaitingPrompts`, `FirstResponseWins` | `BusSpec` keeps its type, `DialogOnlyWhileWaiting` and `FirstAnswerStands` |
| `PathImplementsBus` | `PathSpec => BusSpec` |
| `PathFirstResponseWins`, `PathDialogsAreOfWaitingPrompts` | the two properties, of the path |
| `WaitingPromptsAreShown` | `PathSpec => []WaitingPromptShown` |
| `EndedToolsAskNobody` | `PathSpec => []NoStaleToolCard` |

The argument for the first three rows is short and modular. On the bus, `Settle` asks for a waiting prompt, so
that no settled one changes, and every dialog is opened for a waiting prompt and closed
with it. The path is then shown to take only steps of the bus: each of its actions is
one of the bus or leaves `busVars` alone. Whatever link, server and tabs do, repeated
and late answers included, the promise of the bus is kept.

The last two rows are about states in which nothing is under way, and neither is
inductive: what a tab shows follows from messages taken long before. `IInv` says of
every prompt where that is which a server or a tab still lacks. `PromptOK`: a waiting
prompt is tracked, queued or given up, or its request is on the link, or the link is
not open, in which case the next registration brings the request; a prompt that is not
settled has neither dismissal nor end anywhere. `TabOK` is the same for a tab with no subscription to be
served: it has the card, or what it lacks is one of those, or it was not sent it
(`missed`); and a card it still shows for an ended tool has the end or the dismissal on
its way, or a registration, which resets the tab, or is in `doubt`. A tab that is
`behind` may take an event or ask for what is between; either way it keeps what is
said of it, as whatever it was showing then is in doubt already. Both rest on the order of the link (`LinkOK`): a
registration is the first message of its socket, the buffer has none, and a request
for a settled prompt is followed by the dismissal (`Follows`), so that no late request
can put back what was cleared. A ring buffer that drops its oldest messages, and a
socket that loses all of them, keep that order; dropping the newest would not. Once
nothing is under way each alternative but the card itself is excluded. Assumed are
finitely many prompts (the replay lists those that wait) and `None` not being a set of
them, beside the types of the constants.

**Spawning** (`SpawnPathProofs`), for any spawns, terminals and directories, any number
of losses and crashes:

| Theorem | Statement |
|---|---|
| `SpawnTypeCorrect` | `SpawnSpec => []SpawnTypeOK` |
| `StrongLinksAreOwn` | `SpawnSpec => []StrongLinkIsOwn` |
| `RegisteredSpawnNotReported` | `SpawnSpec => []RegisteredIsNotReported` |
| `OwnEntryFirst` | `SpawnSpec => LinksOwnFirst` |

None is inductive alone. `IInv` says of the entries and of the file alike what a crash
exchanges for one another: `Table`, every pid an entry knows is its own run's and every
strong link is to that run; `Knows`, a run once linked by its token has its pid in its
entry, so that the second tier finds after a crash what the first found before it.
`Watching`: who is watched has no record of a timeout. `Fresh`: a run whose spawn
has not returned is entered and watched nowhere, so that the watch its token clears is
the only one there ever is about it. `Backed` is what `RegisteredSpawnNotReported` needs
besides: a browser reports a run only of its own, and then the watchdog has a record
that can still take the report back (`Retractable`), or the run is `stranded`. `OwnEntryFirst` then follows from the tiers: a run
with its token takes its own entry by the first, one that had it by the second, and
neither tier names another entry. Assumed is `SpawnAssumption` and
`RegistryAssumption`: dashboard and terminal runs are different.

**Automations** (`SlotProofs`), for any automations, policies, retention and
bounds:

| Theorem | Statement |
|---|---|
| `TakenSlotsAreFreed` | `AutoSpec => []SlotHasRun` |
| `QueuedFiresAreKept` | `AutoSpec => QueuedFiresStart` |

`AutoInv` adds to `SlotHasRun` the types (`Typed`), that the runs so far are of an
automation and the numbers ahead untouched (`Numbered`), and that fires wait only for
a slot that is taken (`NoIdleQueue`). A slot is taken together with the start of a run,
and a run leaves pending only in `finishAndRelease`, which frees the slot or starts the
next run. That the run which ends need not be the one that holds the slot (section 6)
is of no matter to either property. `StartRun` asks for a number within `MaxRuns`; it
never blocks a queued fire, because a fire is queued only while there is room for its
run (`Room`). Assumed is `AutomationAssumption`: policies are of the three kinds.

What stays with TLC:

- Liveness under fairness and `ENABLED`, which are out of the prover's reach:
  `EveryRequestEnds`, `LoadsEnd`, `AnswerTakesEffect`, `RecordsEnd`.
- `ShownSourceIsCurrent` and `RequestsLeaveTold` of the coordinator. The first compares
  generations a browser was sent with the store's, for which the invariants of section 4
  lack the order of generations along the line; the second is the step form of
  `EveryRequestTold`, over the incidents which that theorem excludes.
- `ReplayProtocol`: `TranscriptDense`, `SettledShowsNewest` and `RequestAnswered`, of
  coordinator and tab over a link. They rest on the theorems about
  the two ends, but need an invariant about what is on the link besides, for every state
  the tab's controller can be in.
- `OneRunAtATime`, which the code does not keep.

## 5. What is not modelled of the covered protocols

- **Assets**: image chunks that precede the frames that use them, and their
  publication.
- **The IndexedDB cache**: it enters only as `SeedCached` in `LedgerCalls`.
- **The server epoch in the tab**: `ServerRestart` is in the coordinator's runs;
  the tab's reaction to a new epoch (an effect of its own in `App.tsx`) is not, so
  no protocol run restarts the server.
- **Several sockets and sessions in the coordinator**: the state of one socket and
  session is independent of the others except for the shared load and
  `persistedSources`, which one socket exercises through its own requests.
- **Byte budgets and payload shrinking**: events have size one; a budget is a
  number of events.
- **Pruning of rendered rows** in the tab, asset and user-interface replay.
- **Prompts**: custom adapters, the text of answers, the order of cards among rows,
  more than one bridge process per session; the deadline of a tab's subscription, which is only
  one of the reasons for which it may subscribe again at any time.
- **Load pool**: a `postMessage` that throws; the content of results.
- **Spawning**: other strategies than the keeper's, reused pids, sessions begun inside
  a running process, the intents and counters beside a spawn.
- **Automations**: scheduler, triggers, folder watching, delivery of the action and
  capture of the result, several scopes, errors of the file system.

## 6. Where code and documents disagree

One is kept as a run that TLC refutes: `automation_slot`, `OneRunAtATime`. The runner
promises that of an automation that skips or queues one run goes on at a time
(`automation-plugin/src/server/runner.ts:7-8`), and expects the host to say which run
has ended (`runner.ts:14`). `completeRun` takes no run: it frees the slot, or starts the
next queued fire, whichever run ended. A run started by hand goes past the runner and
ends through it: the slot of the scheduled run is free while that run goes on. Two ends
of one run do the same: `stopRun` awaits the abort between finding the run and
finishing it (`engine.ts:553-568`), and the session's death meanwhile finishes it too.

Others were met while modelling, each as a counterexample of TLC to a property of
the form given, and are not kept as runs. They are the reason for the bounds and
guards of some runs above.

*Replay.*

- Over a trimmed history a cold request awaits the session file at
  `replay-coordinator.ts:389`; a live event of that time is held, is not in the
  snapshot, and is therefore left held by lines 393-399; the catch-up at line 421
  includes it in the replay as well. It is sent in a frame and then live, against
  `server/src/__tests__/replay-coordinator.test.ts:205` ("delivers a live event once
  across the replay barrier"). The tab's ledger drops the duplicate.
  `LiveDeliveredOnce` is checked with the whole history in memory, and proved so.
- A live event the drain has in hand, waiting for a congested socket, is still sent
  when the browser unsubscribes meanwhile (`replay-coordinator.ts:246`, the loop
  keeps the state it began with). If the browser subscribes again before the socket
  drains, the new replay may bring the event first and the old state sends it behind.
  `LiveDeliveredOnce` is proved without unsubscribing.
- An `older` request has no barrier: its body waits on `state.draining` behind its
  terminal and only then completes it. Live events queued meanwhile may overflow the
  queue, and `queueOverflow` (`replay-coordinator.ts:184-194`) sends every request that
  is left an error terminal: the request is told twice, the second time that it
  failed, before the socket is closed. `AnswersAreDense` says so: only such an error
  may follow a terminal.
- A held event that retention trims while its request waits lies below the snapshot,
  so that lines 393-399 leave it held, and it is sent live behind newer ones.
  This takes a retention below the queue's cap, that is `maxEventsPerSession` under 256
  (the default is 20000). `LiveContinues` is checked, and proved, with a store that keeps
  everything.
- `src/docs/architecture.md:1184` has the browser rebuild its state from the bridge's
  full replay. The reset names no request, so the controller clears everything
  (`useSessionReplayController.ts:340`); the frames of that replay name none either, so
  the ledger takes them for stale; nothing subscribes again. The transcript stays
  without the session's events until the next live event, which it takes as its first,
  or until the user selects or refreshes it. `SettledShowsNewest` therefore speaks of
  a source that no registration has replaced.
- The error terminal by which a bridge's replay cancels a request
  (`replay-coordinator.ts:642`) names the new generation. A tab that was not sent the
  registration's reset, its socket being full, takes the terminal for stale, as it does
  the bridge's answer, and waits out its deadline of 90 seconds. `RequestAnswered` is
  checked without registrations.

- A bridge replay recomputes the queue's accounting from the held events alone
  (`replay-coordinator.ts:640`) while the drain loop still has an item in hand, which
  the comment at 250-252 says stays reserved: the backlog exceeds the cap by that
  item. `BacklogWithinCap` is therefore checked and proved without registrations.
  The proof of the types showed more: after several registrations the accounting
  itself (`queued`) may pass the cap, as each one starts it anew and adds what is then
  held, so that `CoordTypeOK` only says it is a natural; and what a request releases
  when it ends may then overflow the queue at once.
- A session file whose load began before a registration and ends before the first
  event of the bridge's replay is stored (the store is empty), and the bridge's
  replay is stored behind it: the history twice, against `event-wiring.ts:991`.
- `src/docs/architecture.md:1177` has an unchanged registration skip the wipe;
  `session_register` always wipes.
- A repair delta that brings more than the buffered gap is answered with an
  `invalid_replay` reset, as the gap buffer is drained only after the whole frame
  (`session-replay-ledger.ts:285-308`); the next cold replay repairs it.
- A live event carries no generation: one of the old source delivered after a reset
  becomes the baseline of the new one.
- A multi-frame older page cut short by a live gap leaves its first frames in the
  ledger, apart from the rest, against `App.tsx:1087`. That the ledger holds one run is
  therefore no property; `PageJoins` states what holds of the pages that complete.
- A cold request retried at its deadline clears the ledger but not the rows
  (`session-replay-ledger.ts:101` calls the retry a new baseline): the rows are
  rendered twice. An error terminal has the same effect. `TranscriptDense` speaks of a tab
  that has not retried a cold request.
- A delta larger than its budget is cut to a prefix and closed by an ordinary
  terminal; the rest is asked for only when the next live event leaves a gap,
  against `src/openspec/specs/incremental-event-sync/spec.md:50`. In the run that
  checks `SettledShowsNewest` every delta fits.
- "Load older" during a cold replay supersedes it, and the newest events are missing
  until a live event leaves a gap; `SettledShowsNewest` is checked without pages.
- A refresh or a cold retry before the first frame of the request it replaces, met
  by a live event, adopts that event as baseline and waits out the deadline of 90
  seconds; `RequestAnswered` is checked without refreshes and deadlines.
- Lowering the retention cap while a page is being received may trim the boundary
  the page was asked for.
- The session file cached under a generation does not grow with the events stored
  since, so a page beyond it ends below its boundary.


*Prompts.*

- A prompt that is sent while a tab's socket is over its limit is dropped
  (`browser-gateway.ts:530`), live or replayed, and is not sent again while the socket
  lives and the tab subscribes to nothing: the agent waits, the tab shows no card.
  `missed` excepts it from `WaitingPromptShown`. A reset that is dropped leaves the tab
  with the cards of a source that is gone.
- A card stays when the answer that would have brought its tool's end was cut to its
  budget, as a tail leaves out the oldest events: `doubt` excepts it from
  `NoStaleToolCard`.
- The server gives an answer up after its age or its retries
  (`browser-gateway.ts:322`), and again when the session's heartbeat times out. The
  prompt still waits, every tab shows it as answered, and nobody is told until the
  bridge registers again; against `src/README.md:205`, by which dialogs survive.
  `abandoned` excepts it from `WaitingPromptShown`.
- A click while the tab is offline resolves the card (`useSessionActions.ts:155`) and
  the socket drops the answer (`useWebSocket.ts:196`). The same holds for an answer
  that loses the race: its card stays resolved with it.
- An older page replaces the rows and with them a pending card (`App.tsx:944-948`),
  while the list of prompts the tab has seen keeps it from being shown again
  (`useMessageHandler.ts:736-766`). Pages are not in the model.
- The dismissal of a prompt that no tool asked may be lost with the link. Nothing else
  ends its card: `NoStaleToolCard` is about the prompts of tools.
- The ring buffer drops the oldest messages, dismissals among them; a reconnect
  replays what waits and what has ended, which is why the properties hold over it.

*Loading.*

- Cancelling a load in the worker clears its timer (`session-load-worker-pool.ts:279`).
  If that worker hangs its slot is never freed, and the loads that queue have no timer
  of their own: they never resolve, against line 49 ("Always resolves").
- An error event of a worker that was already replaced kills the slot's new worker,
  whose jobs fall back to the main thread; a worker that cannot be started runs the
  whole queue there in one go.

*Spawning.*

- A bridge whose first registration was lost has no token to show: it takes the oldest
  free entry of its directory (`event-wiring.ts:1061-1077`), which may be another's,
  and killing its session then kills the other process; against
  `src/openspec/specs/spawn-correlation/spec.md:5` ("Eliminates cwd-FIFO ambiguity").
  A registration before its spawn returns finds no entry of its own, with the same
  effect, and its watch is armed afterwards and reports a spawn that has registered.
  `LinksOwnFirst` and `RegisteredIsNotReported` speak of the other runs.
- A timeout is taken back within a minute only: the record of an older one is dropped
  without a word (`spawn-register-watchdog.ts:240-243`), and the browser goes on
  reporting a session that has come, against lines 13-16 of that file. The same holds
  when a timeout of the directory for another browser replaces the record, when the
  socket has closed and when the server has restarted. `stranded` excepts these reports
  from `RegisteredIsNotReported`.
- A second spawn in a directory clears the watch of the first
  (`spawn-register-watchdog.ts:75-109`): if the first never registers nobody is told.
- An entry reclaimed after a crash is not removed when its process exits: it has no
  child process to hear from.
- An intent to attach a proposal is queued by directory before the spawn
  (`session-action-handler.ts:478`); when the spawn fails it waits for whoever registers
  there next. The counter of dashboard spawns is raised and never lowered.

*Automations.*

- Pruning keeps the newest records whatever their status (`run-store.ts:165`): the
  record of a long run goes, the reaper no longer finds it, and if its session died
  before it registered the slot stays taken until the server restarts.
- Automations of the same name in two folders have one key (`scheduler.ts`, scope and
  name): they share a slot.
- An error of the file system in `startRun` or `finishRun` is thrown through the
  runner: the queue, or the slot, is lost with it.

## 7. Plan

Done: the replay core (EventSource, EventStore with its proofs and refinement,
ReplayCoordinator with its proofs, ReplayLedger and LedgerCalls with theirs,
ReplayController, ReplayProtocol); PromptBus and PromptPath, LoadPool,
HeadlessRegistry, SpawnWatchdog and SpawnPath, AutomationEngine, all with proofs.

Next, in this order:

1. *Proofs*: `TranscriptDense` of the protocol, from `DenseInv`,
   `FlowInv` and an invariant about the messages on the link.
2. *Model, replay core*: the server epoch in the tab and a restart in the protocol;
   two sockets sharing a load in the coordinator; assets as one more kind of message;
   the replay cache as the initial seed.
3. *Model, other protocols*: session manager and heartbeat beside PromptPath's link;
   the pending intents beside SpawnPath; the goal supervisor, which has the shape of
   AutomationEngine; home lock; model-proxy slots.
