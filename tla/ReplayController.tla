-------------------------- MODULE ReplayController --------------------------
(***************************************************************************)
(* The browser half of session replay for one selected session: the        *)
(* controller (client/src/hooks/useSessionReplayController.ts), and of     *)
(* App.tsx the effects it calls and the handlers that call it.             *)
(*                                                                         *)
(* The state is one record, the tab c, and every handler an operator on    *)
(* it: a handler runs to its end before the next, whatever it calls.       *)
(*   ledger   the session's ledger                                         *)
(*   pending  the request whose deadline runs, or None                     *)
(*   shown    the events the reducer has applied since it was last reset   *)
(*   more     historyWindow.hasMoreOlder                                   *)
(*   paging   loadingOlder, the latch of the pull-down                     *)
(*   source   sourceGenerationRef                                          *)
(*   floor    automaticOlderFloor                                          *)
(*   online   the socket is open; a message sent while it is not is lost   *)
(*   sent     messages under way to the server                             *)
(*   names    request ids minted                                           *)
(* Assets, the IndexedDB cache and the pruning of rendered rows are left   *)
(* out.                                                                    *)
(***************************************************************************)
EXTENDS ReplayLedger

CONSTANTS
  BaseCap,    \* DEFAULT_REPLAY_RETENTION_BYTES, in events
  Unlimited   \* Number.POSITIVE_INFINITY

NewTab ==
  [ledger |-> EmptyLedger(BaseCap), pending |-> None, shown |-> <<>>, more |-> FALSE,
   paging |-> FALSE, source |-> Unknown, floor |-> None, online |-> TRUE, sent |-> <<>>, names |-> 0]

(***************************************************************************)
(* What the handlers are made of.                                          *)
(***************************************************************************)
\* clearPending: the deadline goes, and the ledger's request unless it is over.
ClearPending(c) ==
  IF c.pending = None THEN c
  ELSE [c EXCEPT !.pending = None,
                 !.ledger = IF @.active # None /\ @.active.id = c.pending.id THEN Cancelled(@) ELSE @]

\* begin, and the message it sends: a positive cursor asks for a delta, none
\* for the cold tail.
Begin(c, kind, source) ==
  LET id      == c.names + 1
      cursor  == IF kind = "cold" THEN 0 ELSE Cursor(c.ledger)
      request == [id |-> id, kind |-> kind, source |-> source,
                  from |-> IF kind = "older" THEN MinSeq(c.ledger) ELSE None]
      message == [id |-> id, known |-> IF source = Unknown THEN None ELSE source,
                  kind |-> IF kind # "older" /\ cursor = 0 THEN "cold" ELSE kind,
                  at |-> IF kind = "older" THEN MinSeq(c.ledger) ELSE cursor]
  IN  [ClearPending(c) EXCEPT !.ledger = BeginRequest(@, request), !.pending = request, !.names = id,
         !.floor = IF kind = "cold" THEN None ELSE @,
         !.sent = IF c.online THEN Append(@, message) ELSE @]

\* The reset effect: the reducer starts over, without window or latch.
ResetView(c) == [c EXCEPT !.shown = <<>>, !.more = FALSE, !.paging = FALSE]

\* publishAdmitted, with the trimmed and apply effects.
Publish(c, a) ==
  IF a.accepted = <<>> THEN c
  ELSE [c EXCEPT !.shown = @ \o a.accepted, !.more = @ \/ a.evicted,
                 !.source = IF c.ledger.source = None THEN @ ELSE c.ledger.source]

\* recover: begin again over a fresh transport or the same one; a kind that
\* fails twice is given up, and a page so given up releases its latch.
Recover(c, request, reuseTransport) ==
  LET cleared == ClearPending(c)
      failed  == [cleared EXCEPT !.ledger = Failed(@, request.kind)]
  IN  IF request.kind \in cleared.ledger.failed
      THEN [failed EXCEPT !.paging = @ /\ request.kind # "older"]
      ELSE Begin(IF reuseTransport THEN failed ELSE [failed EXCEPT !.online = FALSE, !.sent = <<>>],
                 request.kind, request.source)

(***************************************************************************)
(* Messages from the server.                                               *)
(***************************************************************************)
\* The ledger's answer a to a live event: a gap is repaired by a delta, a
\* conflict by a cold replay.
AnswerLive(c, a) ==
  LET held  == [c EXCEPT !.ledger = a.ledger]
      owner == IF a.ledger.source = None THEN Unknown ELSE a.ledger.source
  IN  IF a.reset THEN Begin(ResetView(held), "cold", owner)
      ELSE IF a.repair THEN Begin(Publish(held, a), "delta", owner)
      ELSE Publish(held, a)

HandleLive(c, e) == AnswerLive(c, AdmitLive(c.ledger, e))

\* The window metadata of an admitted frame; a delta keeps what is known.
WithWindow(c, f) == IF f.kind = "delta" THEN c ELSE [c EXCEPT !.more = f.more]

\* (mutation) a terminal without events ends nothing
FinishNonEmpty(c, f, a, partialHead) == IF f.events = <<>> THEN c ELSE ClearPending(c)

\* The terminal of a request.  A page is rendered with all the ledger holds;
\* partialHead, when there is more, has the next page asked for at once.
Finish(c, f, a, partialHead) ==
  LET done   == ClearPending(c)
      drawn  == IF a.rebuild THEN [done EXCEPT !.shown = EventsIn(done.ledger.bySeq), !.paging = FALSE]
                             ELSE done
      cursor == MinSeq(c.ledger)
  IN  IF f.more /\ partialHead /\ (c.floor = None \/ cursor < c.floor)
      THEN Begin([drawn EXCEPT !.floor = cursor], "older", c.ledger.source)
      ELSE drawn

\* The ledger's answer a to a frame.
AnswerReplay(c, f, a, partialHead) ==
  LET held  == [c EXCEPT !.ledger = a.ledger]
      taken == WithWindow(held, f)
      told  == IF f.kind = "older" THEN taken ELSE Publish(taken, a)
  IN  IF a.stale THEN c
      ELSE IF a.reset THEN Begin(ResetView(ClearPending(held)), "cold", f.gen)
      ELSE IF f.last THEN Finish(told, f, a, partialHead)
      ELSE told

\* An error terminal of the pending request has it recovered.
FailsPending(c, f) ==
  LET p == c.pending
  IN  /\ f.error /\ f.last /\ p # None /\ p.id = f.id /\ p.kind = f.kind
      /\ \/ c.ledger.source = f.gen
         \/ p.kind = "cold" /\ c.ledger.source = Unknown /\ DOMAIN c.ledger.bySeq = {}

HandleReplay(c, f, partialHead) ==
  IF FailsPending(c, f) THEN Recover(c, [c.pending EXCEPT !.source = f.gen], TRUE)
  ELSE AnswerReplay(c, f, Admit(c.ledger, f), partialHead)

\* (mutation) a reset that names no request leaves the rows
HandleResetKeepingRows(c, m) == [ClearPending(c) EXCEPT !.ledger = ResetTo(@, m.gen)]

\* A reset for another request is stale; one for the pending request turns it
\* into a cold one of the new source; one that names none ends everything.
HandleReset(c, m) ==
  LET p    == c.pending
      cold == [id |-> m.id, kind |-> "cold", source |-> m.gen, from |-> None]
  IN  IF p # None /\ m.id # 0 /\ p.id # m.id THEN c
      ELSE IF p # None /\ p.id = m.id
           THEN ResetView([c EXCEPT !.ledger = BeginRequest(ResetTo(@, m.gen), cold), !.pending = cold])
      ELSE ResetView([ClearPending(c) EXCEPT !.ledger = ResetTo(@, m.gen)])

\* What the ledger's source is, the subscriptions name.
Sourced(c, g) == IF c.ledger.source = g THEN [c EXCEPT !.source = g] ELSE c

\* handleAuthorityMessage
Handle(c, m, partialHead) ==
  CASE m.type = "event"               -> HandleLive(c, m.entry)
    [] m.type = "event_replay"        -> Sourced(HandleReplay(c, m, partialHead), m.gen)
    [] m.type = "session_state_reset" -> Sourced(HandleReset(c, m), m.gen)

(***************************************************************************)
(* The user, the deadline and the socket.                                  *)
(***************************************************************************)
\* (mutation) a retained tail is no reason to continue it
SubscribeCold(c, continuation) == Begin(c, "cold", c.source)

\* The subscribe effect: a delta over a retained tail after a reconnect,
\* otherwise the cold tail.
Subscribe(c, continuation) ==
  LET baseline == DOMAIN c.ledger.bySeq # {} /\ c.source \in {c.ledger.source, Unknown}
  IN  Begin(c, IF continuation /\ baseline THEN "delta" ELSE "cold", c.source)

Timeout(c) == Recover(c, c.pending, c.pending.kind = "cold")

\* handleLoadOlder
CanLoadOlder(c) == ~c.paging /\ c.more
LoadOlder(c) ==
  Begin([c EXCEPT !.paging = TRUE], "older",
        IF c.source # Unknown THEN c.source ELSE IF c.ledger.source = None THEN Unknown ELSE c.ledger.source)

\* (mutation) the refresh asks for what is new only
RefreshDelta(c) == Begin([c EXCEPT !.shown = <<>>], "delta", c.source)

\* refreshSelectedSession
Refresh(c) == Begin([c EXCEPT !.shown = <<>>], "cold", c.source)

\* rematerialize
Expand(c) == IF c.ledger.status = "ready" THEN [c EXCEPT !.shown = EventsIn(c.ledger.bySeq)] ELSE c

\* setRetentionCap, as the user goes back in the history and returns.
Retain(c, cap) ==
  LET l == SetCap(c.ledger, cap)
  IN  [c EXCEPT !.ledger = l, !.more = @ \/ l.bySeq # c.ledger.bySeq]

\* The socket is lost; a new one opens, the requests of the old are dropped.
Offline(c) == [c EXCEPT !.online = FALSE, !.sent = <<>>]

\* (mutation) the session counts as subscribed still
ReconnectedSubscribed(c) == ClearPending([c EXCEPT !.online = TRUE])

Reconnected(c) == Subscribe(ClearPending([c EXCEPT !.online = TRUE]), TRUE)
=============================================================================
