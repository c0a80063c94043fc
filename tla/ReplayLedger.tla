----------------------------- MODULE ReplayLedger -----------------------------
(***************************************************************************)
(* The browser's ledger of one session                                     *)
(* (client/src/lib/session-replay-ledger.ts): the events it retains, the   *)
(* live events buffered beyond a gap, and the one replay request it takes  *)
(* frames for.  Every operation is an operator on the ledger l; those that *)
(* admit events return an admission, whose `accepted' are the events the   *)
(* caller is to render.                                                    *)
(*                                                                         *)
(* An event is [gen, seq], as in ReplayCoordinator, and two are the same   *)
(* (sameEvent) when both agree.  Sizes in bytes are counted in events.     *)
(***************************************************************************)
EXTENDS Integers, SequencesExt, FiniteSetsExt

CONSTANTS
  None,     \* null
  Unknown,  \* the empty source generation, of a session not yet heard from
  MaxGaps   \* maxGapEvents

ASSUME LedgerAssumption == MaxGaps \in Nat

Nothing == [s \in {} |-> None]
Put(f, e) == [s \in DOMAIN f \cup {e.seq} |-> IF s = e.seq THEN e.gen ELSE f[s]]
Over(g, f) == [s \in DOMAIN g \cup DOMAIN f |-> IF s \in DOMAIN g THEN g[s] ELSE f[s]]
SeqsOf(es) == {es[i].seq : i \in DOMAIN es}
PutAll(f, es) ==
  [s \in DOMAIN f \cup SeqsOf(es) |->
     IF s \in SeqsOf(es) THEN es[CHOOSE i \in DOMAIN es : es[i].seq = s].gen ELSE f[s]]
OnlyAt(f, S) == [s \in DOMAIN f \cap S |-> f[s]]
Ascending(es) == \A i \in 1..(Len(es) - 1) : es[i].seq < es[i + 1].seq
Contiguous(es) == \A i \in 1..(Len(es) - 1) : es[i + 1].seq = es[i].seq + 1

\* bySeq and gaps map sequence numbers to generations; older is the last
\* sequence number of the page being received; failed holds the kinds of
\* request that have failed since they last succeeded.
EmptyLedger(cap) ==
  [source |-> None, bySeq |-> Nothing, gaps |-> Nothing, active |-> None, older |-> None,
   latched |-> FALSE, failed |-> {}, status |-> "cold", cap |-> cap]

Cursor(l) == IF DOMAIN l.bySeq = {} THEN 0 ELSE Max(DOMAIN l.bySeq)
MinSeq(l) == IF DOMAIN l.bySeq = {} THEN 0 ELSE Min(DOMAIN l.bySeq)
EventsIn(f) == LET at == SetToSortSeq(DOMAIN f, <) IN [i \in DOMAIN at |-> [gen |-> f[at[i]], seq |-> at[i]]]

(***************************************************************************)
(* Requests and retention.                                                 *)
(***************************************************************************)
\* (mutation) the gap buffer survives
ClearedKeepingGaps(l, source) == [l EXCEPT !.bySeq = Nothing, !.older = None, !.source = source]

Cleared(l, source) ==
  [l EXCEPT !.bySeq = Nothing, !.gaps = Nothing, !.latched = FALSE, !.older = None, !.source = source]

\* (mutation) the ledger's source outlives the request for another
BeginRequestStale(l, r) ==
  [IF l.source = None THEN [l EXCEPT !.source = r.source] ELSE IF r.kind = "cold" THEN Cleared(l, l.source) ELSE l
   EXCEPT !.active = r, !.older = None, !.status = "cold"]

\* r = [id, kind, source, from]; a cold retry keeps the count of failures.
BeginRequest(l, r) ==
  LET base == IF l.source \notin {None, r.source} THEN [Cleared(l, r.source) EXCEPT !.failed = {}]
              ELSE IF l.source = r.source /\ r.kind = "cold" THEN Cleared(l, r.source)
              ELSE [l EXCEPT !.source = r.source]
  IN  [base EXCEPT !.active = r, !.older = None, !.status = "cold"]

Cancelled(l) ==
  [l EXCEPT !.active = None, !.gaps = Nothing, !.latched = FALSE, !.older = None, !.status = "retry"]

ResetTo(l, source) ==
  [Cleared(l, source) EXCEPT !.failed = {}, !.active = None, !.status = "cold"]

\* trimRetained: the oldest events go, never the last one.
TrimRetained(l) ==
  [l EXCEPT !.bySeq = OnlyAt(@, {s \in DOMAIN @ : Cardinality({t \in DOMAIN @ : t >= s}) <= l.cap})]

SetCap(l, cap) == TrimRetained([l EXCEPT !.cap = cap])

\* seed, refused unless the cached events are a nonempty contiguous run.
Seedable(es) == es # <<>> /\ Contiguous(es)
Seeded(l, source, es) ==
  TrimRetained([ResetTo(l, source) EXCEPT !.bySeq = PutAll(Nothing, es), !.status = "ready"])

\* fail: the second failure of a kind gives up.
Failed(l, kind) ==
  [l EXCEPT !.failed = @ \cup {kind}, !.status = IF kind \in l.failed THEN "retry" ELSE @]

(***************************************************************************)
(* Admission.                                                              *)
(***************************************************************************)
Admission(l) == [ledger |-> l, accepted |-> <<>>, stale |-> FALSE, reset |-> FALSE,
                 repair |-> FALSE, rebuild |-> FALSE, evicted |-> FALSE]
Stale(l) == [Admission(l) EXCEPT !.stale = TRUE]

\* resetResult: a fault clears everything but the source.
Fault(l) ==
  [Admission([Cleared(l, l.source) EXCEPT !.active = None, !.status = "cold"]) EXCEPT !.reset = TRUE]

\* acceptForward.  An empty ledger takes any event.
Same(f, e) == e.seq \in DOMAIN f /\ f[e.seq] = e.gen
Verdict(l, e) ==
  LET held == IF e.seq \in DOMAIN l.bySeq THEN l.bySeq ELSE l.gaps IN
  IF e.seq \in DOMAIN held THEN IF Same(held, e) THEN "duplicate" ELSE "conflict"
  ELSE IF Cursor(l) \in {0, e.seq - 1} THEN "accepted" ELSE "gap"

Take(l, e) == [l EXCEPT !.bySeq = Put(@, e)]

\* (mutation) whatever is buffered is taken
DrainGapsAll(l) ==
  [ledger |-> [l EXCEPT !.bySeq = Over(l.gaps, @), !.gaps = Nothing, !.latched = FALSE],
   drained |-> EventsIn(l.gaps)]

\* drainGaps: the buffered events that follow the cursor without a hole.
DrainGaps(l) ==
  LET run  == {s \in DOMAIN l.gaps : s > Cursor(l) /\ (Cursor(l) + 1)..s \subseteq DOMAIN l.gaps}
      next == OnlyAt(l.gaps, run)
      rest == OnlyAt(l.gaps, DOMAIN l.gaps \ run)
  IN  [ledger |-> [l EXCEPT !.bySeq = Over(next, @), !.gaps = rest, !.latched = @ /\ DOMAIN rest # {}],
       drained |-> EventsIn(next)]

\* The entries of a cold or delta frame, one by one up to the first fault.
Entry(a, e) ==
  LET v == Verdict(a.ledger, e) IN
  IF a.fault \/ v \in {"conflict", "gap"} THEN [a EXCEPT !.fault = TRUE]
  ELSE IF v = "accepted" THEN [a EXCEPT !.ledger = Take(@, e), !.accepted = Append(@, e)]
  ELSE a
Forward(l, es) ==
  LET after[i \in 0..Len(es)] ==
        IF i = 0 THEN [ledger |-> l, accepted |-> <<>>, fault |-> FALSE]
        ELSE Entry(after[i - 1], es[i])
  IN  after[Len(es)]

\* (mutation) the page need not follow the one before it
FitsOlderAnywhere(l, f) ==
  LET es == f.events IN
  es # <<>> => Contiguous(es) /\ es[Len(es)].seq < l.active.from

\* acceptOlder: the frames of a page ascend without a hole below the boundary,
\* and its terminal finds the page complete up to it.
FitsOlder(l, f) ==
  LET es == f.events
      at == IF es = <<>> THEN l.older ELSE es[Len(es)].seq
  IN  /\ l.active.from > 0
      /\ es # <<>> => /\ Contiguous(es) /\ at < l.active.from
                      /\ l.older = None \/ es[1].seq = l.older + 1
                      /\ \A i \in DOMAIN es : es[i].seq \in DOMAIN l.bySeq => Same(l.bySeq, es[i])
      /\ f.last => at = l.active.from - 1

WithOlder(l, f) ==
  LET new == SelectSeq(f.events, LAMBDA e : e.seq \notin DOMAIN l.bySeq)
  IN  [Admission([l EXCEPT !.bySeq = PutAll(@, f.events),
                           !.older = IF f.events = <<>> THEN @ ELSE f.events[Len(f.events)].seq])
       EXCEPT !.accepted = new]

\* What the events of an addressed frame do, before trimming and completion.
Admitted(l, f) ==
  LET baseline == f.kind = "cold" /\ DOMAIN l.bySeq = {} /\ f.events # <<>>
      forward  == Forward(l, f.events)
      filled   == DrainGaps(forward.ledger)
  IN  IF \/ ~Ascending(f.events)
         \/ baseline /\ ~Contiguous(f.events)
         \/ f.kind = "older" /\ ~FitsOlder(l, f)
         \/ ~baseline /\ f.kind # "older" /\ forward.fault
      THEN Fault(l)
      ELSE IF f.kind = "older" THEN WithOlder(l, f)
      ELSE IF baseline
           THEN [Admission([l EXCEPT !.bySeq = PutAll(Nothing, f.events)]) EXCEPT !.accepted = f.events]
      ELSE [Admission(filled.ledger) EXCEPT !.accepted = forward.accepted \o filled.drained]

\* An older page is not trimmed: it arrives at the end a trim takes from.
TrimUnlessOlder(a, kind) ==
  LET t == TrimRetained(a.ledger) IN
  IF kind = "older" THEN a ELSE [a EXCEPT !.ledger = t, !.evicted = t # a.ledger]

\* The terminal frame ends the request; a delta that leaves a gap is a fault.
Completed(a, f) ==
  IF ~f.last THEN a
  ELSE IF f.kind = "delta" /\ DOMAIN a.ledger.gaps # {} THEN Fault(a.ledger)
  ELSE [a EXCEPT !.ledger.active = None, !.ledger.status = "ready",
                 !.ledger.failed = @ \ {f.kind}, !.rebuild = f.kind = "older"]

\* The very first cold frame tells the source; every later one must be of it.
Adopts(l, f) == l.source = Unknown /\ l.active.kind = "cold" /\ DOMAIN l.bySeq = {}
Addressed(l, f) ==
  /\ l.active # None /\ f.id = l.active.id /\ f.kind = l.active.kind
  /\ Adopts(l, f) \/ f.gen = l.source

Admit(l, f) ==
  IF ~Addressed(l, f) THEN Stale(l)
  ELSE LET a == Admitted([l EXCEPT !.source = f.gen, !.active.source = f.gen], f)
       IN  IF a.reset THEN a ELSE Completed(TrimUnlessOlder(a, f.kind), f)

AdmitLive(l, e) ==
  LET v == Verdict(l, e)
      d == DrainGaps(Take(l, e))
      g == [l EXCEPT !.gaps = Put(@, e), !.latched = TRUE]
  IN  IF l.source = None \/ l.status = "retry" THEN Stale(l)
      ELSE CASE v = "conflict"  -> Fault(l)
             [] v = "duplicate" -> Admission(l)
             [] v = "accepted"  -> TrimUnlessOlder([Admission(d.ledger) EXCEPT !.accepted = <<e>> \o d.drained], "live")
             [] v = "gap"       -> IF Cardinality(DOMAIN g.gaps) > MaxGaps THEN Fault(l)
                                   ELSE [Admission(g) EXCEPT !.repair = ~l.latched]
=============================================================================
