----------------------------- MODULE LedgerCalls -----------------------------
(***************************************************************************)
(* One ReplayLedger under any sequence of calls: requests of every kind,   *)
(* frames that answer them or not, live events in any order, cancellation, *)
(* resets, a cached seed, a moving retention cap.  What holds here does    *)
(* not depend on the server's good behaviour or on the controller's.       *)
(***************************************************************************)
EXTENDS ReplayLedger

CONSTANTS
  Sources,   \* source generations
  Top,       \* highest sequence number
  FrameEnd,  \* longest frame
  Caps,      \* retention caps
  Failing    \* the kinds of request that fail

VARIABLE ledger

Kinds == {"cold", "delta", "older"}
Requests ==
  [id : {1}, kind : Kinds, source : Sources \cup {Unknown}, from : (1..Top) \cup {None}]

ASSUME CallsAssumption ==
  /\ Top \in Nat /\ FrameEnd \in Nat
  /\ Caps \subseteq Nat \ {0} /\ Caps # {}
  /\ Failing \subseteq Kinds
  /\ None \notin Requests

Lists == UNION {[1..n -> 1..Top] : n \in 0..FrameEnd}
EventList(g, seqs) == [i \in DOMAIN seqs |-> [gen |-> g, seq |-> seqs[i]]]

\* An older page is asked for from a ledger that has events, and of its source
\* (beginOlderPage, App.tsx).
Begin(kind, source) ==
  /\ kind = "older" => DOMAIN ledger.bySeq # {} /\ source = ledger.source
  /\ ledger' = BeginRequest(ledger, [id |-> 1, kind |-> kind, source |-> source,
                                     from |-> IF kind = "older" THEN MinSeq(ledger) ELSE None])

Cancel == ledger' = Cancelled(ledger)
Reset(g) == ledger' = ResetTo(ledger, g)
SetMaxRetained(cap) == ledger' = SetCap(ledger, cap)
SeedCached ==
  \E g \in Sources, seqs \in Lists :
    Seedable(EventList(g, seqs)) /\ ledger' = Seeded(ledger, g, EventList(g, seqs))
Fail(kind) == ledger' = Failed(ledger, kind)

\* A frame of any content; one whose request is another, or over, only finds
\* itself stale, so the active one is enough.
ReceiveFrame(g, seqs, last) ==
  /\ ledger.active # None
  /\ ledger' = Admit(ledger, [id |-> ledger.active.id, kind |-> ledger.active.kind, gen |-> g,
                              events |-> EventList(g, seqs), last |-> last]).ledger

ReceiveLive(g, seq) == ledger' = AdmitLive(ledger, [gen |-> g, seq |-> seq]).ledger

Init == ledger = EmptyLedger(CHOOSE c \in Caps : \A d \in Caps : c <= d)

Next ==
  \/ \E kind \in Kinds, source \in Sources \cup {Unknown} : Begin(kind, source)
  \/ Cancel
  \/ \E g \in Sources : Reset(g)
  \/ \E cap \in Caps : SetMaxRetained(cap)
  \/ SeedCached
  \/ \E kind \in Failing : Fail(kind)
  \/ \E g \in Sources, seqs \in Lists, last \in BOOLEAN : ReceiveFrame(g, seqs, last)
  \/ \E g \in Sources, seq \in 1..Top : ReceiveLive(g, seq)

Spec == Init /\ [][Next]_ledger

-----------------------------------------------------------------------------
\* The ledger keeps its shape, and a request is of the ledger's source.
LedgerTypeOK ==
  /\ ledger.source \in Sources \cup {None, Unknown}
  /\ DOMAIN ledger.bySeq \cup DOMAIN ledger.gaps \subseteq 1..Top
  /\ ledger.latched \in BOOLEAN /\ ledger.failed \subseteq Kinds
  /\ ledger.status \in {"cold", "ready", "retry"}
  /\ ledger.active # None => ledger.active.source = ledger.source

\* No event that could be rendered next is left in the gap buffer, a repair has
\* been asked for as long as there are any, and they are within the limit.
GapsAwaitRepair ==
  /\ Cursor(ledger) + 1 \notin DOMAIN ledger.gaps
  /\ ledger.latched <=> DOMAIN ledger.gaps # {}
  /\ Cardinality(DOMAIN ledger.gaps) <= MaxGaps

\* "a gap therefore cannot accidentally advance a rendered cursor"
\* (session-replay-ledger.ts:47-48): unless the ledger starts over, its newest
\* event moves only forward, along events that follow it one by one; those
\* missing afterwards were evicted to meet the cap.
CursorFollowsStream ==
  [][\/ DOMAIN ledger.bySeq = {}
     \/ DOMAIN ledger'.bySeq = {}
     \/ SeedCached
     \/ /\ Cursor(ledger') >= Cursor(ledger)
        /\ \A s \in Cursor(ledger)..Cursor(ledger') :
             \/ s \in DOMAIN ledger'.bySeq
             \/ s < MinSeq(ledger') /\ Cardinality(DOMAIN ledger'.bySeq) = ledger.cap]_ledger

\* The frames of an older page join one another, and the last of them joins the
\* boundary the page was asked for: no hole is left in what it brings, however
\* many frames it takes and whatever is called between them.
PageJoins ==
  [][ledger.active # None /\ ledger.active.kind = "older" /\ ~SeedCached =>
       /\ ledger'.active = ledger.active /\ None \notin {ledger.older, ledger'.older}
            => (ledger.older + 1)..ledger'.older \subseteq DOMAIN ledger'.bySeq
       /\ ledger'.active = None /\ ledger'.status = "ready"
            => \A s \in (DOMAIN ledger'.bySeq \ DOMAIN ledger.bySeq)
                          \cup (IF ledger.older = None THEN {} ELSE {ledger.older + 1}) :
                 s..(ledger.active.from - 1) \subseteq DOMAIN ledger'.bySeq]_ledger
=============================================================================
