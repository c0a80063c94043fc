----------------------------- MODULE EventStore -----------------------------
(***************************************************************************)
(* The dashboard server's in-memory event store                            *)
(* (packages/server/src/memory-event-store.ts).                            *)
(*                                                                         *)
(* Every session has at most one buffer of sequenced events.  A buffer     *)
(* belongs to a source generation <<serverEpoch, revision>>: browsers name *)
(* an event by its generation and its sequence number, so the store must   *)
(* never let one such name stand for two events, whatever is trimmed,      *)
(* evicted, deleted, replaced or lost in a restart.  `revisions' outlives  *)
(* the evictable buffers for that reason.                                  *)
(*                                                                         *)
(* Payloads are members of Events (what truncateEvent left of them); the   *)
(* trim counters behind getTrimStats are telemetry and are left out.       *)
(***************************************************************************)
EXTENDS Integers, Sequences, FiniteSets

CONSTANTS
  Sessions,      \* session identifiers
  Events,        \* event payloads
  Sources,       \* event lists a session file may hold (replaceEvents inputs)
  MaxEvents,     \* maxEventsPerSession; 0 switches trimming off
  TrimSlack,     \* events tolerated above MaxEvents before a trim reclaims a batch
  MaxSessions,   \* maxCachedSessions
  MaxRevision, MaxSeq, MaxClock, MaxEpoch  \* model bounds, see WithinBounds

ASSUME StoreAssumption ==
  /\ MaxEvents \in Nat /\ TrimSlack \in Nat /\ MaxSessions \in Nat \ {0}
  /\ Sources \subseteq Seq(Events)
  /\ IsFiniteSet(Sessions)

VARIABLES
  buffers,    \* the Map of cached buffers: a function on the cached sessions
  revisions,  \* revision per session; 0 stands for "no entry" as `?? 0' does
  pinned,     \* sessions isSessionPinned answers true for
  clock,      \* Date.now(), advanced by Tick
  epoch,      \* serverEpoch: a fresh one per server start
  issued      \* history: every (session, generation, seq, event) ever stored

vars == <<buffers, revisions, pinned, clock, epoch, issued>>

Entry == [seq : Nat \ {0}, event : Events]
Buffer == [events : Seq(Entry), nextSeq : Nat \ {0}, revision : Nat,
           historyTruncated : BOOLEAN, lastAccess : Nat]

Generation(r) == <<epoch, r>>

\* (mutation) sequence numbers start at zero
NewBufferFromZero(r) == [events |-> <<>>, nextSeq |-> 0, revision |-> r,
                         historyTruncated |-> FALSE, lastAccess |-> clock]

NewBuffer(r) == [events |-> <<>>, nextSeq |-> 1, revision |-> r,
                 historyTruncated |-> FALSE, lastAccess |-> clock]

GetOrCreate(s) ==
  IF s \in DOMAIN buffers THEN [buffers[s] EXCEPT !.lastAccess = clock]
                          ELSE NewBuffer(revisions[s])

\* (mutation) the trim keeps the head and drops what follows it
TrimmedKeepingHead(b) ==
  IF MaxEvents > 0 /\ Len(b.events) > MaxEvents + TrimSlack
  THEN [b EXCEPT !.events = <<@[1]>> \o SubSeq(@, Len(@) - MaxEvents + 2, Len(@)),
                 !.historyTruncated = TRUE]
  ELSE b

\* (mutation) the trim forgets to set the flag
TrimmedUnflagged(b) ==
  IF MaxEvents > 0 /\ Len(b.events) > MaxEvents + TrimSlack
  THEN [b EXCEPT !.events = SubSeq(@, Len(@) - MaxEvents + 1, Len(@))]
  ELSE b

\* (mutation) the trim waits for one event too many
TrimmedLate(b) ==
  IF MaxEvents > 0 /\ Len(b.events) > MaxEvents + TrimSlack + 1
  THEN [b EXCEPT !.events = SubSeq(@, Len(@) - MaxEvents + 1, Len(@)),
                 !.historyTruncated = TRUE]
  ELSE b

\* A trim drops one contiguous prefix, and only once the slack is used up.
Trimmed(b) ==
  IF MaxEvents > 0 /\ Len(b.events) > MaxEvents + TrimSlack
  THEN [b EXCEPT !.events = SubSeq(@, Len(@) - MaxEvents + 1, Len(@)),
                 !.historyTruncated = TRUE]
  ELSE b

\* The buffer map with s's buffer set to b.
WithBuffer(s, b) ==
  [t \in DOMAIN buffers \cup {s} |-> IF t = s THEN b ELSE buffers[t]]

\* (mutation) eviction ignores the pins
VictimsUnpinned(bs) ==
  {V \in SUBSET DOMAIN bs :
     /\ Cardinality(V) = Cardinality(DOMAIN bs) - MaxSessions
     /\ \A v \in V, k \in DOMAIN bs \ V : bs[v].lastAccess <= bs[k].lastAccess}

\* The sets evictIfNeeded may drop from the map bs: the least recently used
\* unpinned sessions, as many as the map is over its limit (or all of them).
Victims(bs) ==
  LET candidates == DOMAIN bs \ pinned
      excess     == Cardinality(DOMAIN bs) - MaxSessions
  IN  {V \in SUBSET candidates :
         /\ \/ Cardinality(V) = excess
            \/ excess <= 0 /\ V = {}
            \/ excess > Cardinality(candidates) /\ V = candidates
         /\ \A v \in V, k \in candidates \ V : bs[v].lastAccess <= bs[k].lastAccess}

\* (mutation) eviction forgets to move the revision on
EvictSameRevision(bs, rs) ==
  \E V \in Victims(bs) : buffers' = [t \in DOMAIN bs \ V |-> bs[t]] /\ revisions' = rs

\* evictIfNeeded on the map bs and the revisions rs; a victim's next buffer
\* starts a revision of its own.
EvictIfNeeded(bs, rs) ==
  \E V \in Victims(bs) :
    /\ buffers' = [t \in DOMAIN bs \ V |-> bs[t]]
    /\ revisions' = [t \in Sessions |-> IF t \in V THEN bs[t].revision + 1 ELSE rs[t]]

Issue(s, r, entries) ==
  issued' = issued \cup {[session |-> s, gen |-> Generation(r), seq |-> x.seq, event |-> x.event]
                          : x \in entries}

(***************************************************************************)
(* Queries.                                                                *)
(***************************************************************************)
EventsOf(s) == IF s \in DOMAIN buffers THEN buffers[s].events ELSE <<>>
HasEvents(s) == EventsOf(s) # <<>>
GetMaxSeq(s) == IF HasEvents(s) THEN EventsOf(s)[Len(EventsOf(s))].seq ELSE 0
GetMinSeq(s) == IF HasEvents(s) THEN EventsOf(s)[1].seq ELSE 0
GetSourceGeneration(s) ==
  Generation(IF s \in DOMAIN buffers THEN buffers[s].revision ELSE revisions[s])
HistoryTruncated(s) == s \in DOMAIN buffers /\ buffers[s].historyTruncated

(***************************************************************************)
(* Operations.                                                             *)
(***************************************************************************)
Init ==
  /\ buffers = [s \in {} |-> NewBuffer(0)]
  /\ revisions = [s \in Sessions |-> 0]
  /\ pinned = {}
  /\ clock = 0
  /\ epoch = 0
  /\ issued = {}

InsertEvent(s, e) ==
  LET b     == GetOrCreate(s)
      entry == [seq |-> b.nextSeq, event |-> e]
      grown == [b EXCEPT !.events = Append(@, entry), !.nextSeq = @ + 1]
  IN  /\ EvictIfNeeded(WithBuffer(s, Trimmed(grown)),
                       [revisions EXCEPT ![s] = b.revision])
      /\ Issue(s, b.revision, {entry})
      /\ UNCHANGED <<pinned, clock, epoch>>

\* getEvents, getEvent and findToolEndEvent refresh the session's recency.
ReadEvents(s) ==
  /\ s \in DOMAIN buffers
  /\ buffers' = [buffers EXCEPT ![s].lastAccess = clock]
  /\ UNCHANGED <<revisions, pinned, clock, epoch, issued>>

\* (mutation) the emptied buffer keeps its revision
DeleteSameRevision(s) ==
  /\ s \in DOMAIN buffers
  /\ buffers' = [buffers EXCEPT ![s] = NewBuffer(@.revision)]
  /\ UNCHANGED <<revisions, pinned, clock, epoch, issued>>

\* Without a buffer the call returns 0 and changes nothing.
DeleteEventsForSession(s) ==
  /\ s \in DOMAIN buffers
  /\ buffers' = [buffers EXCEPT ![s] = NewBuffer(@.revision + 1)]
  /\ revisions' = [revisions EXCEPT ![s] = buffers[s].revision + 1]
  /\ UNCHANGED <<pinned, clock, epoch, issued>>

ReplaceEvents(s, source) ==
  LET previous == IF s \in DOMAIN buffers THEN buffers[s].revision ELSE -1
      revision == (IF previous > revisions[s] THEN previous ELSE revisions[s]) + 1
      entries  == [i \in 1..Len(source) |-> [seq |-> i, event |-> source[i]]]
      loaded   == [NewBuffer(revision) EXCEPT !.events = entries,
                                              !.nextSeq = Len(source) + 1]
  IN  /\ EvictIfNeeded(WithBuffer(s, Trimmed(loaded)),
                       [revisions EXCEPT ![s] = revision])
      /\ Issue(s, revision, {entries[i] : i \in 1..Len(source)})
      /\ UNCHANGED <<pinned, clock, epoch>>

\* Bridges connect and browsers subscribe: the pin predicate changes.
SetPinned(P) ==
  /\ pinned' = P
  /\ UNCHANGED <<buffers, revisions, clock, epoch, issued>>

Tick ==
  /\ clock' = clock + 1
  /\ UNCHANGED <<buffers, revisions, pinned, epoch, issued>>

\* A restarted server starts from an empty store under a fresh epoch, with no
\* bridge connected and no browser subscribed yet.
Restart ==
  /\ buffers' = [s \in {} |-> NewBuffer(0)]
  /\ revisions' = [s \in Sessions |-> 0]
  /\ epoch' = epoch + 1
  /\ pinned' = {}
  /\ UNCHANGED <<clock, issued>>

\* The bounds of the checked instances; every step must stay within them.
WithinBounds ==
  /\ clock <= MaxClock /\ epoch <= MaxEpoch
  /\ \A s \in Sessions : revisions[s] <= MaxRevision
  /\ \A s \in DOMAIN buffers : buffers[s].nextSeq <= MaxSeq + 1

Next ==
  /\ \/ \E s \in Sessions, e \in Events : InsertEvent(s, e)
     \/ \E s \in Sessions : ReadEvents(s)
     \/ \E s \in Sessions : DeleteEventsForSession(s)
     \/ \E s \in Sessions, source \in Sources : ReplaceEvents(s, source)
     \/ \E P \in SUBSET Sessions : SetPinned(P)
     \/ Tick
     \/ Restart
  /\ WithinBounds'

Spec == Init /\ [][Next]_vars

(***************************************************************************)
(* Properties.                                                             *)
(***************************************************************************)

\* Every variable keeps its shape: buffers of sequenced entries on a subset of
\* the sessions, natural revisions, and the history of stored events.
TypeOK ==
  /\ DOMAIN buffers \subseteq Sessions
  /\ buffers \in [DOMAIN buffers -> Buffer]
  /\ revisions \in [Sessions -> Nat]
  /\ pinned \subseteq Sessions
  /\ clock \in Nat /\ epoch \in Nat
  /\ issued \subseteq [session : Sessions, gen : Nat \X Nat, seq : Nat \ {0}, event : Events]

\* The retained range is one dense run that ends just below the next sequence
\* number: a replay that walks it never meets a hole.
RetainedDense ==
  \A s \in DOMAIN buffers : LET b == buffers[s] IN
    \A i \in 1..Len(b.events) : b.events[i].seq = b.nextSeq - 1 - Len(b.events) + i

\* historyTruncated tells a browser that older events exist below the retained
\* head, exactly when they do.
TruncationFlagged ==
  \A s \in DOMAIN buffers : LET b == buffers[s] IN
    b.historyTruncated <=> b.nextSeq - 1 > Len(b.events)

\* A trimming store retains at most the limit and its slack, and a trim never
\* empties a buffer that has received an event.
RetentionBounded ==
  MaxEvents > 0 =>
    \A s \in DOMAIN buffers : LET b == buffers[s] IN
      /\ Len(b.events) <= MaxEvents + TrimSlack
      /\ b.nextSeq > 1 => b.events # <<>>

\* A generation and a sequence number name one event for ever, across trims,
\* evictions, deletions, replacements and restarts: the browser's ledger takes
\* a second event under the same name for a conflict and throws its state away.
GenerationNamesOneEvent ==
  \A x, y \in issued :
    x.session = y.session /\ x.gen = y.gen /\ x.seq = y.seq => x.event = y.event

\* Cache pressure never takes the buffer of a session that is connected or
\* watched, and of the others it takes the least recently used.
EvictionSparesUsed ==
  [][epoch' = epoch =>
       \A s \in DOMAIN buffers \ DOMAIN buffers' :
         /\ s \notin pinned
         /\ \A t \in DOMAIN buffers' \ pinned :
              buffers[s].lastAccess <= buffers'[t].lastAccess]_vars

\* Each session's buffer is an EventSource: its range moves forward within a
\* generation, and every other change of its events is a newer generation.
Source(s) == INSTANCE EventSource WITH
  gen <- GetSourceGeneration(s),
  lo  <- IF HasEvents(s) THEN GetMinSeq(s) ELSE 1,
  hi  <- GetMaxSeq(s)

ImplementsEventSource ==
  /\ \A s \in Sessions : Source(s)!SourceInit
  /\ [][\A s \in Sessions : [Source(s)!SourceNext]_<<Source(s)!sourceVars>>]_vars
=============================================================================
