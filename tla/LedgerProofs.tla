----------------------------- MODULE LedgerProofs -----------------------------
(***************************************************************************)
(* Theorems about LedgerCalls: what the browser's ledger of a session      *)
(* keeps under any sequence of calls, for every range of sequence numbers, *)
(* every length of frame and every set of retention caps.                  *)
(*                                                                         *)
(* Sound is the inductive invariant.  An operation passes through ledgers  *)
(* that are not yet Sound, where events have been taken and the gap buffer *)
(* is not drained, or nothing is trimmed: Extends says what admission may  *)
(* do before the trim, and Continues what remains of it afterwards.  The   *)
(* entries of a frame are followed by induction on their position          *)
(* (ForwardExtends), and so is a contiguous page (ContiguousRun).          *)
(***************************************************************************)
EXTENDS LedgerCalls, DataLemmas, FiniteSetTheorems

-----------------------------------------------------------------------------
(* The inductive invariant. *)

Seqs == 1..Top
Held == UNION {[D -> Sources] : D \in SUBSET Seqs}
LedgerType ==
  [source : Sources \cup {None, Unknown}, bySeq : Held, gaps : Held, active : Requests \cup {None},
   older : Seqs \cup {None}, latched : BOOLEAN, failed : SUBSET Kinds,
   status : {"cold", "ready", "retry"}, cap : Caps]

\* The gap buffer of a ledger that has drained it.
GapsWait(l) == Cursor(l) + 1 \notin DOMAIN l.gaps
Latched(l) == l.latched <=> DOMAIN l.gaps # {}
WithinLimit(l) == Cardinality(DOMAIN l.gaps) <= MaxGaps
Anchored(l) == DOMAIN l.bySeq = {} => DOMAIN l.gaps = {}

\* A request is of the ledger's source, and a page ends below the cursor.
OwnRequest(l) == l.active # None => l.active.source = l.source
PageBelow(l) ==
  l.active # None /\ l.active.kind = "older" =>
    DOMAIN l.bySeq # {} /\ l.active.from \in Seqs /\ l.active.from <= Cursor(l)

Sound(l) ==
  /\ l \in LedgerType
  /\ GapsWait(l) /\ Latched(l) /\ WithinLimit(l) /\ Anchored(l)
  /\ OwnRequest(l) /\ PageBelow(l)

IInv == Sound(ledger)

-----------------------------------------------------------------------------
(* Sets of sequence numbers. *)

Newest(D) == IF D = {} THEN 0 ELSE Max(D)

LEMMA SeqsAreNumbers == \A s \in Seqs : s \in Nat /\ 1 <= s /\ s <= Top
BY CallsAssumption DEF Seqs

LEMMA NewestOf ==
  ASSUME NEW D \in SUBSET Seqs
  PROVE  /\ Newest(D) \in 0..Top
         /\ D = {} => Newest(D) = 0
         /\ D # {} => Newest(D) \in D
         /\ \A s \in D : s <= Newest(D)
<1>1. Top \in Nat /\ D \in SUBSET (0..Top)
  BY CallsAssumption DEF Seqs
<1>2. CASE D = {}
  BY <1>1, <1>2 DEF Newest
<1>3. CASE D # {}
  <2>1. Max(D) \in D /\ \A s \in D : Max(D) >= s
    BY <1>1, <1>3, MaxIsGreatest
  <2> QED BY <1>1, <1>3, <2>1 DEF Newest
<1> QED BY <1>2, <1>3

LEMMA NewestIs ==
  ASSUME NEW D \in SUBSET Seqs, NEW c \in D, \A s \in D : s <= c
  PROVE  Newest(D) = c
<1>1. Newest(D) \in D /\ c <= Newest(D) /\ Newest(D) <= c
  BY NewestOf
<1>2. Newest(D) \in Nat /\ c \in Nat
  BY <1>1, SeqsAreNumbers
<1> QED BY <1>1, <1>2

LEMMA SeqsFinite ==
  ASSUME NEW D \in SUBSET Seqs
  PROVE  IsFiniteSet(D) /\ Cardinality(D) \in Nat
<1>1. IsFiniteSet(Seqs)
  BY CallsAssumption, FS_Interval DEF Seqs
<1>2. IsFiniteSet(D)
  BY <1>1, FS_Subset
<1> QED BY <1>2, FS_CardinalityType

LEMMA SmallerSet ==
  ASSUME NEW D \in SUBSET Seqs, NEW E \in SUBSET D
  PROVE  Cardinality(E) <= Cardinality(D)
<1>1. IsFiniteSet(D)
  BY SeqsFinite
<1> QED BY <1>1, FS_Subset

\* What a cap leaves: the newest, and all that are newer than any left; as many
\* as the cap says when some went.
Kept(D, cap) == {s \in D : Cardinality({t \in D : t >= s}) <= cap}
LEMMA KeptNewest ==
  ASSUME NEW D \in SUBSET Seqs, NEW cap \in Nat \ {0}
  PROVE  LET K == Kept(D, cap) IN
         /\ K \in SUBSET D /\ K \in SUBSET Seqs
         /\ D # {} => K # {}
         /\ Newest(K) = Newest(D)
         /\ \A s \in D \ K : Cardinality(K) = cap /\ \A k \in K : s < k
<1> DEFINE K == Kept(D, cap)
           From(s) == {t \in D : t >= s}
<1>1. /\ K \in SUBSET D /\ K \in SUBSET Seqs
      /\ \A s \in D : s \in K <=> Cardinality(From(s)) <= cap
  <2>1. K = {s \in D : Cardinality(From(s)) <= cap}
    BY DEF Kept
  <2> HIDE DEF K, From
  <2> QED BY <2>1
<1>2. \A s \in D : From(s) \in SUBSET D /\ From(s) \in SUBSET Seqs /\ s \in From(s)
  BY SeqsAreNumbers
<1> HIDE DEF K
<1>3. ASSUME D # {} PROVE Newest(D) \in K
  <2>1. Newest(D) \in D /\ \A s \in D : s <= Newest(D)
    BY <1>3, NewestOf
  <2>2. \A s \in D : s \in Nat
    BY DEF Seqs
  <2>3. From(Newest(D)) = {Newest(D)}
    BY <2>1, <2>2
  <2>4. Cardinality({Newest(D)}) = 1
    BY FS_Singleton
  <2> HIDE DEF From
  <2> QED BY <1>1, <2>1, <2>3, <2>4
<1>4. Newest(K) = Newest(D)
  <2>1. CASE D = {}
    BY <1>1, <2>1
  <2>2. CASE D # {}
    <3>1. \A s \in K : s <= Newest(D)
      BY <1>1, NewestOf
    <3> QED BY <1>1, <1>3, <2>2, <3>1, NewestIs
  <2> QED BY <2>1, <2>2
<1>5. ASSUME NEW s \in D \ K, NEW k \in K PROVE s < k
  <2>0. s \in Nat /\ k \in Nat /\ k \in D /\ s \in D
    BY <1>1, SeqsAreNumbers
  <2> SUFFICES ASSUME k <= s PROVE FALSE
    BY <2>0
  <2>1. From(s) \in SUBSET From(k) /\ From(k) \in SUBSET Seqs
    <3>1. \A t \in D : t >= s => t >= k
      BY <2>0, SeqsAreNumbers
    <3> QED BY <3>1
  <2> HIDE DEF From
  <2>2. Cardinality(From(s)) <= Cardinality(From(k))
    BY <2>1, SmallerSet
  <2>3. Cardinality(From(s)) \in Nat /\ Cardinality(From(k)) \in Nat
    BY <1>1, <1>2, SeqsFinite
  <2>4. Cardinality(From(k)) <= cap /\ ~(Cardinality(From(s)) <= cap)
    BY <1>1
  <2> QED BY <2>2, <2>3, <2>4
<1>6. ASSUME NEW s \in D \ K PROVE Cardinality(K) = cap
  <2> DEFINE Gone == D \ K
             p == Newest(Gone)
             m == Min(K)
  <2>1. Gone \in SUBSET Seqs /\ Gone # {} /\ D # {}
    BY <1>6
  <2>2. p \in D \ K /\ \A t \in D \ K : t <= p
    <3> HIDE DEF Gone
    <3>1. p \in Gone /\ \A t \in Gone : t <= p
      BY <2>1, NewestOf
    <3> HIDE DEF p
    <3> QED BY <3>1 DEF Gone
  <2>3. m \in K /\ \A k \in K : m <= k
    <3>1. K # {} /\ K \in SUBSET Nat
      BY <1>1, <1>3, <2>1 DEF Seqs
    <3> QED BY <3>1, MinIsLeast
  <2> HIDE DEF p, m, Gone
  <2>4. From(m) = K
    <3>1. \A t \in D : t >= m => t \in K
      <4> SUFFICES ASSUME NEW t \in D, t >= m, t \notin K PROVE FALSE
        OBVIOUS
      <4>1. t < m
        BY <1>5, <2>3
      <4> QED BY <1>1, <2>3, <4>1 DEF Seqs
    <3>2. \A k \in K : k >= m /\ k \in D
      BY <1>1, <2>3 DEF Seqs
    <3> QED BY <3>1, <3>2
  <2>5. From(p) = K \cup {p}
    <3>1. \A t \in D : t >= p => t \in K \/ t = p
      BY <2>2 DEF Seqs
    <3>2. \A k \in K : k >= p /\ k \in D
      BY <1>1, <1>5, <2>2 DEF Seqs
    <3>3. p >= p
      BY <2>2 DEF Seqs
    <3> QED BY <2>2, <3>1, <3>2, <3>3
  <2>6. IsFiniteSet(K) /\ Cardinality(K) \in Nat
    BY <1>1, SeqsFinite
  <2>7. Cardinality(K \cup {p}) = Cardinality(K) + 1
    BY <2>2, <2>6, FS_AddElement
  <2> HIDE DEF From
  <2>8. Cardinality(K) <= cap /\ ~(Cardinality(K) + 1 <= cap)
    BY <1>1, <2>2, <2>3, <2>4, <2>5, <2>7
  <2> QED BY <2>6, <2>8
<1> QED BY <1>1, <1>3, <1>4, <1>5, <1>6 DEF K

-----------------------------------------------------------------------------
(* Retention and the gap buffer. *)

LEMMA HeldEvents ==
  ASSUME NEW f \in Held
  PROVE  DOMAIN f \in SUBSET Seqs /\ \A s \in DOMAIN f : f[s] \in Sources
BY DEF Held

LEMMA EventsHeld ==
  ASSUME NEW D \in SUBSET Seqs, NEW f \in [D -> Sources]
  PROVE  f \in Held /\ DOMAIN f = D
BY DEF Held

LEMMA OnlyAtHeld ==
  ASSUME NEW f \in Held, NEW S
  PROVE  OnlyAt(f, S) \in Held /\ DOMAIN OnlyAt(f, S) = DOMAIN f \cap S
<1> DEFINE g == OnlyAt(f, S)
<1>1. DOMAIN f \cap S \in SUBSET Seqs /\ \A s \in DOMAIN f \cap S : f[s] \in Sources
  BY HeldEvents
<1>2. g \in [DOMAIN f \cap S -> Sources]
  BY <1>1 DEF OnlyAt
<1> HIDE DEF g
<1>3. g \in Held /\ DOMAIN g = DOMAIN f \cap S
  BY <1>1, <1>2, EventsHeld
<1> QED BY <1>3 DEF g

LEMMA OverHeld ==
  ASSUME NEW f \in Held, NEW g \in Held
  PROVE  Over(g, f) \in Held /\ DOMAIN Over(g, f) = DOMAIN g \cup DOMAIN f
<1> DEFINE h == Over(g, f)
<1>1. /\ DOMAIN g \cup DOMAIN f \in SUBSET Seqs
      /\ \A s \in DOMAIN g : g[s] \in Sources
      /\ \A s \in DOMAIN f : f[s] \in Sources
  BY HeldEvents
<1>2. h \in [DOMAIN g \cup DOMAIN f -> Sources]
  BY <1>1 DEF Over
<1> HIDE DEF h
<1>3. h \in Held /\ DOMAIN h = DOMAIN g \cup DOMAIN f
  BY <1>1, <1>2, EventsHeld
<1> QED BY <1>3 DEF h

Events == [gen : Sources, seq : Seqs]

LEMMA PutHeld ==
  ASSUME NEW f \in Held, NEW e \in Events
  PROVE  Put(f, e) \in Held /\ DOMAIN Put(f, e) = DOMAIN f \cup {e.seq}
<1> DEFINE h == Put(f, e)
<1>1. /\ DOMAIN f \cup {e.seq} \in SUBSET Seqs /\ e.gen \in Sources
      /\ \A s \in DOMAIN f : f[s] \in Sources
  BY HeldEvents DEF Events
<1>2. h \in [DOMAIN f \cup {e.seq} -> Sources]
  BY <1>1 DEF Put
<1> HIDE DEF h
<1>3. h \in Held /\ DOMAIN h = DOMAIN f \cup {e.seq}
  BY <1>1, <1>2, EventsHeld
<1> QED BY <1>3 DEF h

LEMMA PutAllHeld ==
  ASSUME NEW f \in Held, NEW es \in Seq(Events)
  PROVE  /\ PutAll(f, es) \in Held
         /\ DOMAIN PutAll(f, es) = DOMAIN f \cup SeqsOf(es)
         /\ SeqsOf(es) \in SUBSET Seqs
<1> DEFINE h == PutAll(f, es)
           pos(s) == CHOOSE i \in DOMAIN es : es[i].seq = s
<1>1. \A i \in DOMAIN es : es[i].seq \in Seqs /\ es[i].gen \in Sources
  <2>1. \A i \in DOMAIN es : es[i] \in Events
    OBVIOUS
  <2> QED BY <2>1 DEF Events
<1>2. SeqsOf(es) \in SUBSET Seqs
  BY <1>1 DEF SeqsOf
<1>3. \A s \in SeqsOf(es) : pos(s) \in DOMAIN es
  BY DEF SeqsOf
<1>4. DOMAIN f \in SUBSET Seqs /\ \A s \in DOMAIN f : f[s] \in Sources
  BY HeldEvents
<1>5. h = [s \in DOMAIN f \cup SeqsOf(es) |-> IF s \in SeqsOf(es) THEN es[pos(s)].gen ELSE f[s]]
  BY DEF PutAll
<1> HIDE DEF pos, h
<1>6. \A s \in SeqsOf(es) : es[pos(s)].gen \in Sources
  BY <1>1, <1>3
<1>7. h \in [DOMAIN f \cup SeqsOf(es) -> Sources]
  BY <1>4, <1>5, <1>6
<1>8. h \in Held /\ DOMAIN h = DOMAIN f \cup SeqsOf(es)
  BY <1>2, <1>4, <1>7, EventsHeld
<1> QED BY <1>2, <1>8 DEF h

LEMMA NothingHeld == Nothing \in Held /\ DOMAIN Nothing = {}
<1>1. Nothing \in [{} -> Sources]
  BY DEF Nothing
<1> QED BY <1>1, EventsHeld

LEMMA CursorOf ==
  ASSUME NEW l \in LedgerType
  PROVE  /\ Cursor(l) = Newest(DOMAIN l.bySeq)
         /\ DOMAIN l.bySeq \in SUBSET Seqs /\ DOMAIN l.gaps \in SUBSET Seqs
         /\ Cursor(l) \in 0..Top
<1>1. l.bySeq \in Held /\ l.gaps \in Held
  BY DEF LedgerType
<1>2. DOMAIN l.bySeq \in SUBSET Seqs /\ DOMAIN l.gaps \in SUBSET Seqs
  BY <1>1, HeldEvents
<1>3. Cursor(l) = Newest(DOMAIN l.bySeq)
  BY DEF Cursor, Newest
<1> QED BY <1>2, <1>3, NewestOf

LEMMA TrimKeepsNewest ==
  ASSUME NEW l \in LedgerType
  PROVE  LET t == TrimRetained(l) IN
         /\ t \in LedgerType
         /\ t = [l EXCEPT !.bySeq = t.bySeq]
         /\ DOMAIN t.bySeq = Kept(DOMAIN l.bySeq, l.cap)
         /\ Cursor(t) = Cursor(l)
         /\ DOMAIN t.bySeq = {} <=> DOMAIN l.bySeq = {}
<1> DEFINE t == TrimRetained(l)
           K == Kept(DOMAIN l.bySeq, l.cap)
           left == OnlyAt(l.bySeq, K)
<1>1. l.bySeq \in Held /\ DOMAIN l.bySeq \in SUBSET Seqs /\ l.cap \in Nat \ {0}
  BY CursorOf, CallsAssumption DEF LedgerType
<1>2. t = [l EXCEPT !.bySeq = left]
  BY DEF TrimRetained, Kept, LedgerType
<1> HIDE DEF t, K, left
<1>3. /\ K \in SUBSET DOMAIN l.bySeq /\ (DOMAIN l.bySeq # {} => K # {})
      /\ Newest(K) = Newest(DOMAIN l.bySeq)
  BY <1>1, KeptNewest DEF K
<1>4. left \in Held /\ DOMAIN left = K
  BY <1>1, <1>3, OnlyAtHeld DEF left
<1>5. t \in LedgerType /\ t.bySeq = left
  BY <1>2, <1>4 DEF LedgerType
<1>6. Cursor(t) = Cursor(l)
  BY <1>3, <1>4, <1>5, CursorOf
<1> QED BY <1>2, <1>3, <1>4, <1>5, <1>6 DEF t, K

-----------------------------------------------------------------------------
(* What admission does before it trims: the cursor moves along events that *)
(* follow it one by one.                                                   *)

Extends(l, m) ==
  /\ m \in LedgerType
  /\ m = [l EXCEPT !.bySeq = m.bySeq, !.gaps = m.gaps, !.latched = m.latched]
  /\ DOMAIN l.bySeq \subseteq DOMAIN m.bySeq
  /\ Cursor(l) <= Cursor(m)
  /\ DOMAIN l.bySeq # {} => Cursor(l)..Cursor(m) \subseteq DOMAIN m.bySeq

LEMMA ExtendsSelf ==
  ASSUME NEW l \in LedgerType
  PROVE  Extends(l, l)
<1>1. /\ Cursor(l) \in 0..Top /\ Cursor(l) = Newest(DOMAIN l.bySeq)
      /\ DOMAIN l.bySeq \in SUBSET Seqs
  BY CursorOf
<1>2. Cursor(l) <= Cursor(l) /\ Cursor(l)..Cursor(l) = {Cursor(l)}
  BY <1>1, CallsAssumption
<1>3. DOMAIN l.bySeq # {} => Cursor(l) \in DOMAIN l.bySeq
  BY <1>1, NewestOf
<1>4. l = [l EXCEPT !.bySeq = l.bySeq, !.gaps = l.gaps, !.latched = l.latched]
  BY DEF LedgerType
<1> QED BY <1>2, <1>3, <1>4 DEF Extends

LEMMA ExtendsTwice ==
  ASSUME NEW l \in LedgerType, NEW m, NEW n, Extends(l, m), Extends(m, n)
  PROVE  Extends(l, n)
<1>1. m \in LedgerType /\ n \in LedgerType
  BY DEF Extends
<1>2. Cursor(l) \in Nat /\ Cursor(m) \in Nat /\ Cursor(n) \in Nat
  BY <1>1, CursorOf, CallsAssumption
<1>3. Cursor(l) <= Cursor(n) /\ DOMAIN l.bySeq \subseteq DOMAIN n.bySeq
  BY <1>2 DEF Extends
<1>4. ASSUME DOMAIN l.bySeq # {} PROVE Cursor(l)..Cursor(n) \subseteq DOMAIN n.bySeq
  <2>1. DOMAIN m.bySeq # {}
    BY <1>4 DEF Extends
  <2>2. /\ Cursor(l)..Cursor(m) \subseteq DOMAIN n.bySeq
        /\ Cursor(m)..Cursor(n) \subseteq DOMAIN n.bySeq
    BY <1>4, <2>1 DEF Extends
  <2>3. \A s \in Cursor(l)..Cursor(n) : s \in Cursor(l)..Cursor(m) \/ s \in Cursor(m)..Cursor(n)
    BY <1>2
  <2> QED BY <2>2, <2>3
<1>5. n = [l EXCEPT !.bySeq = n.bySeq, !.gaps = n.gaps, !.latched = n.latched]
  BY DEF Extends, LedgerType
<1> QED BY <1>1, <1>3, <1>4, <1>5 DEF Extends

LEMMA TakeExtends ==
  ASSUME NEW l \in LedgerType, NEW e \in Events, Cursor(l) \in {0, e.seq - 1}
  PROVE  LET m == Take(l, e) IN
         /\ Extends(l, m)
         /\ m.gaps = l.gaps /\ m.latched = l.latched /\ DOMAIN m.bySeq # {}
<1> DEFINE m == Take(l, e)
           f == Put(l.bySeq, e)
<1>1. /\ l.bySeq \in Held /\ DOMAIN l.bySeq \in SUBSET Seqs
      /\ e.seq \in Seqs /\ e.seq \in Nat /\ e.seq >= 1
  BY CursorOf, SeqsAreNumbers DEF LedgerType, Events
<1>2. f \in Held /\ DOMAIN f = DOMAIN l.bySeq \cup {e.seq}
  BY <1>1, PutHeld
<1>3. m = [l EXCEPT !.bySeq = f]
  BY DEF Take, LedgerType
<1> HIDE DEF m, f
<1>4. /\ m \in LedgerType /\ m.bySeq = f /\ m.gaps = l.gaps /\ m.latched = l.latched
      /\ m = [l EXCEPT !.bySeq = m.bySeq, !.gaps = m.gaps, !.latched = m.latched]
  BY <1>2, <1>3 DEF LedgerType
<1>5. /\ \A s \in DOMAIN l.bySeq : s <= Cursor(l) /\ s \in Nat
      /\ DOMAIN l.bySeq # {} => Cursor(l) \in DOMAIN l.bySeq
      /\ DOMAIN l.bySeq = {} => Cursor(l) = 0
      /\ Cursor(l) \in Nat
  BY <1>1, CursorOf, NewestOf, SeqsAreNumbers, CallsAssumption
<1>6. \A s \in DOMAIN l.bySeq : s <= e.seq
  BY <1>1, <1>5
<1>7. Cursor(m) = e.seq
  <2>1. Newest(DOMAIN f) = e.seq
    BY <1>1, <1>2, <1>6, NewestIs
  <2> QED BY <1>4, <2>1, CursorOf
<1>8. ASSUME DOMAIN l.bySeq # {} PROVE Cursor(l)..e.seq \subseteq DOMAIN f
  <2>1. Cursor(l) # 0
    BY <1>1, <1>5, <1>8, SeqsAreNumbers
  <2>2. \A s \in Cursor(l)..e.seq : s = Cursor(l) \/ s = e.seq
    BY <1>1, <1>5, <2>1
  <2> QED BY <1>2, <1>5, <1>8, <2>2
<1>9. Cursor(l) <= e.seq
  BY <1>1, <1>5
<1> QED BY <1>2, <1>4, <1>7, <1>8, <1>9 DEF Extends, m

LEMMA DrainExtends ==
  ASSUME NEW l \in LedgerType, Latched(l), WithinLimit(l)
  PROVE  LET m == DrainGaps(l).ledger IN
         /\ Extends(l, m)
         /\ GapsWait(m) /\ Latched(m) /\ WithinLimit(m)
         /\ DOMAIN m.gaps \subseteq DOMAIN l.gaps
<1> DEFINE m    == DrainGaps(l).ledger
           c    == Cursor(l)
           G    == DOMAIN l.gaps
           run  == {s \in G : s > c /\ (c + 1)..s \subseteq G}
           next == OnlyAt(l.gaps, run)
           rest == OnlyAt(l.gaps, G \ run)
           f    == Over(next, l.bySeq)
           D    == DOMAIN l.bySeq
<1>1. /\ l.bySeq \in Held /\ l.gaps \in Held /\ D \in SUBSET Seqs /\ G \in SUBSET Seqs
      /\ c \in Nat /\ c = Newest(D) /\ l.latched \in BOOLEAN
  BY CursorOf, CallsAssumption DEF LedgerType
<1>2. /\ m = [l EXCEPT !.bySeq = f, !.gaps = rest, !.latched = l.latched /\ DOMAIN rest # {}]
  BY DEF DrainGaps, LedgerType
<1>3. /\ run \in SUBSET G
      /\ \A s \in G : s \in run <=> s > c /\ (c + 1)..s \subseteq G
  OBVIOUS
<1> HIDE DEF m, c, run, G, D
<1>4. next \in Held /\ DOMAIN next = run /\ rest \in Held /\ DOMAIN rest = G \ run
  <2>1. next \in Held /\ DOMAIN next = G \cap run
    BY <1>1, OnlyAtHeld DEF G
  <2>2. rest \in Held /\ DOMAIN rest = G \cap (G \ run)
    BY <1>1, OnlyAtHeld DEF G
  <2> QED BY <1>3, <2>1, <2>2
<1> HIDE DEF next, rest
<1>5. f \in Held /\ DOMAIN f = run \cup D
  BY <1>1, <1>4, OverHeld DEF D
<1> HIDE DEF f
<1>6. /\ m \in LedgerType /\ m.bySeq = f /\ m.gaps = rest
      /\ m.latched = (l.latched /\ G \ run # {})
      /\ m = [l EXCEPT !.bySeq = m.bySeq, !.gaps = m.gaps, !.latched = m.latched]
  BY <1>1, <1>2, <1>4, <1>5 DEF LedgerType
<1> DEFINE Fewer == DOMAIN m.gaps \subseteq DOMAIN l.gaps
<1>a. Fewer
  BY <1>4, <1>6 DEF G
<1> HIDE DEF Fewer
<1>7. Cursor(m) = Newest(run \cup D) /\ run \cup D \in SUBSET Seqs
  BY <1>1, <1>3, <1>5, <1>6, CursorOf
<1>8. \A s \in D : s <= c
  BY <1>1, NewestOf
<1>9. CASE run = {}
  <2>1. run \cup D = D
    BY <1>9
  <2>2. Cursor(m) = c
    BY <1>1, <1>7, <2>1
  <2>3. c + 1 \notin G
    <3>1. c + 1 > c /\ (c + 1)..(c + 1) = {c + 1}
      BY <1>1
    <3> QED BY <1>3, <1>9, <3>1
  <2>4. D # {} => c..c \subseteq D
    <3>1. c..c = {c}
      BY <1>1
    <3> QED BY <1>1, <3>1, NewestOf
  <2>5. Extends(l, m) /\ GapsWait(m)
    <3>1. c <= c
      BY <1>1
    <3> QED BY <1>4, <1>5, <1>6, <2>1, <2>2, <2>3, <2>4, <3>1 DEF Extends, GapsWait, c, D
  <2>6. Latched(m) /\ WithinLimit(m)
    BY <1>4, <1>6, <1>9 DEF Latched, WithinLimit, G
  <2> QED BY <1>a, <2>5, <2>6 DEF m, Fewer
<1>10. CASE run # {}
  <2> DEFINE n == Newest(run)
  <2>1. run \in SUBSET Seqs
    BY <1>1, <1>3
  <2>2. n \in run /\ n \in Nat /\ \A s \in run : s <= n
    BY <1>10, <2>1, NewestOf, SeqsAreNumbers
  <2> HIDE DEF n
  <2>3. n > c /\ (c + 1)..n \subseteq G /\ n \in G
    BY <1>3, <2>2
  <2>4. \A s \in (c + 1)..n : s \in run
    <3> SUFFICES ASSUME NEW s \in (c + 1)..n PROVE s \in run
      OBVIOUS
    <3>1. s \in G /\ s > c /\ \A t \in (c + 1)..s : t \in (c + 1)..n
      BY <1>1, <2>2, <2>3
    <3> QED BY <1>3, <2>3, <3>1
  <2>5. \A s \in run \cup D : s <= n
    BY <1>1, <1>8, <2>2, <2>3, SeqsAreNumbers
  <2>6. Cursor(m) = n
    BY <1>7, <2>2, <2>5, NewestIs
  <2>7. n + 1 \notin G \ run
    <3> SUFFICES ASSUME n + 1 \in G PROVE n + 1 \in run
      OBVIOUS
    <3>1. n + 1 > c /\ \A t \in (c + 1)..(n + 1) : t \in (c + 1)..n \/ t = n + 1
      BY <1>1, <2>2, <2>3
    <3> QED BY <1>3, <2>3, <3>1
  <2>8. D # {} => c..n \subseteq run \cup D
    <3>1. \A s \in c..n : s = c \/ s \in (c + 1)..n
      BY <1>1, <2>2, <2>3
    <3>2. D # {} => c \in D
      BY <1>1, NewestOf
    <3> QED BY <2>4, <3>1, <3>2
  <2>9. Extends(l, m) /\ GapsWait(m)
    <3>1. c <= n
      BY <1>1, <2>2, <2>3
    <3> QED BY <1>4, <1>5, <1>6, <2>6, <2>7, <2>8, <3>1 DEF Extends, GapsWait, c, D
  <2>10. Latched(m)
    BY <1>4, <1>6, <2>2, <2>3 DEF Latched, G
  <2>11. WithinLimit(m)
    <3>1. Cardinality(G \ run) <= Cardinality(G) /\ Cardinality(G) \in Nat /\ Cardinality(G \ run) \in Nat
      BY <1>1, SmallerSet, SeqsFinite
    <3>2. Cardinality(G) <= MaxGaps
      BY DEF WithinLimit, G
    <3> QED BY <1>4, <1>6, <3>1, <3>2, LedgerAssumption DEF WithinLimit
  <2> QED BY <1>a, <2>9, <2>10, <2>11 DEF m, Fewer
<1> QED BY <1>9, <1>10

LEMMA VerdictOf ==
  ASSUME NEW l, NEW e
  PROVE  /\ Verdict(l, e) \in {"duplicate", "conflict", "accepted", "gap"}
         /\ Verdict(l, e) = "accepted" =>
              Cursor(l) \in {0, e.seq - 1} /\ e.seq \notin DOMAIN l.gaps
         /\ Verdict(l, e) = "gap" =>
              Cursor(l) \notin {0, e.seq - 1} /\ e.seq \notin DOMAIN l.gaps
BY DEF Verdict

\* Whatever the entries of a frame are, what has been taken of them when the
\* frame ends, or faults, continues the ledger.
LEMMA ForwardExtends ==
  ASSUME NEW l \in LedgerType, NEW es \in Seq(Events)
  PROVE  LET a == Forward(l, es) IN
         /\ Extends(l, a.ledger)
         /\ a.ledger.gaps = l.gaps /\ a.ledger.latched = l.latched
         /\ a.fault \in BOOLEAN
<1> DEFINE n == Len(es)
           base == [ledger |-> l, accepted |-> <<>>, fault |-> FALSE]
           Outcome == [ledger : LedgerType, accepted : Seq(Events), fault : BOOLEAN]
           Taken == {a \in Outcome : /\ Extends(l, a.ledger)
                                 /\ a.ledger.gaps = l.gaps /\ a.ledger.latched = l.latched}
           step == [i \in 1..n |-> [a \in Taken |-> Entry(a, es[i])]]
           Loop(f) == f = [i \in 0..n |-> IF i = 0 THEN base ELSE Entry(f[i - 1], es[i])]
           after == CHOOSE f : Loop(f)
<1>1. n \in Nat /\ \A i \in 1..n : es[i] \in Events
  OBVIOUS
<1>2. base \in Taken
  <2>1. Extends(l, l)
    BY ExtendsSelf
  <2> QED BY <2>1
<1>3. ASSUME NEW a \in Taken, NEW e \in Events PROVE Entry(a, e) \in Taken
  <2> DEFINE v == Verdict(a.ledger, e)
             m == Take(a.ledger, e)
  <2>1. /\ a.ledger \in LedgerType /\ a.accepted \in Seq(Events) /\ a \in Outcome
        /\ Extends(l, a.ledger) /\ a.ledger.gaps = l.gaps /\ a.ledger.latched = l.latched
    OBVIOUS
  <2>2. v \in {"duplicate", "conflict", "accepted", "gap"}
    BY VerdictOf
  <2>3. Entry(a, e) =
          IF a.fault \/ v \in {"conflict", "gap"} THEN [a EXCEPT !.fault = TRUE]
          ELSE IF v = "accepted" THEN [a EXCEPT !.ledger = m, !.accepted = Append(@, e)]
          ELSE a
    BY DEF Entry
  <2>4. ASSUME v = "accepted"
        PROVE  /\ m \in LedgerType /\ Extends(l, m)
               /\ m.gaps = l.gaps /\ m.latched = l.latched
    <3>1. Cursor(a.ledger) \in {0, e.seq - 1}
      BY <2>4, VerdictOf
    <3>2. Extends(a.ledger, m) /\ m.gaps = a.ledger.gaps /\ m.latched = a.ledger.latched
      <4> HIDE DEF Taken
      <4> QED BY <2>1, <3>1, TakeExtends
    <3> HIDE DEF m, Taken
    <3>3. Extends(l, m)
      BY <2>1, <3>2, ExtendsTwice
    <3> QED BY <2>1, <3>2, <3>3 DEF Extends
  <2> HIDE DEF v, m
  <2>5. [a EXCEPT !.fault = TRUE] \in Taken
    OBVIOUS
  <2>6. v = "accepted" => [a EXCEPT !.ledger = m, !.accepted = Append(@, e)] \in Taken
    <3>1. Append(a.accepted, e) \in Seq(Events)
      BY <2>1
    <3> QED BY <2>1, <2>4, <3>1
  <2> HIDE DEF Taken
  <2> QED BY <2>3, <2>5, <2>6
<1>4. Loop(after)
  <2> HIDE DEF Taken, n, base
  <2>1. \A i \in 1..n, a \in Taken : step[i][a] = Entry(a, es[i])
    OBVIOUS
  <2> HIDE DEF step
  <2>2. Leads(step, n, Taken)
    BY <1>1, <1>3, <2>1 DEF Leads
  <2>3. PICK f : Recursion(f, n, Taken, base, step)
    BY <1>1, <1>2, <2>2, RecursionExists
  <2>4. f \in [0..n -> Taken] /\ f[0] = base /\ \A i \in 1..n : f[i] = step[i][f[i - 1]]
    BY <2>3 DEF Recursion
  <2>5. \A i \in 0..n : i # 0 => i \in 1..n /\ f[i - 1] \in Taken
    BY <1>1, <2>4
  <2>6. \A i \in 0..n : f[i] = IF i = 0 THEN base ELSE Entry(f[i - 1], es[i])
    BY <2>1, <2>4, <2>5
  <2>7. Loop(f)
    BY <2>4, <2>6
  <2> HIDE DEF Loop
  <2> QED BY <2>7
<1>5. Forward(l, es) = after[n]
  BY DEF Forward
<1> DEFINE T == {i \in 0..n : after[i] \in Taken}
<1> HIDE DEF after, n, base, Taken
<1>6. 0 \in T
  BY <1>1, <1>2, <1>4
<1>7. ASSUME NEW i \in 0..(n - 1), i \in T PROVE i + 1 \in T
  <2>1. i + 1 \in 1..n /\ i + 1 \in 0..n /\ (i + 1) - 1 = i /\ i + 1 # 0
    BY <1>1
  <2>2. after[i + 1] = Entry(after[i], es[i + 1])
    BY <1>4, <2>1
  <2> QED BY <1>1, <1>3, <1>7, <2>1, <2>2
<1>8. after[n] \in Taken
  <2> HIDE DEF T
  <2>1. 0..n \subseteq T
    BY <1>1, <1>6, <1>7, UpTo
  <2>2. n \in T
    BY <1>1, <2>1
  <2> QED BY <2>2 DEF T
<1> QED BY <1>5, <1>8 DEF Taken

-----------------------------------------------------------------------------
(* What each call leaves. *)

\* The step CursorFollowsStream allows, of ledgers l and m.
Continues(l, m) ==
  \/ DOMAIN l.bySeq = {}
  \/ DOMAIN m.bySeq = {}
  \/ /\ Cursor(m) >= Cursor(l)
     /\ \A s \in Cursor(l)..Cursor(m) :
          \/ s \in DOMAIN m.bySeq
          \/ s < MinSeq(m) /\ Cardinality(DOMAIN m.bySeq) = l.cap

\* A ledger with the same events and the same gaps is as sound, if its request is.
LEMMA SameEventsSound ==
  ASSUME NEW l, Sound(l), NEW m \in LedgerType,
         m.bySeq = l.bySeq, m.gaps = l.gaps, m.latched = l.latched,
         OwnRequest(m), PageBelow(m)
  PROVE  Sound(m)
<1>1. Cursor(m) = Cursor(l)
  BY DEF Cursor
<1> QED BY <1>1 DEF Sound, GapsWait, Latched, WithinLimit, Anchored

LEMMA SameEventsContinue ==
  ASSUME NEW l \in LedgerType, NEW m \in LedgerType, m.bySeq = l.bySeq
  PROVE  Continues(l, m)
<1>1. Cursor(m) = Cursor(l)
  BY DEF Cursor
<1>2. /\ Cursor(l) = Newest(DOMAIN l.bySeq) /\ DOMAIN l.bySeq \in SUBSET Seqs
      /\ Cursor(l) \in 0..Top
  BY CursorOf
<1>3. DOMAIN l.bySeq # {} => Cursor(l) \in DOMAIN l.bySeq
  BY <1>2, NewestOf
<1>4. Cursor(l) >= Cursor(l) /\ Cursor(l)..Cursor(l) = {Cursor(l)}
  BY <1>2, CallsAssumption
<1> QED BY <1>1, <1>3, <1>4 DEF Continues

\* A ledger without events is sound.
LEMMA EmptySound ==
  ASSUME NEW m \in LedgerType, DOMAIN m.bySeq = {}, DOMAIN m.gaps = {}, m.latched = FALSE,
         OwnRequest(m), m.active # None => m.active.kind # "older"
  PROVE  Sound(m)
<1>1. Cardinality(DOMAIN m.gaps) = 0
  BY FS_EmptySet
<1>2. 0 <= MaxGaps
  BY LedgerAssumption
<1> QED BY <1>1, <1>2 DEF Sound, GapsWait, Latched, WithinLimit, Anchored, PageBelow

LEMMA ClearedEmpty ==
  ASSUME NEW l \in LedgerType, NEW source \in Sources \cup {None, Unknown}
  PROVE  LET m == Cleared(l, source) IN
         /\ m \in LedgerType /\ m.source = source
         /\ DOMAIN m.bySeq = {} /\ DOMAIN m.gaps = {} /\ m.latched = FALSE
         /\ m.active = l.active /\ m.cap = l.cap /\ m.status = l.status /\ m.failed = l.failed
<1> USE NothingHeld
<1> HIDE DEF Nothing
<1> QED BY DEF Cleared, LedgerType

LEMMA FaultSound ==
  ASSUME NEW l \in LedgerType
  PROVE  LET m == Fault(l).ledger IN
         /\ Sound(m) /\ DOMAIN m.bySeq = {} /\ m.active = None /\ m.status = "cold"
<1> DEFINE c == Cleared(l, l.source)
           m == [c EXCEPT !.active = None, !.status = "cold"]
<1>1. l.source \in Sources \cup {None, Unknown}
  BY DEF LedgerType
<1>2. c \in LedgerType /\ DOMAIN c.bySeq = {} /\ DOMAIN c.gaps = {} /\ c.latched = FALSE
  BY <1>1, ClearedEmpty
<1>3. Fault(l).ledger = m
  BY DEF Fault, Admission
<1> HIDE DEF c
<1>4. /\ m \in LedgerType /\ DOMAIN m.bySeq = {} /\ DOMAIN m.gaps = {} /\ m.latched = FALSE
      /\ m.active = None /\ m.status = "cold"
  BY <1>2 DEF LedgerType
<1> HIDE DEF m
<1>5. Sound(m)
  BY <1>4, EmptySound DEF OwnRequest
<1> QED BY <1>3, <1>4, <1>5

\* A trim of what was admitted.
LEMMA TrimContinues ==
  ASSUME NEW l \in LedgerType, NEW m, Extends(l, m), OwnRequest(l), PageBelow(l),
         GapsWait(m), Latched(m), WithinLimit(m), Anchored(m)
  PROVE  LET t == TrimRetained(m) IN Sound(t) /\ Continues(l, t)
<1> DEFINE t == TrimRetained(m)
           D == DOMAIN m.bySeq
           K == DOMAIN t.bySeq
<1>1. m \in LedgerType /\ m.active = l.active /\ m.source = l.source /\ m.cap = l.cap
  BY DEF Extends, LedgerType
<1>2. /\ t \in LedgerType /\ t = [m EXCEPT !.bySeq = t.bySeq]
      /\ K = Kept(D, m.cap) /\ Cursor(t) = Cursor(m) /\ (K = {} <=> D = {})
  BY <1>1, TrimKeepsNewest
<1> HIDE DEF t
<1>3. /\ t.gaps = m.gaps /\ t.latched = m.latched /\ t.active = l.active /\ t.source = l.source
  BY <1>1, <1>2 DEF LedgerType
<1>4. /\ Cursor(l) \in 0..Top /\ Cursor(m) \in 0..Top /\ Cursor(l) <= Cursor(m)
      /\ DOMAIN l.bySeq # {} => D # {}
  BY <1>1, CursorOf DEF Extends
<1>5. OwnRequest(t)
  BY <1>3 DEF OwnRequest
<1>6. PageBelow(t)
  <2> SUFFICES ASSUME t.active # None, t.active.kind = "older"
               PROVE  K # {} /\ t.active.from \in Seqs /\ t.active.from <= Cursor(t)
    BY DEF PageBelow
  <2>1. DOMAIN l.bySeq # {} /\ l.active.from \in Seqs /\ l.active.from <= Cursor(l)
    BY <1>3 DEF PageBelow
  <2>2. t.active.from <= Cursor(t)
    BY <1>2, <1>3, <1>4, <2>1, SeqsAreNumbers, CallsAssumption
  <2> QED BY <1>2, <1>3, <1>4, <2>1, <2>2
<1>7. Sound(t)
  BY <1>2, <1>3, <1>5, <1>6 DEF Sound, GapsWait, Latched, WithinLimit, Anchored
<1>8. Continues(l, t)
  <2> SUFFICES ASSUME DOMAIN l.bySeq # {}, NEW s \in Cursor(l)..Cursor(t), s \notin K
               PROVE  s < MinSeq(t) /\ Cardinality(K) = l.cap
    <3>1. Cursor(t) >= Cursor(l)
      BY <1>2, <1>4, CallsAssumption
    <3> QED BY <3>1 DEF Continues
  <2>1. s \in D
    BY <1>2 DEF Extends
  <2>2. D \in SUBSET Seqs /\ m.cap \in Nat \ {0}
    BY <1>1, CursorOf, CallsAssumption DEF LedgerType
  <2>3. Cardinality(K) = m.cap /\ \A k \in K : s < k
    <3> HIDE DEF D, K
    <3> QED BY <1>2, <2>1, <2>2, KeptNewest
  <2>4. K # {} /\ K \in SUBSET Seqs
    BY <1>2, <2>1, CursorOf
  <2>5. MinSeq(t) \in K
    <3>1. K \in SUBSET Nat
      BY <2>4, SeqsAreNumbers
    <3>2. Min(K) \in K
      BY <2>4, <3>1, MinIsLeast
    <3> QED BY <2>4, <3>2 DEF MinSeq
  <2> QED BY <1>1, <2>3, <2>5
<1> QED BY <1>7, <1>8 DEF t

-----------------------------------------------------------------------------
(* Older pages. *)

\* A contiguous run counts up from its first event.
LEMMA ContiguousRun ==
  ASSUME NEW es \in Seq(Events), es # <<>>, Contiguous(es)
  PROVE  /\ \A i \in DOMAIN es : es[i].seq = es[1].seq + i - 1
         /\ SeqsOf(es) = es[1].seq..es[Len(es)].seq
<1> DEFINE n == Len(es)
           first == es[1].seq
           T == {0} \cup {i \in 1..n : es[i].seq = first + i - 1}
<1>1. n \in Nat /\ n >= 1 /\ DOMAIN es = 1..n /\ \A i \in 1..n : es[i].seq \in Nat
  <2>1. \A i \in DOMAIN es : es[i] \in Events
    OBVIOUS
  <2> QED BY <2>1, SeqsAreNumbers DEF Events
<1>2. 0 \in T
  OBVIOUS
<1>3. ASSUME NEW i \in 0..(n - 1), i \in T PROVE i + 1 \in T
  <2>1. CASE i = 0
    <3>1. 1 \in 1..n /\ first + 1 - 1 = first
      BY <1>1
    <3> QED BY <2>1, <3>1
  <2>2. CASE i # 0
    <3>1. es[i].seq = first + i - 1 /\ es[i + 1].seq = es[i].seq + 1
      BY <1>1, <1>3, <2>2 DEF Contiguous
    <3>2. es[i + 1].seq = first + (i + 1) - 1 /\ i + 1 \in 1..n
      BY <1>1, <2>2, <3>1
    <3> QED BY <3>2
  <2> QED BY <2>1, <2>2
<1>4. 0..n \subseteq T
  <2> HIDE DEF T, n
  <2> QED BY <1>1, <1>2, <1>3, UpTo
<1>5. \A i \in 1..n : es[i].seq = first + i - 1
  BY <1>4
<1>6. es[n].seq = first + n - 1
  BY <1>1, <1>5
<1>7. ASSUME NEW s \in first..es[n].seq PROVE s \in SeqsOf(es)
  <2>1. s - first + 1 \in 1..n
    BY <1>1, <1>6
  <2>2. es[s - first + 1].seq = s
    BY <1>1, <1>5, <2>1
  <2> QED BY <1>1, <2>1, <2>2 DEF SeqsOf
<1>8. ASSUME NEW s \in SeqsOf(es) PROVE s \in first..es[n].seq
  <2>1. PICK i \in 1..n : s = es[i].seq
    BY <1>1 DEF SeqsOf
  <2> QED BY <1>1, <1>5, <1>6, <2>1
<1> QED BY <1>1, <1>5, <1>7, <1>8

Frames == [id : {1}, kind : Kinds, gen : Sources, events : Seq(Events), last : BOOLEAN]

\* A page adds events below the boundary it was asked for, which is not above
\* the cursor; its terminal ends at that boundary.
LEMMA OlderSound ==
  ASSUME NEW l, Sound(l), NEW f \in Frames, l.active # None, l.active.kind = "older",
         FitsOlder(l, f)
  PROVE  LET m == WithOlder(l, f).ledger IN
         /\ Sound(m) /\ Continues(l, m)
         /\ m.active = l.active /\ m.cap = l.cap /\ m.source = l.source
         /\ m.gaps = l.gaps
         /\ l.older # None /\ m.older # None => (l.older + 1)..m.older \subseteq DOMAIN m.bySeq
         /\ f.last /\ l.older # None
              => (l.older + 1)..(l.active.from - 1) \subseteq DOMAIN m.bySeq
         /\ \A s \in DOMAIN m.bySeq \ DOMAIN l.bySeq :
              f.last => s..(l.active.from - 1) \subseteq DOMAIN m.bySeq
<1> DEFINE es == f.events
           m == WithOlder(l, f).ledger
           g == PutAll(l.bySeq, es)
           at == IF es = <<>> THEN l.older ELSE es[Len(es)].seq
           D == DOMAIN l.bySeq
           from == l.active.from
<1>1. /\ l \in LedgerType /\ l.bySeq \in Held /\ D \in SUBSET Seqs /\ es \in Seq(Events)
      /\ l.older \in Seqs \cup {None} /\ f.last \in BOOLEAN
      /\ Cursor(l) = Newest(D) /\ Cursor(l) \in 0..Top
  BY CursorOf DEF Sound, LedgerType, Frames
<1>2. D # {} /\ from \in Seqs /\ from <= Cursor(l)
  BY DEF Sound, PageBelow
<1>3. /\ es # <<>> => /\ Contiguous(es) /\ es[Len(es)].seq < from
                      /\ l.older = None \/ es[1].seq = l.older + 1
      /\ f.last => at = from - 1
  BY DEF FitsOlder
<1>4. es # <<>> => es[Len(es)] \in Events
  BY <1>1
<1>5. at \in Seqs \cup {None}
  BY <1>1, <1>4 DEF Events
<1>6. m = [l EXCEPT !.bySeq = g, !.older = at]
  BY <1>1 DEF WithOlder, Admission, LedgerType
<1> HIDE DEF m, g, at
<1>7. g \in Held /\ DOMAIN g = D \cup SeqsOf(es) /\ SeqsOf(es) \in SUBSET Seqs
  BY <1>1, PutAllHeld DEF g
<1>8. /\ m \in LedgerType /\ m.bySeq = g
      /\ m.gaps = l.gaps /\ m.latched = l.latched /\ m.active = l.active
      /\ m.cap = l.cap /\ m.source = l.source /\ m.older = at
  BY <1>1, <1>5, <1>6, <1>7 DEF LedgerType
<1>9. ASSUME es # <<>> PROVE SeqsOf(es) = es[1].seq..es[Len(es)].seq
  BY <1>1, <1>3, <1>9, ContiguousRun
<1>10. \A s \in SeqsOf(es) : s < from
  <2>1. CASE es = <<>>
    BY <2>1 DEF SeqsOf
  <2>2. CASE es # <<>>
    <3>1. es[Len(es)].seq \in Nat /\ es[1].seq \in Nat
      <4>1. es[1] \in Events
        BY <1>1, <2>2
      <4> QED BY <1>4, <2>2, <4>1, SeqsAreNumbers DEF Events
    <3>2. \A s \in es[1].seq..es[Len(es)].seq : s < from
      BY <1>2, <1>3, <2>2, <3>1, SeqsAreNumbers
    <3> QED BY <1>9, <2>2, <3>2
  <2> QED BY <2>1, <2>2
<1>11. Cursor(m) = Cursor(l)
  <2>1. Newest(D) \in D /\ \A s \in D : s <= Newest(D)
    BY <1>1, <1>2, NewestOf
  <2>2. \A s \in SeqsOf(es) : s <= Newest(D)
    BY <1>1, <1>2, <1>7, <1>10, SeqsAreNumbers, CallsAssumption
  <2>3. D \cup SeqsOf(es) \in SUBSET Seqs /\ Newest(D) \in D \cup SeqsOf(es)
    BY <1>1, <1>7, <2>1
  <2> HIDE DEF D
  <2>4. Newest(D \cup SeqsOf(es)) = Newest(D)
    BY <2>1, <2>2, <2>3, NewestIs
  <2> QED BY <1>1, <1>7, <1>8, <2>4, CursorOf
<1>12. Sound(m)
  <2>1. DOMAIN m.bySeq # {}
    BY <1>2, <1>7, <1>8
  <2> QED BY <1>2, <1>8, <1>11, <2>1
       DEF Sound, GapsWait, Latched, WithinLimit, Anchored, OwnRequest, PageBelow
<1>13. Continues(l, m)
  <2>1. Cursor(l)..Cursor(l) = {Cursor(l)} /\ Cursor(l) >= Cursor(l)
    BY <1>1, CallsAssumption
  <2>2. Cursor(l) \in D
    BY <1>1, <1>2, NewestOf
  <2> QED BY <1>7, <1>8, <1>11, <2>1, <2>2 DEF Continues
<1>14. ASSUME NEW s \in DOMAIN m.bySeq \ D, f.last
       PROVE  s..(from - 1) \subseteq DOMAIN m.bySeq
  <2>1. s \in SeqsOf(es) /\ es # <<>>
    BY <1>7, <1>8, <1>14 DEF SeqsOf
  <2>2. es[Len(es)].seq = from - 1
    BY <1>3, <1>14, <2>1 DEF at
  <2>3. s \in es[1].seq..(from - 1)
    BY <1>9, <2>1, <2>2
  <2>4. \A t \in s..(from - 1) : t \in es[1].seq..(from - 1)
    <3>1. es[1] \in Events
      BY <1>1, <2>1
    <3> QED BY <1>2, <2>3, <3>1, SeqsAreNumbers DEF Events
  <2> QED BY <1>7, <1>8, <1>9, <2>1, <2>2, <2>4
<1>15. ASSUME l.older # None, m.older # None
       PROVE  (l.older + 1)..m.older \subseteq DOMAIN m.bySeq
  <2>1. CASE es = <<>>
    <3>1. m.older = l.older /\ l.older \in Nat
      BY <1>1, <1>8, <1>15, <2>1, SeqsAreNumbers DEF at
    <3> QED BY <3>1
  <2>2. CASE es # <<>>
    <3>1. m.older = es[Len(es)].seq /\ es[1].seq = l.older + 1
      BY <1>3, <1>8, <1>15, <2>2 DEF at
    <3> QED BY <1>7, <1>8, <1>9, <2>2, <3>1
  <2> QED BY <2>1, <2>2
<1>16. ASSUME f.last, l.older # None
       PROVE  (l.older + 1)..(from - 1) \subseteq DOMAIN m.bySeq
  <2>1. l.older \in Nat /\ at = from - 1
    BY <1>1, <1>3, <1>16, SeqsAreNumbers
  <2>2. CASE es = <<>>
    <3>1. l.older = from - 1
      BY <2>1, <2>2 DEF at
    <3> QED BY <2>1, <3>1
  <2>3. CASE es # <<>>
    <3>1. from - 1 = es[Len(es)].seq /\ es[1].seq = l.older + 1
      BY <1>3, <1>16, <2>1, <2>3 DEF at
    <3> QED BY <1>7, <1>8, <1>9, <2>3, <3>1
  <2> QED BY <2>2, <2>3
<1> QED BY <1>8, <1>12, <1>13, <1>14, <1>15, <1>16 DEF m

-----------------------------------------------------------------------------
(* Frames and live events. *)

IsAdmission(a) ==
  a = [ledger |-> a.ledger, accepted |-> a.accepted, stale |-> a.stale, reset |-> a.reset,
       repair |-> a.repair, rebuild |-> a.rebuild, evicted |-> a.evicted]

LEMMA ContinuesByEvents ==
  ASSUME NEW l, NEW m, NEW n, Continues(l, m), n.bySeq = m.bySeq
  PROVE  Continues(l, n)
<1>1. Cursor(n) = Cursor(m) /\ MinSeq(n) = MinSeq(m)
  BY DEF Cursor, MinSeq
<1> QED BY <1>1 DEF Continues

\* The terminal of a frame that was admitted.
LEMMA CompletedSound ==
  ASSUME NEW l \in LedgerType, NEW a, IsAdmission(a), Sound(a.ledger), Continues(l, a.ledger),
         NEW f \in Frames
  PROVE  LET m == Completed(a, f).ledger IN
         /\ Sound(m) /\ Continues(l, m)
         /\ ~f.last => m = a.ledger
         /\ \/ m.bySeq = a.ledger.bySeq /\ m.older = a.ledger.older
            \/ m.status = "cold" /\ m.active = None
         /\ f.last => m.active = None
<1> DEFINE m == Completed(a, f).ledger
           done == [a.ledger EXCEPT !.active = None, !.status = "ready", !.failed = @ \ {f.kind}]
<1>1. a.ledger \in LedgerType /\ f.kind \in Kinds
  BY DEF Sound, Frames
<1>2. CASE ~f.last
  BY <1>2 DEF Completed
<1>3. CASE f.last /\ f.kind = "delta" /\ DOMAIN a.ledger.gaps # {}
  <2>1. Completed(a, f) = Fault(a.ledger)
    BY <1>3 DEF Completed
  <2>2. Sound(m) /\ DOMAIN m.bySeq = {} /\ m.status = "cold" /\ m.active = None
    BY <1>1, <2>1, FaultSound
  <2> QED BY <1>3, <2>2 DEF Continues
<1>4. CASE f.last /\ ~(f.kind = "delta" /\ DOMAIN a.ledger.gaps # {})
  <2>1. m = done
    <3>1. Completed(a, f) = [a EXCEPT !.ledger.active = None, !.ledger.status = "ready",
                                      !.ledger.failed = @ \ {f.kind}, !.rebuild = f.kind = "older"]
      BY <1>4 DEF Completed
    <3>2. a = [ledger |-> a.ledger, accepted |-> a.accepted, stale |-> a.stale, reset |-> a.reset,
               repair |-> a.repair, rebuild |-> a.rebuild, evicted |-> a.evicted]
      BY DEF IsAdmission
    <3> QED BY <1>1, <3>1, <3>2 DEF LedgerType
  <2> HIDE DEF m
  <2>2. /\ m \in LedgerType /\ m.bySeq = a.ledger.bySeq /\ m.gaps = a.ledger.gaps
        /\ m.latched = a.ledger.latched /\ m.active = None /\ m.older = a.ledger.older
    BY <1>1, <2>1 DEF LedgerType
  <2>3. Sound(m)
    BY <2>2, SameEventsSound DEF OwnRequest, PageBelow
  <2>4. Continues(l, m)
    BY <2>2, ContinuesByEvents
  <2> QED BY <1>4, <2>2, <2>3, <2>4 DEF m
<1> QED BY <1>2, <1>3, <1>4

\* The step PageJoins allows, of ledgers l and m.
Joins(l, m) ==
  l.active # None /\ l.active.kind = "older" =>
    /\ m.active = l.active /\ None \notin {l.older, m.older}
         => (l.older + 1)..m.older \subseteq DOMAIN m.bySeq
    /\ m.active = None /\ m.status = "ready"
         => \A s \in (DOMAIN m.bySeq \ DOMAIN l.bySeq)
                       \cup (IF l.older = None THEN {} ELSE {l.older + 1}) :
              s..(l.active.from - 1) \subseteq DOMAIN m.bySeq

\* A call that neither receives a page's frame nor completes one.
LEMMA NoPageJoins ==
  ASSUME NEW l \in LedgerType, NEW m,
         l.active # None => /\ m.older \in {None, l.older} \/ m.active # l.active
                            /\ m.active # None \/ m.status # "ready"
  PROVE  Joins(l, m)
<1>1. ASSUME None \notin {l.older, m.older}, m.older = l.older
      PROVE  (l.older + 1)..m.older = {}
  <2>1. l.older \in Nat
    BY <1>1, SeqsAreNumbers DEF LedgerType
  <2> QED BY <1>1, <2>1
<1> QED BY <1>1 DEF Joins

\* An admitted cold or delta frame, which is trimmed.
LEMMA ForwardSound ==
  ASSUME NEW l, Sound(l), NEW es \in Seq(Events)
  PROVE  LET m == DrainGaps(Forward(l, es).ledger).ledger IN
         Sound(TrimRetained(m)) /\ Continues(l, TrimRetained(m))
<1> DEFINE w == Forward(l, es).ledger
           m == DrainGaps(w).ledger
<1>1. l \in LedgerType /\ OwnRequest(l) /\ PageBelow(l) /\ Latched(l) /\ WithinLimit(l) /\ Anchored(l)
  BY DEF Sound
<1>2. Extends(l, w) /\ w.gaps = l.gaps /\ w.latched = l.latched
  BY <1>1, ForwardExtends
<1> HIDE DEF w
<1>3. w \in LedgerType /\ Latched(w) /\ WithinLimit(w)
  BY <1>1, <1>2 DEF Extends, Latched, WithinLimit
<1>4. /\ Extends(w, m) /\ GapsWait(m) /\ Latched(m) /\ WithinLimit(m)
      /\ DOMAIN m.gaps \subseteq DOMAIN w.gaps
  BY <1>3, DrainExtends
<1> HIDE DEF m
<1>5. Extends(l, m)
  BY <1>1, <1>2, <1>4, ExtendsTwice
<1>6. Anchored(m)
  BY <1>1, <1>2, <1>4, <1>5 DEF Anchored, Extends
<1>7. Sound(TrimRetained(m)) /\ Continues(l, TrimRetained(m))
  BY <1>1, <1>4, <1>5, <1>6, TrimContinues
<1> QED BY <1>7 DEF m, w

\* An admitted cold frame that is a baseline.
LEMMA BaselineSound ==
  ASSUME NEW l, Sound(l), NEW es \in Seq(Events), l.active # None, l.active.kind = "cold",
         DOMAIN l.bySeq = {}, es # <<>>
  PROVE  LET m == [l EXCEPT !.bySeq = PutAll(Nothing, es)] IN Sound(TrimRetained(m))
<1> DEFINE g == PutAll(Nothing, es)
           m == [l EXCEPT !.bySeq = g]
           t == TrimRetained(m)
<1>1. /\ l \in LedgerType /\ OwnRequest(l) /\ Latched(l)
      /\ DOMAIN l.gaps = {} /\ DOMAIN l.gaps \in SUBSET Seqs
  BY CursorOf DEF Sound, Anchored
<1>2. g \in Held /\ DOMAIN g = SeqsOf(es) /\ SeqsOf(es) # {}
  <2>1. g \in Held /\ DOMAIN g = {} \cup SeqsOf(es)
    BY NothingHeld, PutAllHeld
  <2>2. es[1].seq \in SeqsOf(es)
    BY DEF SeqsOf
  <2> QED BY <2>1, <2>2
<1> HIDE DEF g
<1>3. /\ m \in LedgerType /\ m.bySeq = g /\ m.gaps = l.gaps /\ m.latched = l.latched
      /\ m.active = l.active /\ m.source = l.source
  BY <1>1, <1>2 DEF LedgerType
<1> HIDE DEF m
<1>4. t \in LedgerType /\ t = [m EXCEPT !.bySeq = t.bySeq] /\ DOMAIN t.bySeq # {}
  BY <1>2, <1>3, TrimKeepsNewest
<1> HIDE DEF t
<1>5. t.gaps = l.gaps /\ t.latched = l.latched /\ t.active = l.active /\ t.source = l.source
  BY <1>3, <1>4 DEF LedgerType
<1>6. OwnRequest(t) /\ PageBelow(t)
  BY <1>1, <1>5 DEF OwnRequest, PageBelow
<1>7. GapsWait(t) /\ Latched(t) /\ WithinLimit(t) /\ Anchored(t)
  BY <1>1, <1>5 DEF Sound, GapsWait, Latched, WithinLimit, Anchored
<1> QED BY <1>4, <1>6, <1>7 DEF Sound, t, m, g

LEMMA NoneIsNoRequest ==
  ASSUME NEW r \in Requests, NEW source \in Sources
  PROVE  LET q == [r EXCEPT !.source = source] IN q \in Requests /\ q # None
<1> DEFINE q == [r EXCEPT !.source = source]
<1>1. q \in Requests
  BY DEF Requests
<1> QED BY <1>1, CallsAssumption

LEMMA AdmissionOf ==
  ASSUME NEW m, NEW accepted
  PROVE  LET a == [Admission(m) EXCEPT !.accepted = accepted] IN IsAdmission(a) /\ a.reset = FALSE
<1> DEFINE a == [Admission(m) EXCEPT !.accepted = accepted]
<1>1. a = [ledger |-> m, accepted |-> accepted, stale |-> FALSE, reset |-> FALSE,
           repair |-> FALSE, rebuild |-> FALSE, evicted |-> FALSE]
  <2> DEFINE b == Admission(m)
  <2>1. b = [ledger |-> m, accepted |-> <<>>, stale |-> FALSE, reset |-> FALSE,
             repair |-> FALSE, rebuild |-> FALSE, evicted |-> FALSE]
    BY DEF Admission
  <2> HIDE DEF b
  <2>2. a = [b EXCEPT !.accepted = accepted]
    BY DEF b
  <2> HIDE DEF a
  <2> QED BY <2>1, <2>2
<1> HIDE DEF a
<1>2. IsAdmission(a) /\ a.reset = FALSE
  BY <1>1 DEF IsAdmission
<1> QED BY <1>2 DEF a

\* What TrimUnlessOlder makes of an admission of a cold or delta frame.
LEMMA TrimmedAdmission ==
  ASSUME NEW m, NEW accepted, NEW kind, kind # "older"
  PROVE  LET a == TrimUnlessOlder([Admission(m) EXCEPT !.accepted = accepted], kind) IN
         IsAdmission(a) /\ a.ledger = TrimRetained(m)
BY DEF TrimUnlessOlder, Admission, IsAdmission

LEMMA AdmitSound ==
  ASSUME NEW l, Sound(l), NEW f \in Frames, l.active # None
  PROVE  LET m == Admit(l, f).ledger IN Sound(m) /\ Continues(l, m) /\ Joins(l, m)
<1> DEFINE m  == Admit(l, f).ledger
           l0 == [l EXCEPT !.source = f.gen, !.active.source = f.gen]
           es == f.events
           a  == Admitted(l0, f)
           baseline == f.kind = "cold" /\ DOMAIN l0.bySeq = {} /\ es # <<>>
           forward  == Forward(l0, es)
           filled   == DrainGaps(forward.ledger)
           faulty == \/ ~Ascending(es)
                     \/ baseline /\ ~Contiguous(es)
                     \/ f.kind = "older" /\ ~FitsOlder(l0, f)
                     \/ ~baseline /\ f.kind # "older" /\ forward.fault
<1>1. l \in LedgerType /\ l.active \in Requests
  BY DEF Sound, LedgerType
<1>2. f.gen \in Sources /\ f.kind \in Kinds /\ es \in Seq(Events)
  BY DEF Frames
<1>3. /\ l0 \in LedgerType /\ l0.bySeq = l.bySeq /\ l0.gaps = l.gaps /\ l0.latched = l.latched
      /\ l0.source = f.gen /\ l0.active = [l.active EXCEPT !.source = f.gen] /\ l0.cap = l.cap
  BY <1>1, <1>2 DEF LedgerType, Requests
<1>4. /\ l0.active.source = f.gen /\ l0.active.kind = l.active.kind
      /\ l0.active.from = l.active.from /\ l0.older = l.older
  BY <1>1, <1>3 DEF Requests
<1>a. l0.active # None
  BY <1>1, <1>2, <1>3, NoneIsNoRequest
<1>5. CASE ~Addressed(l, f)
  <2>1. m = l
    BY <1>5 DEF Admit, Stale, Admission
  <2>2. Continues(l, l)
    BY <1>1, SameEventsContinue
  <2> HIDE DEF m
  <2>3. Joins(l, m)
    BY <1>1, <2>1, NoPageJoins
  <2> QED BY <2>1, <2>2, <2>3 DEF m
<1>6. CASE Addressed(l, f)
  <2>1. m = (IF a.reset THEN a ELSE Completed(TrimUnlessOlder(a, f.kind), f)).ledger
    BY <1>6 DEF Admit
  <2>2. f.kind = l.active.kind
    BY <1>6 DEF Addressed
  <2> DEFINE old == WithOlder(l0, f)
             whole == [Admission([l0 EXCEPT !.bySeq = PutAll(Nothing, es)]) EXCEPT !.accepted = es]
             more == [Admission(filled.ledger) EXCEPT !.accepted = forward.accepted \o filled.drained]
  <2>3. a = IF faulty THEN Fault(l0) ELSE IF f.kind = "older" THEN old
            ELSE IF baseline THEN whole ELSE more
    BY DEF Admitted
  <2> HIDE DEF l0, a, m, old, whole, more, filled, forward
  <2>4. Sound(l0)
    <3>1. Cursor(l0) = Cursor(l)
      BY <1>3 DEF Cursor
    <3>2. OwnRequest(l0) /\ PageBelow(l0)
      BY <1>3, <1>4, <3>1 DEF Sound, OwnRequest, PageBelow
    <3> QED BY <1>3, <3>2, SameEventsSound
  <2>5. ASSUME NEW x, Continues(l0, x) PROVE Continues(l, x)
    <3>1. Cursor(l0) = Cursor(l)
      BY <1>3 DEF Cursor
    <3> QED BY <1>3, <2>5, <3>1 DEF Continues
  <2>6. CASE faulty
    <3>1. a = Fault(l0)
      BY <2>3, <2>6
    <3>2. a.reset = TRUE
      BY <3>1 DEF Fault, Admission
    <3>3. m = Fault(l0).ledger
      BY <2>1, <3>1, <3>2
    <3>4. Sound(m) /\ DOMAIN m.bySeq = {} /\ m.status = "cold" /\ m.active = None
      BY <1>3, <3>3, FaultSound
    <3>5. Joins(l, m)
      BY <1>1, <3>4, NoPageJoins
    <3> QED BY <3>4, <3>5 DEF Continues, m
  <2>7. CASE ~faulty /\ f.kind = "older"
    <3>1. a = old /\ FitsOlder(l0, f)
      BY <2>3, <2>7
    <3>2. IsAdmission(old) /\ old.reset = FALSE
      <4> DEFINE new == SelectSeq(es, LAMBDA e : e.seq \notin DOMAIN l0.bySeq)
                 x == [l0 EXCEPT !.bySeq = PutAll(@, es),
                                 !.older = IF es = <<>> THEN @ ELSE es[Len(es)].seq]
      <4>1. old = [Admission(x) EXCEPT !.accepted = new]
        BY DEF old, WithOlder
      <4> HIDE DEF new, x, old
      <4> QED BY <4>1, AdmissionOf
    <3>3. TrimUnlessOlder(old, f.kind) = old
      BY <2>7 DEF TrimUnlessOlder
    <3>4. m = Completed(old, f).ledger
      BY <2>1, <3>1, <3>2, <3>3
    <3>5. l0.active # None /\ l0.active.kind = "older"
      BY <1>4, <1>a, <2>2, <2>7
    <3>6. /\ Sound(old.ledger) /\ Continues(l0, old.ledger)
          /\ old.ledger.active = l0.active
          /\ l0.older # None /\ old.ledger.older # None
               => (l0.older + 1)..old.ledger.older \subseteq DOMAIN old.ledger.bySeq
          /\ f.last /\ l0.older # None
               => (l0.older + 1)..(l0.active.from - 1) \subseteq DOMAIN old.ledger.bySeq
          /\ \A s \in DOMAIN old.ledger.bySeq \ DOMAIN l0.bySeq :
               f.last => s..(l0.active.from - 1) \subseteq DOMAIN old.ledger.bySeq
      BY <2>4, <3>1, <3>5, OlderSound DEF old
    <3>7. /\ Sound(m) /\ Continues(l0, m)
          /\ ~f.last => m = old.ledger
          /\ \/ m.bySeq = old.ledger.bySeq /\ m.older = old.ledger.older
             \/ m.status = "cold" /\ m.active = None
          /\ f.last => m.active = None
      BY <1>3, <3>2, <3>4, <3>6, CompletedSound
    <3>8. Joins(l, m)
      <4> SUFFICES ASSUME l.active # None, m.older # None \/ m.active = None
                   PROVE  Joins(l, m)
        BY DEF Joins
      <4>1. CASE ~f.last
        <5>1. /\ m = old.ledger /\ m.active # None
              /\ l.older # None /\ m.older # None
                   => (l.older + 1)..m.older \subseteq DOMAIN m.bySeq
          BY <1>4, <1>a, <3>6, <3>7, <4>1
        <5> QED BY <5>1 DEF Joins
      <4>2. CASE f.last /\ m.status = "cold" /\ m.active = None
        BY <1>1, <4>2, NoPageJoins
      <4>3. CASE f.last /\ m.bySeq = old.ledger.bySeq /\ m.older = old.ledger.older
        <5> DEFINE from == l.active.from
        <5>1. /\ m.active = None
              /\ \A s \in DOMAIN m.bySeq \ DOMAIN l.bySeq : s..(from - 1) \subseteq DOMAIN m.bySeq
              /\ l.older # None => (l.older + 1)..(from - 1) \subseteq DOMAIN m.bySeq
          BY <1>3, <1>4, <3>6, <3>7, <4>3
        <5> HIDE DEF from
        <5> QED BY <1>a, <5>1 DEF Joins, from
      <4> QED BY <3>7, <4>1, <4>2, <4>3
    <3> QED BY <2>5, <3>7, <3>8 DEF m
  <2>8. CASE ~faulty /\ f.kind # "older" /\ baseline
    <3>1. a = whole
      BY <2>3, <2>8
    <3>2. whole.reset = FALSE
      BY DEF whole, Admission
    <3> DEFINE b == TrimUnlessOlder(whole, f.kind)
               x == [l0 EXCEPT !.bySeq = PutAll(Nothing, es)]
    <3>3. IsAdmission(b) /\ b.ledger = TrimRetained(x)
      BY <2>8, TrimmedAdmission DEF whole
    <3>4. m = Completed(b, f).ledger
      BY <2>1, <3>1, <3>2
    <3>5. l0.active # None /\ l0.active.kind = "cold"
      BY <1>4, <1>a, <2>2, <2>8
    <3>6. Sound(TrimRetained(x))
      BY <1>2, <2>4, <2>8, <3>5, BaselineSound
    <3>7. Continues(l, TrimRetained(x))
      BY <1>3, <2>8 DEF Continues
    <3> HIDE DEF b, x
    <3>8. Sound(m) /\ Continues(l, m)
      BY <1>1, <3>3, <3>4, <3>6, <3>7, CompletedSound
    <3>9. Joins(l, m)
      BY <2>2, <2>8 DEF Joins
    <3> QED BY <3>8, <3>9 DEF m
  <2>9. CASE ~faulty /\ f.kind # "older" /\ ~baseline
    <3>1. a = more
      BY <2>3, <2>9
    <3>2. more.reset = FALSE
      BY DEF more, Admission
    <3> DEFINE b == TrimUnlessOlder(more, f.kind)
               x == filled.ledger
    <3>3. IsAdmission(b) /\ b.ledger = TrimRetained(x)
      BY <2>9, TrimmedAdmission DEF more
    <3>4. m = Completed(b, f).ledger
      BY <2>1, <3>1, <3>2
    <3>5. Sound(TrimRetained(x)) /\ Continues(l0, TrimRetained(x))
      BY <1>2, <2>4, ForwardSound DEF filled, forward
    <3> HIDE DEF b, x
    <3>6. Sound(m) /\ Continues(l0, m)
      BY <1>3, <3>3, <3>4, <3>5, CompletedSound
    <3>7. Joins(l, m)
      BY <2>2, <2>9 DEF Joins
    <3> QED BY <2>5, <3>6, <3>7 DEF m
  <2> HIDE DEF faulty, baseline
  <2> QED BY <2>6, <2>7, <2>8, <2>9
<1> QED BY <1>5, <1>6

LEMMA AdmitLiveSound ==
  ASSUME NEW l, Sound(l), NEW e \in Events
  PROVE  LET m == AdmitLive(l, e).ledger IN Sound(m) /\ Continues(l, m) /\ Joins(l, m)
<1> DEFINE m == AdmitLive(l, e).ledger
           v == Verdict(l, e)
           w == Take(l, e)
           d == DrainGaps(w)
           g == [l EXCEPT !.gaps = Put(@, e), !.latched = TRUE]
           stale == l.source = None \/ l.status = "retry"
           over == Cardinality(DOMAIN g.gaps) > MaxGaps
           taken == TrimUnlessOlder([Admission(d.ledger) EXCEPT !.accepted = <<e>> \o d.drained], "live")
<1>1. l \in LedgerType /\ v \in {"duplicate", "conflict", "accepted", "gap"}
  BY VerdictOf DEF Sound
<1>2. CASE stale \/ v = "duplicate"
  <2>1. m = l
    BY <1>2 DEF AdmitLive, Stale, Admission
  <2>2. Continues(l, l)
    BY <1>1, SameEventsContinue
  <2> HIDE DEF m
  <2>3. Joins(l, m)
    BY <1>1, <2>1, NoPageJoins
  <2> QED BY <2>1, <2>2, <2>3 DEF m
<1>3. CASE ~stale /\ (v = "conflict" \/ (v = "gap" /\ over))
  <2>1. m = Fault(l).ledger
    BY <1>3 DEF AdmitLive
  <2> HIDE DEF m
  <2>2. Sound(m) /\ DOMAIN m.bySeq = {} /\ m.status = "cold" /\ m.active = None
    BY <1>1, <2>1, FaultSound
  <2>3. Joins(l, m)
    BY <1>1, <2>2, NoPageJoins
  <2> QED BY <2>2, <2>3 DEF Continues, m
<1>4. CASE ~stale /\ v = "accepted"
  <2>1. Cursor(l) \in {0, e.seq - 1}
    BY <1>4, VerdictOf
  <2>2. AdmitLive(l, e) = taken
    BY <1>4 DEF AdmitLive
  <2>3. m = TrimRetained(d.ledger)
    <3>1. taken.ledger = TrimRetained(d.ledger)
      <4> HIDE DEF d
      <4> QED BY TrimmedAdmission
    <3> QED BY <2>2, <3>1
  <2>4. Extends(l, w) /\ w.gaps = l.gaps /\ w.latched = l.latched /\ DOMAIN w.bySeq # {}
    BY <1>1, <2>1, TakeExtends
  <2> HIDE DEF m, w, v
  <2>5. w \in LedgerType /\ Latched(w) /\ WithinLimit(w)
    BY <2>4 DEF Extends, Sound, Latched, WithinLimit
  <2>6. Extends(w, d.ledger) /\ GapsWait(d.ledger) /\ Latched(d.ledger) /\ WithinLimit(d.ledger)
    BY <2>5, DrainExtends
  <2> HIDE DEF d
  <2>7. Extends(l, d.ledger) /\ Anchored(d.ledger)
    <3>1. Anchored(d.ledger)
      BY <2>4, <2>6 DEF Extends, Anchored
    <3> QED BY <1>1, <2>4, <2>6, <3>1, ExtendsTwice
  <2>8. Sound(m) /\ Continues(l, m)
    BY <1>1, <2>3, <2>6, <2>7, TrimContinues DEF Sound
  <2>9. Joins(l, m)
    <3>1. d.ledger \in LedgerType /\ d.ledger.active = l.active /\ d.ledger.older = l.older
      BY <1>1, <2>7 DEF Extends, LedgerType
    <3>2. m.active = l.active /\ m.older = l.older
      <4>1. m = [d.ledger EXCEPT !.bySeq = m.bySeq]
        BY <2>3, <3>1, TrimKeepsNewest
      <4> QED BY <3>1, <4>1 DEF LedgerType
    <3> QED BY <1>1, <3>2, NoPageJoins
  <2> QED BY <2>8, <2>9 DEF m
<1>5. CASE ~stale /\ v = "gap" /\ ~over
  <2>1. m = g
    BY <1>5 DEF AdmitLive, Admission
  <2>2. Cursor(l) # 0 /\ Cursor(l) # e.seq - 1
    BY <1>5, VerdictOf
  <2>3. /\ l.gaps \in Held /\ Cursor(l) \in Nat /\ e.seq \in Nat
        /\ Cursor(l) = Newest(DOMAIN l.bySeq) /\ DOMAIN l.bySeq \in SUBSET Seqs
    BY <1>1, CursorOf, CallsAssumption, SeqsAreNumbers DEF LedgerType, Events
  <2> DEFINE f == Put(l.gaps, e)
  <2>4. f \in Held /\ DOMAIN f = DOMAIN l.gaps \cup {e.seq}
    BY <2>3, PutHeld
  <2> HIDE DEF f, m
  <2>5. m = [l EXCEPT !.gaps = f, !.latched = TRUE]
    BY <1>1, <2>1 DEF f, LedgerType
  <2>6. /\ m \in LedgerType /\ m.bySeq = l.bySeq /\ m.gaps = f /\ m.latched = TRUE
        /\ m.active = l.active /\ m.source = l.source /\ m.older = l.older
    BY <1>1, <2>4, <2>5 DEF LedgerType
  <2>7. Cursor(m) = Cursor(l)
    BY <2>6 DEF Cursor
  <2>8. GapsWait(m) /\ Latched(m)
    <3>1. Cursor(l) + 1 # e.seq
      BY <2>2, <2>3
    <3>2. Cursor(l) + 1 \notin DOMAIN l.gaps
      BY DEF Sound, GapsWait
    <3> QED BY <2>4, <2>6, <2>7, <3>1, <3>2 DEF GapsWait, Latched
  <2>9. WithinLimit(m)
    <3>1. DOMAIN f \in SUBSET Seqs
      BY <2>4, HeldEvents
    <3>2. Cardinality(DOMAIN f) \in Nat
      BY <3>1, SeqsFinite
    <3>3. ~(Cardinality(DOMAIN f) > MaxGaps)
      BY <1>5, <2>1, <2>6
    <3> QED BY <2>6, <3>2, <3>3, LedgerAssumption DEF WithinLimit
  <2>10. Anchored(m)
    <3>1. DOMAIN l.bySeq # {}
      BY <2>2, <2>3, NewestOf
    <3> QED BY <2>6, <3>1 DEF Anchored
  <2>11. OwnRequest(m) /\ PageBelow(m)
    BY <2>6, <2>7 DEF Sound, OwnRequest, PageBelow
  <2>12. Continues(l, m) /\ Joins(l, m)
    BY <1>1, <2>6, SameEventsContinue, NoPageJoins
  <2> QED BY <2>6, <2>8, <2>9, <2>10, <2>11, <2>12 DEF Sound, m
<1> HIDE DEF v, stale, over, m
<1>6. \/ stale \/ v = "duplicate"
      \/ ~stale /\ (v = "conflict" \/ (v = "gap" /\ over))
      \/ ~stale /\ v = "accepted"
      \/ ~stale /\ v = "gap" /\ ~over
  BY <1>1
<1> QED BY <1>2, <1>3, <1>4, <1>5, <1>6 DEF m

-----------------------------------------------------------------------------
(* The calls. *)

LEMMA InitHolds == Init => IInv
<1> SUFFICES ASSUME Init PROVE Sound(ledger)
  BY DEF IInv
<1> DEFINE c == CHOOSE c \in Caps : \A d \in Caps : c <= d
<1>1. c \in Caps
  <2>1. \E x \in Caps : \A d \in Caps : x <= d
    BY CallsAssumption, LeastNumber
  <2> QED BY <2>1
<1> HIDE DEF c
<1>2. ledger = EmptyLedger(c)
  BY DEF Init, c
<1>3. Nothing \in Held /\ DOMAIN Nothing = {}
  BY NothingHeld
<1> HIDE DEF Nothing
<1>4. /\ ledger \in LedgerType /\ DOMAIN ledger.bySeq = {} /\ DOMAIN ledger.gaps = {}
      /\ ledger.latched = FALSE /\ ledger.active = None
  BY <1>1, <1>2, <1>3 DEF EmptyLedger, LedgerType
<1> QED BY <1>4, EmptySound DEF OwnRequest

\* What a call may do to the ledger.
Allowed(l, m) == Sound(m) /\ Continues(l, m) /\ Joins(l, m)

LEMMA BeginHolds ==
  ASSUME NEW l, Sound(l), NEW r \in Requests,
         r.kind = "older" => DOMAIN l.bySeq # {} /\ r.source = l.source /\ r.from = MinSeq(l)
  PROVE  Allowed(l, BeginRequest(l, r))
<1> DEFINE m == BeginRequest(l, r)
           base == IF l.source \notin {None, r.source}
                     THEN [Cleared(l, r.source) EXCEPT !.failed = {}]
                   ELSE IF l.source = r.source /\ r.kind = "cold" THEN Cleared(l, r.source)
                   ELSE [l EXCEPT !.source = r.source]
<1>1. /\ l \in LedgerType /\ r.source \in Sources \cup {Unknown} /\ r.kind \in Kinds
      /\ r # None
  BY CallsAssumption DEF Sound, Requests
<1>2. LET c == Cleared(l, r.source) IN
      /\ c \in LedgerType /\ c.source = r.source
      /\ DOMAIN c.bySeq = {} /\ DOMAIN c.gaps = {} /\ c.latched = FALSE
  BY <1>1, ClearedEmpty
<1>3. /\ base \in LedgerType /\ base.source = r.source
      /\ \/ DOMAIN base.bySeq = {} /\ DOMAIN base.gaps = {} /\ base.latched = FALSE
            /\ r.kind # "older"
         \/ base.bySeq = l.bySeq /\ base.gaps = l.gaps /\ base.latched = l.latched
  <2> DEFINE c == Cleared(l, r.source)
  <2>1. CASE l.source \notin {None, r.source}
    <3>1. base = [c EXCEPT !.failed = {}] /\ r.kind # "older"
      BY <2>1
    <3> HIDE DEF base, c
    <3>2. c \in LedgerType /\ c.source = r.source
          /\ DOMAIN c.bySeq = {} /\ DOMAIN c.gaps = {} /\ c.latched = FALSE
      BY <1>2 DEF c
    <3> QED BY <3>1, <3>2 DEF LedgerType
  <2>2. CASE l.source = r.source /\ r.kind = "cold"
    <3>1. base = c
      BY <2>2
    <3> QED BY <1>2, <2>2, <3>1
  <2>3. CASE ~(l.source \notin {None, r.source}) /\ ~(l.source = r.source /\ r.kind = "cold")
    <3>1. base = [l EXCEPT !.source = r.source]
      BY <2>3
    <3> HIDE DEF base
    <3> QED BY <1>1, <3>1 DEF LedgerType
  <2> HIDE DEF base
  <2> QED BY <2>1, <2>2, <2>3
<1>4. m = [base EXCEPT !.active = r, !.older = None, !.status = "cold"]
  BY DEF BeginRequest
<1> HIDE DEF m, base
<1>5. /\ m \in LedgerType /\ m.source = r.source /\ m.active = r /\ m.older = None
      /\ m.bySeq = base.bySeq /\ m.gaps = base.gaps /\ m.latched = base.latched
  BY <1>3, <1>4 DEF LedgerType
<1>6. OwnRequest(m) /\ Joins(l, m)
  BY <1>1, <1>5, NoPageJoins DEF OwnRequest
<1>7. CASE DOMAIN base.bySeq = {} /\ DOMAIN base.gaps = {} /\ base.latched = FALSE
           /\ r.kind # "older"
  <2>1. Sound(m)
    BY <1>5, <1>6, <1>7, EmptySound
  <2> QED BY <1>5, <1>6, <1>7, <2>1 DEF Continues, Allowed, m
<1>8. CASE base.bySeq = l.bySeq /\ base.gaps = l.gaps /\ base.latched = l.latched
  <2>1. PageBelow(m)
    <3> SUFFICES ASSUME r.kind = "older"
                 PROVE  DOMAIN m.bySeq # {} /\ r.from \in Seqs /\ r.from <= Cursor(m)
      BY <1>5 DEF PageBelow
    <3>1. Cursor(m) = Newest(DOMAIN l.bySeq) /\ DOMAIN l.bySeq \in SUBSET Seqs
      BY <1>1, <1>5, <1>8, CursorOf
    <3>2. r.from \in DOMAIN l.bySeq
      <4>1. DOMAIN l.bySeq \in SUBSET Nat
        BY <3>1, SeqsAreNumbers
      <4>2. Min(DOMAIN l.bySeq) \in DOMAIN l.bySeq
        BY <4>1, MinIsLeast
      <4> QED BY <4>2 DEF MinSeq
    <3> QED BY <1>5, <1>8, <3>1, <3>2, NewestOf
  <2>2. Sound(m)
    BY <1>5, <1>6, <1>8, <2>1, SameEventsSound
  <2>3. Continues(l, m)
    BY <1>1, <1>5, <1>8, SameEventsContinue
  <2> QED BY <1>6, <2>2, <2>3 DEF Allowed, m
<1> QED BY <1>3, <1>7, <1>8

LEMMA CancelHolds ==
  ASSUME NEW l, Sound(l)
  PROVE  Allowed(l, Cancelled(l))
<1> DEFINE m == Cancelled(l)
<1>1. l \in LedgerType /\ Nothing \in Held /\ DOMAIN Nothing = {}
  BY NothingHeld DEF Sound
<1> HIDE DEF Nothing
<1>2. /\ m \in LedgerType /\ m.bySeq = l.bySeq /\ m.gaps = Nothing /\ m.latched = FALSE
      /\ m.active = None /\ m.status = "retry"
  BY <1>1 DEF Cancelled, LedgerType
<1> HIDE DEF m
<1>3. Cardinality(DOMAIN m.gaps) = 0 /\ 0 <= MaxGaps
  BY <1>1, <1>2, FS_EmptySet, LedgerAssumption
<1>4. Sound(m)
  BY <1>1, <1>2, <1>3
     DEF Sound, GapsWait, Latched, WithinLimit, Anchored, OwnRequest, PageBelow
<1>5. Continues(l, m)
  BY <1>1, <1>2, SameEventsContinue
<1>6. Joins(l, m)
  BY <1>1, <1>2, NoPageJoins
<1> QED BY <1>4, <1>5, <1>6 DEF Allowed, m

LEMMA ResetEmpty ==
  ASSUME NEW l \in LedgerType, NEW g \in Sources
  PROVE  LET m == ResetTo(l, g) IN
         /\ m \in LedgerType /\ m.source = g /\ m.active = None /\ m.status = "cold"
         /\ DOMAIN m.bySeq = {} /\ DOMAIN m.gaps = {} /\ m.latched = FALSE
<1> DEFINE m == ResetTo(l, g)
           c == Cleared(l, g)
<1>1. /\ c \in LedgerType /\ c.source = g
      /\ DOMAIN c.bySeq = {} /\ DOMAIN c.gaps = {} /\ c.latched = FALSE
  BY ClearedEmpty, ZenonT(30)
<1>2. m = [c EXCEPT !.failed = {}, !.active = None, !.status = "cold"]
  BY DEF ResetTo
<1> HIDE DEF m, c
<1> QED BY <1>1, <1>2 DEF LedgerType, m

LEMMA ResetHolds ==
  ASSUME NEW l, Sound(l), NEW g \in Sources
  PROVE  Allowed(l, ResetTo(l, g))
<1> DEFINE m == ResetTo(l, g)
<1>1. l \in LedgerType
  BY DEF Sound
<1>2. /\ m \in LedgerType /\ m.active = None /\ m.status = "cold"
      /\ DOMAIN m.bySeq = {} /\ DOMAIN m.gaps = {} /\ m.latched = FALSE
  BY <1>1, ResetEmpty
<1> HIDE DEF m
<1>3. Sound(m)
  BY <1>2, EmptySound DEF OwnRequest
<1>4. Joins(l, m)
  BY <1>1, <1>2, NoPageJoins
<1> QED BY <1>2, <1>3, <1>4 DEF Allowed, Continues, m

LEMMA SetCapHolds ==
  ASSUME NEW l, Sound(l), NEW cap \in Caps
  PROVE  Allowed(l, SetCap(l, cap))
<1> DEFINE w == [l EXCEPT !.cap = cap]
           t == TrimRetained(w)
<1>1. l \in LedgerType /\ OwnRequest(l) /\ PageBelow(l)
  BY DEF Sound
<1>2. /\ w \in LedgerType /\ w.bySeq = l.bySeq /\ w.gaps = l.gaps /\ w.latched = l.latched
      /\ w.active = l.active /\ w.source = l.source /\ w.older = l.older
  BY <1>1 DEF LedgerType
<1> HIDE DEF w
<1>3. Cursor(w) = Cursor(l)
  BY <1>2 DEF Cursor
<1>4. OwnRequest(w) /\ PageBelow(w)
  BY <1>1, <1>2, <1>3 DEF OwnRequest, PageBelow
<1>5. Sound(w)
  BY <1>2, <1>4, SameEventsSound
<1>6. Sound(t)
  <2>1. Extends(w, w)
    BY <1>2, ExtendsSelf
  <2> QED BY <1>2, <1>5, <2>1, TrimContinues DEF Sound
<1>7. /\ t \in LedgerType /\ t = [w EXCEPT !.bySeq = t.bySeq] /\ Cursor(t) = Cursor(l)
      /\ (DOMAIN t.bySeq = {} <=> DOMAIN l.bySeq = {})
  BY <1>2, <1>3, TrimKeepsNewest
<1> HIDE DEF t
<1>8. Continues(l, t)
  <2>1. /\ Cursor(t) = Newest(DOMAIN t.bySeq) /\ DOMAIN t.bySeq \in SUBSET Seqs
        /\ Cursor(l) \in 0..Top
    BY <1>1, <1>7, CursorOf
  <2>2. Cursor(l) >= Cursor(l) /\ Cursor(l)..Cursor(l) = {Cursor(l)}
    BY <2>1, CallsAssumption
  <2>3. DOMAIN t.bySeq # {} => Cursor(t) \in DOMAIN t.bySeq
    BY <2>1, NewestOf
  <2> QED BY <1>7, <2>2, <2>3 DEF Continues
<1>9. Joins(l, t)
  <2>1. t.active = l.active /\ t.older = l.older
    BY <1>2, <1>7 DEF LedgerType
  <2> QED BY <1>1, <2>1, NoPageJoins
<1>10. SetCap(l, cap) = t
  BY DEF SetCap, t, w
<1> QED BY <1>6, <1>8, <1>9, <1>10 DEF Allowed

LEMMA FailHolds ==
  ASSUME NEW l, Sound(l), NEW kind \in Kinds
  PROVE  Allowed(l, Failed(l, kind))
<1> DEFINE m == Failed(l, kind)
           status == IF kind \in l.failed THEN "retry" ELSE l.status
           failed == l.failed \cup {kind}
<1>1. l \in LedgerType /\ failed \in SUBSET Kinds /\ status \in {"cold", "ready", "retry"}
  BY DEF Sound, LedgerType
<1>2. m = [l EXCEPT !.failed = failed, !.status = status]
  BY <1>1 DEF Failed, LedgerType
<1> HIDE DEF m, failed, status
<1>3. /\ m \in LedgerType /\ m.bySeq = l.bySeq /\ m.gaps = l.gaps /\ m.latched = l.latched
      /\ m.active = l.active /\ m.source = l.source /\ m.older = l.older
  BY <1>1, <1>2 DEF LedgerType
<1>4. Cursor(m) = Cursor(l)
  BY <1>3 DEF Cursor
<1>5. OwnRequest(m) /\ PageBelow(m)
  BY <1>3, <1>4 DEF Sound, OwnRequest, PageBelow
<1>6. Sound(m) /\ Continues(l, m)
  BY <1>1, <1>3, <1>5, SameEventsSound, SameEventsContinue
<1>7. Joins(l, m)
  BY <1>1, <1>3, NoPageJoins
<1> QED BY <1>6, <1>7 DEF Allowed, m

LEMMA SeededSound ==
  ASSUME NEW l, Sound(l), NEW g \in Sources, NEW es \in Seq(Events), Seedable(es)
  PROVE  Sound(Seeded(l, g, es))
<1> DEFINE c == ResetTo(l, g)
           f == PutAll(Nothing, es)
           w == [c EXCEPT !.bySeq = f, !.status = "ready"]
           t == TrimRetained(w)
<1>1. /\ c \in LedgerType /\ c.active = None
      /\ DOMAIN c.gaps = {} /\ c.latched = FALSE
  BY ResetEmpty DEF Sound
<1>2. f \in Held /\ DOMAIN f # {}
  <2>1. f \in Held /\ DOMAIN f = {} \cup SeqsOf(es)
    BY NothingHeld, PutAllHeld
  <2>2. es[1].seq \in SeqsOf(es)
    BY DEF SeqsOf, Seedable
  <2> QED BY <2>1, <2>2
<1> HIDE DEF c, f
<1>3. /\ w \in LedgerType /\ w.active = None /\ w.gaps = c.gaps /\ w.latched = FALSE
      /\ DOMAIN w.bySeq # {}
  BY <1>1, <1>2 DEF LedgerType
<1>4. Seeded(l, g, es) = t
  BY DEF Seeded, c, f
<1> HIDE DEF w
<1>5. t \in LedgerType /\ t = [w EXCEPT !.bySeq = t.bySeq] /\ DOMAIN t.bySeq # {}
  BY <1>3, TrimKeepsNewest
<1> HIDE DEF t
<1>6. t.active = None /\ DOMAIN t.gaps = {} /\ t.latched = FALSE
  BY <1>1, <1>3, <1>5 DEF LedgerType
<1>7. Cardinality(DOMAIN t.gaps) = 0 /\ 0 <= MaxGaps
  BY <1>6, FS_EmptySet, LedgerAssumption
<1>8. Sound(t)
  BY <1>5, <1>6, <1>7
     DEF Sound, GapsWait, Latched, WithinLimit, Anchored, OwnRequest, PageBelow
<1> QED BY <1>4, <1>8

-----------------------------------------------------------------------------
(* The theorems. *)

LEMMA ListsAreEvents ==
  ASSUME NEW g \in Sources, NEW seqs \in Lists
  PROVE  EventList(g, seqs) \in Seq(Events)
<1>1. PICK n \in 0..FrameEnd : seqs \in [1..n -> 1..Top]
  BY DEF Lists
<1>2. n \in Nat /\ \A i \in 1..n : seqs[i] \in Seqs
  BY <1>1, CallsAssumption DEF Seqs
<1> DEFINE es == [i \in 1..n |-> [gen |-> g, seq |-> seqs[i]]]
<1>3. EventList(g, seqs) = es
  BY <1>1 DEF EventList
<1>4. \A i \in 1..n : es[i] \in Events
  BY <1>2 DEF Events
<1> HIDE DEF es
<1>5. es \in [1..n -> Events]
  BY <1>4 DEF es
<1> QED BY <1>2, <1>3, <1>5

LEMMA NextAllowed == IInv /\ Next => IInv' /\ (SeedCached \/ Allowed(ledger, ledger'))
<1> SUFFICES ASSUME Sound(ledger), Next
             PROVE  Sound(ledger') /\ (SeedCached \/ Allowed(ledger, ledger'))
  BY DEF IInv
<1>1. ASSUME NEW kind \in Kinds, NEW source \in Sources \cup {Unknown}, Begin(kind, source)
      PROVE  Allowed(ledger, ledger')
  <2> DEFINE from == IF kind = "older" THEN MinSeq(ledger) ELSE None
             r == [id |-> 1, kind |-> kind, source |-> source, from |-> from]
  <2>1. kind = "older" => DOMAIN ledger.bySeq # {} /\ source = ledger.source
    BY <1>1 DEF Begin
  <2>2. from \in (1..Top) \cup {None}
    <3> SUFFICES ASSUME kind = "older" PROVE MinSeq(ledger) \in Seqs
      BY DEF Seqs
    <3>1. DOMAIN ledger.bySeq \in SUBSET Seqs /\ DOMAIN ledger.bySeq # {}
      BY <2>1, CursorOf DEF Sound
    <3>2. Min(DOMAIN ledger.bySeq) \in DOMAIN ledger.bySeq
      <4>1. DOMAIN ledger.bySeq \in SUBSET Nat
        BY <3>1, SeqsAreNumbers
      <4> QED BY <3>1, <4>1, MinIsLeast
    <3> QED BY <3>1, <3>2 DEF MinSeq
  <2>3. r \in Requests
    BY <2>2 DEF Requests
  <2>4. ledger' = BeginRequest(ledger, r)
    BY <1>1 DEF Begin
  <2>5. r.kind = "older" => DOMAIN ledger.bySeq # {} /\ r.source = ledger.source /\ r.from = MinSeq(ledger)
    BY <2>1
  <2> HIDE DEF r
  <2>6. Allowed(ledger, BeginRequest(ledger, r))
    BY <2>3, <2>5, BeginHolds
  <2> QED BY <2>4, <2>6
<1>2. CASE Cancel
  BY <1>2, CancelHolds DEF Cancel, Allowed
<1>3. ASSUME NEW g \in Sources, Reset(g) PROVE Allowed(ledger, ledger')
  BY <1>3, ResetHolds DEF Reset
<1>4. ASSUME NEW cap \in Caps, SetMaxRetained(cap) PROVE Allowed(ledger, ledger')
  BY <1>4, SetCapHolds DEF SetMaxRetained
<1>5. ASSUME SeedCached PROVE Sound(ledger')
  <2>1. PICK g \in Sources, seqs \in Lists :
          Seedable(EventList(g, seqs)) /\ ledger' = Seeded(ledger, g, EventList(g, seqs))
    BY <1>5 DEF SeedCached
  <2> QED BY <2>1, ListsAreEvents, SeededSound
<1>6. ASSUME NEW kind \in Failing, Fail(kind) PROVE Allowed(ledger, ledger')
  BY <1>6, FailHolds, CallsAssumption DEF Fail
<1>7. ASSUME NEW g \in Sources, NEW seqs \in Lists, NEW last \in BOOLEAN, ReceiveFrame(g, seqs, last)
      PROVE  Allowed(ledger, ledger')
  <2> DEFINE f == [id |-> ledger.active.id, kind |-> ledger.active.kind, gen |-> g,
                   events |-> EventList(g, seqs), last |-> last]
  <2>1. ledger.active # None /\ ledger' = Admit(ledger, f).ledger
    BY <1>7 DEF ReceiveFrame
  <2>2. ledger.active \in Requests
    BY <2>1 DEF Sound, LedgerType
  <2>3. f \in Frames
    BY <2>2, ListsAreEvents DEF Frames, Requests
  <2> HIDE DEF f
  <2> QED BY <2>1, <2>3, AdmitSound DEF Allowed
<1>8. ASSUME NEW g \in Sources, NEW seq \in 1..Top, ReceiveLive(g, seq)
      PROVE  Allowed(ledger, ledger')
  <2> DEFINE e == [gen |-> g, seq |-> seq]
  <2>1. ledger' = AdmitLive(ledger, e).ledger
    BY <1>8 DEF ReceiveLive
  <2>2. e \in Events
    BY DEF Events, Seqs
  <2> HIDE DEF e
  <2> QED BY <2>1, <2>2, AdmitLiveSound DEF Allowed
<1>9. CASE SeedCached
  BY <1>5, <1>9
<1>10. CASE Allowed(ledger, ledger')
  BY <1>10 DEF Allowed
<1>11. Allowed(ledger, ledger') \/ SeedCached
  BY <1>1, <1>2, <1>3, <1>4, <1>6, <1>7, <1>8, CancelHolds DEF Next, Cancel
<1> QED BY <1>9, <1>10, <1>11

\* Every call leaves the ledger sound.
THEOREM LedgerIsSound == Spec => []IInv
<1>1. IInv /\ UNCHANGED ledger => IInv'
  BY DEF IInv
<1>2. IInv /\ [Next]_ledger => IInv'
  BY <1>1, NextAllowed
<1> QED BY <1>2, InitHolds, PTL DEF Spec

\* The ledger keeps its shape, and a request is of the ledger's source.
THEOREM LedgerTypeCorrect == Spec => []LedgerTypeOK
<1>1. IInv => LedgerTypeOK
  <2> SUFFICES ASSUME Sound(ledger) PROVE LedgerTypeOK
    BY DEF IInv
  <2>1. ledger \in LedgerType /\ OwnRequest(ledger)
    BY DEF Sound
  <2>2. DOMAIN ledger.bySeq \in SUBSET Seqs /\ DOMAIN ledger.gaps \in SUBSET Seqs
    BY <2>1, CursorOf
  <2>3. DOMAIN ledger.bySeq \cup DOMAIN ledger.gaps \subseteq 1..Top
    BY <2>2 DEF Seqs
  <2> QED BY <2>1, <2>3 DEF LedgerTypeOK, LedgerType, OwnRequest
<1> QED BY <1>1, LedgerIsSound, PTL

\* After any calls, nothing that could be rendered next waits in the gap
\* buffer, and what waits there has its repair asked for.
THEOREM GapsAreRepaired == Spec => []GapsAwaitRepair
<1>1. IInv => GapsAwaitRepair
  BY DEF IInv, Sound, GapsWait, Latched, WithinLimit, GapsAwaitRepair
<1> QED BY <1>1, LedgerIsSound, PTL

\* The rendered cursor never jumps over a gap, whatever is delivered in
\* whatever order, and whatever is evicted meanwhile.
THEOREM CursorNeverJumps == Spec => CursorFollowsStream
<1> DEFINE Step == \/ DOMAIN ledger.bySeq = {}
                   \/ DOMAIN ledger'.bySeq = {}
                   \/ SeedCached
                   \/ /\ Cursor(ledger') >= Cursor(ledger)
                      /\ \A s \in Cursor(ledger)..Cursor(ledger') :
                           \/ s \in DOMAIN ledger'.bySeq
                           \/ s < MinSeq(ledger') /\ Cardinality(DOMAIN ledger'.bySeq) = ledger.cap
<1>1. IInv /\ [Next]_ledger => [Step]_ledger
  BY NextAllowed DEF Allowed, Continues
<1> QED BY <1>1, LedgerIsSound, PTL DEF Spec, CursorFollowsStream

\* The frames of a page of history join one another and the boundary the page
\* was asked for, whatever is called between them.
THEOREM PagesJoin == Spec => PageJoins
<1> DEFINE Step ==
      ledger.active # None /\ ledger.active.kind = "older" /\ ~SeedCached =>
       /\ ledger'.active = ledger.active /\ None \notin {ledger.older, ledger'.older}
            => (ledger.older + 1)..ledger'.older \subseteq DOMAIN ledger'.bySeq
       /\ ledger'.active = None /\ ledger'.status = "ready"
            => \A s \in (DOMAIN ledger'.bySeq \ DOMAIN ledger.bySeq)
                          \cup (IF ledger.older = None THEN {} ELSE {ledger.older + 1}) :
                 s..(ledger.active.from - 1) \subseteq DOMAIN ledger'.bySeq
<1>1. IInv /\ [Next]_ledger => [Step]_ledger
  BY NextAllowed DEF Allowed, Joins
<1> QED BY <1>1, LedgerIsSound, PTL DEF Spec, PageJoins
=============================================================================
