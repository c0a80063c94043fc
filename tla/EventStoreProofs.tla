-------------------------- MODULE EventStoreProofs --------------------------
(***************************************************************************)
(* Theorems about EventStore, for every set of sessions and events, every  *)
(* retention limit and slack, and every bound of the model.                *)
(***************************************************************************)
EXTENDS EventStore, TLAPS, SequenceTheorems

\* A buffer's entries are the dense run below nextSeq.
DenseBuffer(b) ==
  /\ Len(b.events) <= b.nextSeq - 1
  /\ \A i \in 1..Len(b.events) : b.events[i].seq = b.nextSeq - 1 - Len(b.events) + i

\* historyTruncated tells exactly whether events are missing below the head.
FlaggedBuffer(b) == b.historyTruncated <=> b.nextSeq - 1 > Len(b.events)

\* A cached buffer is of its session's current revision.
CurrentRevision == \A s \in DOMAIN buffers : buffers[s].revision = revisions[s]

\* Whatever was issued under the current epoch was issued under a revision
\* not above the session's, and at the current revision only while its buffer
\* is cached and below its next sequence number.  Epochs only grow.
IssuedBelow ==
  \A x \in issued :
    /\ x.gen[1] <= epoch
    /\ x.gen[1] = epoch =>
         \/ x.gen[2] < revisions[x.session]
         \/ /\ x.session \in DOMAIN buffers
            /\ x.gen[2] = revisions[x.session]
            /\ x.seq < buffers[x.session].nextSeq

WellFormed(b) == b \in Buffer /\ DenseBuffer(b) /\ FlaggedBuffer(b)

IInv ==
  /\ TypeOK
  /\ \A s \in DOMAIN buffers : WellFormed(buffers[s])
  /\ CurrentRevision
  /\ IssuedBelow
  /\ GenerationNamesOneEvent

-----------------------------------------------------------------------------
(* What the helpers of the store return. *)

\* A trim keeps a buffer well formed and leaves its identity alone.
LEMMA TrimmedProperties ==
  ASSUME NEW b, WellFormed(b)
  PROVE  /\ WellFormed(Trimmed(b))
         /\ Trimmed(b).nextSeq = b.nextSeq
         /\ Trimmed(b).revision = b.revision
<1> USE StoreAssumption
<1>1. CASE ~(MaxEvents > 0 /\ Len(b.events) > MaxEvents + TrimSlack)
  BY <1>1 DEF Trimmed
<1>2. CASE MaxEvents > 0 /\ Len(b.events) > MaxEvents + TrimSlack
  <2> DEFINE n == Len(b.events)
             kept == SubSeq(b.events, n - MaxEvents + 1, n)
             r == [b EXCEPT !.events = kept, !.historyTruncated = TRUE]
  <2>1. /\ b.events \in Seq(Entry) /\ n \in Nat /\ MaxEvents \in Nat /\ MaxEvents > 0
        /\ n > MaxEvents /\ b.nextSeq \in Nat \ {0} /\ n <= b.nextSeq - 1
    BY <1>2 DEF WellFormed, Buffer, DenseBuffer
  <2>2. /\ kept \in Seq(Entry) /\ Len(kept) = MaxEvents
        /\ \A i \in 1..MaxEvents : kept[i] = b.events[n - MaxEvents + i]
    <3>1. \A i \in (n - MaxEvents + 1)..n : b.events[i] \in Entry
      BY <2>1, ElementOfSeq
    <3>2. /\ kept \in Seq(Entry)
          /\ Len(kept) = n - (n - MaxEvents + 1) + 1
          /\ \A i \in 1..(n - (n - MaxEvents + 1) + 1) : kept[i] = b.events[(n - MaxEvents + 1) + i - 1]
      BY <2>1, <3>1, SubSeqProperties
    <3> QED BY <2>1, <3>2
  <2>3. Trimmed(b) = r
    BY <1>2, <2>1 DEF Trimmed
  <2>4. /\ r \in Buffer /\ r.events = kept /\ r.nextSeq = b.nextSeq
        /\ r.revision = b.revision /\ r.historyTruncated = TRUE
    BY <2>2 DEF WellFormed, Buffer
  <2>5. DenseBuffer(r)
    <3>1. \A i \in 1..Len(kept) : kept[i].seq = b.nextSeq - 1 - Len(kept) + i
      <4> SUFFICES ASSUME NEW i \in 1..MaxEvents
                   PROVE  kept[i].seq = b.nextSeq - 1 - MaxEvents + i
        BY <2>2
      <4>1. n - MaxEvents + i \in 1..n /\ kept[i] = b.events[n - MaxEvents + i]
        BY <2>1, <2>2
      <4>2. b.events[n - MaxEvents + i].seq = b.nextSeq - 1 - n + (n - MaxEvents + i)
        BY <4>1 DEF WellFormed, DenseBuffer
      <4>3. kept[i].seq = b.nextSeq - 1 - n + (n - MaxEvents + i)
        BY <4>1, <4>2
      <4> HIDE DEF n, kept
      <4> QED BY <4>3, <2>1
    <3> QED BY <3>1, <2>1, <2>2, <2>4, SMTT(30) DEF DenseBuffer
  <2>6. FlaggedBuffer(r)
    BY <2>1, <2>2, <2>4, SMTT(30) DEF FlaggedBuffer
  <2> QED BY <2>3, <2>4, <2>5, <2>6 DEF WellFormed
<1> QED BY <1>1, <1>2

\* What a store operation does once it has built the new buffer nb of session s
\* and the records it issues: eviction may follow, and the invariant survives.
LEMMA StoredBufferKeepsInvariant ==
  ASSUME NEW s \in Sessions, NEW nb, NEW fresh,
         IInv,
         WellFormed(nb),
         nb.revision >= revisions[s],
         EvictIfNeeded(WithBuffer(s, nb), [revisions EXCEPT ![s] = nb.revision]),
         UNCHANGED <<pinned, clock, epoch>>,
         issued' = issued \cup fresh,
         fresh \subseteq [session : {s}, gen : {Generation(nb.revision)},
                          seq : Nat \ {0}, event : Events],
         \A x \in fresh : x.seq < nb.nextSeq,
         \A x \in fresh, y \in issued \cup fresh :
            x.session = y.session /\ x.gen = y.gen /\ x.seq = y.seq => x.event = y.event,
         s \in DOMAIN buffers /\ nb.revision = revisions[s]
            => buffers[s].nextSeq <= nb.nextSeq
  PROVE  IInv'
<1> DEFINE bs == WithBuffer(s, nb)
           rs == [revisions EXCEPT ![s] = nb.revision]
<1>1. PICK V \in SUBSET (DOMAIN bs \ pinned) :
        /\ buffers' = [t \in DOMAIN bs \ V |-> bs[t]]
        /\ revisions' = [t \in Sessions |-> IF t \in V THEN bs[t].revision + 1 ELSE rs[t]]
  BY DEF EvictIfNeeded, Victims
<1>2. /\ DOMAIN buffers \subseteq Sessions /\ buffers \in [DOMAIN buffers -> Buffer]
      /\ revisions \in [Sessions -> Nat] /\ epoch \in Nat
      /\ issued \subseteq [session : Sessions, gen : Nat \X Nat, seq : Nat \ {0}, event : Events]
      /\ nb.revision \in Nat /\ nb \in Buffer
  BY DEF IInv, TypeOK, WellFormed, Buffer
<1>3. /\ DOMAIN bs = DOMAIN buffers \cup {s}
      /\ bs[s] = nb
      /\ \A t \in DOMAIN buffers \ {s} : bs[t] = buffers[t]
  BY DEF WithBuffer
<1>4. /\ DOMAIN buffers' = DOMAIN bs \ V
      /\ \A t \in DOMAIN buffers' : buffers'[t] = bs[t] /\ t \notin V
  BY <1>1
<1>5. \A t \in DOMAIN bs : WellFormed(bs[t]) /\ bs[t].revision = rs[t] /\ t \in Sessions
  BY <1>2, <1>3 DEF IInv, CurrentRevision
<1> HIDE DEF bs
<1>6. \A t \in DOMAIN bs : bs[t] \in Buffer /\ bs[t].revision \in Nat
  BY <1>5 DEF WellFormed, Buffer
<1>7. rs \in [Sessions -> Nat]
  BY <1>2
<1>8. /\ revisions' \in [Sessions -> Nat]
      /\ \A t \in Sessions : revisions'[t] = IF t \in V THEN rs[t] + 1 ELSE rs[t]
  BY <1>1, <1>5, <1>6, <1>7
<1>9. TypeOK'
  <2>1. DOMAIN buffers' \subseteq Sessions /\ buffers' \in [DOMAIN buffers' -> Buffer]
    BY <1>1, <1>4, <1>5, <1>6
  <2>2. issued' \subseteq [session : Sessions, gen : Nat \X Nat, seq : Nat \ {0}, event : Events]
    BY <1>2 DEF Generation
  <2> QED BY <2>1, <2>2, <1>8 DEF IInv, TypeOK
<1>10. \A t \in DOMAIN buffers' : WellFormed(buffers'[t])
  BY <1>4, <1>5
<1>11. CurrentRevision'
  BY <1>4, <1>5, <1>8 DEF CurrentRevision
<1>12. IssuedBelow'
  <2> SUFFICES ASSUME NEW x \in issued'
               PROVE  /\ x.gen[1] <= epoch
                      /\ x.gen[1] = epoch =>
                           \/ x.gen[2] < revisions'[x.session]
                           \/ /\ x.session \in DOMAIN buffers'
                              /\ x.gen[2] = revisions'[x.session]
                              /\ x.seq < buffers'[x.session].nextSeq
    BY DEF IssuedBelow
  <2>1. CASE x \in fresh
    <3>1. /\ x.session = s /\ x.gen[1] = epoch /\ x.gen[2] = nb.revision
          /\ x.seq < nb.nextSeq /\ rs[s] = nb.revision
      BY <2>1, <1>2 DEF Generation
    <3>2. CASE s \in V
      BY <3>1, <3>2, <1>2, <1>8
    <3>3. CASE s \notin V
      BY <3>1, <3>3, <1>2, <1>3, <1>4, <1>8
    <3> QED BY <3>2, <3>3
  <2>2. CASE x \in issued
    <3>1. /\ x.session \in Sessions /\ x.gen[2] \in Nat /\ x.gen[1] <= epoch /\ x.seq \in Nat
          /\ x.gen[1] = epoch =>
               \/ x.gen[2] < revisions[x.session]
               \/ /\ x.session \in DOMAIN buffers
                  /\ x.gen[2] = revisions[x.session]
                  /\ x.seq < buffers[x.session].nextSeq
      BY <2>2, <1>2 DEF IInv, IssuedBelow
    <3> DEFINE t == x.session
    <3>2. CASE t # s
      <4>1. rs[t] = revisions[t]
        BY <3>1, <3>2, <1>2
      <4>2. CASE t \in V
        BY <3>1, <4>1, <4>2, <1>2, <1>8
      <4>3. CASE t \notin V
        <5>1. t \in DOMAIN buffers => t \in DOMAIN buffers' /\ buffers'[t] = buffers[t]
          BY <3>2, <4>3, <1>3, <1>4
        <5> QED BY <3>1, <4>1, <4>3, <5>1, <1>8
      <4> QED BY <4>2, <4>3
    <3>3. CASE t = s
      <4>1. rs[t] = nb.revision /\ nb.revision >= revisions[t]
        BY <3>3, <1>2
      <4>2. CASE t \in V
        BY <3>1, <3>3, <4>1, <4>2, <1>2, <1>8
      <4>3. CASE t \notin V
        <5>1. t \in DOMAIN buffers' /\ buffers'[t] = nb /\ revisions'[t] = nb.revision
          BY <3>3, <4>1, <4>3, <1>3, <1>4, <1>8
        <5>2. nb.nextSeq \in Nat /\ (t \in DOMAIN buffers => buffers[t].nextSeq \in Nat)
          BY <1>2 DEF Buffer
        <5> QED BY <3>1, <3>3, <4>1, <5>1, <5>2, <1>2
      <4> QED BY <4>2, <4>3
    <3> QED BY <3>2, <3>3
  <2> QED BY <2>1, <2>2
<1>13. GenerationNamesOneEvent'
  BY DEF IInv, GenerationNamesOneEvent
<1> QED BY <1>9, <1>10, <1>11, <1>12, <1>13 DEF IInv

-----------------------------------------------------------------------------
(* The inductive invariant. *)

LEMMA InitInvariant == Init => IInv
BY DEF Init, IInv, TypeOK, CurrentRevision, IssuedBelow, GenerationNamesOneEvent

LEMMA InsertKeepsInvariant ==
  ASSUME IInv, NEW s \in Sessions, NEW e \in Events, InsertEvent(s, e)
  PROVE  IInv'
<1> DEFINE ob    == GetOrCreate(s)
           entry == [seq |-> ob.nextSeq, event |-> e]
           grown == [ob EXCEPT !.events = Append(@, entry), !.nextSeq = @ + 1]
           nb    == Trimmed(grown)
           fresh == {[session |-> s, gen |-> Generation(ob.revision), seq |-> x.seq,
                      event |-> x.event] : x \in {entry}}
<1>1. /\ EvictIfNeeded(WithBuffer(s, nb), [revisions EXCEPT ![s] = ob.revision])
      /\ issued' = issued \cup fresh
      /\ UNCHANGED <<pinned, clock, epoch>>
  BY DEF InsertEvent, Issue
<1>2. /\ WellFormed(ob)
      /\ ob.revision = revisions[s]
      /\ s \in DOMAIN buffers => ob.nextSeq = buffers[s].nextSeq
  <2>1. CASE s \in DOMAIN buffers
    <3>1. buffers[s] \in Buffer /\ WellFormed(buffers[s]) /\ clock \in Nat
          /\ buffers[s].revision = revisions[s]
      BY <2>1 DEF IInv, TypeOK, CurrentRevision
    <3>2. ob = [buffers[s] EXCEPT !.lastAccess = clock]
      BY <2>1 DEF GetOrCreate
    <3> QED BY <3>1, <3>2 DEF WellFormed, DenseBuffer, FlaggedBuffer, Buffer
  <2>2. CASE s \notin DOMAIN buffers
    BY <2>2 DEF IInv, TypeOK, GetOrCreate, NewBuffer, WellFormed, DenseBuffer, FlaggedBuffer, Buffer
  <2> QED BY <2>1, <2>2
<1>3. ob \in Buffer /\ ob.nextSeq \in Nat \ {0} /\ ob.revision \in Nat /\ ob.events \in Seq(Entry)
  BY <1>2 DEF WellFormed, Buffer
<1>4. entry \in Entry
  BY <1>3 DEF Entry
<1> HIDE DEF ob, entry
<1>5. /\ WellFormed(grown)
      /\ grown.nextSeq = ob.nextSeq + 1
      /\ grown.revision = ob.revision
  <2> DEFINE es == Append(ob.events, entry)
             n  == Len(ob.events)
  <2>1. /\ es \in Seq(Entry) /\ Len(es) = n + 1 /\ n \in Nat
        /\ \A i \in 1..n : es[i] = ob.events[i]
        /\ es[n + 1] = entry
    BY <1>3, <1>4, AppendProperties
  <2>2. /\ grown \in Buffer /\ grown.events = es /\ grown.nextSeq = ob.nextSeq + 1
        /\ grown.revision = ob.revision /\ grown.historyTruncated = ob.historyTruncated
    <3> DEFINE m == ob.nextSeq + 1
    <3>1. grown = [ob EXCEPT !.events = es, !.nextSeq = m]
      OBVIOUS
    <3>2. m \in Nat \ {0}
      BY <1>3
    <3>3. ob \in Buffer /\ es \in Seq(Entry)
      BY <1>3, <2>1
    <3> HIDE DEF es, n, grown, m
    <3>4. /\ grown \in Buffer /\ grown.events = es /\ grown.nextSeq = m
          /\ grown.revision = ob.revision /\ grown.historyTruncated = ob.historyTruncated
      BY ONLY <3>1, <3>2, <3>3 DEF Buffer
    <3> QED BY <3>4 DEF m
  <2>3. DenseBuffer(grown)
    <3>1. n <= ob.nextSeq - 1
      BY <1>2 DEF WellFormed, DenseBuffer
    <3>2. \A i \in 1..(n + 1) : es[i].seq = (ob.nextSeq + 1) - 1 - (n + 1) + i
      <4> SUFFICES ASSUME NEW i \in 1..(n + 1)
                   PROVE  es[i].seq = (ob.nextSeq + 1) - 1 - (n + 1) + i
        OBVIOUS
      <4>1. CASE i = n + 1
        BY <4>1, <2>1, <1>3 DEF entry
      <4>2. CASE i # n + 1
        <5>1. i \in 1..n
          BY <4>2, <2>1
        <5>2. es[i].seq = ob.nextSeq - 1 - n + i
          BY <5>1, <2>1, <1>2 DEF WellFormed, DenseBuffer
        <5> QED BY <5>2, <2>1, <1>3
      <4> QED BY <4>1, <4>2
    <3> HIDE DEF es, n
    <3> QED BY <3>1, <3>2, <2>1, <2>2, <1>3 DEF DenseBuffer
  <2>4. FlaggedBuffer(grown)
    BY <2>1, <2>2, <1>2, <1>3 DEF FlaggedBuffer, WellFormed
  <2> QED BY <2>2, <2>3, <2>4 DEF WellFormed
<1> HIDE DEF grown
<1>6. /\ WellFormed(nb) /\ nb.nextSeq = ob.nextSeq + 1 /\ nb.revision = ob.revision
  BY <1>5, TrimmedProperties
<1> HIDE DEF nb
<1>7. /\ fresh \subseteq [session : {s}, gen : {Generation(nb.revision)},
                          seq : Nat \ {0}, event : Events]
      /\ \A x \in fresh : x.session = s /\ x.gen = Generation(ob.revision)
                          /\ x.seq = ob.nextSeq /\ x.event = e
  BY <1>3, <1>6 DEF entry
<1>8. \A x \in fresh, y \in issued \cup fresh :
        x.session = y.session /\ x.gen = y.gen /\ x.seq = y.seq => x.event = y.event
  <2> SUFFICES ASSUME NEW x \in fresh, NEW y \in issued,
                      x.session = y.session, x.gen = y.gen, x.seq = y.seq
               PROVE  FALSE
    BY <1>7
  <2>1. /\ y.session = s /\ y.gen[1] = epoch /\ y.gen[2] = revisions[s] /\ y.seq = ob.nextSeq
    BY <1>2, <1>7 DEF Generation
  <2>2. revisions[s] \in Nat
    BY DEF IInv, TypeOK
  <2>3. s \in DOMAIN buffers /\ y.seq < buffers[s].nextSeq
    BY <2>1, <2>2 DEF IInv, IssuedBelow
  <2> QED BY <2>1, <2>3, <1>2, <1>3
<1>9. /\ \A x \in fresh : x.seq < nb.nextSeq
      /\ nb.revision >= revisions[s]
      /\ s \in DOMAIN buffers => buffers[s].nextSeq <= nb.nextSeq
  BY <1>2, <1>3, <1>6, <1>7
<1> HIDE DEF fresh
<1> QED BY <1>1, <1>6, <1>7, <1>8, <1>9, StoredBufferKeepsInvariant

LEMMA ReplaceKeepsInvariant ==
  ASSUME IInv, NEW s \in Sessions, NEW source \in Sources, ReplaceEvents(s, source)
  PROVE  IInv'
<1> USE StoreAssumption
<1> DEFINE previous == IF s \in DOMAIN buffers THEN buffers[s].revision ELSE -1
           revision == (IF previous > revisions[s] THEN previous ELSE revisions[s]) + 1
           n        == Len(source)
           entries  == [i \in 1..n |-> [seq |-> i, event |-> source[i]]]
           loaded   == [NewBuffer(revision) EXCEPT !.events = entries, !.nextSeq = n + 1]
           nb       == Trimmed(loaded)
           fresh    == {[session |-> s, gen |-> Generation(revision), seq |-> x.seq,
                         event |-> x.event] : x \in {entries[i] : i \in 1..n}}
<1>1. /\ EvictIfNeeded(WithBuffer(s, nb), [revisions EXCEPT ![s] = revision])
      /\ issued' = issued \cup fresh
      /\ UNCHANGED <<pinned, clock, epoch>>
  BY DEF ReplaceEvents, Issue
<1>2. revisions[s] \in Nat /\ clock \in Nat
  BY DEF IInv, TypeOK
<1>3. revision = revisions[s] + 1
  BY <1>2 DEF IInv, CurrentRevision
<1>4. /\ source \in Seq(Events) /\ n \in Nat
      /\ \A i \in 1..n : source[i] \in Events
  OBVIOUS
<1>5. /\ entries \in Seq(Entry) /\ Len(entries) = n
      /\ \A i \in 1..n : entries[i].seq = i /\ entries[i].event \in Events
  <2>1. \A i \in 1..n : [seq |-> i, event |-> source[i]] \in Entry
    BY <1>4 DEF Entry
  <2>2. entries \in [1..n -> Entry]
    BY <2>1
  <2>3. entries \in Seq(Entry) /\ Len(entries) = n
    BY <1>4, <2>2, LenProperties, IsASeq
  <2> QED BY <1>4, <2>3
<1> HIDE DEF entries, revision, n
<1>6. /\ WellFormed(loaded) /\ loaded.nextSeq = n + 1 /\ loaded.revision = revision
  <2>1. /\ loaded \in Buffer /\ loaded.events = entries /\ loaded.nextSeq = n + 1
        /\ loaded.revision = revision /\ loaded.historyTruncated = FALSE
    <3>1. /\ NewBuffer(revision) \in Buffer
          /\ NewBuffer(revision).revision = revision
          /\ NewBuffer(revision).historyTruncated = FALSE
      BY <1>2, <1>3 DEF NewBuffer, Buffer
    <3>2. n + 1 \in Nat \ {0}
      BY <1>4
    <3>3. entries \in Seq(Entry)
      BY <1>5
    <3> DEFINE fb == NewBuffer(revision)
               m  == n + 1
    <3>4. loaded = [fb EXCEPT !.events = entries, !.nextSeq = m]
      OBVIOUS
    <3>5. fb \in Buffer /\ m \in Nat \ {0}
      BY <3>1, <3>2
    <3> HIDE DEF loaded, fb, m
    <3>6. /\ loaded \in Buffer /\ loaded.events = entries /\ loaded.nextSeq = m
          /\ loaded.revision = fb.revision /\ loaded.historyTruncated = fb.historyTruncated
      BY ONLY <3>3, <3>4, <3>5 DEF Buffer
    <3> QED BY <3>1, <3>6 DEF m, fb
  <2> HIDE DEF loaded
  <2> QED BY <2>1, <1>4, <1>5 DEF WellFormed, DenseBuffer, FlaggedBuffer
<1> HIDE DEF loaded
<1>7. /\ WellFormed(nb) /\ nb.nextSeq = n + 1 /\ nb.revision = revision
  BY <1>6, TrimmedProperties
<1> HIDE DEF nb
<1>8. /\ fresh \subseteq [session : {s}, gen : {Generation(nb.revision)},
                          seq : Nat \ {0}, event : Events]
      /\ \A x \in fresh : /\ x.session = s /\ x.gen = Generation(revision)
                          /\ x.seq \in 1..n /\ x.event = entries[x.seq].event
  BY <1>4, <1>5, <1>7
<1> HIDE DEF fresh
<1>9. \A x \in fresh, y \in issued \cup fresh :
        x.session = y.session /\ x.gen = y.gen /\ x.seq = y.seq => x.event = y.event
  <2> SUFFICES ASSUME NEW x \in fresh, NEW y \in issued,
                      x.session = y.session, x.gen = y.gen, x.seq = y.seq
               PROVE  FALSE
    BY <1>8
  <2>1. y.session = s /\ y.gen[1] = epoch /\ y.gen[2] = revisions[s] + 1
    BY <1>3, <1>8 DEF Generation
  <2> QED BY <2>1, <1>2 DEF IInv, IssuedBelow
<1>10. /\ \A x \in fresh : x.seq < nb.nextSeq
       /\ nb.revision >= revisions[s] /\ nb.revision # revisions[s]
  BY <1>2, <1>3, <1>4, <1>7, <1>8
<1> QED BY <1>1, <1>7, <1>8, <1>9, <1>10, StoredBufferKeepsInvariant

LEMMA DeleteKeepsInvariant ==
  ASSUME IInv, NEW s \in Sessions, DeleteEventsForSession(s)
  PROVE  IInv'
<1> DEFINE r == buffers[s].revision
<1>1. /\ s \in DOMAIN buffers
      /\ buffers' = [buffers EXCEPT ![s] = NewBuffer(r + 1)]
      /\ revisions' = [revisions EXCEPT ![s] = r + 1]
      /\ UNCHANGED <<pinned, clock, epoch, issued>>
  BY DEF DeleteEventsForSession
<1>2. r \in Nat /\ r = revisions[s] /\ clock \in Nat
  BY <1>1 DEF IInv, TypeOK, CurrentRevision
<1>3. WellFormed(NewBuffer(r + 1)) /\ NewBuffer(r + 1).revision = r + 1
  BY <1>2 DEF NewBuffer, WellFormed, Buffer, DenseBuffer, FlaggedBuffer
<1>4. TypeOK'
  BY <1>1, <1>2, <1>3 DEF IInv, TypeOK, WellFormed
<1>5. /\ \A t \in DOMAIN buffers' : WellFormed(buffers'[t])
      /\ CurrentRevision'
  BY <1>1, <1>2, <1>3 DEF IInv, TypeOK, CurrentRevision
<1>6. IssuedBelow'
  <2> SUFFICES ASSUME NEW x \in issued
               PROVE  /\ x.gen[1] <= epoch
                      /\ x.gen[1] = epoch =>
                           \/ x.gen[2] < revisions'[x.session]
                           \/ /\ x.session \in DOMAIN buffers'
                              /\ x.gen[2] = revisions'[x.session]
                              /\ x.seq < buffers'[x.session].nextSeq
    BY <1>1 DEF IssuedBelow
  <2>1. x.session \in Sessions /\ x.gen[2] \in Nat /\ revisions \in [Sessions -> Nat]
    BY DEF IInv, TypeOK
  <2>2. CASE x.session = s
    BY <2>1, <2>2, <1>1, <1>2 DEF IInv, IssuedBelow
  <2>3. CASE x.session # s
    BY <2>1, <2>3, <1>1 DEF IInv, IssuedBelow
  <2> QED BY <2>2, <2>3
<1>7. GenerationNamesOneEvent'
  BY <1>1 DEF IInv, GenerationNamesOneEvent
<1> QED BY <1>4, <1>5, <1>6, <1>7 DEF IInv

LEMMA ReadKeepsInvariant ==
  ASSUME IInv, NEW s \in Sessions, ReadEvents(s)
  PROVE  IInv'
<1>1. /\ s \in DOMAIN buffers
      /\ buffers' = [buffers EXCEPT ![s].lastAccess = clock]
      /\ UNCHANGED <<revisions, pinned, clock, epoch, issued>>
  BY DEF ReadEvents
<1>2. /\ DOMAIN buffers' = DOMAIN buffers
      /\ \A t \in DOMAIN buffers :
           /\ WellFormed(buffers'[t])
           /\ buffers'[t].revision = buffers[t].revision
           /\ buffers'[t].nextSeq = buffers[t].nextSeq
  BY <1>1 DEF IInv, TypeOK, WellFormed, Buffer, DenseBuffer, FlaggedBuffer
<1>3. TypeOK'
  BY <1>1, <1>2 DEF IInv, TypeOK, WellFormed
<1>4. CurrentRevision' /\ IssuedBelow' /\ GenerationNamesOneEvent'
  BY <1>1, <1>2 DEF IInv, CurrentRevision, IssuedBelow, GenerationNamesOneEvent
<1> QED BY <1>2, <1>3, <1>4 DEF IInv

LEMMA RestartKeepsInvariant == IInv /\ Restart => IInv'
<1> SUFFICES ASSUME IInv, Restart PROVE IInv'
  OBVIOUS
<1>1. TypeOK'
  BY DEF IInv, TypeOK, Restart
<1>2. IssuedBelow'
  BY DEF IInv, TypeOK, Restart, IssuedBelow
<1> QED BY <1>1, <1>2 DEF IInv, Restart, CurrentRevision, GenerationNamesOneEvent

LEMMA NextKeepsInvariant == IInv /\ [Next]_vars => IInv'
<1> SUFFICES ASSUME IInv, [Next]_vars PROVE IInv'
  OBVIOUS
<1>1. ASSUME NEW s \in Sessions, NEW e \in Events, InsertEvent(s, e) PROVE IInv'
  BY <1>1, InsertKeepsInvariant
<1>2. ASSUME NEW s \in Sessions, ReadEvents(s) PROVE IInv'
  BY <1>2, ReadKeepsInvariant
<1>3. ASSUME NEW s \in Sessions, DeleteEventsForSession(s) PROVE IInv'
  BY <1>3, DeleteKeepsInvariant
<1>4. ASSUME NEW s \in Sessions, NEW source \in Sources, ReplaceEvents(s, source) PROVE IInv'
  BY <1>4, ReplaceKeepsInvariant
<1>5. ASSUME NEW P \in SUBSET Sessions, SetPinned(P) PROVE IInv'
  BY <1>5 DEF IInv, TypeOK, SetPinned, CurrentRevision, IssuedBelow, GenerationNamesOneEvent
<1>6. CASE Tick
  BY <1>6 DEF IInv, TypeOK, Tick, CurrentRevision, IssuedBelow, GenerationNamesOneEvent
<1>7. CASE Restart
  BY <1>7, RestartKeepsInvariant
<1>8. CASE UNCHANGED vars
  BY <1>8 DEF vars, IInv, TypeOK, CurrentRevision, IssuedBelow, GenerationNamesOneEvent
<1> QED BY <1>1, <1>2, <1>3, <1>4, <1>5, <1>6, <1>7, <1>8 DEF Next

THEOREM InductiveInvariant == Spec => []IInv
BY InitInvariant, NextKeepsInvariant, PTL DEF Spec

-----------------------------------------------------------------------------
(* What a reader of the store relies on. *)

\* The store's state keeps its type (the types declared at the top of
\* memory-event-store.ts).
THEOREM TypeCorrect == Spec => []TypeOK
<1>1. IInv => TypeOK
  BY DEF IInv
<1> QED BY <1>1, InductiveInvariant, PTL

\* However long the store trims, evicts, deletes, reloads or restarts, a
\* generation and a sequence number never name two events.
THEOREM NamesAreUnique == Spec => []GenerationNamesOneEvent
<1>1. IInv => GenerationNamesOneEvent
  BY DEF IInv
<1> QED BY <1>1, InductiveInvariant, PTL

\* Every retained range is dense, whatever the retention limit and slack.
THEOREM RetainedIsDense == Spec => []RetainedDense
<1>1. IInv => RetainedDense
  BY DEF IInv, WellFormed, DenseBuffer, RetainedDense
<1> QED BY <1>1, InductiveInvariant, PTL

\* The truncation flag a replay frame carries is exact.
THEOREM TruncationIsFlagged == Spec => []TruncationFlagged
<1>1. IInv => TruncationFlagged
  BY DEF IInv, WellFormed, FlaggedBuffer, TruncationFlagged
<1> QED BY <1>1, InductiveInvariant, PTL
-----------------------------------------------------------------------------
(* What a retention limit keeps in memory. *)

\* A buffer keeps the limit and its slack if the store trims, and is never
\* empty once it has received an event.
BoundedBuffer(b) ==
  /\ MaxEvents > 0 => Len(b.events) <= MaxEvents + TrimSlack
  /\ b.nextSeq > 1 => b.events # <<>>

Bounded == \A s \in DOMAIN buffers : BoundedBuffer(buffers[s])

\* A trim bounds any buffer that is not empty for its number of events.
LEMMA TrimmedIsBounded ==
  ASSUME NEW b \in Buffer, b.nextSeq > 1 => b.events # <<>>
  PROVE  BoundedBuffer(Trimmed(b))
<1> USE StoreAssumption
<1>1. CASE ~(MaxEvents > 0 /\ Len(b.events) > MaxEvents + TrimSlack)
  <2>1. Trimmed(b) = b /\ Len(b.events) \in Nat
    BY <1>1 DEF Trimmed, Buffer
  <2> QED BY <1>1, <2>1 DEF BoundedBuffer
<1>2. CASE MaxEvents > 0 /\ Len(b.events) > MaxEvents + TrimSlack
  <2> DEFINE n == Len(b.events)
             kept == SubSeq(b.events, n - MaxEvents + 1, n)
  <2>1. b.events \in Seq(Entry) /\ n \in Nat /\ MaxEvents \in Nat /\ n > MaxEvents
    BY <1>2 DEF Buffer
  <2>2. \A i \in (n - MaxEvents + 1)..n : b.events[i] \in Entry
    BY <2>1, ElementOfSeq
  <2>3. kept \in Seq(Entry) /\ Len(kept) = n - (n - MaxEvents + 1) + 1
    BY <2>1, <2>2, SubSeqProperties
  <2>4. Len(kept) = MaxEvents
    BY <2>1, <2>3
  <2>5. Trimmed(b).events = kept
    BY <1>2 DEF Trimmed, Buffer
  <2> HIDE DEF kept, n
  <2>6. kept # <<>>
    BY <1>2, <2>1, <2>3, <2>4
  <2> QED BY <2>4, <2>5, <2>6 DEF BoundedBuffer
<1> QED BY <1>1, <1>2

\* Storing a bounded buffer leaves every buffer bounded, whatever is evicted.
LEMMA StoredBufferKeepsBound ==
  ASSUME NEW s, NEW nb, NEW rs,
         Bounded, BoundedBuffer(nb), EvictIfNeeded(WithBuffer(s, nb), rs)
  PROVE  Bounded'
<1> DEFINE bs == WithBuffer(s, nb)
<1>1. PICK V : buffers' = [t \in DOMAIN bs \ V |-> bs[t]]
  BY DEF EvictIfNeeded
<1>2. \A t \in DOMAIN bs : BoundedBuffer(bs[t])
  BY DEF WithBuffer, Bounded, BoundedBuffer
<1>3. \A t \in DOMAIN buffers' : BoundedBuffer(buffers'[t])
  BY <1>1, <1>2
<1> QED BY <1>3 DEF Bounded

LEMMA InsertKeepsBound ==
  ASSUME IInv, Bounded, NEW s \in Sessions, NEW e \in Events, InsertEvent(s, e)
  PROVE  Bounded'
<1> DEFINE ob    == GetOrCreate(s)
           entry == [seq |-> ob.nextSeq, event |-> e]
           grown == [ob EXCEPT !.events = Append(@, entry), !.nextSeq = @ + 1]
<1>1. ob \in Buffer
  <2>1. CASE s \in DOMAIN buffers
    <3>1. buffers[s] \in Buffer /\ clock \in Nat /\ ob = [buffers[s] EXCEPT !.lastAccess = clock]
      BY <2>1 DEF IInv, TypeOK, GetOrCreate
    <3> QED BY <3>1 DEF Buffer
  <2>2. CASE s \notin DOMAIN buffers
    BY <2>2 DEF IInv, TypeOK, GetOrCreate, NewBuffer, Buffer
  <2> QED BY <2>1, <2>2
<1>2. entry \in Entry /\ ob.events \in Seq(Entry) /\ ob.nextSeq + 1 \in Nat \ {0}
  BY <1>1 DEF Buffer, Entry
<1>3. EvictIfNeeded(WithBuffer(s, Trimmed(grown)), [revisions EXCEPT ![s] = ob.revision])
  BY DEF InsertEvent
<1> HIDE DEF ob, entry
<1>4. grown \in Buffer /\ grown.events # <<>>
  <2> DEFINE es == Append(ob.events, entry)
             m  == ob.nextSeq + 1
  <2>1. es \in Seq(Entry) /\ Len(es) = Len(ob.events) + 1 /\ Len(ob.events) \in Nat
    BY <1>2, AppendProperties
  <2>2. es # <<>>
    BY <2>1, EmptySeq
  <2>3. grown = [ob EXCEPT !.events = es, !.nextSeq = m] /\ m \in Nat \ {0}
    BY <1>2
  <2> HIDE DEF es, m, grown
  <2> QED BY <1>1, <2>1, <2>2, <2>3 DEF Buffer
<1> HIDE DEF grown
<1>5. BoundedBuffer(Trimmed(grown))
  BY <1>4, TrimmedIsBounded
<1> QED BY <1>3, <1>5, StoredBufferKeepsBound

LEMMA ReplaceKeepsBound ==
  ASSUME IInv, Bounded, NEW s \in Sessions, NEW source \in Sources, ReplaceEvents(s, source)
  PROVE  Bounded'
<1> USE StoreAssumption
<1> DEFINE previous == IF s \in DOMAIN buffers THEN buffers[s].revision ELSE -1
           revision == (IF previous > revisions[s] THEN previous ELSE revisions[s]) + 1
           n        == Len(source)
           entries  == [i \in 1..n |-> [seq |-> i, event |-> source[i]]]
           loaded   == [NewBuffer(revision) EXCEPT !.events = entries, !.nextSeq = n + 1]
<1>1. EvictIfNeeded(WithBuffer(s, Trimmed(loaded)), [revisions EXCEPT ![s] = revision])
  BY DEF ReplaceEvents
<1>2. revision \in Nat /\ clock \in Nat
  BY DEF IInv, TypeOK, CurrentRevision
<1>3. entries \in Seq(Entry) /\ Len(entries) = n /\ n \in Nat
  <2>1. source \in Seq(Events) /\ n \in Nat /\ \A i \in 1..n : source[i] \in Events
    OBVIOUS
  <2>2. \A i \in 1..n : [seq |-> i, event |-> source[i]] \in Entry
    BY <2>1 DEF Entry
  <2>3. entries \in [1..n -> Entry]
    BY <2>2
  <2> QED BY <2>1, <2>3, LenProperties, IsASeq
<1> HIDE DEF entries, revision, n
<1>4. /\ loaded \in Buffer /\ loaded.events = entries /\ loaded.nextSeq = n + 1
  <2> DEFINE fb == NewBuffer(revision)
             m  == n + 1
  <2>1. fb \in Buffer
    BY <1>2 DEF NewBuffer, Buffer
  <2>2. loaded = [fb EXCEPT !.events = entries, !.nextSeq = m] /\ m \in Nat \ {0}
    BY <1>3
  <2> HIDE DEF loaded, fb, m
  <2>3. loaded \in Buffer /\ loaded.events = entries /\ loaded.nextSeq = m
    BY ONLY <1>3, <2>1, <2>2 DEF Buffer
  <2> QED BY <2>3 DEF m
<1>5. loaded.nextSeq > 1 => loaded.events # <<>>
  BY <1>3, <1>4, EmptySeq
<1> HIDE DEF loaded
<1>6. BoundedBuffer(Trimmed(loaded))
  BY <1>4, <1>5, TrimmedIsBounded
<1> QED BY <1>1, <1>6, StoredBufferKeepsBound

\* The limit holds with the invariant, which says what a stored buffer is.
LEMMA NextKeepsBound == IInv /\ Bounded /\ [Next]_vars => Bounded'
<1> SUFFICES ASSUME IInv, Bounded, [Next]_vars PROVE Bounded'
  OBVIOUS
<1>1. ASSUME NEW s \in Sessions, NEW e \in Events, InsertEvent(s, e) PROVE Bounded'
  BY <1>1, InsertKeepsBound
<1>2. ASSUME NEW s \in Sessions, ReadEvents(s) PROVE Bounded'
  <2>1. /\ buffers \in [DOMAIN buffers -> Buffer] /\ s \in DOMAIN buffers
        /\ buffers' = [buffers EXCEPT ![s].lastAccess = clock]
    BY <1>2 DEF IInv, TypeOK, ReadEvents
  <2>2. \A t \in DOMAIN buffers' : buffers'[t].events = buffers[t].events
                                   /\ buffers'[t].nextSeq = buffers[t].nextSeq
    BY <2>1 DEF Buffer
  <2> QED BY <2>1, <2>2 DEF Bounded, BoundedBuffer
<1>3. ASSUME NEW s \in Sessions, DeleteEventsForSession(s) PROVE Bounded'
  <2>1. /\ s \in DOMAIN buffers
        /\ buffers' = [buffers EXCEPT ![s] = NewBuffer(buffers[s].revision + 1)]
    BY <1>3 DEF DeleteEventsForSession
  <2>2. \A t \in DOMAIN buffers' : t # s => buffers'[t] = buffers[t]
    BY <2>1
  <2>3. buffers'[s].events = <<>> /\ buffers'[s].nextSeq = 1
    BY <2>1 DEF NewBuffer
  <2> QED BY <2>1, <2>2, <2>3, StoreAssumption DEF Bounded, BoundedBuffer
<1>4. ASSUME NEW s \in Sessions, NEW source \in Sources, ReplaceEvents(s, source) PROVE Bounded'
  BY <1>4, ReplaceKeepsBound
<1>5. ASSUME NEW P \in SUBSET Sessions, SetPinned(P) PROVE Bounded'
  BY <1>5 DEF SetPinned, Bounded
<1>6. CASE Tick
  BY <1>6 DEF Tick, Bounded
<1>7. CASE Restart
  BY <1>7 DEF Restart, Bounded
<1>8. CASE UNCHANGED vars
  BY <1>8 DEF vars, Bounded
<1> QED BY <1>1, <1>2, <1>3, <1>4, <1>5, <1>6, <1>7, <1>8 DEF Next

\* A trimming store holds at most its limit and slack of each session, and
\* never forgets a session's newest event.
THEOREM RetentionIsBounded == Spec => []RetentionBounded
<1>1. Init => Bounded
  BY DEF Init, Bounded
<1>2. Bounded => RetentionBounded
  BY DEF Bounded, BoundedBuffer, RetentionBounded
<1> QED BY <1>1, <1>2, InductiveInvariant, NextKeepsBound, PTL DEF Spec

-----------------------------------------------------------------------------
(* What evictIfNeeded takes under cache pressure. *)

\* No buffer was used in the future.
UsedBefore == \A s \in DOMAIN buffers : buffers[s].lastAccess <= clock

\* The step EvictionSparesUsed allows.
SparesUsed ==
  epoch' = epoch =>
    \A s \in DOMAIN buffers \ DOMAIN buffers' :
      /\ s \notin pinned
      /\ \A t \in DOMAIN buffers' \ pinned :
           buffers[s].lastAccess <= buffers'[t].lastAccess

-----------------------------------------------------------------------------
(* The buffers the operations store were used just now. *)

\* A trim does not touch a buffer's recency.
LEMMA TrimmedAccess ==
  ASSUME NEW b \in Buffer
  PROVE  Trimmed(b).lastAccess = b.lastAccess
BY DEF Trimmed, Buffer

LEMMA InsertedAccess ==
  ASSUME IInv, NEW s \in Sessions, NEW e \in Events, InsertEvent(s, e)
  PROVE  \E nb, rs : nb.lastAccess = clock /\ EvictIfNeeded(WithBuffer(s, nb), rs)
<1> DEFINE ob    == GetOrCreate(s)
           entry == [seq |-> ob.nextSeq, event |-> e]
           grown == [ob EXCEPT !.events = Append(@, entry), !.nextSeq = @ + 1]
<1>1. ob \in Buffer /\ ob.lastAccess = clock
  <2>1. CASE s \in DOMAIN buffers
    <3>1. buffers[s] \in Buffer /\ clock \in Nat /\ ob = [buffers[s] EXCEPT !.lastAccess = clock]
      BY <2>1 DEF IInv, TypeOK, GetOrCreate
    <3> QED BY <3>1 DEF Buffer
  <2>2. CASE s \notin DOMAIN buffers
    BY <2>2 DEF IInv, TypeOK, GetOrCreate, NewBuffer, Buffer
  <2> QED BY <2>1, <2>2
<1>2. entry \in Entry /\ ob.events \in Seq(Entry) /\ ob.nextSeq + 1 \in Nat \ {0}
  BY <1>1 DEF Buffer, Entry
<1>3. EvictIfNeeded(WithBuffer(s, Trimmed(grown)), [revisions EXCEPT ![s] = ob.revision])
  BY DEF InsertEvent
<1> HIDE DEF ob, entry
<1>4. grown \in Buffer /\ grown.lastAccess = clock
  <2> DEFINE es == Append(ob.events, entry)
             m  == ob.nextSeq + 1
  <2>1. es \in Seq(Entry) /\ m \in Nat \ {0} /\ grown = [ob EXCEPT !.events = es, !.nextSeq = m]
    BY <1>2, AppendProperties
  <2> HIDE DEF es, m, grown
  <2>2. grown \in Buffer /\ grown.lastAccess = ob.lastAccess
    BY ONLY <1>1, <2>1 DEF Buffer
  <2> QED BY <1>1, <2>2
<1> HIDE DEF grown
<1> QED BY <1>3, <1>4, TrimmedAccess

LEMMA LoadedAccess ==
  ASSUME IInv, NEW s \in Sessions, NEW source \in Sources, ReplaceEvents(s, source)
  PROVE  \E nb, rs : nb.lastAccess = clock /\ EvictIfNeeded(WithBuffer(s, nb), rs)
<1> DEFINE previous == IF s \in DOMAIN buffers THEN buffers[s].revision ELSE -1
           revision == (IF previous > revisions[s] THEN previous ELSE revisions[s]) + 1
           n        == Len(source)
           entries  == [i \in 1..n |-> [seq |-> i, event |-> source[i]]]
           loaded   == [NewBuffer(revision) EXCEPT !.events = entries, !.nextSeq = n + 1]
<1>1. EvictIfNeeded(WithBuffer(s, Trimmed(loaded)), [revisions EXCEPT ![s] = revision])
  BY DEF ReplaceEvents
<1>2. revision \in Nat /\ clock \in Nat
  BY DEF IInv, TypeOK, CurrentRevision
<1>3. entries \in Seq(Entry) /\ n \in Nat
  <2>1. source \in Seq(Events) /\ n \in Nat /\ \A i \in 1..n : source[i] \in Events
    BY StoreAssumption
  <2>2. \A i \in 1..n : [seq |-> i, event |-> source[i]] \in Entry
    BY <2>1 DEF Entry
  <2>3. entries \in [1..n -> Entry]
    BY <2>2
  <2> QED BY <2>1, <2>3, IsASeq
<1> HIDE DEF entries, revision, n
<1>4. loaded \in Buffer /\ loaded.lastAccess = clock
  <2> DEFINE fb == NewBuffer(revision)
             m  == n + 1
  <2>1. fb \in Buffer /\ fb.lastAccess = clock
    BY <1>2 DEF NewBuffer, Buffer
  <2>2. loaded = [fb EXCEPT !.events = entries, !.nextSeq = m] /\ m \in Nat \ {0}
    BY <1>3
  <2> HIDE DEF loaded, fb, m
  <2>3. loaded \in Buffer /\ loaded.lastAccess = fb.lastAccess
    BY ONLY <1>3, <2>1, <2>2 DEF Buffer
  <2> QED BY <2>1, <2>3
<1> HIDE DEF loaded
<1> QED BY <1>1, <1>4, TrimmedAccess

-----------------------------------------------------------------------------
(* The steps. *)

\* The session just stored may be a victim too: its old buffer was used before.
LEMMA StoredSparesUsed ==
  ASSUME IInv, UsedBefore, clock' = clock, NEW s \in Sessions,
         \E nb, rs : nb.lastAccess = clock /\ EvictIfNeeded(WithBuffer(s, nb), rs)
  PROVE  SparesUsed /\ UsedBefore'
<1>1. PICK nb, rs : nb.lastAccess = clock /\ EvictIfNeeded(WithBuffer(s, nb), rs)
  OBVIOUS
<1> DEFINE bs == WithBuffer(s, nb)
<1>2. PICK V \in SUBSET (DOMAIN bs \ pinned) :
        /\ buffers' = [t \in DOMAIN bs \ V |-> bs[t]]
        /\ \A v \in V, k \in (DOMAIN bs \ pinned) \ V : bs[v].lastAccess <= bs[k].lastAccess
  BY <1>1 DEF EvictIfNeeded, Victims
<1>3. /\ DOMAIN bs = DOMAIN buffers \cup {s}
      /\ bs[s].lastAccess = clock
      /\ \A t \in DOMAIN buffers \ {s} : bs[t] = buffers[t]
  BY <1>1 DEF WithBuffer
<1>4. /\ clock \in Nat
      /\ \A t \in DOMAIN buffers : buffers[t].lastAccess \in Nat /\ buffers[t].lastAccess <= clock
  BY DEF IInv, TypeOK, Buffer, UsedBefore
<1> HIDE DEF bs
<1>5. \A t \in DOMAIN bs : bs[t].lastAccess \in Nat /\ bs[t].lastAccess <= clock
  BY <1>3, <1>4
<1>6. \A t \in DOMAIN buffers : buffers[t].lastAccess <= bs[t].lastAccess
  BY <1>3, <1>4
<1>7. UsedBefore'
  BY <1>2, <1>5 DEF UsedBefore
<1>8. SparesUsed
  <2> SUFFICES ASSUME NEW u \in DOMAIN buffers \ DOMAIN buffers'
               PROVE  /\ u \notin pinned
                      /\ \A t \in DOMAIN buffers' \ pinned :
                           buffers[u].lastAccess <= buffers'[t].lastAccess
    BY DEF SparesUsed
  <2>1. u \in V
    BY <1>2, <1>3
  <2>2. ASSUME NEW t \in DOMAIN buffers' \ pinned
        PROVE  buffers[u].lastAccess <= buffers'[t].lastAccess
    <3>1. t \in (DOMAIN bs \ pinned) \ V /\ buffers'[t] = bs[t]
      BY <1>2
    <3>2. bs[u].lastAccess <= bs[t].lastAccess
      BY <1>2, <2>1, <3>1
    <3>3. /\ buffers[u].lastAccess \in Nat /\ bs[u].lastAccess \in Nat /\ bs[t].lastAccess \in Nat
          /\ buffers[u].lastAccess <= bs[u].lastAccess
      BY <1>3, <1>4, <1>5, <1>6, <3>1
    <3> QED BY <3>1, <3>2, <3>3
  <2> QED BY <1>2, <2>1, <2>2
<1> QED BY <1>7, <1>8

LEMMA NextSparesUsed == IInv /\ UsedBefore /\ [Next]_vars => SparesUsed /\ UsedBefore'
<1> SUFFICES ASSUME IInv, UsedBefore, [Next]_vars PROVE SparesUsed /\ UsedBefore'
  OBVIOUS
<1>1. ASSUME NEW s \in Sessions, NEW e \in Events, InsertEvent(s, e)
      PROVE  SparesUsed /\ UsedBefore'
  <2>1. clock' = clock
    BY <1>1 DEF InsertEvent
  <2> QED BY <1>1, <2>1, InsertedAccess, StoredSparesUsed
<1>2. ASSUME NEW s \in Sessions, ReadEvents(s) PROVE SparesUsed /\ UsedBefore'
  <2>1. /\ buffers \in [DOMAIN buffers -> Buffer] /\ clock \in Nat /\ clock' = clock
        /\ s \in DOMAIN buffers /\ buffers' = [buffers EXCEPT ![s].lastAccess = clock]
    BY <1>2 DEF IInv, TypeOK, ReadEvents
  <2>2. /\ DOMAIN buffers' = DOMAIN buffers
        /\ \A t \in DOMAIN buffers : \/ buffers'[t].lastAccess = clock
                                     \/ buffers'[t] = buffers[t]
    BY <2>1 DEF Buffer
  <2> QED BY <2>1, <2>2 DEF SparesUsed, UsedBefore
<1>3. ASSUME NEW s \in Sessions, DeleteEventsForSession(s) PROVE SparesUsed /\ UsedBefore'
  <2>1. /\ s \in DOMAIN buffers /\ clock \in Nat /\ clock' = clock
        /\ buffers' = [buffers EXCEPT ![s] = NewBuffer(buffers[s].revision + 1)]
    BY <1>3 DEF IInv, TypeOK, DeleteEventsForSession
  <2>2. DOMAIN buffers' = DOMAIN buffers /\ buffers'[s].lastAccess = clock
    BY <2>1 DEF NewBuffer
  <2>3. \A t \in DOMAIN buffers : t # s => buffers'[t] = buffers[t]
    BY <2>1
  <2> QED BY <2>1, <2>2, <2>3 DEF SparesUsed, UsedBefore
<1>4. ASSUME NEW s \in Sessions, NEW source \in Sources, ReplaceEvents(s, source)
      PROVE  SparesUsed /\ UsedBefore'
  <2>1. clock' = clock
    BY <1>4 DEF ReplaceEvents
  <2> QED BY <1>4, <2>1, LoadedAccess, StoredSparesUsed
<1>5. ASSUME NEW P \in SUBSET Sessions, SetPinned(P) PROVE SparesUsed /\ UsedBefore'
  BY <1>5 DEF SetPinned, SparesUsed, UsedBefore
<1>6. CASE Tick
  <2>1. /\ buffers' = buffers /\ clock \in Nat /\ clock' = clock + 1
        /\ \A t \in DOMAIN buffers : buffers[t].lastAccess \in Nat
    BY <1>6 DEF Tick, IInv, TypeOK, Buffer
  <2> QED BY <2>1 DEF SparesUsed, UsedBefore
<1>7. CASE Restart
  BY <1>7 DEF Restart, SparesUsed, UsedBefore, IInv, TypeOK
<1>8. CASE UNCHANGED vars
  BY <1>8 DEF vars, SparesUsed, UsedBefore
<1> QED BY <1>1, <1>2, <1>3, <1>4, <1>5, <1>6, <1>7, <1>8 DEF Next

\* Cache pressure never takes a session that is connected or watched, and of
\* the others takes the least recently used, whatever the cap.
THEOREM EvictionSparesWhatIsUsed == Spec => EvictionSparesUsed
<1>1. Init => UsedBefore
  BY DEF Init, UsedBefore
<1>2. Spec => [](IInv /\ UsedBefore)
  BY <1>1, InductiveInvariant, NextSparesUsed, PTL DEF Spec
<1>3. Spec => [][SparesUsed]_vars
  BY <1>2, NextSparesUsed, PTL DEF Spec
<1> QED BY <1>3 DEF EvictionSparesUsed, SparesUsed

-----------------------------------------------------------------------------
(* EventStore implements EventSource: of each of its sessions a reader sees a *)
(* range that moves forward within a generation, and every other change of    *)
(* its events as a newer generation.                                          *)

\* The range a reader sees of session s, in terms of its buffer.
SeenHi(s) == IF s \in DOMAIN buffers THEN buffers[s].nextSeq - 1 ELSE 0
SeenLo(s) == IF s \in DOMAIN buffers THEN buffers[s].nextSeq - Len(buffers[s].events) ELSE 1

\* What maps to the abstract range in ImplementsEventSource.
SourceLo(s) == IF HasEvents(s) THEN GetMinSeq(s) ELSE 1

Mapped(s) ==
  /\ GetSourceGeneration(s) = Generation(revisions[s])
  /\ SourceLo(s) = SeenLo(s) /\ SeenLo(s) \in Nat \ {0}
  /\ GetMaxSeq(s) = SeenHi(s) /\ SeenHi(s) \in Nat

\* The queries answer with the buffer's counters.
LEMMA QueriesSeeBuffer == IInv /\ Bounded => \A s \in Sessions : Mapped(s)
<1> SUFFICES ASSUME IInv, Bounded, NEW s \in Sessions PROVE Mapped(s)
  OBVIOUS
<1>1. CASE s \notin DOMAIN buffers
  BY <1>1 DEF Mapped, SourceLo, SeenLo, SeenHi, GetSourceGeneration, HasEvents, GetMaxSeq, EventsOf
<1>2. CASE s \in DOMAIN buffers
  <2> DEFINE b == buffers[s]
             n == Len(b.events)
  <2>1. /\ b.events \in Seq(Entry) /\ n \in Nat /\ b.nextSeq \in Nat \ {0}
        /\ b.revision = revisions[s] /\ n <= b.nextSeq - 1
        /\ \A i \in 1..n : b.events[i].seq = b.nextSeq - 1 - n + i
        /\ b.nextSeq > 1 => b.events # <<>>
        /\ n = 0 <=> b.events = <<>>
    BY <1>2, EmptySeq DEF IInv, WellFormed, DenseBuffer, CurrentRevision, Bounded, BoundedBuffer, Buffer
  <2>2. EventsOf(s) = b.events /\ (HasEvents(s) <=> b.events # <<>>)
    BY <1>2 DEF EventsOf, HasEvents
  <2>3. GetSourceGeneration(s) = Generation(revisions[s])
    BY <1>2, <2>1 DEF GetSourceGeneration
  <2>4. SeenLo(s) = b.nextSeq - n /\ SeenHi(s) = b.nextSeq - 1
    BY <1>2 DEF SeenLo, SeenHi
  <2> HIDE DEF b, n
  <2>5. CASE b.events = <<>>
    <3>1. n = 0 /\ b.nextSeq = 1
      BY <2>1, <2>5
    <3> QED BY <2>2, <2>3, <2>4, <2>5, <3>1 DEF Mapped, SourceLo, GetMaxSeq
  <2>6. CASE b.events # <<>>
    <3>1. n > 0
      BY <2>1, <2>6
    <3>2. b.events[1].seq = b.nextSeq - n /\ b.events[n].seq = b.nextSeq - 1
      BY <2>1, <3>1
    <3>3. SourceLo(s) = b.events[1].seq /\ GetMaxSeq(s) = b.events[n].seq
      BY <2>2, <2>6 DEF SourceLo, GetMinSeq, GetMaxSeq, n
    <3> QED BY <2>1, <2>3, <2>4, <3>2, <3>3 DEF Mapped
  <2> QED BY <2>5, <2>6
<1> QED BY <1>1, <1>2

\* A session whose revision or epoch has moved on, and whose buffer is empty or
\* starts anew, has a new source.
LEMMA NewSourceStep ==
  ASSUME NEW s \in Sessions, Mapped(s), Mapped(s)',
         epoch \in Nat, epoch' \in Nat, revisions[s] \in Nat, revisions'[s] \in Nat,
         epoch' > epoch \/ (epoch' = epoch /\ revisions'[s] > revisions[s]),
         SeenLo(s)' <= SeenHi(s)' + 1,
         SeenHi(s)' = 0 => SeenLo(s)' = 1
  PROVE  Source(s)!SourceNext
<1>1. Source(s)!Newer(GetSourceGeneration(s)', GetSourceGeneration(s))
  BY DEF Mapped, Generation, Source!Newer
<1>2. Source(s)!NewSource
  BY <1>1 DEF Mapped, SourceLo, Source!NewSource
<1> QED BY <1>2 DEF Source!SourceNext

\* A session whose buffer gets the next event keeps its source.
LEMMA GrowStep ==
  ASSUME NEW s \in Sessions, Mapped(s), Mapped(s)',
         epoch' = epoch, revisions'[s] = revisions[s],
         SeenHi(s)' = SeenHi(s) + 1,
         SeenLo(s)' >= SeenLo(s), SeenLo(s)' <= SeenHi(s)'
  PROVE  Source(s)!SourceNext
<1>1. Source(s)!Grow
  BY DEF Mapped, SourceLo, Generation, Source!Grow
<1> QED BY <1>1 DEF Source!SourceNext

\* A session whose counters stay stutters.
LEMMA StutterStep ==
  ASSUME NEW s \in Sessions, Mapped(s), Mapped(s)',
         epoch' = epoch, revisions'[s] = revisions[s],
         SeenHi(s)' = SeenHi(s), SeenLo(s)' = SeenLo(s)
  PROVE  UNCHANGED Source(s)!sourceVars
BY DEF Mapped, SourceLo, Generation, Source!sourceVars

-----------------------------------------------------------------------------
(* What the operations do to the counters. *)

\* An eviction takes a session's buffer and moves its revision on, or leaves
\* both alone; so it does with the session just stored.
LEMMA EvictionOutcome ==
  ASSUME IInv, NEW s \in Sessions, NEW nb, nb.revision \in Nat,
         EvictIfNeeded(WithBuffer(s, nb), [revisions EXCEPT ![s] = nb.revision])
  PROVE  /\ \/ s \notin DOMAIN buffers' /\ revisions'[s] = nb.revision + 1
            \/ s \in DOMAIN buffers' /\ buffers'[s] = nb /\ revisions'[s] = nb.revision
         /\ \A t \in Sessions \ {s} :
              \/ t \notin DOMAIN buffers' /\ revisions'[t] = revisions[t] + 1
              \/ /\ t \in DOMAIN buffers' <=> t \in DOMAIN buffers
                 /\ t \in DOMAIN buffers => buffers'[t] = buffers[t]
                 /\ revisions'[t] = revisions[t]
<1> DEFINE bs == WithBuffer(s, nb)
           rs == [revisions EXCEPT ![s] = nb.revision]
<1>1. PICK V \in SUBSET (DOMAIN bs \ pinned) :
        /\ buffers' = [t \in DOMAIN bs \ V |-> bs[t]]
        /\ revisions' = [t \in Sessions |-> IF t \in V THEN bs[t].revision + 1 ELSE rs[t]]
  BY DEF EvictIfNeeded, Victims
<1>2. /\ DOMAIN bs = DOMAIN buffers \cup {s}
      /\ bs[s] = nb
      /\ \A t \in DOMAIN buffers \ {s} : bs[t] = buffers[t] /\ bs[t].revision = revisions[t]
  BY DEF WithBuffer, IInv, CurrentRevision
<1>3. revisions \in [Sessions -> Nat]
  BY DEF IInv, TypeOK
<1> HIDE DEF bs
<1>4. \/ s \notin DOMAIN buffers' /\ revisions'[s] = nb.revision + 1
      \/ s \in DOMAIN buffers' /\ buffers'[s] = nb /\ revisions'[s] = nb.revision
  BY <1>1, <1>2, <1>3
<1>5. ASSUME NEW t \in Sessions \ {s}
      PROVE  \/ t \notin DOMAIN buffers' /\ revisions'[t] = revisions[t] + 1
             \/ /\ t \in DOMAIN buffers' <=> t \in DOMAIN buffers
                /\ t \in DOMAIN buffers => buffers'[t] = buffers[t]
                /\ revisions'[t] = revisions[t]
  BY <1>1, <1>2, <1>3
<1> QED BY <1>4, <1>5

\* A trim leaves the counters alone and adds no event.
LEMMA TrimmedCounts ==
  ASSUME NEW b \in Buffer
  PROVE  /\ Trimmed(b).nextSeq = b.nextSeq /\ Trimmed(b).revision = b.revision
         /\ Len(Trimmed(b).events) \in Nat /\ Len(Trimmed(b).events) <= Len(b.events)
<1> USE StoreAssumption
<1>1. CASE ~(MaxEvents > 0 /\ Len(b.events) > MaxEvents + TrimSlack)
  <2>1. Trimmed(b) = b /\ Len(b.events) \in Nat
    BY <1>1 DEF Trimmed, Buffer
  <2> QED BY <2>1
<1>2. CASE MaxEvents > 0 /\ Len(b.events) > MaxEvents + TrimSlack
  <2> DEFINE n == Len(b.events)
             kept == SubSeq(b.events, n - MaxEvents + 1, n)
  <2>1. b.events \in Seq(Entry) /\ n \in Nat /\ MaxEvents \in Nat /\ n > MaxEvents
    BY <1>2 DEF Buffer
  <2>2. \A i \in (n - MaxEvents + 1)..n : b.events[i] \in Entry
    BY <2>1, ElementOfSeq
  <2>3. Len(kept) = n - (n - MaxEvents + 1) + 1
    BY <2>1, <2>2, SubSeqProperties
  <2>4. /\ Trimmed(b).events = kept /\ Trimmed(b).nextSeq = b.nextSeq
        /\ Trimmed(b).revision = b.revision
    BY <1>2 DEF Trimmed, Buffer
  <2> HIDE DEF kept, n
  <2>5. Len(kept) = MaxEvents
    BY <2>1, <2>3
  <2> QED BY <2>1, <2>4, <2>5 DEF n
<1> QED BY <1>1, <1>2
-----------------------------------------------------------------------------
(* Every step of the store is a step of each of its sessions, or stutters. *)

\* The step of the sources, in a context where both states are mapped.
StepOf(s) == [Source(s)!SourceNext]_<<Source(s)!sourceVars>>

\* Whatever is stored for s, another session is evicted or left alone.
LEMMA OtherSessionStep ==
  ASSUME IInv, IInv', NEW t \in Sessions, Mapped(t), Mapped(t)', epoch' = epoch,
         \/ t \notin DOMAIN buffers' /\ revisions'[t] = revisions[t] + 1
         \/ /\ t \in DOMAIN buffers' <=> t \in DOMAIN buffers
            /\ t \in DOMAIN buffers => buffers'[t] = buffers[t]
            /\ revisions'[t] = revisions[t]
  PROVE  StepOf(t)
<1>1. epoch \in Nat /\ revisions[t] \in Nat /\ revisions'[t] \in Nat
  BY DEF IInv, TypeOK
<1>2. CASE t \notin DOMAIN buffers' /\ revisions'[t] = revisions[t] + 1
  <2>1. SeenLo(t)' = 1 /\ SeenHi(t)' = 0
    BY <1>2 DEF SeenLo, SeenHi
  <2>2. Source(t)!SourceNext
    BY <1>1, <1>2, <2>1, NewSourceStep
  <2> QED BY <2>2 DEF StepOf
<1>3. CASE /\ t \in DOMAIN buffers' <=> t \in DOMAIN buffers
           /\ t \in DOMAIN buffers => buffers'[t] = buffers[t]
           /\ revisions'[t] = revisions[t]
  <2>1. SeenLo(t)' = SeenLo(t) /\ SeenHi(t)' = SeenHi(t)
    BY <1>3 DEF SeenLo, SeenHi
  <2>2. UNCHANGED Source(t)!sourceVars
    BY <1>3, <2>1, StutterStep
  <2> QED BY <2>2 DEF StepOf
<1> QED BY <1>2, <1>3

LEMMA InsertStep ==
  ASSUME IInv, Bounded, IInv', Bounded', \A t \in Sessions : Mapped(t) /\ Mapped(t)',
         NEW s \in Sessions, NEW e \in Events, InsertEvent(s, e),
         NEW t \in Sessions
  PROVE  StepOf(t)
<1> DEFINE ob    == GetOrCreate(s)
           entry == [seq |-> ob.nextSeq, event |-> e]
           grown == [ob EXCEPT !.events = Append(@, entry), !.nextSeq = @ + 1]
           nb    == Trimmed(grown)
<1>1. /\ ob \in Buffer /\ ob.revision = revisions[s] /\ revisions[s] \in Nat
      /\ ob.nextSeq = SeenHi(s) + 1 /\ Len(ob.events) = SeenHi(s) + 1 - SeenLo(s)
  <2>1. CASE s \in DOMAIN buffers
    <3>1. /\ buffers[s] \in Buffer /\ clock \in Nat /\ ob = [buffers[s] EXCEPT !.lastAccess = clock]
          /\ buffers[s].revision = revisions[s] /\ revisions[s] \in Nat
      BY <2>1 DEF IInv, TypeOK, CurrentRevision, GetOrCreate
    <3>2. /\ ob \in Buffer /\ ob.revision = buffers[s].revision
          /\ ob.nextSeq = buffers[s].nextSeq /\ ob.events = buffers[s].events
      BY <3>1 DEF Buffer
    <3>3. /\ SeenHi(s) = buffers[s].nextSeq - 1
          /\ SeenLo(s) = buffers[s].nextSeq - Len(buffers[s].events)
          /\ buffers[s].nextSeq \in Nat /\ Len(buffers[s].events) \in Nat
      BY <2>1, <3>1 DEF SeenHi, SeenLo, Buffer
    <3>4. ob.nextSeq = SeenHi(s) + 1
      BY <3>2, <3>3
    <3>5. Len(ob.events) = SeenHi(s) + 1 - SeenLo(s)
      <4>1. Len(ob.events) = Len(buffers[s].events)
        BY <3>2
      <4> QED BY <3>3, <4>1
    <3> HIDE DEF ob
    <3> QED BY <3>1, <3>2, <3>4, <3>5
  <2>2. CASE s \notin DOMAIN buffers
    <3>1. ob = NewBuffer(revisions[s]) /\ clock \in Nat /\ revisions[s] \in Nat
      BY <2>2 DEF IInv, TypeOK, GetOrCreate
    <3>2. SeenHi(s) = 0 /\ SeenLo(s) = 1
      BY <2>2 DEF SeenHi, SeenLo
    <3> HIDE DEF ob
    <3> QED BY <3>1, <3>2 DEF NewBuffer, Buffer
  <2> QED BY <2>1, <2>2
<1>2. /\ EvictIfNeeded(WithBuffer(s, nb), [revisions EXCEPT ![s] = ob.revision])
      /\ epoch' = epoch
  BY DEF InsertEvent
<1>3. entry \in Entry /\ ob.events \in Seq(Entry)
  BY <1>1 DEF Buffer, Entry
<1> HIDE DEF ob, entry
<1>4. /\ grown \in Buffer /\ grown.revision = revisions[s] /\ grown.nextSeq = SeenHi(s) + 2
      /\ Len(grown.events) = SeenHi(s) + 2 - SeenLo(s)
  <2> DEFINE es == Append(ob.events, entry)
             m  == ob.nextSeq + 1
  <2>1. es \in Seq(Entry) /\ Len(es) = Len(ob.events) + 1
    BY <1>3, AppendProperties
  <2>2. grown = [ob EXCEPT !.events = es, !.nextSeq = m]
    OBVIOUS
  <2>3. m \in Nat \ {0} /\ m = SeenHi(s) + 2 /\ SeenHi(s) \in Nat /\ SeenLo(s) \in Nat
    <3>1. SeenHi(s) \in Nat /\ SeenLo(s) \in Nat
      BY DEF Mapped
    <3> HIDE DEF ob
    <3> QED BY <1>1, <3>1
  <2> HIDE DEF es, m, grown
  <2>4. grown \in Buffer /\ grown.events = es /\ grown.nextSeq = m /\ grown.revision = ob.revision
    BY ONLY <1>1, <2>1, <2>2, <2>3 DEF Buffer
  <2> QED BY <1>1, <2>1, <2>3, <2>4
<1> HIDE DEF grown
<1>5. /\ nb.revision = revisions[s] /\ nb.nextSeq = SeenHi(s) + 2
      /\ Len(nb.events) \in Nat /\ Len(nb.events) <= SeenHi(s) + 2 - SeenLo(s)
  BY <1>4, TrimmedCounts
<1> HIDE DEF nb
<1>6. /\ EvictIfNeeded(WithBuffer(s, nb), [revisions EXCEPT ![s] = nb.revision])
      /\ nb.revision \in Nat
  BY <1>1, <1>2, <1>5
<1>7. /\ \/ s \notin DOMAIN buffers' /\ revisions'[s] = nb.revision + 1
         \/ s \in DOMAIN buffers' /\ buffers'[s] = nb /\ revisions'[s] = nb.revision
      /\ \A u \in Sessions \ {s} :
           \/ u \notin DOMAIN buffers' /\ revisions'[u] = revisions[u] + 1
           \/ /\ u \in DOMAIN buffers' <=> u \in DOMAIN buffers
              /\ u \in DOMAIN buffers => buffers'[u] = buffers[u]
              /\ revisions'[u] = revisions[u]
  BY <1>6, EvictionOutcome
<1>8. CASE t # s
  BY <1>2, <1>7, <1>8, OtherSessionStep
<1>9. CASE t = s /\ s \notin DOMAIN buffers'
  BY <1>2, <1>5, <1>7, <1>9, OtherSessionStep
<1>10. CASE t = s /\ s \in DOMAIN buffers'
  <2>1. buffers'[s] = nb /\ revisions'[s] = revisions[s]
    BY <1>1, <1>5, <1>7, <1>10
  <2>2. SeenHi(s)' = nb.nextSeq - 1 /\ SeenLo(s)' = nb.nextSeq - Len(nb.events)
    BY <1>10, <2>1 DEF SeenHi, SeenLo
  <2>3. SeenHi(s) \in Nat /\ SeenLo(s) \in Nat
    BY DEF Mapped
  <2>4. Len(nb.events) > 0
    <3>1. BoundedBuffer(nb) /\ nb \in Buffer
      BY <1>10, <2>1 DEF Bounded, IInv, TypeOK
    <3> QED BY <1>5, <2>3, <3>1, EmptySeq DEF BoundedBuffer, Buffer
  <2>5. Source(s)!SourceNext
    BY <1>2, <1>5, <2>1, <2>2, <2>3, <2>4, GrowStep
  <2> QED BY <1>10, <2>5 DEF StepOf
<1> QED BY <1>8, <1>9, <1>10

\* A reload gives the session a revision above any it had.
LEMMA ReplaceStep ==
  ASSUME IInv, IInv', \A t \in Sessions : Mapped(t) /\ Mapped(t)',
         NEW s \in Sessions, NEW source \in Sources, ReplaceEvents(s, source),
         NEW t \in Sessions
  PROVE  StepOf(t)
<1> USE StoreAssumption
<1> DEFINE previous == IF s \in DOMAIN buffers THEN buffers[s].revision ELSE -1
           revision == (IF previous > revisions[s] THEN previous ELSE revisions[s]) + 1
           n        == Len(source)
           entries  == [i \in 1..n |-> [seq |-> i, event |-> source[i]]]
           loaded   == [NewBuffer(revision) EXCEPT !.events = entries, !.nextSeq = n + 1]
           nb       == Trimmed(loaded)
<1>1. /\ EvictIfNeeded(WithBuffer(s, nb), [revisions EXCEPT ![s] = revision])
      /\ epoch' = epoch
  BY DEF ReplaceEvents
<1>2. /\ revision = revisions[s] + 1 /\ clock \in Nat /\ epoch \in Nat
      /\ revisions[s] \in Nat /\ revisions'[s] \in Nat
  BY DEF IInv, TypeOK, CurrentRevision
<1>3. n \in Nat
  OBVIOUS
<1>4. entries \in Seq(Entry) /\ Len(entries) = n
  <2>1. source \in Seq(Events) /\ \A i \in 1..n : source[i] \in Events
    OBVIOUS
  <2>2. \A i \in 1..n : [seq |-> i, event |-> source[i]] \in Entry
    BY <1>3, <2>1 DEF Entry
  <2>3. entries \in [1..n -> Entry]
    BY <2>2
  <2> QED BY <1>3, <2>3, LenProperties, IsASeq
<1> HIDE DEF entries, revision, n
<1>5. /\ loaded \in Buffer /\ Len(loaded.events) = n /\ loaded.nextSeq = n + 1
      /\ loaded.revision = revision
  <2> DEFINE fb == NewBuffer(revision)
             m  == n + 1
  <2>1. fb \in Buffer /\ fb.revision = revision
    BY <1>2 DEF NewBuffer, Buffer
  <2>2. loaded = [fb EXCEPT !.events = entries, !.nextSeq = m] /\ m \in Nat \ {0}
    BY <1>3
  <2> HIDE DEF loaded, fb, m
  <2>3. loaded \in Buffer /\ loaded.events = entries /\ loaded.nextSeq = m /\ loaded.revision = fb.revision
    BY ONLY <1>4, <2>1, <2>2 DEF Buffer
  <2> QED BY <1>4, <2>1, <2>3 DEF m
<1> HIDE DEF loaded
<1>6. /\ nb.revision = revision /\ nb.nextSeq = n + 1
      /\ Len(nb.events) \in Nat /\ Len(nb.events) <= n
  BY <1>5, TrimmedCounts
<1> HIDE DEF nb
<1>7. /\ \/ s \notin DOMAIN buffers' /\ revisions'[s] = nb.revision + 1
         \/ s \in DOMAIN buffers' /\ buffers'[s] = nb /\ revisions'[s] = nb.revision
      /\ \A u \in Sessions \ {s} :
           \/ u \notin DOMAIN buffers' /\ revisions'[u] = revisions[u] + 1
           \/ /\ u \in DOMAIN buffers' <=> u \in DOMAIN buffers
              /\ u \in DOMAIN buffers => buffers'[u] = buffers[u]
              /\ revisions'[u] = revisions[u]
  <2>1. /\ EvictIfNeeded(WithBuffer(s, nb), [revisions EXCEPT ![s] = nb.revision])
        /\ nb.revision \in Nat
    BY <1>1, <1>2, <1>6
  <2> QED BY <2>1, EvictionOutcome
<1>8. CASE t # s
  BY <1>1, <1>7, <1>8, OtherSessionStep
<1>9. CASE t = s
  <2>1. revisions'[s] > revisions[s] /\ epoch' \in Nat
    BY <1>1, <1>2, <1>6, <1>7
  <2>2. SeenLo(s)' <= SeenHi(s)' + 1 /\ (SeenHi(s)' = 0 => SeenLo(s)' = 1)
    <3>1. CASE s \notin DOMAIN buffers'
      BY <3>1 DEF SeenLo, SeenHi
    <3>2. CASE s \in DOMAIN buffers'
      <4>1. SeenHi(s)' = nb.nextSeq - 1 /\ SeenLo(s)' = nb.nextSeq - Len(nb.events)
        BY <1>7, <3>2 DEF SeenLo, SeenHi
      <4>2. SeenHi(s)' = n /\ SeenLo(s)' = n + 1 - Len(nb.events)
        BY <1>3, <1>6, <4>1
      <4>3. SeenLo(s)' <= SeenHi(s)' + 1
        <5> DEFINE l == Len(nb.events)
        <5>1. l \in Nat
          BY <1>6
        <5> HIDE DEF l
        <5>2. n + 1 - l <= n + 1
          BY <1>3, <5>1
        <5> QED BY <4>2, <5>2 DEF l
      <4>4. ASSUME SeenHi(s)' = 0 PROVE SeenLo(s)' = 1
        <5>1. n = 0
          BY <4>2, <4>4
        <5>2. Len(nb.events) = 0
          BY <1>6, <5>1
        <5> QED BY <4>2, <5>1, <5>2
      <4> QED BY <4>3, <4>4
    <3> QED BY <3>1, <3>2
  <2>3. Source(s)!SourceNext
    BY <1>1, <1>2, <2>1, <2>2, NewSourceStep
  <2> QED BY <1>9, <2>3 DEF StepOf
<1> QED BY <1>8, <1>9

LEMMA DeleteStep ==
  ASSUME IInv, IInv', \A t \in Sessions : Mapped(t) /\ Mapped(t)',
         NEW s \in Sessions, DeleteEventsForSession(s), NEW t \in Sessions
  PROVE  StepOf(t)
<1>1. /\ s \in DOMAIN buffers /\ epoch' = epoch
      /\ buffers' = [buffers EXCEPT ![s] = NewBuffer(buffers[s].revision + 1)]
      /\ revisions' = [revisions EXCEPT ![s] = buffers[s].revision + 1]
  BY DEF DeleteEventsForSession
<1>2. /\ epoch \in Nat /\ revisions[s] \in Nat /\ buffers[s].revision = revisions[s]
      /\ revisions \in [Sessions -> Nat]
  BY <1>1 DEF IInv, TypeOK, CurrentRevision
<1>3. CASE t # s
  <2>1. /\ t \in DOMAIN buffers' <=> t \in DOMAIN buffers
        /\ t \in DOMAIN buffers => buffers'[t] = buffers[t]
        /\ revisions'[t] = revisions[t]
    BY <1>1, <1>2, <1>3
  <2> QED BY <1>1, <2>1, OtherSessionStep
<1>4. CASE t = s
  <2>1. /\ s \in DOMAIN buffers' /\ revisions'[s] = revisions[s] + 1
        /\ buffers'[s].events = <<>> /\ buffers'[s].nextSeq = 1
    BY <1>1, <1>2 DEF NewBuffer
  <2>2. SeenLo(s)' = 1 /\ SeenHi(s)' = 0
    BY <2>1 DEF SeenLo, SeenHi
  <2>3. Source(s)!SourceNext
    BY <1>1, <1>2, <2>1, <2>2, NewSourceStep
  <2> QED BY <1>4, <2>3 DEF StepOf
<1> QED BY <1>3, <1>4

\* A read moves only a buffer's recency.
LEMMA ReadStep ==
  ASSUME IInv, IInv', \A t \in Sessions : Mapped(t) /\ Mapped(t)',
         NEW s \in Sessions, ReadEvents(s), NEW t \in Sessions
  PROVE  StepOf(t)
<1>1. /\ s \in DOMAIN buffers /\ epoch' = epoch /\ revisions' = revisions
      /\ buffers' = [buffers EXCEPT ![s].lastAccess = clock]
      /\ buffers \in [DOMAIN buffers -> Buffer]
  BY DEF ReadEvents, IInv, TypeOK
<1>2. SeenLo(t)' = SeenLo(t) /\ SeenHi(t)' = SeenHi(t)
  <2>1. /\ DOMAIN buffers' = DOMAIN buffers
        /\ \A u \in DOMAIN buffers : /\ buffers'[u].events = buffers[u].events
                                     /\ buffers'[u].nextSeq = buffers[u].nextSeq
    BY <1>1 DEF Buffer
  <2> QED BY <2>1 DEF SeenLo, SeenHi
<1>3. UNCHANGED Source(t)!sourceVars
  BY <1>1, <1>2, StutterStep
<1> QED BY <1>3 DEF StepOf

\* A restarted server's sources are of a new epoch.
LEMMA RestartStep ==
  ASSUME IInv, IInv', Restart, NEW t \in Sessions, Mapped(t), Mapped(t)'
  PROVE  StepOf(t)
<1>1. /\ epoch \in Nat /\ epoch' = epoch + 1 /\ t \notin DOMAIN buffers'
      /\ revisions[t] \in Nat /\ revisions'[t] \in Nat
  BY DEF IInv, TypeOK, Restart
<1>2. SeenLo(t)' = 1 /\ SeenHi(t)' = 0
  BY <1>1 DEF SeenLo, SeenHi
<1>3. Source(t)!SourceNext
  BY <1>1, <1>2, NewSourceStep
<1> QED BY <1>3 DEF StepOf

\* Pins and time are nothing a reader sees.
LEMMA UnseenStep ==
  ASSUME UNCHANGED <<buffers, revisions, epoch>>,
         NEW t \in Sessions, Mapped(t), Mapped(t)'
  PROVE  StepOf(t)
<1>1. SeenLo(t)' = SeenLo(t) /\ SeenHi(t)' = SeenHi(t)
  BY DEF SeenLo, SeenHi
<1>2. UNCHANGED Source(t)!sourceVars
  BY <1>1, StutterStep
<1> QED BY <1>2 DEF StepOf

LEMMA NextIsSourceStep ==
  ASSUME IInv, Bounded, IInv', Bounded', \A t \in Sessions : Mapped(t) /\ Mapped(t)',
         [Next]_vars
  PROVE  \A t \in Sessions : [Source(t)!SourceNext]_<<Source(t)!sourceVars>>
<1> SUFFICES ASSUME NEW t \in Sessions PROVE StepOf(t)
  BY DEF StepOf
<1>1. ASSUME NEW s \in Sessions, NEW e \in Events, InsertEvent(s, e) PROVE StepOf(t)
  BY <1>1, InsertStep
<1>2. ASSUME NEW s \in Sessions, ReadEvents(s) PROVE StepOf(t)
  BY <1>2, ReadStep
<1>3. ASSUME NEW s \in Sessions, DeleteEventsForSession(s) PROVE StepOf(t)
  BY <1>3, DeleteStep
<1>4. ASSUME NEW s \in Sessions, NEW source \in Sources, ReplaceEvents(s, source) PROVE StepOf(t)
  BY <1>4, ReplaceStep
<1>5. ASSUME NEW P \in SUBSET Sessions, SetPinned(P) PROVE StepOf(t)
  BY <1>5, UnseenStep DEF SetPinned
<1>6. CASE Tick
  BY <1>6, UnseenStep DEF Tick
<1>7. CASE Restart
  BY <1>7, RestartStep
<1>8. CASE UNCHANGED vars
  BY <1>8, UnseenStep DEF vars
<1> QED BY <1>1, <1>2, <1>3, <1>4, <1>5, <1>6, <1>7, <1>8 DEF Next

\* Every session of the store is a source as the replay protocol relies on
\* one: a reader never sees a range shrink or an event change without a
\* generation newer than any before it.
THEOREM StoreImplementsSource == Spec => ImplementsEventSource
<1> DEFINE AllMapped == \A t \in Sessions : Mapped(t)
           Steps == \A s \in Sessions : [Source(s)!SourceNext]_<<Source(s)!sourceVars>>
<1>1. Init => \A s \in Sessions : Source(s)!SourceInit
  BY DEF Init, Source!SourceInit, GetSourceGeneration, Generation, HasEvents, GetMaxSeq, EventsOf
<1>2. Init => Bounded
  BY DEF Init, Bounded
<1>3. IInv /\ Bounded => AllMapped
  BY QueriesSeeBuffer
<1>4. IInv /\ Bounded /\ AllMapped /\ (IInv /\ Bounded /\ AllMapped)' /\ [Next]_vars => [Steps]_vars
  BY NextIsSourceStep
<1> HIDE DEF AllMapped
<1>5. Spec => [](IInv /\ Bounded /\ AllMapped)
  BY <1>2, <1>3, InductiveInvariant, NextKeepsBound, PTL DEF Spec
<1>6. Spec => [][Steps]_vars
  BY <1>4, <1>5, PTL DEF Spec
<1>7. Spec => \A s \in Sessions : Source(s)!SourceInit
  BY <1>1 DEF Spec
<1> QED BY <1>6, <1>7, PTL DEF ImplementsEventSource
=============================================================================
