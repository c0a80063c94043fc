----------------------------- MODULE StreamProofs -----------------------------
(***************************************************************************)
(* Proofs about the events that ReplayCoordinator sends to a browser, for  *)
(* every value of its constants.                                           *)
(*                                                                         *)
(* Three invariants stand beside IInv of CoordinatorProofs, each followed  *)
(* along the line of messages that are sent, in hand or queued.  OnceInv:  *)
(* of the live events none is held back that a body is going to send.      *)
(* DenseInv: the frames of an answer are one run, which its body goes on.  *)
(* FlowInv: each live event follows the newest event before it, and what   *)
(* is held back or going to be sent leads up to the store's newest.        *)
(***************************************************************************)
EXTENDS CoordinatorProofs

-----------------------------------------------------------------------------
(* Live events, sent once. *)

\* Message m, or item of the queue, tells the browser of event e.
Brings(m, e) == \E k \in DOMAIN News(m) : News(m)[k] = e
Carries(item, e) == item.kind = "message" /\ Brings(item.msg, e)
IsLive(item) == item.kind = "message" /\ item.msg.type = "event"

\* Event e has been told, is in hand, is queued; or waits for the replay's end.
Brought(s, e) == \E i \in DOMAIN s.out : Brings(s.out[i], e)
Bringing(s, e) == s.inflight # None /\ Brings(s.inflight.msg, e)
Ahead(s, k, e) ==
  Brought(s, e) \/ Bringing(s, e) \/ \E j \in DOMAIN s.queue : j < k /\ Carries(s.queue[j], e)
InLine(s, e) == Brought(s, e) \/ Bringing(s, e) \/ \E j \in DOMAIN s.queue : Carries(s.queue[j], e)
HeldIn(s, e) == \E i \in DOMAIN s.pendingLive : s.pendingLive[i] = e

\* LiveDeliveredOnce, of what is sent and of what is going to be.
OutOnce(o) ==
  \A j \in DOMAIN o : o[j].type = "event" => \A i \in 1..(j - 1) : ~Brings(o[i], o[j].entry)
HandOnce(s) ==
  s.inflight # None /\ s.inflight.msg.type = "event" => ~Brought(s, s.inflight.msg.entry)
QueueOnce(s) == \A k \in DOMAIN s.queue : IsLive(s.queue[k]) => ~Ahead(s, k, s.queue[k].msg.entry)
HeldOnce(s) ==
  \A i \in DOMAIN s.pendingLive :
    /\ ~InLine(s, s.pendingLive[i])
    /\ \A j \in DOMAIN s.pendingLive : s.pendingLive[i] = s.pendingLive[j] => i = j
Once(s) == OutOnce(s.out) /\ HandOnce(s) /\ QueueOnce(s) /\ HeldOnce(s)

\* The events there are have been stored.
Known(g, h, e) == e \in Event /\ ((e.gen = g /\ e.seq <= h) \/ Newer(g, e.gen))
Lined(g, h, s) == \A e : InLine(s, e) \/ HeldIn(s, e) => Known(g, h, e)

\* What a body is going to send is not held back, or it would be sent again.
Batched(b, e) == \E i \in DOMAIN b.batches : \E k \in DOMAIN b.batches[i] : b.batches[i][k] = e
Clear(s, bs) == \A t \in DOMAIN bs : \A e : Batched(bs[t], e) => ~HeldIn(s, e)
Cut(g, h, bs) == \A t \in DOMAIN bs : \A e : Batched(bs[t], e) => Known(g, h, e)

\* A body plans at once from the snapshot it takes.
SnapOK(bs, tl, g, l, h) ==
  \A t \in DOMAIN bs :
    /\ bs[t].phase # "paging"
    /\ bs[t].phase = "loaded" =>
         tl # <<>> /\ t = Head(tl) /\ bs[t].raw = [gen |-> g, lo |-> l, hi |-> h] /\ bs[t].file = 0

OnceInv ==
  /\ Once(sock) /\ Lined(gen, hi, sock) /\ Clear(sock, bodies) /\ Cut(gen, hi, bodies)
  /\ SnapOK(bodies, tail, gen, lo, hi) /\ (Keep = 0 => lo = 1)

\* What q says that s does not comes with item; what it holds back, s does.
Gains(s, item, q) ==
  /\ Once(q)
  /\ \A e : InLine(q, e) => InLine(s, e) \/ Carries(item, e)
  /\ \A e : HeldIn(q, e) => HeldIn(s, e)
\* q says what s does, or holds back.
Recasts(s, q) ==
  /\ Once(q)
  /\ \A e : InLine(q, e) => InLine(s, e) \/ HeldIn(s, e)
  /\ \A e : HeldIn(q, e) => HeldIn(s, e)

\* Messages that tell of no events.
Tellless(ms) == \A i \in DOMAIN ms : ms[i].type # "event" /\ \A e : ~Brings(ms[i], e)

LEMMA ToldNothing ==
  ASSUME NEW o \in Seq(Msg), NEW ms \in Seq(Msg), Tellless(ms), OutOnce(o), NEW p, p = o \o ms
  PROVE  /\ OutOnce(p)
         /\ \A e : (\E i \in DOMAIN p : Brings(p[i], e)) => \E i \in DOMAIN o : Brings(o[i], e)
<1>1. /\ Len(o) \in Nat /\ Len(ms) \in Nat /\ DOMAIN o = 1..Len(o) /\ DOMAIN ms = 1..Len(ms)
      /\ DOMAIN p = 1..(Len(o) + Len(ms))
      /\ \A i \in 1..(Len(o) + Len(ms)) : p[i] = IF i <= Len(o) THEN o[i] ELSE ms[i - Len(o)]
  <2>1. p \in Seq(Msg) /\ Len(p) = Len(o) + Len(ms)
    BY ConcatProperties
  <2>2. \A i \in 1..(Len(o) + Len(ms)) : p[i] = IF i <= Len(o) THEN o[i] ELSE ms[i - Len(o)]
    BY ConcatProperties
  <2> QED BY <2>1, <2>2, LenProperties
<1>2. \A i \in DOMAIN p : \/ i \in DOMAIN o /\ p[i] = o[i]
                          \/ p[i].type # "event" /\ \A e : ~Brings(p[i], e)
  <2> SUFFICES ASSUME NEW i \in DOMAIN p
               PROVE  \/ i \in DOMAIN o /\ p[i] = o[i]
                      \/ p[i].type # "event" /\ \A e : ~Brings(p[i], e)
    OBVIOUS
  <2>1. CASE i <= Len(o)
    BY <1>1, <2>1
  <2>2. CASE ~(i <= Len(o))
    <3>1. i - Len(o) \in DOMAIN ms /\ p[i] = ms[i - Len(o)]
      BY <1>1, <2>2
    <3> QED BY <3>1 DEF Tellless
  <2> QED BY <2>1, <2>2
<1>3. OutOnce(p)
  <2> SUFFICES ASSUME NEW j \in DOMAIN p, p[j].type = "event", NEW i \in 1..(j - 1), Brings(p[i], p[j].entry)
               PROVE  FALSE
    BY DEF OutOnce
  <2>1. j \in DOMAIN o /\ p[j] = o[j]
    BY <1>2
  <2>2. i \in DOMAIN p /\ i \in DOMAIN o /\ p[i] = o[i]
    BY <1>1, <2>1
  <2> QED BY <2>1, <2>2 DEF OutOnce
<1> QED BY <1>2, <1>3

LEMMA TerminalsTellless ==
  ASSUME NEW rs
  PROVE  Tellless(Terminals(rs))
<1>1. \A i \in DOMAIN rs : /\ Terminals(rs)[i].type = "event_replay"
                           /\ Terminals(rs)[i].events = <<>>
  BY DEF Terminals, FailedTerminal, Frame
<1>2. DOMAIN Terminals(rs) = DOMAIN rs
  BY DEF Terminals
<1>3. \A i \in DOMAIN rs : News(Terminals(rs)[i]) = <<>>
  BY <1>1 DEF News
<1> QED BY <1>1, <1>2, <1>3 DEF Tellless, Brings

\* A closed socket has nothing but what was sent.
LEMMA ClosedOnce ==
  ASSUME NEW s \in SocketType, Once(s), NEW ms \in Seq(Msg), Tellless(ms),
         NEW q, q.out = s.out \o ms, q.inflight = None, q.queue = <<>>, q.pendingLive = <<>>
  PROVE  /\ Once(q)
         /\ \A e : InLine(q, e) => Brought(s, e)
         /\ \A e : ~HeldIn(q, e)
<1>1. s.out \in Seq(Msg) /\ OutOnce(s.out)
  BY DEF SocketType, Once
<1>2. /\ OutOnce(q.out)
      /\ \A e : (\E i \in DOMAIN q.out : Brings(q.out[i], e)) => \E i \in DOMAIN s.out : Brings(s.out[i], e)
  <2>1. PICK p : p = s.out \o ms
    OBVIOUS
  <2> QED BY <1>1, <2>1, ToldNothing
<1>3. \A e : ~HeldIn(q, e) /\ ~Bringing(q, e)
  BY DEF HeldIn, Bringing
<1>4. \A e : InLine(q, e) => Brought(s, e)
  <2>1. DOMAIN q.queue = {}
    OBVIOUS
  <2>2. \A e : InLine(q, e) => Brought(q, e)
    BY <1>3, <2>1 DEF InLine
  <2>3. \A e : Brought(q, e) => Brought(s, e)
    BY <1>2 DEF Brought
  <2> QED BY <2>2, <2>3
<1>5. HandOnce(q) /\ QueueOnce(q) /\ HeldOnce(q)
  BY DEF HandOnce, QueueOnce, HeldOnce
<1> QED BY <1>2, <1>3, <1>4, <1>5 DEF Once

LEMMA OverflowOnce ==
  ASSUME gen \in Gens, NEW s \in SocketType, Once(s), NEW q, q = QueueOverflow(s)
  PROVE  /\ Once(q) /\ ~q.open
         /\ \A e : InLine(q, e) => Brought(s, e)
         /\ \A e : ~HeldIn(q, e)
<1> DEFINE ms == Terminals(s.requests)
           o == s.out \o ms
           p == [EmptySocket EXCEPT !.open = FALSE, !.out = o]
<1>1. q = p
  BY DEF QueueOverflow
<1>2. ms \in Seq(Msg) /\ Tellless(ms)
  <2>1. s.requests \in Seq(Req)
    BY DEF SocketType
  <2> QED BY <2>1, TerminalsAreMsgs, TerminalsTellless
<1> HIDE DEF ms, o
<1>3. p.out = o /\ p.inflight = None /\ p.queue = <<>> /\ p.pendingLive = <<>> /\ ~p.open
  BY DEF EmptySocket
<1> HIDE DEF p
<1> QED BY <1>1, <1>2, <1>3, ClosedOnce DEF o

\* The same line, and no more held back, each event once.
LEMMA SameLine ==
  ASSUME NEW s, Once(s), NEW q, q.out = s.out, q.inflight = s.inflight, q.queue = s.queue,
         \A i \in DOMAIN q.pendingLive : HeldIn(s, q.pendingLive[i]),
         \A i, j \in DOMAIN q.pendingLive : q.pendingLive[i] = q.pendingLive[j] => i = j
  PROVE  Recasts(s, q)
<1>1. \A e : (Brought(q, e) <=> Brought(s, e)) /\ (Bringing(q, e) <=> Bringing(s, e))
  BY DEF Brought, Bringing
<1>2. \A e : InLine(q, e) <=> InLine(s, e)
  BY <1>1 DEF InLine
<1>3. QueueOnce(q)
  BY <1>1 DEF Once, QueueOnce, Ahead
<1>4. HandOnce(q)
  BY <1>1 DEF Once, HandOnce
<1>5. \A e : HeldIn(s, e) => ~InLine(s, e)
  BY DEF Once, HeldOnce, HeldIn
<1>6. HeldOnce(q)
  BY <1>2, <1>5 DEF HeldOnce
<1> QED BY <1>2, <1>3, <1>4, <1>6 DEF Once, Recasts, HeldIn

LEMMA EnqueueOnce ==
  ASSUME gen \in Gens, NEW s \in SocketType, Once(s), NEW item \in Item,
         \A e : Carries(item, e) => ~HeldIn(s, e),
         IsLive(item) => ~InLine(s, item.msg.entry),
         NEW q, q = Enqueue(s, item)
  PROVE  Gains(s, item, q)
<1> DEFINE longer == Append(s.queue, item)
           more == s.queued + IF item.kind = "message" THEN item.count ELSE 0
           p == [s EXCEPT !.queue = longer, !.queued = more]
<1>1. CASE q = QueueOverflow(s)
  BY <1>1, OverflowOnce DEF Gains, InLine
<1>2. CASE q # QueueOverflow(s)
  <2>1. q = p
    BY <1>2 DEF Enqueue, SocketType
  <2>2. s.queue \in Seq(Item)
    BY DEF SocketType
  <2>3. /\ Len(s.queue) \in Nat /\ DOMAIN s.queue = 1..Len(s.queue)
        /\ DOMAIN longer = 1..(Len(s.queue) + 1)
        /\ \A i \in 1..Len(s.queue) : longer[i] = s.queue[i]
        /\ longer[Len(s.queue) + 1] = item
    BY <2>2, AppendProperties, LenProperties
  <2> HIDE DEF longer, more
  <2>4. q.out = s.out /\ q.inflight = s.inflight /\ q.queue = longer /\ q.pendingLive = s.pendingLive
    BY <2>1 DEF SocketType
  <2> HIDE DEF p
  <2>5. \A j \in DOMAIN longer : (j \in DOMAIN s.queue /\ longer[j] = s.queue[j])
                                 \/ (j = Len(s.queue) + 1 /\ longer[j] = item)
    BY <2>3
  <2>6. \A e : (Brought(q, e) <=> Brought(s, e)) /\ (Bringing(q, e) <=> Bringing(s, e))
               /\ (HeldIn(q, e) <=> HeldIn(s, e))
    BY <2>4 DEF Brought, Bringing, HeldIn
  <2>7. \A e : InLine(q, e) => InLine(s, e) \/ Carries(item, e)
    BY <2>4, <2>5, <2>6 DEF InLine
  <2>8. HeldOnce(q)
    BY <2>4, <2>7 DEF HeldOnce, Once, HeldIn
  <2>9. QueueOnce(q)
    <3> SUFFICES ASSUME NEW k \in DOMAIN longer, IsLive(longer[k]), Ahead(q, k, longer[k].msg.entry)
                 PROVE  FALSE
      BY <2>4 DEF QueueOnce
    <3>1. CASE k \in DOMAIN s.queue /\ longer[k] = s.queue[k]
      <4>1. \A j \in DOMAIN longer : j < k => j \in DOMAIN s.queue /\ longer[j] = s.queue[j]
        BY <2>3, <3>1
      <4>2. Ahead(s, k, s.queue[k].msg.entry)
        BY <2>4, <2>6, <3>1, <4>1 DEF Ahead
      <4> QED BY <3>1, <4>2 DEF Once, QueueOnce
    <3>2. CASE k = Len(s.queue) + 1 /\ longer[k] = item
      <4>1. \A j \in DOMAIN longer : j < k => j \in DOMAIN s.queue /\ longer[j] = s.queue[j]
        BY <2>3, <3>2
      <4>2. InLine(s, item.msg.entry)
        BY <2>4, <2>6, <3>2, <4>1 DEF Ahead, InLine
      <4> QED BY <3>2, <4>2
    <3> QED BY <2>5, <3>1, <3>2
  <2>10. HandOnce(q) /\ OutOnce(q.out)
    BY <2>4, <2>6 DEF Once, HandOnce
  <2> QED BY <2>6, <2>7, <2>8, <2>9, <2>10 DEF Gains, Once
<1> QED BY <1>1, <1>2

LEMMA LiveItemCarries ==
  ASSUME NEW e \in Event
  PROVE  /\ IsLive(LiveItem(e)) /\ LiveItem(e).msg.entry = e /\ LiveItem(e) \in Item
         /\ \A x : Carries(LiveItem(e), x) <=> x = e
<1>1. LiveItem(e) = [kind |-> "message", msg |-> Live(e), key |-> 0, count |-> 1] /\ LiveItem(e) \in Item
  BY LiveItemIs
<1>2. LiveItem(e).msg = Live(e) /\ LiveItem(e).kind = "message"
  BY <1>1
<1>3. Live(e).type = "event" /\ Live(e).entry = e
  BY DEF Live
<1>4. News(Live(e)) = <<e>>
  BY <1>3 DEF News, IsFrame
<1>5. \A x : Brings(Live(e), x) <=> x = e
  BY <1>4 DEF Brings
<1> QED BY <1>1, <1>2, <1>3, <1>5 DEF IsLive, Carries

\* A socket that says what the other one says or holds back, in the same order.
LEMMA RecastOnce ==
  ASSUME NEW s, Once(s), NEW q, OutOnce(q.out), HandOnce(q), q.queue = s.queue \/ q.queue = <<>>,
         \A e : Brought(q, e) \/ Bringing(q, e) => Brought(s, e) \/ Bringing(s, e),
         \A i \in DOMAIN q.pendingLive : HeldIn(s, q.pendingLive[i]),
         \A i, j \in DOMAIN q.pendingLive : q.pendingLive[i] = q.pendingLive[j] => i = j
  PROVE  Recasts(s, q)
<1>1. \A j \in DOMAIN q.queue : j \in DOMAIN s.queue /\ q.queue[j] = s.queue[j]
  OBVIOUS
<1>2. \A e : InLine(q, e) => InLine(s, e)
  BY <1>1 DEF InLine
<1>3. QueueOnce(q)
  <2>1. \A k, e : Ahead(q, k, e) => Ahead(s, k, e)
    BY <1>1 DEF Ahead
  <2> QED BY <1>1, <2>1 DEF Once, QueueOnce
<1>4. \A e : HeldIn(s, e) => ~InLine(s, e)
  BY DEF Once, HeldOnce, HeldIn
<1>5. HeldOnce(q)
  BY <1>2, <1>4 DEF HeldOnce
<1> QED BY <1>2, <1>3, <1>5 DEF Once, Recasts, HeldIn

LEMMA ToldOne ==
  ASSUME NEW o \in Seq(Msg), NEW m \in Msg, OutOnce(o),
         m.type = "event" => \A i \in DOMAIN o : ~Brings(o[i], m.entry), NEW p, p = Append(o, m)
  PROVE  /\ OutOnce(p)
         /\ \A e : (\E i \in DOMAIN p : Brings(p[i], e)) => Brings(m, e) \/ \E i \in DOMAIN o : Brings(o[i], e)
<1>1. /\ Len(o) \in Nat /\ DOMAIN o = 1..Len(o) /\ DOMAIN p = 1..(Len(o) + 1)
      /\ \A i \in 1..Len(o) : p[i] = o[i]
      /\ p[Len(o) + 1] = m
  BY AppendProperties, LenProperties
<1>2. \A i \in DOMAIN p : (i \in DOMAIN o /\ p[i] = o[i]) \/ (i = Len(o) + 1 /\ p[i] = m)
  BY <1>1
<1>3. OutOnce(p)
  <2> SUFFICES ASSUME NEW j \in DOMAIN p, p[j].type = "event", NEW i \in 1..(j - 1), Brings(p[i], p[j].entry)
               PROVE  FALSE
    BY DEF OutOnce
  <2>1. i \in DOMAIN o /\ p[i] = o[i]
    BY <1>1
  <2>2. CASE j \in DOMAIN o /\ p[j] = o[j]
    BY <2>1, <2>2 DEF OutOnce
  <2>3. CASE j = Len(o) + 1 /\ p[j] = m
    BY <2>1, <2>3
  <2> QED BY <1>2, <2>2, <2>3
<1> QED BY <1>2, <1>3

\* The indices of a queue whose head is taken.
LEMMA TailShifts ==
  ASSUME NEW u \in Seq(Item), u # <<>>, NEW v, v = Tail(u)
  PROVE  /\ \A i \in DOMAIN v : i \in Nat /\ i + 1 \in DOMAIN u /\ v[i] = u[i + 1]
         /\ \A k \in DOMAIN u : \/ k = 1 /\ u[k] = Head(u)
                                \/ k \in Nat /\ k - 1 \in DOMAIN v /\ v[k - 1] = u[k]
         /\ 1 \in DOMAIN u /\ u[1] = Head(u)
<1>1. /\ v \in Seq(Item) /\ Len(v) = Len(u) - 1 /\ Len(u) \in Nat /\ Len(v) \in Nat
      /\ \A i \in 1..Len(v) : v[i] = u[i + 1]
  BY HeadTailProperties, LenProperties
<1>2. Head(u) = u[1] /\ DOMAIN u = 1..Len(u) /\ 1 \in DOMAIN u
  OBVIOUS
<1>3. DOMAIN v = 1..Len(v)
  BY <1>1
<1>4. \A i \in DOMAIN v : i \in Nat /\ i + 1 \in DOMAIN u /\ v[i] = u[i + 1]
  BY <1>1, <1>2, <1>3
<1>5. \A k \in DOMAIN u : \/ k = 1 /\ u[k] = Head(u)
                          \/ k \in Nat /\ k - 1 \in DOMAIN v /\ v[k - 1] = u[k]
  BY <1>1, <1>2, <1>3
<1> QED BY <1>2, <1>4, <1>5

\* What the drain takes comes before all that is queued.
LEMMA TakenOnce ==
  ASSUME NEW s \in SocketType, Once(s), s.queue # <<>>, s.inflight = None,
         NEW q, q.queue = Tail(s.queue), q.pendingLive = s.pendingLive, OutOnce(q.out), HandOnce(q),
         \A e : Brought(q, e) \/ Bringing(q, e) => Brought(s, e) \/ Carries(Head(s.queue), e)
  PROVE  Recasts(s, q)
<1> DEFINE u == s.queue
           v == Tail(u)
           head == Head(u)
<1>1. /\ \A i \in DOMAIN v : i \in Nat /\ i + 1 \in DOMAIN u /\ v[i] = u[i + 1]
      /\ 1 \in DOMAIN u /\ u[1] = head
  <2>1. u \in Seq(Item) /\ u # <<>>
    BY DEF SocketType
  <2>2. PICK w : w = v
    OBVIOUS
  <2> QED BY <2>1, <2>2, TailShifts
<1>2. \A e : Brought(q, e) \/ Bringing(q, e) => Brought(s, e) \/ Carries(head, e)
  OBVIOUS
<1> HIDE DEF v, head
<1>3. q.queue = v
  BY DEF v
<1>4. \A e : InLine(q, e) => InLine(s, e)
  BY <1>1, <1>2, <1>3 DEF InLine, u
<1>5. QueueOnce(q)
  <2> SUFFICES ASSUME NEW k \in DOMAIN v, IsLive(v[k]), Ahead(q, k, v[k].msg.entry)
               PROVE  FALSE
    BY <1>3 DEF QueueOnce
  <2>1. k \in Nat /\ k + 1 \in DOMAIN u /\ u[k + 1] = v[k]
    BY <1>1
  <2>2. Ahead(s, k + 1, v[k].msg.entry)
    <3> DEFINE e == v[k].msg.entry
    <3>1. CASE Brought(q, e) \/ Bringing(q, e)
      <4>1. CASE Carries(head, e)
        <5>1. 1 < k + 1 \/ k = 0
          BY <2>1
        <5>2. k # 0
          BY <1>1, <2>1 DEF v, u, SocketType
        <5> QED BY <1>1, <4>1, <5>1, <5>2 DEF Ahead, u
      <4> QED BY <1>2, <3>1, <4>1 DEF Ahead
    <3>2. CASE \E j \in DOMAIN v : j < k /\ Carries(v[j], e)
      <4>1. PICK j \in DOMAIN v : j < k /\ Carries(v[j], e)
        BY <3>2
      <4>2. j + 1 \in DOMAIN u /\ u[j + 1] = v[j] /\ j + 1 < k + 1
        BY <1>1, <2>1, <4>1
      <4> QED BY <4>1, <4>2 DEF Ahead, u
    <3> HIDE DEF e
    <3> QED BY <1>3, <3>1, <3>2 DEF Ahead, e
  <2> QED BY <2>1, <2>2 DEF Once, QueueOnce, u
<1>6. HeldOnce(q)
  BY <1>4 DEF Once, HeldOnce
<1> QED BY <1>4, <1>5, <1>6 DEF Once, Recasts, HeldIn

LEMMA CompleteOnce ==
  ASSUME gen \in Gens, NEW s \in SocketType, Once(s), NEW t, NEW q, q = CompleteRequest(s, t)
  PROVE  Recasts(s, q)
<1> DEFINE rest == Without(s, t)
           live == [i \in DOMAIN s.pendingLive |-> LiveItem(s.pendingLive[i])]
           due == IF s.pendingLive = <<>> THEN s.queued ELSE Max2(s.queued, 1)
           longer == s.queue \o live
           none == <<>>
           fewer == [s EXCEPT !.requests = rest]
           free == [s EXCEPT !.requests = rest, !.suppressed = FALSE, !.pendingLive = none,
                             !.queue = longer, !.queued = due]
<1>1. s.queue \in Seq(Item) /\ s.pendingLive \in Seq(Event) /\ s.requests \in Seq(Req)
  BY DEF SocketType
<1>2. q \in {s, fewer, free, QueueOverflow(fewer)}
  BY DEF CompleteRequest, SocketType
<1>3. rest \in Seq(Req)
  <2> DEFINE S == {r \in Range(s.requests) : r.token # t}
  <2>1. rest = Those(s.requests, S)
    BY DEF Without
  <2> HIDE DEF S, rest
  <2> QED BY <1>1, <2>1, ThoseOf
<1>4. \A i, j \in DOMAIN s.pendingLive : s.pendingLive[i] = s.pendingLive[j] => i = j
  BY DEF Once, HeldOnce
<1>5. live \in Seq(Item) /\ Len(live) = Len(s.pendingLive)
      /\ \A i \in DOMAIN live : /\ i \in DOMAIN s.pendingLive /\ IsLive(live[i])
                                /\ live[i].msg.entry = s.pendingLive[i]
                                /\ \A e : Carries(live[i], e) <=> e = s.pendingLive[i]
  <2>1. DOMAIN s.pendingLive = 1..Len(s.pendingLive) /\ Len(s.pendingLive) \in Nat
    BY <1>1
  <2>2. \A i \in 1..Len(s.pendingLive) : s.pendingLive[i] \in Event /\ LiveItem(s.pendingLive[i]) \in Item
    BY <1>1, LiveItemIs
  <2>3. live \in Seq(Item) /\ Len(live) = Len(s.pendingLive) /\ DOMAIN live = DOMAIN s.pendingLive
        /\ \A i \in DOMAIN live : live[i] = LiveItem(s.pendingLive[i])
    <3> HIDE DEF Item
    <3> QED BY <2>1, <2>2
  <2> HIDE DEF live
  <2> QED BY <2>1, <2>2, <2>3, LiveItemCarries
<1> HIDE DEF live
<1>a. live \in Seq(Item) /\ Len(live) = Len(s.pendingLive)
  BY <1>5
<1>6. /\ Len(s.queue) \in Nat /\ Len(live) \in Nat /\ DOMAIN s.queue = 1..Len(s.queue)
      /\ DOMAIN live = 1..Len(live) /\ DOMAIN longer = 1..(Len(s.queue) + Len(live))
      /\ \A i \in 1..(Len(s.queue) + Len(live)) :
           longer[i] = IF i <= Len(s.queue) THEN s.queue[i] ELSE live[i - Len(s.queue)]
  <2>1. longer \in Seq(Item) /\ Len(longer) = Len(s.queue) + Len(live)
    BY <1>1, <1>a, ConcatProperties
  <2>2. \A i \in 1..(Len(s.queue) + Len(live)) :
          longer[i] = IF i <= Len(s.queue) THEN s.queue[i] ELSE live[i - Len(s.queue)]
    BY <1>1, <1>a, ConcatProperties
  <2>3. Len(s.queue) \in Nat /\ Len(live) \in Nat /\ DOMAIN s.queue = 1..Len(s.queue) /\ DOMAIN live = 1..Len(live)
    BY <1>1, <1>a
  <2> HIDE DEF longer
  <2>4. DOMAIN longer = 1..Len(longer)
    BY <2>1
  <2> QED BY <2>1, <2>2, <2>3, <2>4
<1> HIDE DEF longer, rest, due
<1>7. \A k \in DOMAIN longer :
        \/ k \in DOMAIN s.queue /\ longer[k] = s.queue[k]
        \/ ~(k <= Len(s.queue)) /\ k - Len(s.queue) \in DOMAIN live /\ longer[k] = live[k - Len(s.queue)]
  <2> SUFFICES ASSUME NEW k \in DOMAIN longer
               PROVE \/ k \in DOMAIN s.queue /\ longer[k] = s.queue[k]
                     \/ /\ ~(k <= Len(s.queue)) /\ k - Len(s.queue) \in DOMAIN live
                        /\ longer[k] = live[k - Len(s.queue)]
    OBVIOUS
  <2>1. CASE k <= Len(s.queue)
    BY <1>6, <2>1
  <2>2. CASE ~(k <= Len(s.queue))
    BY <1>6, <2>2
  <2> QED BY <2>1, <2>2
<1>8. Recasts(s, s)
  BY DEF Recasts
<1>9. fewer \in SocketType /\ Recasts(s, fewer)
  <2>1. /\ fewer \in SocketType /\ fewer.out = s.out /\ fewer.inflight = s.inflight
        /\ fewer.queue = s.queue /\ fewer.pendingLive = s.pendingLive
    BY <1>3 DEF SocketType
  <2> HIDE DEF fewer
  <2>2. \A i \in DOMAIN fewer.pendingLive : HeldIn(s, fewer.pendingLive[i])
    BY <2>1 DEF HeldIn
  <2> QED BY <1>4, <2>1, <2>2, SameLine
<1>10. free.out = s.out /\ free.inflight = s.inflight /\ free.queue = longer /\ free.pendingLive = none
  BY DEF SocketType
<1> HIDE DEF fewer, free
<1>11. CASE q = QueueOverflow(fewer)
  <2>1. Once(fewer) /\ \A e : InLine(fewer, e) => InLine(s, e) \/ HeldIn(s, e)
    BY <1>9 DEF Recasts
  <2>2. /\ Once(q)
        /\ \A e : InLine(q, e) => Brought(fewer, e)
        /\ \A e : ~HeldIn(q, e)
    BY <1>9, <1>11, <2>1, OverflowOnce
  <2> QED BY <2>1, <2>2 DEF Recasts, InLine
<1>12. Recasts(s, free)
  <2>1. \A e : (Brought(free, e) <=> Brought(s, e)) /\ (Bringing(free, e) <=> Bringing(s, e))
               /\ ~HeldIn(free, e)
    BY <1>10 DEF Brought, Bringing, HeldIn
  <2>2. \A e : HeldIn(s, e) => ~InLine(s, e)
    BY DEF Once, HeldOnce, HeldIn
  <2>3. ASSUME NEW e, InLine(free, e) PROVE InLine(s, e) \/ HeldIn(s, e)
    <3>1. CASE \E k \in DOMAIN longer : Carries(longer[k], e)
      <4>1. PICK k \in DOMAIN longer : Carries(longer[k], e)
        BY <3>1
      <4> QED BY <1>5, <1>7, <4>1 DEF InLine, HeldIn
    <3> QED BY <1>10, <2>1, <2>3, <3>1 DEF InLine
  <2>4. QueueOnce(free)
    <3> SUFFICES ASSUME NEW k \in DOMAIN longer, IsLive(longer[k]), Ahead(free, k, longer[k].msg.entry)
                 PROVE  FALSE
      BY <1>10 DEF QueueOnce
    <3>1. CASE k \in DOMAIN s.queue /\ longer[k] = s.queue[k]
      <4>1. \A j \in DOMAIN longer : j < k => j \in DOMAIN s.queue /\ longer[j] = s.queue[j]
        BY <1>6, <3>1
      <4>2. Ahead(s, k, s.queue[k].msg.entry)
        BY <1>10, <2>1, <3>1, <4>1 DEF Ahead
      <4> QED BY <3>1, <4>2 DEF Once, QueueOnce
    <3>2. CASE ~(k <= Len(s.queue)) /\ k - Len(s.queue) \in DOMAIN live /\ longer[k] = live[k - Len(s.queue)]
      <4> DEFINE e == longer[k].msg.entry
                 h == k - Len(s.queue)
      <4>1. h \in DOMAIN s.pendingLive /\ e = s.pendingLive[h] /\ ~InLine(s, e)
        BY <1>5, <2>2, <3>2 DEF HeldIn
      <4>2. PICK j \in DOMAIN longer : j < k /\ Carries(longer[j], e)
        BY <1>10, <2>1, <4>1 DEF Ahead, InLine
      <4>3. CASE j \in DOMAIN s.queue /\ longer[j] = s.queue[j]
        BY <4>1, <4>2, <4>3 DEF InLine
      <4>4. CASE j - Len(s.queue) \in DOMAIN live /\ longer[j] = live[j - Len(s.queue)]
        <5>1. j - Len(s.queue) = h
          BY <1>4, <1>5, <4>1, <4>2, <4>4
        <5>2. j \in Nat /\ k \in Nat
          BY <1>6
        <5> QED BY <1>6, <4>2, <5>1, <5>2
      <4> QED BY <1>7, <4>3, <4>4
    <3> QED BY <1>7, <3>1, <3>2
  <2>5. HandOnce(free) /\ HeldOnce(free) /\ OutOnce(free.out)
    BY <1>10, <2>1 DEF Once, HandOnce, HeldOnce
  <2> QED BY <2>1, <2>3, <2>4, <2>5 DEF Recasts, Once
<1> QED BY <1>2, <1>8, <1>9, <1>11, <1>12

\* What holding back event e makes of the socket.
LEMMA SuppressOnce ==
  ASSUME gen \in Gens, NEW s \in SocketType, Once(s), NEW e \in Event, ~InLine(s, e),
         NEW q, q = SuppressLive(s, e)
  PROVE  /\ Once(q)
         /\ \A x : InLine(q, x) => InLine(s, x)
         /\ \A x : HeldIn(q, x) => HeldIn(s, x) \/ x = e
<1> DEFINE held == Append(s.pendingLive, e)
           more == s.queued + 1
           p == [s EXCEPT !.pendingLive = held, !.queued = more]
<1>1. \/ q = s \/ q = QueueOverflow(s)
      \/ q = p /\ \A i \in DOMAIN s.pendingLive : s.pendingLive[i] # e
  BY DEF SuppressLive, SocketType
<1>2. CASE q = QueueOverflow(s)
  BY <1>2, OverflowOnce DEF InLine
<1>3. CASE q = p /\ \A i \in DOMAIN s.pendingLive : s.pendingLive[i] # e
  <2>1. s.pendingLive \in Seq(Event)
    BY DEF SocketType
  <2>2. /\ Len(s.pendingLive) \in Nat /\ DOMAIN s.pendingLive = 1..Len(s.pendingLive)
        /\ DOMAIN held = 1..(Len(s.pendingLive) + 1)
        /\ \A i \in 1..Len(s.pendingLive) : held[i] = s.pendingLive[i]
        /\ held[Len(s.pendingLive) + 1] = e
    BY <2>1, AppendProperties, LenProperties
  <2> HIDE DEF held, more
  <2>3. q.out = s.out /\ q.inflight = s.inflight /\ q.queue = s.queue /\ q.pendingLive = held
    BY <1>3 DEF SocketType
  <2> HIDE DEF p
  <2>4. \A i \in DOMAIN held : (i \in DOMAIN s.pendingLive /\ held[i] = s.pendingLive[i])
                               \/ (i = Len(s.pendingLive) + 1 /\ held[i] = e)
    BY <2>2
  <2>5. \A x : /\ Brought(q, x) <=> Brought(s, x)
               /\ Bringing(q, x) <=> Bringing(s, x)
    BY <2>3 DEF Brought, Bringing
  <2>6. \A x : InLine(q, x) <=> InLine(s, x)
    BY <2>3, <2>5 DEF InLine
  <2>7. HeldOnce(q)
    <3>1. \A i \in DOMAIN held : ~InLine(s, held[i])
      BY <2>4 DEF Once, HeldOnce
    <3>2. \A i, j \in DOMAIN held : held[i] = held[j] => i = j
      BY <1>3, <2>4 DEF Once, HeldOnce
    <3> QED BY <2>3, <2>6, <3>1, <3>2 DEF HeldOnce
  <2>8. QueueOnce(q)
    BY <2>3, <2>5 DEF Once, QueueOnce, Ahead
  <2>9. HandOnce(q) /\ OutOnce(q.out)
    BY <2>3, <2>5 DEF Once, HandOnce
  <2>10. \A x : HeldIn(q, x) => HeldIn(s, x) \/ x = e
    BY <2>3, <2>4 DEF HeldIn
  <2> QED BY <2>6, <2>7, <2>8, <2>9, <2>10 DEF Once
<1> QED BY <1>1, <1>2, <1>3

-----------------------------------------------------------------------------
(* The actions, and what they do to OnceInv. *)

\* The frames the bodies bs are to send are among those of bodies.
Drawn(bs) == \A t \in DOMAIN bs : \A e : Batched(bs[t], e) => \E u \in DOMAIN bodies : Batched(bodies[u], e)
\* What a step leaves, but for a closed socket's bodies.
Fine(q, bs, tl, g, l, h) ==
  /\ Once(q) /\ Lined(g, h, q) /\ (Keep = 0 => l = 1)
  /\ q.open => Clear(q, bs) /\ Cut(g, h, bs) /\ SnapOK(bs, tl, g, l, h)

LEMMA PrimedOnce ==
  ASSUME Once(sock'), Lined(gen', hi', sock'), Clear(sock', bodies'), Cut(gen', hi', bodies'),
         SnapOK(bodies', tail', gen', lo', hi'), Keep = 0 => lo' = 1
  PROVE  OnceInv'
<1>1. Once(sock)' <=> Once(sock')
  BY DEF Once, OutOnce, HandOnce, QueueOnce, HeldOnce, Ahead, InLine, Brought, Bringing
<1>2. Lined(gen, hi, sock)' <=> Lined(gen', hi', sock')
  BY DEF Lined, InLine, HeldIn, Brought, Bringing, Known
<1>3. Clear(sock, bodies)' <=> Clear(sock', bodies')
  BY DEF Clear, HeldIn, Batched
<1>4. Cut(gen, hi, bodies)' <=> Cut(gen', hi', bodies')
  BY DEF Cut, Batched, Known
<1>5. SnapOK(bodies, tail, gen, lo, hi)' <=> SnapOK(bodies', tail', gen', lo', hi')
  BY DEF SnapOK
<1> QED BY <1>1, <1>2, <1>3, <1>4, <1>5 DEF OnceInv

LEMMA BecomeOnce ==
  ASSUME NEW q, NEW bs, NEW tl, Become(q, bs, tl), Fine(q, bs, tl, gen', lo', hi')
  PROVE  OnceInv'
<1>1. /\ sock' = q
      /\ bodies' = IF q.open THEN bs ELSE Empty
      /\ tail' = IF q.open THEN tl ELSE <<>>
  BY DEF Become
<1>2. Clear(q, Empty) /\ Cut(gen', hi', Empty) /\ SnapOK(Empty, <<>>, gen', lo', hi')
  BY DEF Clear, Cut, SnapOK, Empty
<1>3. /\ Once(sock') /\ Lined(gen', hi', sock') /\ Clear(sock', bodies') /\ Cut(gen', hi', bodies')
      /\ SnapOK(bodies', tail', gen', lo', hi') /\ (Keep = 0 => lo' = 1)
  BY <1>1, <1>2 DEF Fine
<1> QED BY <1>3, PrimedOnce

\* The store takes nothing back.
Grows == \A e : Known(gen, hi, e) => Known(gen', hi', e)

LEMMA StepOnce ==
  ASSUME OnceInv, Grows, NEW q, sock' = q, Recasts(sock, q), NEW bs, bodies' = bs, Drawn(bs),
         SnapOK(bodies', tail', gen', lo', hi'), Keep = 0 => lo' = 1
  PROVE  OnceInv'
<1>1. Once(q) /\ Lined(gen', hi', q)
  BY DEF Grows, OnceInv, Lined, Recasts
<1>2. Clear(q, bs) /\ Cut(gen', hi', bs)
  BY DEF Grows, OnceInv, Clear, Cut, Drawn, Recasts
<1> QED BY <1>1, <1>2, PrimedOnce

LEMMA StoreGrows ==
  ASSUME gen \in Gens, hi \in Nat, gen' \in Gens, hi' \in Nat,
         (gen' = gen /\ hi' >= hi) \/ Newer(gen', gen)
  PROVE  Grows
<1> SUFFICES ASSUME NEW e, Known(gen, hi, e) PROVE Known(gen', hi', e)
  BY DEF Grows
<1>1. e \in Event /\ e.gen \in Gens /\ e.seq \in Nat
  BY DEF Known, Event
<1>2. /\ gen[1] \in Nat /\ gen[2] \in Nat /\ gen'[1] \in Nat /\ gen'[2] \in Nat
      /\ e.gen[1] \in Nat /\ e.gen[2] \in Nat
  BY <1>1 DEF Gens
<1> QED BY <1>1, <1>2 DEF Known, Newer

\* A step that changes neither the store nor what the bodies are to send.
LEMMA MoveOnce ==
  ASSUME OnceInv, UNCHANGED sourceVars, NEW q, Once(q),
         \A e : InLine(q, e) \/ HeldIn(q, e) => Known(gen, hi, e),
         \A e : HeldIn(q, e) => HeldIn(sock, e),
         NEW bs, q.open => Drawn(bs),
         NEW tl, q.open => SnapOK(bs, tl, gen, lo, hi), Become(q, bs, tl)
  PROVE  OnceInv'
<1>1. gen' = gen /\ lo' = lo /\ hi' = hi
  BY DEF sourceVars
<1>2. q.open => Clear(q, bs) /\ Cut(gen, hi, bs)
  BY DEF OnceInv, Clear, Cut, Drawn
<1>3. Fine(q, bs, tl, gen, lo, hi)
  BY <1>2 DEF Fine, OnceInv, Lined
<1> QED BY <1>1, <1>3, BecomeOnce

LEMMA RecastMoves ==
  ASSUME OnceInv, UNCHANGED sourceVars, NEW q, Recasts(sock, q),
         NEW bs, q.open => Drawn(bs),
         NEW tl, q.open => SnapOK(bs, tl, gen, lo, hi), Become(q, bs, tl)
  PROVE  OnceInv'
<1>1. \A e : InLine(q, e) \/ HeldIn(q, e) => Known(gen, hi, e)
  BY DEF OnceInv, Lined, Recasts
<1> QED BY <1>1, MoveOnce DEF Recasts

LEMMA StayRecasts == OnceInv => Recasts(sock, sock)
BY DEF OnceInv, Recasts

LEMMA DropDrawn ==
  ASSUME NEW t
  PROVE  Drawn(DropBody(bodies, t))
<1>1. PICK cs : cs = DropBody(bodies, t)
  OBVIOUS
<1>2. DOMAIN cs = DOMAIN bodies \ {t} /\ \A u \in DOMAIN bodies \ {t} : cs[u] = bodies[u]
  BY <1>1, DropBodyIs
<1>3. Drawn(cs)
  BY <1>2 DEF Drawn
<1> QED BY <1>1, <1>3

LEMMA SameDrawn == Drawn(bodies)
BY DEF Drawn

LEMMA OneDrawn ==
  ASSUME NEW t \in DOMAIN bodies, NEW c, \A e : Batched(c, e) => Batched(bodies[t], e)
  PROVE  Drawn([bodies EXCEPT ![t] = c])
BY DEF Drawn

LEMMA SameBatches ==
  ASSUME NEW b, NEW c, c.batches = b.batches
  PROVE  \A e : Batched(c, e) <=> Batched(b, e)
BY DEF Batched

LEMMA OneSnap ==
  ASSUME NEW bs, NEW tl, NEW g, NEW l, NEW h, SnapOK(bs, tl, g, l, h), NEW t \in DOMAIN bs,
         NEW c, c.phase \notin {"loaded", "paging"}
  PROVE  SnapOK([bs EXCEPT ![t] = c], tl, g, l, h)
BY DEF SnapOK

\* The body goes, and leaves the delivery tail if it is its head.
LEMMA DropSnap ==
  ASSUME NEW bs, NEW tl, NEW g, NEW l, NEW h, SnapOK(bs, tl, g, l, h), NEW t, NEW rest,
         rest = tl \/ t = Head(tl)
  PROVE  SnapOK(DropBody(bs, t), rest, g, l, h)
<1>1. PICK cs : cs = DropBody(bs, t)
  OBVIOUS
<1>2. DOMAIN cs = DOMAIN bs \ {t} /\ \A u \in DOMAIN bs \ {t} : cs[u] = bs[u]
  BY <1>1, DropBodyIs
<1>3. SnapOK(cs, rest, g, l, h)
  BY <1>2 DEF SnapOK
<1> QED BY <1>1, <1>3

LEMMA PushSnap ==
  ASSUME NEW bs, NEW tl \in Seq(Nat), NEW g, NEW l, NEW h, SnapOK(bs, tl, g, l, h), NEW t \in Nat
  PROVE  SnapOK(bs, Append(tl, t), g, l, h)
<1>1. tl # <<>> => Append(tl, t) # <<>> /\ Head(Append(tl, t)) = Head(tl)
  <2>1. Len(Append(tl, t)) = Len(tl) + 1 /\ (tl # <<>> => Append(tl, t)[1] = tl[1]) /\ Append(tl, t) \in Seq(Nat)
    OBVIOUS
  <2> QED BY <2>1
<1> QED BY <1>1 DEF SnapOK

\* A body that has gone and its socket as it was.
LEMMA DropOnce ==
  ASSUME OnceInv, UNCHANGED sourceVars, NEW t, NEW rest, rest = tail \/ t = Head(tail),
         Become(sock, DropBody(bodies, t), rest)
  PROVE  OnceInv'
<1>1. SnapOK(DropBody(bodies, t), rest, gen, lo, hi)
  BY DropSnap DEF OnceInv
<1> QED BY <1>1, StayRecasts, DropDrawn, RecastMoves

LEMMA SaysSame ==
  ASSUME NEW s, Once(s), NEW q, q.out = s.out, q.inflight = s.inflight, q.queue = s.queue,
         q.pendingLive = s.pendingLive
  PROVE  Recasts(s, q)
<1>1. \A i \in DOMAIN q.pendingLive : HeldIn(s, q.pendingLive[i])
  BY DEF HeldIn
<1>2. \A i, j \in DOMAIN q.pendingLive : q.pendingLive[i] = q.pendingLive[j] => i = j
  BY DEF Once, HeldOnce
<1> QED BY <1>1, <1>2, SameLine

LEMMA RecastsOn ==
  ASSUME NEW s, NEW m, NEW q, Recasts(s, m), Recasts(m, q)
  PROVE  Recasts(s, q)
BY DEF Recasts

\* An item that tells of no events.
LEMMA EnqueueQuiet ==
  ASSUME gen \in Gens, NEW s \in SocketType, Once(s), NEW item \in Item, ~IsLive(item),
         \A e : ~Carries(item, e), NEW q, q = Enqueue(s, item)
  PROVE  Recasts(s, q)
BY EnqueueOnce DEF Gains, Recasts

LEMMA QuietFrame ==
  ASSUME NEW r, NEW last, NEW more, NEW error, NEW msg, msg = Frame(r, <<>>, last, more, error)
  PROVE  msg.type # "event" /\ \A e : ~Brings(msg, e)
<1>1. msg.type = "event_replay" /\ msg.events = <<>>
  BY DEF Frame
<1>2. News(msg) = <<>>
  BY <1>1 DEF News
<1> QED BY <1>1, <1>2 DEF Brings

LEMMA AdmitOnce ==
  ASSUME IInv, OnceInv, NEW t \in DOMAIN bodies, Admit(t)
  PROVE  OnceInv'
<1>1. CASE Valid(t)
  <2> DEFINE mismatch   == bodies[t].known # None /\ bodies[t].known # gen
             outOfRange == /\ bodies[t].kind = "delta" /\ HasEvents
                           /\ (bodies[t].at < lo - 1 \/ bodies[t].at > hi)
             cold       == mismatch \/ outOfRange
             asCold     == [i \in DOMAIN sock.requests |->
                              IF cold /\ sock.requests[i].token = t
                              THEN [sock.requests[i] EXCEPT !.kind = "cold"] ELSE sock.requests[i]]
             sup == sock.suppressed \/ cold
             kind == IF cold THEN "cold" ELSE bodies[t].kind
             c == [bodies[t] EXCEPT !.phase = "waiting", !.reset = cold, !.kind = kind]
             q == [sock EXCEPT !.requests = asCold, !.suppressed = sup]
  <2>1. Become([sock EXCEPT !.requests = asCold, !.suppressed = @ \/ cold],
               [bodies EXCEPT ![t].phase = "waiting", ![t].reset = cold,
                              ![t].kind = IF cold THEN "cold" ELSE @],
               Append(tail, t)) /\ UNCHANGED sourceVars
    BY <1>1 DEF Admit
  <2>2. sock \in SocketType
    BY SockTyped
  <2>3. bodies[t] \in Body /\ t \in Nat /\ tail \in Seq(Nat)
    BY BodyOf DEF IInv, SocketInv, Serving, TailOK
  <2> HIDE DEF cold, asCold
  <2>5. [sock EXCEPT !.requests = asCold, !.suppressed = @ \/ cold] = q
    BY <2>2 DEF SocketType
  <2>6. [bodies EXCEPT ![t].phase = "waiting", ![t].reset = cold,
                              ![t].kind = IF cold THEN "cold" ELSE @] = [bodies EXCEPT ![t] = c]
    BY <2>3 DEF Body
  <2>7. c.phase = "waiting" /\ c.batches = bodies[t].batches
    BY <2>3 DEF Body
  <2>8. /\ q.out = sock.out /\ q.inflight = sock.inflight /\ q.queue = sock.queue
        /\ q.pendingLive = sock.pendingLive
    BY <2>2 DEF SocketType
  <2> HIDE DEF q, c, kind, sup
  <2>9. Recasts(sock, q)
    BY <2>8, SaysSame DEF OnceInv
  <2> DEFINE bs == [bodies EXCEPT ![t] = c]
  <2>10. Drawn(bs)
    BY <2>7, SameBatches, OneDrawn
  <2>11. SnapOK(bs, tail, gen, lo, hi)
    BY <2>7, OneSnap DEF OnceInv
  <2> HIDE DEF bs
  <2>12. SnapOK(bs, Append(tail, t), gen, lo, hi)
    BY <2>3, <2>11, PushSnap
  <2> QED BY <2>1, <2>5, <2>6, <2>9, <2>10, <2>12, RecastMoves DEF bs
<1>2. CASE ~Valid(t)
  BY <1>2, DropOnce DEF Admit
<1> QED BY <1>1, <1>2

LEMMA AdmitUnavailableOnce ==
  ASSUME IInv, OnceInv, NEW t \in DOMAIN bodies, AdmitUnavailable(t)
  PROVE  OnceInv'
<1> DEFINE r == RequestOf(sock, t)
           item == Message(FailedTerminal(r), r.key)
           s == Enqueue(sock, item)
           q == Enqueue(s, Barrier(r))
<1>1. CASE ~Valid(t)
  BY <1>1, DropOnce DEF AdmitUnavailable
<1>2. CASE Valid(t)
  <2>1. /\ r \in Req /\ r.token = t /\ sock.open /\ sock \in SocketType /\ gen \in Gens
        /\ SocketOK(sock, token) /\ Once(sock) /\ SnapOK(bodies, tail, gen, lo, hi)
    BY <1>2, RequestActive, SockTyped DEF IInv, SocketInv, OnceInv
  <2>2. item \in Item /\ ~IsLive(item) /\ \A e : ~Carries(item, e)
    <3>1. FailedTerminal(r) \in Msg /\ r.key \in Int
      BY <2>1, TerminalIsMsg DEF Req
    <3>a. FailedTerminal(r).type # "event" /\ \A e : ~Brings(FailedTerminal(r), e)
      <4>1. \A msg : msg = Frame(r, <<>>, TRUE, FALSE, TRUE) => msg.type # "event" /\ \A e : ~Brings(msg, e)
        BY QuietFrame
      <4> QED BY <4>1 DEF FailedTerminal
    <3> HIDE DEF r
    <3>2. item \in MessageItem
      BY <3>1, MessageIs
    <3>3. item.msg = FailedTerminal(r)
      BY DEF Message
    <3> QED BY <3>a, <3>2, <3>3 DEF Item, IsLive, Carries
  <2>3. Barrier(r) \in Item /\ ~IsLive(Barrier(r)) /\ \A e : ~Carries(Barrier(r), e)
    BY <2>1, BarrierIs DEF IsLive, Carries
  <2>4. /\ UNCHANGED sourceVars
        /\ \/ Become(s, [bodies EXCEPT ![t].phase = "failing"], tail)
           \/ Become(IF s.open THEN q ELSE s, DropBody(bodies, t), tail)
    BY <1>2 DEF AdmitUnavailable
  <2> HIDE DEF item, r
  <2>5. s \in SocketType
    BY <2>1, <2>2, EnqueueOK DEF SocketOK
  <2>6. Recasts(sock, s)
    <3>1. PICK w : w = s
      OBVIOUS
    <3> QED BY <2>1, <2>2, <3>1, EnqueueQuiet
  <2> HIDE DEF s
  <2>7. CASE Become(s, [bodies EXCEPT ![t].phase = "failing"], tail)
    <3> DEFINE c == [bodies[t] EXCEPT !.phase = "failing"]
    <3>1. [bodies EXCEPT ![t].phase = "failing"] = [bodies EXCEPT ![t] = c]
      BY BodyOf DEF Body
    <3>2. c.phase = "failing" /\ c.batches = bodies[t].batches
      BY BodyOf DEF Body
    <3> HIDE DEF c
    <3>3. Drawn([bodies EXCEPT ![t] = c])
      BY <3>2, SameBatches, OneDrawn
    <3>4. SnapOK([bodies EXCEPT ![t] = c], tail, gen, lo, hi)
      BY <2>1, <3>2, OneSnap
    <3> DEFINE bs == [bodies EXCEPT ![t] = c]
    <3> HIDE DEF bs
    <3> QED BY <2>4, <2>6, <2>7, <3>1, <3>3, <3>4, RecastMoves DEF bs
  <2>8. CASE Become(IF s.open THEN q ELSE s, DropBody(bodies, t), tail)
    <3>1. Recasts(sock, q)
      <4>1. PICK w : w = q
        OBVIOUS
      <4>2. Once(s)
        BY <2>6 DEF Recasts
      <4>3. Recasts(s, w)
        BY <2>1, <2>3, <2>5, <4>1, <4>2, EnqueueQuiet
      <4> QED BY <2>6, <4>1, <4>3, RecastsOn
    <3>2. PICK w : w = IF s.open THEN q ELSE s
      OBVIOUS
    <3>3. Recasts(sock, w)
      BY <2>6, <3>1, <3>2
    <3> HIDE DEF q
    <3>4. SnapOK(DropBody(bodies, t), tail, gen, lo, hi)
      BY <2>1, DropSnap
    <3>5. Become(w, DropBody(bodies, t), tail)
      BY <2>8, <3>2
    <3>6. Drawn(DropBody(bodies, t))
      BY DropDrawn
    <3> QED BY <2>4, <3>3, <3>4, <3>5, <3>6, RecastMoves
  <2> QED BY <2>4, <2>7, <2>8
<1> QED BY <1>1, <1>2

\* No request waits for older history to be read from the session file.
Unpaged == Keep = 0 \/ ~HasFile

LEMMA TakeSnapshotOnce ==
  ASSUME Unpaged, IInv, OnceInv, NEW t \in DOMAIN bodies, TakeSnapshot(t)
  PROVE  OnceInv'
<1>1. CASE Valid(t)
  <2> DEFINE raw == [gen |-> gen, lo |-> lo, hi |-> hi]
             c == [bodies[t] EXCEPT !.raw = raw, !.phase = "loaded", !.file = 0]
  <2>1. /\ Become(sock, [bodies EXCEPT ![t].raw = raw, ![t].phase = "loaded", ![t].file = 0], tail)
        /\ UNCHANGED sourceVars /\ tail # <<>> /\ t = Head(tail)
    <3>1. ~(HasEvents /\ lo > 1 /\ HasFile)
      BY DEF Unpaged, OnceInv
    <3> QED BY <1>1, <3>1 DEF TakeSnapshot, Delivering
  <2>2. bodies[t] \in Body
    BY BodyOf
  <2> HIDE DEF raw
  <2>3. [bodies EXCEPT ![t].raw = raw, ![t].phase = "loaded", ![t].file = 0] = [bodies EXCEPT ![t] = c]
    BY <2>2 DEF Body
  <2>4. c.phase = "loaded" /\ c.raw = raw /\ c.file = 0 /\ c.batches = bodies[t].batches
    BY <2>2 DEF Body
  <2> HIDE DEF c
  <2> DEFINE bs == [bodies EXCEPT ![t] = c]
  <2>5. Drawn(bs)
    BY <2>4, SameBatches, OneDrawn
  <2>6. SnapOK(bs, tail, gen, lo, hi)
    BY <2>1, <2>4 DEF OnceInv, SnapOK, raw
  <2> HIDE DEF bs
  <2> QED BY <2>1, <2>3, <2>5, <2>6, StayRecasts, RecastMoves DEF bs
<1>2. CASE ~Valid(t)
  BY <1>2, DropOnce DEF TakeSnapshot
<1> QED BY <1>1, <1>2

\* A body that goes on, but for what it has queued; it has its plan already.
LEMMA GoesOnOnce ==
  ASSUME OnceInv, UNCHANGED sourceVars, NEW t \in DOMAIN bodies, NEW c,
         \A e : Batched(c, e) => Batched(bodies[t], e), c.phase \notin {"loaded", "paging"},
         NEW q, Become(q, [bodies EXCEPT ![t] = c], tail),
         \/ Recasts(sock, q)
         \/ /\ Once(q)
            /\ \A e : InLine(q, e) \/ HeldIn(q, e) => Known(gen, hi, e)
            /\ \A e : HeldIn(q, e) => HeldIn(sock, e)
  PROVE  OnceInv'
<1> DEFINE bs == [bodies EXCEPT ![t] = c]
<1>1. Drawn(bs)
  BY OneDrawn
<1>2. SnapOK(bs, tail, gen, lo, hi)
  BY OneSnap DEF OnceInv
<1>3. Become(q, bs, tail)
  OBVIOUS
<1> HIDE DEF bs
<1> QED BY <1>1, <1>2, <1>3, RecastMoves, MoveOnce

LEMMA SendNextOnce ==
  ASSUME IInv, OnceInv, NEW t \in DOMAIN bodies, SendNext(t)
  PROVE  OnceInv'
<1> DEFINE b == bodies[t]
           r == RequestOf(sock, t)
<1>1. CASE ~Valid(t)
  BY <1>1, DropOnce DEF SendNext
<1>2. CASE Valid(t)
  <2>1. r \in Req /\ r.token = t /\ sock \in SocketType /\ gen \in Gens /\ Once(sock)
    BY <1>2, RequestActive, SockTyped DEF OnceInv
  <2>2. /\ b \in Body /\ b.batches \in Seq(Seq(Event)) /\ b.more \in BOOLEAN
        /\ b.phase = "sending" /\ UNCHANGED sourceVars
    <3>1. b \in Body
      BY BodyOf
    <3> QED BY <3>1 DEF Body, SendNext, Delivering, InPhase
  <2>3. ASSUME NEW msg \in Msg, NEW c, Become(Enqueue(sock, Message(msg, r.key)), [bodies EXCEPT ![t] = c], tail),
               \A e : Batched(c, e) => Batched(b, e), c.phase = "sending",
               msg.type # "event", \A e : Brings(msg, e) => Batched(b, e)
        PROVE  OnceInv'
    <3> DEFINE item == Message(msg, r.key)
    <3>1. item \in Item /\ item.kind = "message" /\ item.msg = msg
      <4> HIDE DEF r
      <4>1. item \in MessageItem
        BY <2>1, MessageIs DEF Req
      <4> QED BY <4>1 DEF Item, MessageItem, Message
    <3>2. PICK q : q = Enqueue(sock, item)
      OBVIOUS
    <3>3. Become(q, [bodies EXCEPT ![t] = c], tail)
      BY <2>3, <3>2
    <3> HIDE DEF item
    <3>4. ~IsLive(item) /\ \A e : Carries(item, e) => Batched(b, e)
      BY <2>3, <3>1 DEF IsLive, Carries
    <3>5. \A e : Batched(b, e) => Known(gen, hi, e) /\ ~HeldIn(sock, e)
      BY DEF OnceInv, Clear, Cut
    <3>6. Gains(sock, item, q)
      BY <2>1, <3>1, <3>2, <3>4, <3>5, EnqueueOnce
    <3>7. /\ Once(q)
          /\ \A e : InLine(q, e) \/ HeldIn(q, e) => Known(gen, hi, e)
          /\ \A e : HeldIn(q, e) => HeldIn(sock, e)
      BY <3>4, <3>5, <3>6 DEF Gains, OnceInv, Lined
    <3> HIDE DEF b
    <3> QED BY <2>2, <2>3, <3>3, <3>7, GoesOnOnce DEF b
  <2>4. CASE b.reset
    <3> DEFINE c == [b EXCEPT !.reset = FALSE]
               msg == Reset(IdOf(r.key))
    <3>1. msg \in Msg /\ msg.type = "session_state_reset"
      <4>1. IdOf(r.key) \in Int
        <5> HIDE DEF r
        <5> QED BY <2>1 DEF IdOf, NoId, Req
      <4> QED BY <2>1, <4>1 DEF Reset, Msg
    <3>2. Become(Enqueue(sock, Message(msg, r.key)), [bodies EXCEPT ![t] = c], tail)
      BY <1>2, <2>4 DEF SendNext
    <3>3. c.phase = "sending" /\ c.batches = b.batches
      BY <2>2 DEF Body
    <3>4. \A e : ~Brings(msg, e)
      <4> HIDE DEF msg
      <4> QED BY <3>1 DEF Brings, News, IsFrame
    <3> HIDE DEF r, c, b, msg
    <3> QED BY <2>3, <3>1, <3>2, <3>3, <3>4, SameBatches
  <2>5. CASE ~b.reset /\ b.batches # <<>>
    <3> DEFINE head == Head(b.batches)
               msg == Frame(r, head, FALSE, b.more, FALSE)
               rest == Tail(b.batches)
               c == [b EXCEPT !.batches = rest]
    <3>1. /\ head \in Seq(Event) /\ 1 \in DOMAIN b.batches /\ head = b.batches[1]
          /\ \A i \in DOMAIN rest : i + 1 \in DOMAIN b.batches /\ rest[i] = b.batches[i + 1]
      BY <2>2, <2>5
    <3>2. msg \in Msg
      <4> HIDE DEF b, r, head
      <4> QED BY <2>1, <2>2, <3>1, FrameIs
    <3>3. Become(Enqueue(sock, Message(msg, r.key)), [bodies EXCEPT ![t] = [b EXCEPT !.batches = Tail(@)]], tail)
      BY <1>2, <2>5 DEF SendNext
    <3>4. [b EXCEPT !.batches = Tail(@)] = c
      BY <2>2 DEF Body
    <3> HIDE DEF rest
    <3>5. c.phase = "sending" /\ c.batches = rest
      BY <2>2 DEF Body
    <3>6. Become(Enqueue(sock, Message(msg, r.key)), [bodies EXCEPT ![t] = c], tail)
      BY <3>3, <3>4
    <3>7. \A e : Batched(c, e) => Batched(b, e)
      <4> HIDE DEF b, c
      <4> QED BY <3>1, <3>5 DEF Batched
    <3>8. msg.type = "event_replay" /\ msg.events = head
      BY DEF Frame
    <3> HIDE DEF r, c, b, msg, head
    <3>9. \A e : Brings(msg, e) => Batched(b, e)
      <4>1. News(msg) = head \/ News(msg) = <<>>
        BY <3>8 DEF News, IsFrame
      <4> QED BY <3>1, <4>1 DEF Brings, Batched
    <3> QED BY <2>3, <3>2, <3>5, <3>6, <3>7, <3>8, <3>9
  <2>6. CASE ~b.reset /\ b.batches = <<>> /\ ~b.ended
    <3> DEFINE msg == Frame(r, <<>>, TRUE, b.more, FALSE)
               c == [b EXCEPT !.ended = TRUE]
    <3>1. msg \in Msg
      <4>1. <<>> \in Seq(Event)
        OBVIOUS
      <4> HIDE DEF b, r
      <4> QED BY <2>1, <2>2, <4>1, FrameIs
    <3>2. Become(Enqueue(sock, Message(msg, r.key)), [bodies EXCEPT ![t] = c], tail)
      BY <1>2, <2>6 DEF SendNext
    <3>3. c.phase = "sending" /\ c.batches = b.batches
      BY <2>2 DEF Body
    <3>4. msg.type # "event" /\ \A e : ~Brings(msg, e)
      BY QuietFrame
    <3> HIDE DEF r, c, b, msg
    <3> QED BY <2>3, <3>1, <3>2, <3>3, <3>4, SameBatches
  <2>7. CASE ~b.reset /\ b.batches = <<>> /\ b.ended
    <3> DEFINE c == [b EXCEPT !.phase = "closing"]
               u == CompleteRequest(sock, t)
               v == Enqueue(sock, Barrier(r))
    <3>1. Become(IF r.kind = "older" THEN u ELSE v, [bodies EXCEPT ![t].phase = "closing"], tail)
      BY <1>2, <2>7 DEF SendNext
    <3>2. [bodies EXCEPT ![t].phase = "closing"] = [bodies EXCEPT ![t] = c]
      BY <2>2 DEF Body
    <3>3. c.phase = "closing" /\ c.batches = b.batches
      BY <2>2 DEF Body
    <3>4. Recasts(sock, u)
      <4>1. \A w : w = CompleteRequest(sock, t) => Recasts(sock, w)
        BY <2>1, CompleteOnce
      <4> QED BY <4>1
    <3>5. Recasts(sock, v)
      <4>1. Barrier(r) \in Item /\ ~IsLive(Barrier(r)) /\ \A e : ~Carries(Barrier(r), e)
        BY <2>1, BarrierIs DEF IsLive, Carries
      <4>2. PICK item : item = Barrier(r)
        OBVIOUS
      <4>3. \A w : w = Enqueue(sock, item) => Recasts(sock, w)
        BY <2>1, <4>1, <4>2, EnqueueQuiet
      <4> QED BY <4>2, <4>3
    <3>6. PICK q : q = IF r.kind = "older" THEN u ELSE v
      OBVIOUS
    <3>7. Recasts(sock, q) /\ Become(q, [bodies EXCEPT ![t] = c], tail)
      BY <3>1, <3>2, <3>4, <3>5, <3>6
    <3>8. \A e : Batched(c, e) => Batched(bodies[t], e)
      BY <3>3, SameBatches
    <3> HIDE DEF u, v, c, r
    <3> QED BY <2>2, <3>3, <3>7, <3>8, GoesOnOnce
  <2> QED BY <2>2, <2>4, <2>5, <2>6, <2>7
<1> QED BY <1>1, <1>2

LEMMA CloseOnce ==
  ASSUME IInv, OnceInv, NEW t \in DOMAIN bodies, Close(t)
  PROVE  OnceInv'
<1>1. UNCHANGED sourceVars
  BY DEF Close
<1>2. CASE t = Head(tail) /\ Become(sock, DropBody(bodies, t), Tail(tail))
  BY <1>1, <1>2, DropOnce
<1>3. CASE Become(CompleteRequest(sock, t), DropBody(bodies, t), tail)
  <2>1. PICK q : q = CompleteRequest(sock, t)
    OBVIOUS
  <2>2. Recasts(sock, q)
    BY <2>1, CompleteOnce, SockTyped DEF OnceInv
  <2>3. SnapOK(DropBody(bodies, t), tail, gen, lo, hi)
    BY DropSnap DEF OnceInv
  <2>4. Become(q, DropBody(bodies, t), tail)
    BY <1>3, <2>1
  <2> QED BY <1>1, <2>2, <2>3, <2>4, DropDrawn, RecastMoves
<1> QED BY <1>2, <1>3 DEF Close

\* The bodies and the store as they were.
LEMMA SocketOnce ==
  ASSUME OnceInv, UNCHANGED sourceVars, NEW q, Recasts(sock, q), Become(q, bodies, tail)
  PROVE  OnceInv'
BY SameDrawn, RecastMoves DEF OnceInv

LEMMA DrainTakeOnce ==
  ASSUME IInv, OnceInv, DrainTake
  PROVE  OnceInv'
<1> DEFINE item == Head(sock.queue)
           rest == Tail(sock.queue)
           s == [sock EXCEPT !.queue = rest]
<1>1. /\ sock \in SocketType /\ sock.queue \in Seq(Item) /\ sock.queue # <<>> /\ sock.inflight = None
      /\ Once(sock) /\ gen \in Gens /\ UNCHANGED sourceVars
  BY SockTyped DEF SocketType, DrainTake, CanTake, OnceInv
<1>2. rest \in Seq(Item) /\ item \in Item
  BY <1>1, HeadTailProperties
<1>3. \/ item.kind = "barrier" /\ Become(CompleteRequest(s, item.token), bodies, tail)
      \/ /\ item.kind = "message" /\ item.key # NoId /\ ~HasRequest(s, item.key)
         /\ Become([s EXCEPT !.queued = Max2(0, @ - item.count)], bodies, tail)
      \/ /\ item.kind = "message"
         /\ Become(Sent(s, item), bodies, tail) \/ Become([s EXCEPT !.inflight = item], bodies, tail)
  <2>1. \/ item.kind = "barrier" /\ Become(CompleteRequest(s, item.token), bodies, tail)
        \/ /\ item.kind = "message" /\ item.key # NoId /\ ~HasRequest(s, item.key)
           /\ Become([s EXCEPT !.queued = Max2(0, @ - item.count)], bodies, tail)
        \/ /\ item.kind = "message"
           /\ \E n \in {Sent(s, item), [s EXCEPT !.inflight = item]} : Become(n, bodies, tail)
    BY DEF DrainTake
  <2> HIDE DEF rest, item, s
  <2> QED BY <2>1
<1>4. ASSUME NEW q, q.queue = rest, q.pendingLive = sock.pendingLive, OutOnce(q.out), HandOnce(q),
             \A e : Brought(q, e) \/ Bringing(q, e) => Brought(sock, e) \/ Carries(item, e)
      PROVE  Recasts(sock, q)
  BY <1>1, <1>4, TakenOnce
<1>5. IsLive(item) => ~Brought(sock, item.msg.entry)
  <2>1. 1 \in DOMAIN sock.queue /\ sock.queue[1] = item
    <3> HIDE DEF Item
    <3> QED BY <1>1
  <2> HIDE DEF item
  <2> QED BY <1>1, <2>1 DEF Once, QueueOnce, Ahead
<1>6. OutOnce(sock.out) /\ sock.out \in Seq(Msg)
  BY <1>1 DEF Once, SocketType
<1> HIDE DEF rest, item
<1>7. /\ s \in SocketType /\ s.queue = rest /\ s.out = sock.out
      /\ s.inflight = None /\ s.pendingLive = sock.pendingLive
  BY <1>1, <1>2 DEF SocketType
<1> HIDE DEF s
<1>8. CASE item.kind = "barrier" /\ Become(CompleteRequest(s, item.token), bodies, tail)
  <2>1. HandOnce(s) /\ \A e : Brought(s, e) \/ Bringing(s, e) => Brought(sock, e)
    BY <1>7 DEF HandOnce, Brought, Bringing
  <2>2. Recasts(sock, s)
    BY <1>4, <1>6, <1>7, <2>1
  <2>3. PICK q : q = CompleteRequest(s, item.token)
    OBVIOUS
  <2>4. Recasts(s, q)
    BY <1>1, <1>7, <2>2, <2>3, CompleteOnce DEF Recasts
  <2>5. Recasts(sock, q)
    BY <2>2, <2>4, RecastsOn
  <2>6. Become(q, bodies, tail)
    BY <1>8, <2>3
  <2> QED BY <1>1, <2>5, <2>6, SocketOnce
<1>9. CASE Become([s EXCEPT !.queued = Max2(0, @ - item.count)], bodies, tail)
  <2> DEFINE left == Max2(0, s.queued - item.count)
             q == [s EXCEPT !.queued = left]
  <2>1. [s EXCEPT !.queued = Max2(0, @ - item.count)] = q
    BY <1>7 DEF SocketType
  <2> HIDE DEF left
  <2>2. q.queue = rest /\ q.pendingLive = sock.pendingLive /\ q.out = sock.out /\ q.inflight = None
    BY <1>7 DEF SocketType
  <2> HIDE DEF q
  <2>3. HandOnce(q) /\ \A e : Brought(q, e) \/ Bringing(q, e) => Brought(sock, e)
    BY <2>2 DEF HandOnce, Brought, Bringing
  <2>4. Recasts(sock, q)
    BY <1>4, <1>6, <2>2, <2>3
  <2>5. Become(q, bodies, tail)
    BY <1>9, <2>1
  <2> QED BY <1>1, <2>4, <2>5, SocketOnce
<1>10. CASE item.kind = "message" /\ Become(Sent(s, item), bodies, tail)
  <2> DEFINE left == Max2(0, s.queued - item.count)
             o == Append(s.out, item.msg)
             q == [s EXCEPT !.out = o, !.queued = left]
  <2>1. Sent(s, item) = q
    BY <1>7 DEF SocketType, Sent
  <2>2. item.msg \in Msg
    BY <1>2, <1>10 DEF Item, MessageItem
  <2>3. o = Append(sock.out, item.msg)
    BY <1>7
  <2> HIDE DEF left, o
  <2>4. q.queue = rest /\ q.pendingLive = sock.pendingLive /\ q.out = o /\ q.inflight = None
    BY <1>7 DEF SocketType
  <2> HIDE DEF q
  <2>5. item.msg.type = "event" => \A i \in DOMAIN sock.out : ~Brings(sock.out[i], item.msg.entry)
    BY <1>5, <1>10 DEF IsLive, Brought
  <2>6. /\ OutOnce(o)
        /\ \A e : (\E i \in DOMAIN o : Brings(o[i], e)) =>
                    Brings(item.msg, e) \/ \E i \in DOMAIN sock.out : Brings(sock.out[i], e)
    BY <1>6, <2>2, <2>3, <2>5, ToldOne
  <2>7. HandOnce(q) /\ \A e : Brought(q, e) \/ Bringing(q, e) => Brought(sock, e) \/ Carries(item, e)
    BY <1>10, <2>4, <2>6 DEF HandOnce, Brought, Bringing, Carries
  <2>8. Recasts(sock, q)
    BY <1>4, <2>4, <2>6, <2>7
  <2>9. Become(q, bodies, tail)
    BY <1>10, <2>1
  <2> QED BY <1>1, <2>8, <2>9, SocketOnce
<1>11. CASE item.kind = "message" /\ Become([s EXCEPT !.inflight = item], bodies, tail)
  <2> DEFINE q == [s EXCEPT !.inflight = item]
  <2>1. q.queue = rest /\ q.pendingLive = sock.pendingLive /\ q.out = sock.out /\ q.inflight = item
    BY <1>7 DEF SocketType
  <2>2. Become(q, bodies, tail)
    BY <1>11
  <2> HIDE DEF q
  <2>3. HandOnce(q)
    BY <1>5, <1>11, <2>1 DEF HandOnce, IsLive, Brought
  <2>4. \A e : Brought(q, e) \/ Bringing(q, e) => Brought(sock, e) \/ Carries(item, e)
    BY <1>11, <2>1 DEF Brought, Bringing, Carries
  <2>5. Recasts(sock, q)
    BY <1>4, <1>6, <2>1, <2>3, <2>4
  <2> QED BY <1>1, <2>2, <2>5, SocketOnce
<1> QED BY <1>3, <1>8, <1>9, <1>10, <1>11

LEMMA DrainSendOnce ==
  ASSUME IInv, OnceInv, DrainSend
  PROVE  OnceInv'
<1> DEFINE item == sock.inflight
           o == Append(sock.out, item.msg)
           left == Max2(0, sock.queued - item.count)
           q == [sock EXCEPT !.out = o, !.queued = left, !.inflight = None]
<1>1. /\ sock \in SocketType /\ item.msg \in Msg /\ sock.open /\ item # None
      /\ sock.out \in Seq(Msg) /\ Once(sock)
  BY SockTyped DEF SocketType, DrainSend, MessageItem, OnceInv
<1>2. sock' = q
  BY <1>1 DEF DrainSend, Sent, SocketType
<1>3. OutOnce(sock.out) /\ (item.msg.type = "event" => \A i \in DOMAIN sock.out : ~Brings(sock.out[i], item.msg.entry))
  BY <1>1 DEF Once, HandOnce, Brought
<1>4. PICK m \in Msg : m = item.msg
  BY <1>1
<1>5. o = Append(sock.out, m)
  BY <1>4
<1> HIDE DEF o, left, item
<1>6. /\ OutOnce(o)
      /\ \A e : (\E i \in DOMAIN o : Brings(o[i], e)) =>
                  Brings(m, e) \/ \E i \in DOMAIN sock.out : Brings(sock.out[i], e)
  BY <1>1, <1>3, <1>4, <1>5, ToldOne
<1>7. /\ q.out = o /\ q.queue = sock.queue /\ q.open /\ q.inflight = None
      /\ q.pendingLive = sock.pendingLive
  BY <1>1 DEF SocketType
<1> HIDE DEF q
<1>8. HandOnce(q) /\ \A e : Brought(q, e) \/ Bringing(q, e) => Brought(sock, e) \/ Bringing(sock, e)
  BY <1>1, <1>4, <1>6, <1>7 DEF HandOnce, Brought, Bringing, item
<1>9. /\ \A i \in DOMAIN q.pendingLive : HeldIn(sock, q.pendingLive[i])
      /\ \A i, j \in DOMAIN q.pendingLive : q.pendingLive[i] = q.pendingLive[j] => i = j
  BY <1>1, <1>7 DEF Once, HeldOnce, HeldIn
<1>10. Recasts(sock, q)
  BY <1>1, <1>6, <1>7, <1>8, <1>9, RecastOnce
<1>11. Become(q, bodies, tail) /\ UNCHANGED sourceVars
  BY <1>2, <1>7 DEF Become, DrainSend
<1> QED BY <1>10, <1>11, SocketOnce

\* What a task finds: no body is planning.
LEMMA NonePlans ==
  ASSUME OnceInv, Quiet
  PROVE  \A t \in DOMAIN bodies : bodies[t].phase \notin {"loaded", "paging"}
BY DEF OnceInv, SnapOK, Quiet, CanPlan, Delivering, InPhase

LEMMA NonePlansSnap ==
  ASSUME NEW bs, \A t \in DOMAIN bs : bs[t].phase \notin {"loaded", "paging"}
  PROVE  \A tl, g, l, h : SnapOK(bs, tl, g, l, h)
BY DEF SnapOK

LEMMA EventForwardOnce ==
  ASSUME IInv, OnceInv, EventForward
  PROVE  OnceInv'
<1> DEFINE e == [gen |-> gen, seq |-> hi + 1]
<1>1. /\ sock \in SocketType /\ gen \in Gens /\ hi \in Nat /\ Once(sock) /\ e \in Event
      /\ gen' = gen /\ hi' = hi + 1 /\ Quiet
  BY SockTyped DEF Event, EventForward, Insert, OnceInv
<1>2. Keep = 0 => lo' = 1
  BY CoordinatorAssumption DEF EventForward, Insert, OnceInv
<1>3. \/ Become(sock, bodies, tail)
      \/ Become(SuppressLive(sock, e), bodies, tail)
      \/ Become(Enqueue(sock, LiveItem(e)), bodies, tail)
  <2>1. CASE ~sock.open \/ ~sock.present \/ replaying
    BY <2>1 DEF EventForward
  <2>2. CASE ~(~sock.open \/ ~sock.present \/ replaying) /\ sock.suppressed
    BY <2>2 DEF EventForward
  <2>3. CASE ~(~sock.open \/ ~sock.present \/ replaying) /\ ~sock.suppressed
    BY <2>3 DEF EventForward
  <2> QED BY <2>1, <2>2, <2>3
<1>4. ~Known(gen, hi, e) /\ Known(gen', hi', e)
  <2>1. gen[1] \in Nat /\ gen[2] \in Nat
    BY <1>1 DEF Gens
  <2> QED BY <1>1, <2>1 DEF Known, Newer
<1>5. Grows
  BY <1>1, StoreGrows
<1> HIDE DEF e
<1>6. /\ ~InLine(sock, e) /\ ~HeldIn(sock, e)
      /\ \A t \in DOMAIN bodies : ~Batched(bodies[t], e)
  BY <1>4 DEF OnceInv, Lined, Cut
<1>7. ASSUME NEW q, Become(q, bodies, tail), Once(q),
             \A x : InLine(q, x) => InLine(sock, x) \/ x = e,
             \A x : HeldIn(q, x) => HeldIn(sock, x) \/ x = e
      PROVE  OnceInv'
  <2>1. Lined(gen', hi', q)
    BY <1>4, <1>5, <1>7 DEF Grows, Lined, OnceInv
  <2>2. Clear(q, bodies)
    BY <1>6, <1>7 DEF OnceInv, Clear
  <2>3. Cut(gen', hi', bodies)
    BY <1>5 DEF Grows, OnceInv, Cut
  <2>4. SnapOK(bodies, tail, gen', lo', hi')
    BY <1>1, NonePlans, NonePlansSnap
  <2> QED BY <1>2, <1>7, <2>1, <2>2, <2>3, <2>4, BecomeOnce DEF Fine
<1>8. CASE Become(sock, bodies, tail)
  BY <1>1, <1>7, <1>8
<1>9. CASE Become(SuppressLive(sock, e), bodies, tail)
  <2>1. PICK q : q = SuppressLive(sock, e)
    OBVIOUS
  <2>2. /\ Once(q)
        /\ \A x : InLine(q, x) => InLine(sock, x)
        /\ \A x : HeldIn(q, x) => HeldIn(sock, x) \/ x = e
    BY <1>1, <1>6, <2>1, SuppressOnce
  <2>3. Become(q, bodies, tail)
    BY <1>9, <2>1
  <2> QED BY <1>7, <2>2, <2>3
<1>10. CASE Become(Enqueue(sock, LiveItem(e)), bodies, tail)
  <2>1. PICK item : item = LiveItem(e)
    OBVIOUS
  <2>2. /\ IsLive(item) /\ item.msg.entry = e /\ item \in Item
        /\ \A x : Carries(item, x) <=> x = e
    BY <1>1, <2>1, LiveItemCarries
  <2>3. PICK q : q = Enqueue(sock, item)
    OBVIOUS
  <2>4. Gains(sock, item, q)
    BY <1>1, <1>6, <2>2, <2>3, EnqueueOnce
  <2>5. Become(q, bodies, tail)
    BY <1>10, <2>1, <2>3
  <2> QED BY <1>7, <2>2, <2>4, <2>5 DEF Gains
<1> QED BY <1>3, <1>8, <1>9, <1>10

LEMMA LoadDoneOnce ==
  ASSUME IInv, OnceInv, load # None, NEW ok \in BOOLEAN, LoadDone(ok)
  PROVE  OnceInv'
<1>1. /\ sock' = sock /\ Quiet /\ DOMAIN bodies' = DOMAIN bodies
      /\ \A t \in DOMAIN bodies :
           \/ bodies'[t] = bodies[t]
           \/ \E phase \in {"hydrated", "unavailable"} : bodies'[t] = [bodies[t] EXCEPT !.phase = phase]
  <2>1. Quiet
    BY DEF LoadDone, LoadFills
  <2> QED BY <2>1, NonePlans DEF LoadDone, LoadFills
<1>2. \A t \in DOMAIN bodies : /\ bodies'[t].batches = bodies[t].batches
                               /\ bodies'[t].phase \notin {"loaded", "paging"}
  <2> SUFFICES ASSUME NEW t \in DOMAIN bodies
               PROVE  /\ bodies'[t].batches = bodies[t].batches
                      /\ bodies'[t].phase \notin {"loaded", "paging"}
    OBVIOUS
  <2>1. bodies[t] \in Body
    BY BodyOf
  <2>2. bodies[t].phase \notin {"loaded", "paging"}
    BY <1>1, NonePlans
  <2> QED BY <1>1, <2>1, <2>2 DEF Body
<1>3. PICK n \in Nat : Fill(n) \/ UNCHANGED sourceVars
  <2>1. load.from \in Nat /\ history \in Nat
    BY DEF IInv, StoreInv
  <2>2. load.from..history \subseteq Nat
    BY <2>1
  <2>3. \E n \in load.from..history : Fill(n) \/ UNCHANGED sourceVars
    BY DEF LoadDone, LoadFills
  <2> HIDE DEF Fill
  <2> QED BY <2>2, <2>3
<1>4. gen \in Gens /\ hi \in Nat
  BY SockTyped
<1>5. Grows
  <2>1. CASE Fill(n)
    <3>1. gen[1] \in Nat /\ gen[2] \in Nat
      BY <1>4 DEF Gens
    <3>2. gen' \in Gens /\ hi' \in Nat /\ Newer(gen', gen)
      BY <1>3, <2>1, <3>1 DEF Fill, Gens, Newer
    <3> QED BY <1>4, <3>2, StoreGrows
  <2>2. CASE UNCHANGED sourceVars
    <3>1. gen' = gen /\ hi' = hi
      BY <2>2 DEF sourceVars
    <3> QED BY <1>4, <3>1, StoreGrows
  <2> QED BY <1>3, <2>1, <2>2
<1>6. Keep = 0 => lo' = 1
  BY <1>3, CoordinatorAssumption DEF Fill, sourceVars, OnceInv
<1>7. PICK bs : bs = bodies'
  OBVIOUS
<1>8. Drawn(bs)
  BY <1>1, <1>2, <1>7, SameBatches DEF Drawn
<1>9. SnapOK(bs, tail', gen', lo', hi')
  BY <1>1, <1>2, <1>7, NonePlansSnap
<1> QED BY <1>1, <1>5, <1>6, <1>7, <1>8, <1>9, StayRecasts, StepOnce

\* Messages past the queue, and perhaps the queue emptied.
LEMMA DirectOnce ==
  ASSUME NEW s \in SocketType, Once(s), NEW ms \in Seq(Msg), Tellless(ms),
         NEW q, q.out = s.out \/ q.out = s.out \o ms, q.inflight = s.inflight,
         q.queue = s.queue \/ q.queue = <<>>, q.pendingLive = s.pendingLive
  PROVE  Recasts(s, q)
<1>1. s.out \in Seq(Msg) /\ OutOnce(s.out)
  BY DEF SocketType, Once
<1>2. /\ OutOnce(q.out)
      /\ \A e : (\E i \in DOMAIN q.out : Brings(q.out[i], e)) => \E i \in DOMAIN s.out : Brings(s.out[i], e)
  <2>1. CASE q.out = s.out
    BY <1>1, <2>1
  <2>2. CASE q.out = s.out \o ms
    <3>1. PICK p : p = s.out \o ms
      OBVIOUS
    <3> QED BY <1>1, <2>2, <3>1, ToldNothing
  <2> QED BY <2>1, <2>2
<1>3. \A e : (Brought(q, e) => Brought(s, e)) /\ (Bringing(q, e) <=> Bringing(s, e))
  BY <1>2 DEF Brought, Bringing
<1>4. HandOnce(q)
  BY <1>3 DEF Once, HandOnce
<1>5. /\ \A i \in DOMAIN q.pendingLive : HeldIn(s, q.pendingLive[i])
      /\ \A i, j \in DOMAIN q.pendingLive : q.pendingLive[i] = q.pendingLive[j] => i = j
  BY DEF Once, HeldOnce, HeldIn
<1> QED BY <1>2, <1>3, <1>4, <1>5, RecastOnce

LEMMA SessionRegisterOnce ==
  ASSUME IInv, OnceInv, SessionRegister
  PROVE  OnceInv'
<1> DEFINE msg == [type |-> "session_state_reset", id |-> NoId, gen |-> gen']
           o == sock.out \o <<msg>>
           q == [sock EXCEPT !.out = o]
<1>1. /\ gen \in Gens /\ hi \in Nat /\ sock \in SocketType /\ Once(sock) /\ Quiet
      /\ lo' = 1 /\ hi' = 0 /\ bodies' = bodies /\ tail' = tail
  BY SockTyped DEF SessionRegister, OnceInv
<1>2. gen' \in Gens /\ (Newer(gen', gen) \/ (gen' = gen /\ hi' >= hi))
  <2>1. gen[1] \in Nat /\ gen[2] \in Nat
    BY <1>1 DEF Gens
  <2> QED BY <1>1, <2>1 DEF SessionRegister, Gens, Newer
<1>3. Grows
  BY <1>1, <1>2, StoreGrows
<1>4. sock' = sock \/ sock' = q
  <2> HIDE DEF msg
  <2>1. sock' \in Direct(sock, <<msg>>) \/ sock' = sock
    BY DEF SessionRegister, msg
  <2> QED BY <2>1 DEF Direct
<1>5. msg \in Msg /\ msg.type = "session_state_reset"
  BY <1>2 DEF Msg, NoId
<1> HIDE DEF msg
<1>6. \A e : ~Brings(msg, e)
  BY <1>5 DEF Brings, News, IsFrame
<1>7. <<msg>> \in Seq(Msg) /\ Tellless(<<msg>>)
  BY <1>5, <1>6 DEF Tellless
<1> HIDE DEF o
<1>8. q.out = o /\ q.inflight = sock.inflight /\ q.queue = sock.queue /\ q.pendingLive = sock.pendingLive
  BY <1>1 DEF SocketType
<1> HIDE DEF q
<1>9. PICK p : p = sock'
  OBVIOUS
<1>10. Recasts(sock, p)
  <2>1. PICK ms \in Seq(Msg) : ms = <<msg>>
    BY <1>7
  <2>2. Recasts(sock, q)
    BY <1>1, <1>7, <1>8, <2>1, DirectOnce DEF o
  <2> QED BY <1>4, <1>9, <2>2, StayRecasts
<1>11. SnapOK(bodies', tail', gen', lo', hi')
  BY <1>1, NonePlans, NonePlansSnap
<1>12. PICK bs : bs = bodies
  OBVIOUS
<1> QED BY <1>1, <1>3, <1>9, <1>10, <1>11, <1>12, SameDrawn, StepOnce

LEMMA SubscribeOnce ==
  ASSUME IInv, OnceInv, NEW m \in Request, Subscribe(m)
  PROVE  OnceInv'
<1> DEFINE t     == token + 1
           r     == [token |-> t, key |-> m.id, kind |-> m.kind]
           same  == {x \in Range(sock.requests) : x.key = m.id}
           prior == Those(sock.requests, same)
           rest  == Those(sock.requests, Range(sock.requests) \ same)
           requests == Append(rest, r)
           phase == IF ~HasEvents /\ HasFile THEN "hydrating" ELSE "hydrated"
           b     == NewBody(m.kind, m.at, m.known, phase)
           sup   == sock.suppressed \/ m.kind # "older"
           q     == [sock EXCEPT !.present = TRUE, !.requests = requests, !.suppressed = sup]
           o     == sock.out \o Terminals(prior)
           w     == [q EXCEPT !.out = o]
<1>1. /\ gen \in Gens /\ sock \in SocketType /\ sock.requests \in Seq(Req) /\ Once(sock) /\ Quiet
      /\ UNCHANGED sourceVars
      /\ sock' \in Direct([sock EXCEPT !.present = TRUE,
                   !.requests = Append(rest, r), !.suppressed = @ \/ m.kind # "older"], Terminals(prior))
      /\ bodies' = [u \in DOMAIN bodies \cup {t} |-> IF u # t THEN bodies[u] ELSE b]
  BY SockTyped DEF Subscribe, SocketType, OnceInv
<1>2. [sock EXCEPT !.present = TRUE,
         !.requests = Append(rest, r), !.suppressed = @ \/ m.kind # "older"] = q
  BY <1>1 DEF SocketType
<1>3. Terminals(prior) \in Seq(Msg) /\ Tellless(Terminals(prior))
  <2>1. prior \in Seq(Req)
    <3> HIDE DEF same
    <3> QED BY <1>1, ThoseOf
  <2> HIDE DEF prior
  <2> QED BY <1>1, <2>1, TerminalsAreMsgs, TerminalsTellless
<1> HIDE DEF prior, requests, sup
<1>4. /\ q.out = sock.out /\ q.inflight = sock.inflight /\ q.queue = sock.queue
      /\ q.pendingLive = sock.pendingLive
  BY <1>1 DEF SocketType
<1>5. sock' = q \/ sock' = w
  BY <1>1, <1>2, <1>4 DEF Direct
<1> HIDE DEF o
<1>6. /\ w.out = o /\ w.inflight = sock.inflight /\ w.queue = sock.queue
      /\ w.pendingLive = sock.pendingLive
  <2>1. DOMAIN q = DOMAIN sock /\ "out" \in DOMAIN sock
    BY <1>1 DEF SocketType
  <2> HIDE DEF q
  <2> QED BY <1>4, <2>1
<1> HIDE DEF q, w
<1>7. PICK p : p = sock'
  OBVIOUS
<1>8. Recasts(sock, p)
  <2>1. PICK ms \in Seq(Msg) : ms = Terminals(prior)
    BY <1>3
  <2> QED BY <1>1, <1>3, <1>4, <1>5, <1>6, <1>7, <2>1, DirectOnce DEF o
<1>9. b.phase \notin {"loaded", "paging"} /\ b.batches = <<>>
  BY DEF NewBody
<1> HIDE DEF b
<1>10. PICK bs : bs = bodies'
  OBVIOUS
<1>11. Drawn(bs)
  BY <1>1, <1>9, <1>10 DEF Drawn, Batched
<1>12. SnapOK(bs, tail', gen', lo', hi')
  BY <1>1, <1>9, <1>10, NonePlans, NonePlansSnap
<1>13. Grows /\ (Keep = 0 => lo' = 1)
  BY <1>1 DEF Grows, sourceVars, OnceInv
<1> QED BY <1>7, <1>8, <1>10, <1>11, <1>12, <1>13, StepOnce

LEMMA BridgeReplayOnce ==
  ASSUME IInv, OnceInv, Quiet, CompleteBridgeReplay
  PROVE  OnceInv'
<1>1. Grows /\ (Keep = 0 => lo' = 1)
  BY DEF CompleteBridgeReplay, Grows, sourceVars, OnceInv
<1>2. CASE ~sock.open \/ ~sock.present
  <2>1. PICK q : q = sock'
    OBVIOUS
  <2>2. PICK bs : bs = bodies'
    OBVIOUS
  <2>3. sock' = sock /\ bodies' = bodies
    BY <1>2 DEF CompleteBridgeReplay
  <2>4. SnapOK(bs, tail', gen', lo', hi')
    BY <2>2, <2>3, NonePlans, NonePlansSnap
  <2> QED BY <1>1, <2>1, <2>2, <2>3, <2>4, StayRecasts, SameDrawn, StepOnce
<1>3. CASE ~(~sock.open \/ ~sock.present)
  <2> DEFINE t == token + 1
             r == [token |-> t, key |-> -t, kind |-> "cold"]
             b == [NewBody("cold", 0, None, "waiting") EXCEPT !.tailMode = FALSE]
             left == Len(sock.pendingLive)
             one == <<r>>
             none == <<>>
             q == [sock EXCEPT !.requests = one, !.queue = none, !.suppressed = TRUE, !.queued = left]
             o == sock.out \o Terminals(sock.requests)
             w == [q EXCEPT !.out = o]
  <2>1. /\ gen \in Gens /\ sock \in SocketType /\ sock.requests \in Seq(Req) /\ Once(sock)
        /\ sock' \in Direct(q, Terminals(sock.requests))
        /\ bodies' = [u \in DOMAIN bodies \cup {t} |-> IF u = t THEN b ELSE bodies[u]]
    BY <1>3, SockTyped DEF CompleteBridgeReplay, SocketType, OnceInv
  <2>2. Terminals(sock.requests) \in Seq(Msg) /\ Tellless(Terminals(sock.requests))
    BY <2>1, TerminalsAreMsgs, TerminalsTellless
  <2> HIDE DEF one, left
  <2>3. /\ q.out = sock.out /\ q.inflight = sock.inflight /\ q.queue = <<>>
        /\ q.pendingLive = sock.pendingLive
    BY <2>1 DEF SocketType
  <2>4. sock' = q \/ sock' = w
    BY <2>1, <2>3 DEF Direct
  <2> HIDE DEF o
  <2>5. /\ w.out = o /\ w.inflight = sock.inflight /\ w.queue = <<>>
        /\ w.pendingLive = sock.pendingLive
    <3>1. DOMAIN q = DOMAIN sock /\ "out" \in DOMAIN sock
      BY <2>1 DEF SocketType
    <3> HIDE DEF q
    <3> QED BY <2>3, <3>1
  <2> HIDE DEF q, w
  <2>6. PICK p : p = sock'
    OBVIOUS
  <2>7. Recasts(sock, p)
    <3>1. PICK ms \in Seq(Msg) : ms = Terminals(sock.requests)
      BY <2>2
    <3> QED BY <2>1, <2>2, <2>3, <2>4, <2>5, <2>6, <3>1, DirectOnce DEF o
  <2>8. b.phase = "waiting" /\ b.batches = <<>>
    BY DEF NewBody
  <2> HIDE DEF b
  <2>9. PICK bs : bs = bodies'
    OBVIOUS
  <2>10. Drawn(bs)
    BY <2>1, <2>8, <2>9 DEF Drawn, Batched
  <2>11. SnapOK(bs, tail', gen', lo', hi')
    BY <2>1, <2>8, <2>9, NonePlans, NonePlansSnap
  <2> QED BY <1>1, <2>6, <2>7, <2>9, <2>10, <2>11, StepOnce
<1> QED BY <1>2, <1>3

\* A socket emptied, whatever it keeps of what was sent.
LEMMA EmptiedOnce ==
  ASSUME Once(sock), NEW q, q.out = sock.out \/ q.out = <<>>, q.inflight = None, q.queue = <<>>,
         q.pendingLive = <<>>
  PROVE  Recasts(sock, q)
<1>1. OutOnce(q.out) /\ \A e : Brought(q, e) => Brought(sock, e)
  BY DEF Once, OutOnce, Brought
<1>2. HandOnce(q) /\ \A e : ~Bringing(q, e)
  BY DEF HandOnce, Bringing
<1> QED BY <1>1, <1>2, RecastOnce

LEMMA ClosedIs == \A s : LET q == Closed(s) IN
  q.out = s.out /\ q.inflight = None /\ q.queue = <<>> /\ q.pendingLive = <<>> /\ ~q.open
BY DEF Closed, EmptySocket

LEMMA DisconnectOnce ==
  ASSUME OnceInv, Disconnect
  PROVE  OnceInv'
<1>1. PICK q : q = Closed(sock)
  OBVIOUS
<1>2. q.out = sock.out /\ q.inflight = None /\ q.queue = <<>> /\ q.pendingLive = <<>>
  BY <1>1, ClosedIs
<1>3. Recasts(sock, q)
  BY <1>2, EmptiedOnce DEF OnceInv
<1>4. Become(q, bodies, tail) /\ UNCHANGED sourceVars
  BY <1>1 DEF Disconnect
<1> QED BY <1>3, <1>4, SocketOnce

LEMMA ConnectOnce ==
  ASSUME OnceInv, Connect
  PROVE  OnceInv'
<1>1. PICK q : q = sock'
  OBVIOUS
<1>2. PICK bs : bs = bodies'
  OBVIOUS
<1>3. sock' = EmptySocket /\ Quiet /\ bodies' = bodies /\ UNCHANGED sourceVars
  BY DEF Connect
<1>4. Recasts(sock, q)
  <2>1. q.out = <<>> /\ q.inflight = None /\ q.queue = <<>> /\ q.pendingLive = <<>>
    BY <1>1, <1>3 DEF EmptySocket
  <2> QED BY <2>1, EmptiedOnce DEF OnceInv
<1>5. SnapOK(bs, tail', gen', lo', hi')
  BY <1>2, <1>3, NonePlans, NonePlansSnap
<1>6. Grows /\ (Keep = 0 => lo' = 1)
  BY <1>3 DEF Grows, sourceVars, OnceInv
<1> QED BY <1>1, <1>2, <1>3, <1>4, <1>5, <1>6, SameDrawn, StepOnce

LEMMA ServerRestartOnce ==
  ASSUME IInv, OnceInv, ServerRestart
  PROVE  OnceInv'
<1>1. PICK q : q = Closed(sock)
  OBVIOUS
<1>2. /\ q.out = sock.out /\ q.inflight = None /\ q.queue = <<>> /\ q.pendingLive = <<>>
      /\ ~q.open
  BY <1>1, ClosedIs
<1>3. Recasts(sock, q)
  BY <1>2, EmptiedOnce DEF OnceInv
<1>4. Become(q, bodies, tail) /\ gen' = <<gen[1] + 1, 0>> /\ hi' = 0 /\ lo' = 1
  BY <1>1 DEF ServerRestart
<1>5. Grows
  <2>1. gen \in Gens /\ hi \in Nat
    BY SockTyped
  <2>2. gen[1] \in Nat /\ gen[2] \in Nat
    BY <2>1 DEF Gens
  <2>3. gen' \in Gens /\ Newer(gen', gen)
    BY <1>4, <2>2 DEF Gens, Newer
  <2> QED BY <1>4, <2>1, <2>3, StoreGrows
<1>6. Lined(gen', hi', q)
  BY <1>3, <1>5 DEF Recasts, Grows, OnceInv, Lined
<1>7. Fine(q, bodies, tail, gen', lo', hi')
  BY <1>2, <1>3, <1>4, <1>6 DEF Fine, Recasts
<1> QED BY <1>4, <1>7, BecomeOnce

\* The events of a snapshot [gen, lo, hi].
Shown(g, l, h) == {e \in Event : e.gen = g /\ e.seq >= l /\ e.seq <= h}

LEMMA EntriesShown ==
  ASSUME NEW g \in Gens, NEW l \in Nat, NEW h \in Nat, NEW from \in Nat, NEW to \in Int, from >= l, to <= h
  PROVE  Entries(g, from, to) \in Seq(Shown(g, l, h))
<1>1. \A x \in from..to : [gen |-> g, seq |-> x] \in Shown(g, l, h)
  BY DEF Shown, Event
<1> QED BY <1>1, EntriesIn

\* A snapshot that needs no file has all that is selected.
LEMMA SelectedShown ==
  ASSUME NEW g \in Gens, NEW l \in Nat, NEW h \in Nat,
         NEW b \in Body, b.raw = [gen |-> g, lo |-> l, hi |-> h], b.file = 0
  PROVE  Selected(b) \in Seq(Shown(g, l, h))
<1>1. b.raw.gen = g /\ b.raw.lo = l /\ b.raw.hi = h /\ b.at \in Nat
  BY DEF Body
<1>2. /\ Min2(b.at - 1, h) \in Int /\ Min2(b.at - 1, h) <= h
      /\ Max2(l, b.at + 1) \in Nat /\ Max2(l, b.at + 1) >= l
  BY <1>1 DEF Min2, Max2
<1>3. /\ Entries(g, l, Min2(b.at - 1, h)) \in Seq(Shown(g, l, h))
      /\ Entries(g, Max2(l, b.at + 1), h) \in Seq(Shown(g, l, h))
      /\ Entries(g, l, h) \in Seq(Shown(g, l, h))
  BY <1>2, EntriesShown, SMTT(30)
<1>4. ~(b.file > 0)
  OBVIOUS
<1> QED BY <1>1, <1>3, <1>4 DEF Selected

\* What a plan leaves held back is not in its snapshot.
LEMMA HeldOnes ==
  ASSUME sock.pendingLive \in Seq(Event), HeldOnce(sock), NEW b, NEW k, k = Held(b)
  PROVE  /\ k \in Seq(Event)
         /\ \A i \in DOMAIN k : HeldIn(sock, k[i]) /\ (k[i].seq < b.raw.lo \/ k[i].seq > b.raw.hi)
         /\ \A i, j \in DOMAIN k : k[i] = k[j] => i = j
<1> DEFINE es == sock.pendingLive
           S == {e \in Range(es) : e.seq < b.raw.lo \/ e.seq > b.raw.hi}
<1>1. k = Those(es, S)
  BY DEF Held
<1>2. \A e \in S : e.seq < b.raw.lo \/ e.seq > b.raw.hi
  OBVIOUS
<1> HIDE DEF S
<1>3. k \in Seq(Event) /\ Leaves(es, S, Len(es), k)
  BY <1>1, ThoseOf
<1>4. DOMAIN k = 1..Len(k) /\ DOMAIN es = 1..Len(es)
  BY <1>3
<1>5. \A i \in DOMAIN k : \E a \in DOMAIN es : k[i] = es[a] /\ es[a] \in S
  BY <1>3, <1>4 DEF Leaves
<1>6. ASSUME NEW i \in DOMAIN k, NEW j \in DOMAIN k, i # j
      PROVE  \E a, c \in DOMAIN es : a # c /\ k[i] = es[a] /\ k[j] = es[c]
  <2>1. \E a, c \in 1..Len(es) : a # c /\ k[i] = es[a] /\ k[j] = es[c]
    <3> HIDE DEF es
    <3> QED BY <1>3, <1>4, <1>6 DEF Leaves
  <2> QED BY <1>4, <2>1
<1>7. \A a, c \in DOMAIN es : es[a] = es[c] => a = c
  BY DEF HeldOnce
<1>8. \A i \in DOMAIN k : HeldIn(sock, k[i]) /\ k[i] \in S
  BY <1>5 DEF HeldIn
<1>9. \A i, j \in DOMAIN k : k[i] = k[j] => i = j
  BY <1>6, <1>7
<1> QED BY <1>2, <1>3, <1>8, <1>9

LEMMA PlanOnce ==
  ASSUME IInv, OnceInv, NEW t \in DOMAIN bodies, Plan(t)
  PROVE  OnceInv'
<1> DEFINE b == bodies[t]
           found   == Selected(b)
           chosen  == IF b.kind = "delta" \/ (b.kind = "cold" /\ ~b.tailMode) THEN found
                      ELSE Newest(found, WindowFrames * FrameSize)
           newer   == Entries(gen, Max2(lo, (IF b.raw.lo <= b.raw.hi THEN b.raw.hi ELSE 0) + 1), hi)
           catchup == IF b.kind = "older" THEN <<>> ELSE newer
           batches == Batches(chosen \o catchup)
           kept    == IF b.kind = "delta" THEN SubSeq(batches, 1, Min2(WindowFrames, Len(batches)))
                                          ELSE Newest(batches, WindowFrames)
           more    == \/ Len(chosen) < Len(found)
                      \/ b.kind # "delta" /\ Len(kept) < Len(batches)
                      \/ b.kind = "cold" /\ b.file > 0
           held    == Held(b)
           left    == Max2(0, sock.queued - (Len(sock.pendingLive) - Len(held)))
           s == [sock EXCEPT !.pendingLive = held, !.queued = left]
           c == [b EXCEPT !.phase = "sending", !.batches = kept, !.more = more]
           T == Shown(gen, lo, hi)
<1>1. CASE ~Valid(t)
  BY <1>1, DropOnce DEF Plan
<1>2. CASE Valid(t)
  <2>1. /\ gen \in Gens /\ lo \in Nat /\ hi \in Nat /\ sock \in SocketType /\ Once(sock)
        /\ sock.pendingLive \in Seq(Event) /\ UNCHANGED sourceVars
    BY SockTyped DEF IInv, StoreInv, OnceInv, SocketType, Plan
  <2>2. /\ b \in Body /\ b.phase = "loaded" /\ b.raw = [gen |-> gen, lo |-> lo, hi |-> hi] /\ b.file = 0
    BY BodyOf DEF Plan, Delivering, InPhase, OnceInv, SnapOK
  <2>3. b.raw.lo = lo /\ b.raw.hi = hi
    BY <2>2
  <2>4. found \in Seq(T)
    BY <2>1, <2>2, SelectedShown
  <2>5. newer \in Seq(T)
    <3> DEFINE from == Max2(lo, (IF b.raw.lo <= b.raw.hi THEN b.raw.hi ELSE 0) + 1)
    <3>1. from \in Nat /\ from >= lo
      BY <2>1, <2>3 DEF Max2
    <3> HIDE DEF from
    <3>2. Entries(gen, from, hi) \in Seq(T)
      BY <2>1, <3>1, EntriesShown
    <3> QED BY <3>2 DEF from
  <2>6. <<>> \in Seq(T)
    OBVIOUS
  <2>7. WindowFrames \in Nat /\ FrameSize \in Nat /\ WindowFrames * FrameSize \in Nat
    BY CoordinatorAssumption
  <2> HIDE DEF found, newer, T
  <2>8. chosen \in Seq(T) /\ catchup \in Seq(T)
    BY <2>4, <2>5, <2>6, <2>7, NewestTyped
  <2> HIDE DEF chosen, catchup
  <2>9. chosen \o catchup \in Seq(T)
    BY <2>8, ConcatProperties
  <2>10. batches \in Seq(Seq(T))
    BY <2>9, BatchesTyped
  <2> HIDE DEF batches
  <2>11. kept \in Seq(Seq(T))
    <3>1. Newest(batches, WindowFrames) \in Seq(Seq(T))
      BY <2>7, <2>10, NewestTyped
    <3>2. Min2(WindowFrames, Len(batches)) \in Int /\ Min2(WindowFrames, Len(batches)) <= Len(batches)
      BY <2>7, <2>10 DEF Min2
    <3>3. SubSeq(batches, 1, Min2(WindowFrames, Len(batches))) \in Seq(Seq(T))
      BY <2>10, <3>2, SubSeqTyped
    <3> QED BY <3>1, <3>3
  <2>12. Become(s, [bodies EXCEPT ![t] = c], tail)
    <3>1. Become([sock EXCEPT !.pendingLive = held,
                              !.queued = Max2(0, @ - (Len(sock.pendingLive) - Len(Held(b))))],
                 [bodies EXCEPT ![t].phase = "sending", ![t].batches = kept, ![t].more = more], tail)
      BY <1>2 DEF Plan, batches, chosen, catchup, found, newer
    <3> HIDE DEF kept, more
    <3>2. [bodies EXCEPT ![t].phase = "sending", ![t].batches = kept, ![t].more = more]
            = [bodies EXCEPT ![t] = c]
      BY <2>2 DEF Body
    <3> HIDE DEF held
    <3>3. [sock EXCEPT !.pendingLive = held,
                       !.queued = Max2(0, @ - (Len(sock.pendingLive) - Len(Held(b))))] = s
      BY <2>1 DEF SocketType, held
    <3> QED BY <3>1, <3>2, <3>3
  <2>13. /\ \A i \in DOMAIN held : HeldIn(sock, held[i]) /\ (held[i].seq < lo \/ held[i].seq > hi)
         /\ \A i, j \in DOMAIN held : held[i] = held[j] => i = j
    <3>1. PICK k : k = held
      OBVIOUS
    <3>2. HeldOnce(sock)
      BY <2>1 DEF Once
    <3> HIDE DEF held, b
    <3>3. k = Held(b)
      BY <3>1 DEF held
    <3> QED BY <2>1, <2>3, <3>1, <3>2, <3>3, HeldOnes
  <2> HIDE DEF kept, more, left, held
  <2>14. c.phase = "sending" /\ c.batches = kept
    BY <2>2 DEF Body
  <2>15. /\ s.out = sock.out /\ s.inflight = sock.inflight /\ s.queue = sock.queue
         /\ s.pendingLive = held
    BY <2>1 DEF SocketType
  <2> HIDE DEF c, s
  <2>16. Recasts(sock, s)
    BY <2>1, <2>13, <2>15, SameLine
  <2>17. \A e : Batched(c, e) => e \in T
    <3>1. \A i \in DOMAIN kept : kept[i] \in Seq(T)
      BY <2>11
    <3>2. \A i \in DOMAIN kept : \A k \in DOMAIN kept[i] : kept[i][k] \in T
      BY <3>1
    <3> QED BY <2>14, <3>2 DEF Batched
  <2>18. \A e \in T : Known(gen, hi, e) /\ ~HeldIn(s, e)
    <3>1. \A e \in T : e \in Event /\ e.gen = gen /\ e.seq \in Nat /\ e.seq >= lo /\ e.seq <= hi
      BY DEF T, Shown, Event
    <3> QED BY <2>1, <2>13, <2>15, <3>1 DEF Known, HeldIn
  <2> DEFINE bs == [bodies EXCEPT ![t] = c]
  <2>19. Clear(s, bs) /\ Cut(gen, hi, bs)
    BY <2>16, <2>17, <2>18 DEF Clear, Cut, OnceInv, Recasts
  <2>20. SnapOK(bs, tail, gen, lo, hi)
    BY <2>14, OneSnap DEF OnceInv
  <2>21. Become(s, bs, tail)
    BY <2>12
  <2> HIDE DEF bs
  <2>22. Fine(s, bs, tail, gen, lo, hi)
    BY <2>16, <2>19, <2>20 DEF Fine, OnceInv, Recasts, Lined
  <2>23. gen' = gen /\ lo' = lo /\ hi' = hi
    BY <2>1 DEF sourceVars
  <2> QED BY <2>21, <2>22, <2>23, BecomeOnce
<1> QED BY <1>1, <1>2

LEMMA MicrotaskOnce ==
  ASSUME Unpaged, IInv, OnceInv, Microtask
  PROVE  OnceInv'
BY AdmitOnce, AdmitUnavailableOnce, TakeSnapshotOnce, PlanOnce, SendNextOnce, CloseOnce, DrainTakeOnce
   DEF Microtask

LEMMA SameOnce ==
  ASSUME OnceInv, UNCHANGED serverVars
  PROVE  OnceInv'
<1>1. sock' = sock /\ bodies' = bodies /\ tail' = tail /\ gen' = gen /\ lo' = lo /\ hi' = hi
  BY DEF serverVars, coordVars, sourceVars
<1> QED BY <1>1, PrimedOnce DEF OnceInv

LEMMA NextOnce ==
  ASSUME Unpaged, "unsubscribe" \notin Incidents, IInv, OnceInv, [CoordNext]_serverVars
  PROVE  OnceInv'
<1>1. CASE CoordNext
  <2>1. \/ Microtask \/ DrainSend \/ EventForward
        \/ \E m \in BrowserMessages : Subscribe(m)
        \/ load # None /\ \E ok \in BOOLEAN : LoadDone(ok)
        \/ SessionRegister \/ ReplayComplete \/ SafetyTimeout
        \/ Disconnect \/ ServerRestart \/ Connect
    BY <1>1 DEF CoordNext, BridgeStep
  <2>2. ReplayComplete \/ SafetyTimeout => OnceInv'
    BY BridgeReplayOnce DEF ReplayComplete, SafetyTimeout
  <2>3. (\E m \in BrowserMessages : Subscribe(m)) => OnceInv'
    BY SubscribeOnce, BrowserMessagesAre
  <2>4. Microtask \/ DrainSend \/ EventForward => OnceInv'
    BY MicrotaskOnce, DrainSendOnce, EventForwardOnce
  <2>5. (load # None /\ \E ok \in BOOLEAN : LoadDone(ok)) => OnceInv'
    BY LoadDoneOnce
  <2>6. SessionRegister \/ Disconnect \/ ServerRestart \/ Connect => OnceInv'
    BY SessionRegisterOnce, DisconnectOnce, ServerRestartOnce, ConnectOnce
  <2> QED BY <2>1, <2>2, <2>3, <2>4, <2>5, <2>6
<1>2. CASE UNCHANGED serverVars
  BY <1>2, SameOnce
<1> QED BY <1>1, <1>2

LEMMA InitOnce == CoordInit => OnceInv
<1> SUFFICES ASSUME CoordInit PROVE OnceInv
  OBVIOUS
<1>1. /\ sock.queue = <<>> /\ sock.out = <<>> /\ sock.inflight = None /\ sock.pendingLive = <<>>
      /\ DOMAIN bodies = {}
  BY DEF CoordInit, EmptySocket, Empty
<1>2. \A e : ~InLine(sock, e) /\ ~HeldIn(sock, e)
  <2>1. DOMAIN <<>> = {}
    OBVIOUS
  <2> QED BY <1>1, <2>1 DEF InLine, HeldIn, Brought, Bringing
<1>3. Once(sock)
  <2>1. DOMAIN <<>> = {}
    OBVIOUS
  <2> QED BY <1>1, <2>1 DEF Once, OutOnce, HandOnce, QueueOnce, HeldOnce
<1>4. Keep = 0 => lo = 1
  BY CoordinatorAssumption DEF CoordInit
<1> QED BY <1>1, <1>2, <1>3, <1>4 DEF OnceInv, Lined, Clear, Cut, SnapOK

\* A live event is sent once across the replay barrier
\* (replay-coordinator.test.ts:205): what a frame, or the live stream, has
\* brought is not sent live again, over registrations, restarts, lost messages
\* and full queues.  Assumed is that no request reads the session file for
\* older history (deliverRequestBody awaits it with its snapshot taken), and
\* that no browser unsubscribes (what the drain has in hand is still sent).
THEOREM LiveEventsAreSentOnce ==
  ASSUME Unpaged, "unsubscribe" \notin Incidents
  PROVE  CoordSpec => []LiveDeliveredOnce
<1>1. CoordInit => IInv /\ OnceInv
  BY InitHolds, InitOnce
<1>2. (IInv /\ OnceInv) /\ [CoordNext]_serverVars => (IInv /\ OnceInv)'
  <2> SUFFICES ASSUME IInv, OnceInv, [CoordNext]_serverVars PROVE IInv' /\ OnceInv'
    OBVIOUS
  <2> QED BY NextHolds, NextOnce
<1>3. IInv /\ OnceInv => LiveDeliveredOnce
  BY DEF OnceInv, Once, OutOnce, Brings, LiveDeliveredOnce, Out
<1> QED BY <1>1, <1>2, <1>3, PTL DEF CoordSpec

-----------------------------------------------------------------------------
(* Answers, along the line of messages.                                    *)
(*                                                                         *)
(* The line is what has been sent, the message in hand, and what the queue *)
(* will say of each item still in it.  DenseInv says two things of it.  It *)
(* is kept: for every request its frames are one run of events, nothing    *)
(* but an error follows once it is concluded, and what is queued for a     *)
(* request is ahead of its barrier.  And every body continues it: one that *)
(* has not planned yet has said nothing, and the batches of one that sends *)
(* are each a run, go on from one another, and start where the line's      *)
(* frames for it end.  Each action either moves a message along the line,  *)
(* which changes nothing, or appends to its end, or breaks its end off.    *)

\* The parts of a concatenation.
LEMMA ConcatParts ==
  ASSUME NEW T, NEW p \in Seq(T), NEW q \in Seq(T)
  PROVE  /\ p \o q \in Seq(T)
         /\ \A i \in DOMAIN (p \o q) :
              \/ i \in DOMAIN p /\ (p \o q)[i] = p[i]
              \/ \E j \in DOMAIN q : i = Len(p) + j /\ (p \o q)[i] = q[j]
         /\ \A i \in DOMAIN p : i \in DOMAIN (p \o q) /\ (p \o q)[i] = p[i]
         /\ \A j \in DOMAIN q : Len(p) + j \in DOMAIN (p \o q) /\ (p \o q)[Len(p) + j] = q[j]
<1>1. /\ p \o q \in Seq(T) /\ Len(p \o q) = Len(p) + Len(q)
      /\ \A i \in 1..(Len(p) + Len(q)) : (p \o q)[i] = IF i <= Len(p) THEN p[i] ELSE q[i - Len(p)]
  BY ConcatProperties
<1>2. /\ Len(p) \in Nat /\ Len(q) \in Nat /\ DOMAIN p = 1..Len(p) /\ DOMAIN q = 1..Len(q)
      /\ DOMAIN (p \o q) = 1..(Len(p) + Len(q))
  BY <1>1
<1>3. ASSUME NEW i \in 1..(Len(p) + Len(q)), ~(i <= Len(p))
      PROVE  \E j \in 1..Len(q) : i = Len(p) + j /\ (p \o q)[i] = q[j]
  <2>1. i - Len(p) \in 1..Len(q) /\ i = Len(p) + (i - Len(p)) /\ (p \o q)[i] = q[i - Len(p)]
    BY <1>1, <1>2, <1>3
  <2> QED BY <2>1
<1>4. \A i \in 1..(Len(p) + Len(q)) : i <= Len(p) => i \in 1..Len(p) /\ (p \o q)[i] = p[i]
  BY <1>1, <1>2
<1>5. \A i \in 1..Len(p) : i \in 1..(Len(p) + Len(q)) /\ (p \o q)[i] = p[i]
  BY <1>1, <1>2
<1>6. \A j \in 1..Len(q) : Len(p) + j \in 1..(Len(p) + Len(q)) /\ (p \o q)[Len(p) + j] = q[j]
  <2>1. \A j \in 1..Len(q) : /\ Len(p) + j \in 1..(Len(p) + Len(q)) /\ ~(Len(p) + j <= Len(p))
                             /\ (Len(p) + j) - Len(p) = j
    BY <1>2
  <2> QED BY <1>1, <2>1
<1> QED BY <1>1, <1>2, <1>3, <1>4, <1>5, <1>6

\* A run of events, and one that goes on where another ends.
Run(es) == \A i \in 1..(Len(es) - 1) : es[i + 1].seq = es[i].seq + 1
Joins(es, fs) == es # <<>> /\ fs # <<>> => fs[1].seq = es[Len(es)].seq + 1

LEMMA RunConcat ==
  ASSUME NEW es \in Seq(Event), NEW fs \in Seq(Event)
  PROVE  Run(es \o fs) <=> Run(es) /\ Run(fs) /\ Joins(es, fs)
<1> DEFINE n == Len(es)
           m == Len(fs)
           gs == es \o fs
<1>1. /\ n \in Nat /\ m \in Nat /\ Len(gs) = n + m
      /\ \A i \in 1..(n + m) : gs[i] = IF i <= n THEN es[i] ELSE fs[i - n]
  BY ConcatProperties
<1>2. (es # <<>> <=> n >= 1) /\ (fs # <<>> <=> m >= 1)
  OBVIOUS
<1> HIDE DEF n, m, gs
<1>3. \A i \in 1..n : gs[i] = es[i]
  BY <1>1
<1>4. \A i \in 1..m : gs[n + i] = fs[i]
  <2>1. \A i \in 1..m : n + i \in 1..(n + m) /\ ~(n + i <= n) /\ (n + i) - n = i
    BY <1>1
  <2> QED BY <1>1, <2>1
<1>5. ASSUME Run(gs) PROVE Run(es) /\ Run(fs) /\ Joins(es, fs)
  <2>1. \A i \in 1..(n + m - 1) : gs[i + 1].seq = gs[i].seq + 1
    BY <1>1, <1>5 DEF Run
  <2>2. Run(es)
    <3>1. \A i \in 1..(n - 1) : i \in 1..(n + m - 1) /\ i \in 1..n /\ i + 1 \in 1..n
      BY <1>1
    <3> QED BY <1>3, <2>1, <3>1 DEF Run, n
  <2>3. Run(fs)
    <3>1. \A i \in 1..(m - 1) : /\ n + i \in 1..(n + m - 1) /\ (n + i) + 1 = n + (i + 1)
                                /\ i \in 1..m /\ i + 1 \in 1..m
      BY <1>1
    <3>2. ASSUME NEW i \in 1..(m - 1) PROVE fs[i + 1].seq = fs[i].seq + 1
      <4>1. gs[(n + i) + 1].seq = gs[n + i].seq + 1
        BY <2>1, <3>1
      <4> QED BY <1>4, <3>1, <4>1
    <3> QED BY <3>2 DEF Run, m
  <2>4. ASSUME n >= 1, m >= 1 PROVE fs[1].seq = es[n].seq + 1
    <3>1. n \in 1..(n + m - 1) /\ n \in 1..n /\ 1 \in 1..m
      BY <1>1, <2>4
    <3> QED BY <1>3, <1>4, <2>1, <3>1
  <2>5. Joins(es, fs)
    <3>1. es # <<>> /\ fs # <<>> => fs[1].seq = es[n].seq + 1
      BY <1>2, <2>4
    <3> QED BY <3>1 DEF Joins, n
  <2> QED BY <2>2, <2>3, <2>5
<1>6. ASSUME Run(es), Run(fs), Joins(es, fs) PROVE Run(gs)
  <2>0. Len(gs) - 1 = n + m - 1
    BY <1>1
  <2>1. SUFFICES ASSUME NEW i \in 1..(n + m - 1) PROVE gs[i + 1].seq = gs[i].seq + 1
    BY <2>0 DEF Run
  <2>2. CASE i < n
    <3>1. i \in 1..(n - 1) /\ i \in 1..n /\ i + 1 \in 1..n
      BY <1>1, <2>1, <2>2
    <3> QED BY <1>3, <1>6, <3>1 DEF Run, n
  <2>3. CASE i = n
    <3>1. n >= 1 /\ m >= 1 /\ n \in 1..n /\ 1 \in 1..m
      BY <1>1, <2>1, <2>3
    <3>2. fs[1].seq = es[n].seq + 1
      BY <1>2, <1>6, <3>1 DEF Joins, n
    <3> QED BY <1>3, <1>4, <2>3, <3>1, <3>2
  <2>4. CASE i > n
    <3>1. PICK j \in 1..(m - 1) : i = n + j
      <4>1. i - n \in 1..(m - 1) /\ i = n + (i - n)
        BY <1>1, <2>1, <2>4
      <4> QED BY <4>1
    <3>2. j \in 1..m /\ j + 1 \in 1..m /\ i + 1 = n + (j + 1)
      BY <1>1, <3>1
    <3>3. fs[j + 1].seq = fs[j].seq + 1
      BY <1>6, <3>1 DEF Run, m
    <3> QED BY <1>4, <3>1, <3>2, <3>3
  <2> QED BY <1>1, <2>1, <2>2, <2>3, <2>4
<1> QED BY <1>5, <1>6 DEF gs

-----------------------------------------------------------------------------
(* Answers.  The messages sent, in hand and queued are one line: the drain *)
(* leaves it as it is, what is queued goes to its end, and a queue that    *)
(* overflows breaks it off.                                                *)

Spoken == [item \in Item |-> IF item.kind = "message" THEN <<item.msg>> ELSE <<>>]
Hand(s) == IF s.inflight = None THEN <<>> ELSE <<s.inflight.msg>>
Line(s) == (s.out \o Hand(s)) \o FlatMap(Spoken, s.queue)

\* What is on the line of the answer to id.
FrameFor(m, id) == IsFrame(m) /\ m.id = id
EventsFor(id) == [m \in Msg |-> IF FrameFor(m, id) THEN m.events ELSE <<>>]
EventsOf(L, id) == FlatMap(EventsFor(id), L)

\* Nothing follows the terminal of id but errors.
Ends(L, id) ==
  \A i \in DOMAIN L : FrameFor(L[i], id) =>
    \A j \in 1..(i - 1) : Concludes(L[j], id) => L[i].error
LineOK(L, n) ==
  /\ \A i \in DOMAIN L : IsFrame(L[i]) => L[i].id <= n /\ (L[i].error => L[i].events = <<>>)
  /\ \A id \in Nat \ {0} : Run(EventsOf(L, id)) /\ Ends(L, id)
Silent(L, id) == \A i \in DOMAIN L : ~FrameFor(L[i], id)
Untold(L, id) == \A i \in DOMAIN L : ~Concludes(L[i], id)

\* Messages that take nothing away from the answers they may follow.
Hushed(ms, n) ==
  \A i \in DOMAIN ms : IsFrame(ms[i]) => ms[i].id <= n /\ ms[i].error /\ ms[i].events = <<>>

LEMMA MsgEvents == \A m \in Msg : IsFrame(m) => m.events \in Seq(Event) /\ m.error \in BOOLEAN /\ m.id \in Int
BY DEF Msg, IsFrame

LEMMA EventsTurns == \A id : Turns(EventsFor(id), Msg, Event)
BY MsgEvents DEF Turns, EventsFor, FrameFor

LEMMA SpokenTurns == Turns(Spoken, Item, Msg)
BY DEF Turns, Spoken, Item, MessageItem

LEMMA EventsConcat ==
  ASSUME NEW L \in Seq(Msg), NEW ms \in Seq(Msg), NEW id
  PROVE  /\ EventsOf(L, id) \in Seq(Event) /\ EventsOf(ms, id) \in Seq(Event)
         /\ EventsOf(L \o ms, id) = EventsOf(L, id) \o EventsOf(ms, id)
<1>1. PICK F : F = EventsFor(id) /\ Turns(F, Msg, Event)
  BY EventsTurns
<1>c. Turns(F, Msg, Event)
  BY <1>1
<1>a. FlatMap(F, L) \in Seq(Event) /\ FlatMap(F, L \o ms) = FlatMap(F, L) \o FlatMap(F, ms)
  BY <1>c, FlatMapConcat
<1>b. FlatMap(F, ms) \in Seq(Event)
  BY <1>1, FlatMapConcat
<1>2. /\ FlatMap(F, L) \in Seq(Event) /\ FlatMap(F, ms) \in Seq(Event)
      /\ FlatMap(F, L \o ms) = FlatMap(F, L) \o FlatMap(F, ms)
  BY <1>a, <1>b
<1> QED BY <1>1, <1>2 DEF EventsOf

LEMMA NoEvents ==
  ASSUME NEW L \in Seq(Msg), NEW id, \A i \in DOMAIN L : FrameFor(L[i], id) => L[i].events = <<>>
  PROVE  EventsOf(L, id) = <<>>
<1>1. PICK F : F = EventsFor(id) /\ Turns(F, Msg, Event)
  BY EventsTurns
<1>2. \A i \in DOMAIN L : L[i] \in Msg
  OBVIOUS
<1>3. \A i \in DOMAIN L : F[L[i]] = <<>>
  BY <1>1, <1>2 DEF EventsFor
<1>4. FlatMap(F, L) = <<>>
  BY <1>1, <1>3, FlatMapNothing
<1> QED BY <1>1, <1>4 DEF EventsOf

LEMMA OneFrame ==
  ASSUME NEW m \in Msg, NEW id
  PROVE  EventsOf(<<m>>, id) = IF FrameFor(m, id) THEN m.events ELSE <<>>
<1>1. PICK F : F = EventsFor(id) /\ Turns(F, Msg, Event)
  BY EventsTurns
<1>2. FlatMap(F, <<m>>) = F[m]
  BY <1>1, FlatMapOne
<1> QED BY <1>1, <1>2 DEF EventsOf, EventsFor

LEMMA LineOf ==
  ASSUME NEW s \in SocketType
  PROVE  /\ Line(s) \in Seq(Msg) /\ s.out \in Seq(Msg) /\ Hand(s) \in Seq(Msg)
         /\ s.queue \in Seq(Item) /\ FlatMap(Spoken, s.queue) \in Seq(Msg)
<1>1. s.out \in Seq(Msg) /\ s.queue \in Seq(Item) /\ Hand(s) \in Seq(Msg)
  BY DEF SocketType, Hand, MessageItem
<1>2. FlatMap(Spoken, s.queue) \in Seq(Msg)
  BY <1>1, SpokenTurns, FlatMapConcat
<1> QED BY <1>1, <1>2 DEF Line

\* A line that goes on with messages that are hushed.
LEMMA LineGoesOn ==
  ASSUME NEW n, NEW L \in Seq(Msg), LineOK(L, n), NEW ms \in Seq(Msg), Hushed(ms, n)
  PROVE  LineOK(L \o ms, n) /\ \A id : EventsOf(L \o ms, id) = EventsOf(L, id)
<1> DEFINE K == L \o ms
<1>1. /\ K \in Seq(Msg)
      /\ \A i \in DOMAIN K : \/ i \in DOMAIN L /\ K[i] = L[i]
                             \/ \E j \in DOMAIN ms : i = Len(L) + j /\ K[i] = ms[j]
      /\ \A i \in DOMAIN L : i \in DOMAIN K /\ K[i] = L[i]
  BY ConcatParts
<1>2. ASSUME NEW id PROVE EventsOf(K, id) = EventsOf(L, id)
  <2>0. \A i \in DOMAIN ms : FrameFor(ms[i], id) => ms[i].events = <<>>
    BY DEF Hushed, FrameFor
  <2>1. EventsOf(ms, id) = <<>>
    BY <2>0, NoEvents
  <2>a. EventsOf(L, id) \in Seq(Event) /\ EventsOf(K, id) = EventsOf(L, id) \o EventsOf(ms, id)
    BY EventsConcat
  <2>2. EventsOf(L, id) \in Seq(Event) /\ EventsOf(K, id) = EventsOf(L, id) \o <<>>
    BY <2>1, <2>a
  <2>3. PICK es \in Seq(Event) : es = EventsOf(L, id)
    BY <2>2
  <2> HIDE DEF K
  <2> QED BY <2>2, <2>3, ConcatEmptySeq
<1> HIDE DEF K
<1>3. ASSUME NEW i \in DOMAIN K, IsFrame(K[i])
      PROVE  K[i].id <= n /\ (K[i].error => K[i].events = <<>>)
  BY <1>1, <1>3 DEF LineOK, Hushed
<1>4. ASSUME NEW id \in Nat \ {0} PROVE Ends(K, id)
  <2> SUFFICES ASSUME NEW i \in DOMAIN K, FrameFor(K[i], id), NEW j \in 1..(i - 1), Concludes(K[j], id)
               PROVE  K[i].error
    BY DEF Ends
  <2>1. CASE i \in DOMAIN L /\ K[i] = L[i]
    <3>1. j \in DOMAIN L
      <4>1. DOMAIN L = 1..Len(L) /\ Len(L) \in Nat
        OBVIOUS
      <4> QED BY <2>1, <4>1
    <3> QED BY <1>1, <2>1, <3>1 DEF LineOK, Ends
  <2>2. CASE \E k \in DOMAIN ms : i = Len(L) + k /\ K[i] = ms[k]
    BY <2>2 DEF Hushed, FrameFor
  <2> QED BY <1>1, <2>1, <2>2
<1> QED BY <1>2, <1>3, <1>4 DEF LineOK, K

\* A line broken off.
LEMMA LineBreaksOff ==
  ASSUME NEW n, NEW L \in Seq(Msg), NEW ms \in Seq(Msg), LineOK(L \o ms, n)
  PROVE  LineOK(L, n)
<1> DEFINE K == L \o ms
<1>1. \A i \in DOMAIN L : i \in DOMAIN K /\ K[i] = L[i]
  BY ConcatParts
<1>2. ASSUME NEW id \in Nat \ {0} PROVE Run(EventsOf(L, id))
  <2>1. Run(EventsOf(K, id))
    BY DEF LineOK
  <2>2. /\ EventsOf(L, id) \in Seq(Event) /\ EventsOf(ms, id) \in Seq(Event)
        /\ EventsOf(K, id) = EventsOf(L, id) \o EventsOf(ms, id)
    BY EventsConcat
  <2>3. PICK es \in Seq(Event), fs \in Seq(Event) : es = EventsOf(L, id) /\ fs = EventsOf(ms, id)
    BY <2>2
  <2> HIDE DEF K
  <2> QED BY <2>1, <2>2, <2>3, RunConcat
<1>3. ASSUME NEW id \in Nat \ {0} PROVE Ends(L, id)
  <2>1. Ends(K, id)
    BY DEF LineOK
  <2>2. \A i \in DOMAIN L : \A j \in 1..(i - 1) : j \in DOMAIN L
    <3>1. DOMAIN L = 1..Len(L) /\ Len(L) \in Nat
      OBVIOUS
    <3> QED BY <3>1
  <2> HIDE DEF K
  <2> QED BY <1>1, <2>1, <2>2 DEF Ends
<1>4. \A i \in DOMAIN L : IsFrame(L[i]) => L[i].id <= n /\ (L[i].error => L[i].events = <<>>)
  BY <1>1 DEF LineOK
<1> QED BY <1>2, <1>3, <1>4 DEF LineOK

\* A frame that goes on where the answer is.
LEMMA LineTakesFrame ==
  ASSUME NEW n \in Nat, NEW L \in Seq(Msg), LineOK(L, n), NEW m \in Msg, IsFrame(m), ~m.error,
         m.id \in 1..n, Untold(L, m.id), Run(m.events), Joins(EventsOf(L, m.id), m.events)
  PROVE  LineOK(L \o <<m>>, n) /\ EventsOf(L \o <<m>>, m.id) = EventsOf(L, m.id) \o m.events
<1>a. <<m>> \in Seq(Msg)
  OBVIOUS
<1>0. PICK ms \in Seq(Msg) : ms = <<m>>
  BY <1>a
<1> DEFINE K == L \o ms
<1>1. /\ K \in Seq(Msg)
      /\ \A i \in DOMAIN K : \/ i \in DOMAIN L /\ K[i] = L[i]
                             \/ \E j \in DOMAIN ms : i = Len(L) + j /\ K[i] = ms[j]
      /\ \A i \in DOMAIN L : i \in DOMAIN K /\ K[i] = L[i]
  BY ConcatParts
<1>2. DOMAIN ms = {1} /\ ms[1] = m /\ DOMAIN L = 1..Len(L) /\ Len(L) \in Nat
  BY <1>0
<1>3. \A id : /\ EventsOf(L, id) \in Seq(Event) /\ EventsOf(ms, id) \in Seq(Event)
              /\ EventsOf(K, id) = EventsOf(L, id) \o EventsOf(ms, id)
  BY EventsConcat
<1>4. \A id : EventsOf(ms, id) = IF FrameFor(m, id) THEN m.events ELSE <<>>
  BY <1>0, OneFrame
<1> HIDE DEF K
<1>5. ASSUME NEW id \in Nat \ {0} PROVE Run(EventsOf(K, id))
  <2>1. PICK es \in Seq(Event), fs \in Seq(Event) : es = EventsOf(L, id) /\ fs = EventsOf(ms, id)
    BY <1>3
  <2>2. Run(es)
    BY <2>1 DEF LineOK
  <2>3. Run(fs) /\ Joins(es, fs)
    <3>1. CASE FrameFor(m, id)
      BY <1>4, <2>1, <3>1 DEF FrameFor
    <3>2. CASE ~FrameFor(m, id)
      <4>1. fs = <<>>
        BY <1>4, <2>1, <3>2
      <4> QED BY <4>1 DEF Run, Joins
    <3> QED BY <3>1, <3>2
  <2>4. Run(es \o fs)
    BY <2>2, <2>3, RunConcat
  <2> QED BY <1>3, <2>1, <2>4
<1>6. ASSUME NEW id \in Nat \ {0} PROVE Ends(K, id)
  <2> SUFFICES ASSUME NEW i \in DOMAIN K, FrameFor(K[i], id), NEW j \in 1..(i - 1), Concludes(K[j], id)
               PROVE  K[i].error
    BY DEF Ends
  <2>1. CASE i \in DOMAIN L /\ K[i] = L[i]
    <3>1. j \in DOMAIN L
      BY <1>2, <2>1
    <3> QED BY <1>1, <2>1, <3>1 DEF LineOK, Ends
  <2>2. CASE i = Len(L) + 1 /\ K[i] = m
    <3>1. j \in DOMAIN L /\ id = m.id
      BY <1>2, <2>2 DEF FrameFor
    <3> QED BY <1>1, <3>1 DEF Untold
  <2> QED BY <1>1, <1>2, <2>1, <2>2
<1>7. \A i \in DOMAIN K : IsFrame(K[i]) => K[i].id <= n /\ (K[i].error => K[i].events = <<>>)
  BY <1>1, <1>2 DEF LineOK
<1>8. EventsOf(K, m.id) = EventsOf(L, m.id) \o m.events
  BY <1>3, <1>4 DEF FrameFor
<1> QED BY <1>0, <1>5, <1>6, <1>7, <1>8 DEF LineOK, K

-----------------------------------------------------------------------------
(* The line of a socket, and its bodies. *)

\* What is queued for a request has it still, and is ahead of its barrier.
Waited(s) ==
  /\ \A j \in DOMAIN s.queue : s.queue[j].kind = "message" /\ s.queue[j].key # NoId
       => HasRequest(s, s.queue[j].key)
  /\ \A j, k \in DOMAIN s.queue : s.queue[j].kind = "barrier" /\ s.queue[k].kind = "message" /\ j < k
       => s.queue[k].key # s.queue[j].token
Kept(s, n) == LineOK(Line(s), n) /\ Keyed(s) /\ Numbered(s, n) /\ Waited(s)

\* A body that has not planned has said nothing; one that sends goes on where
\* its answer is.
Early == {"hydrating", "hydrated", "unavailable", "waiting", "paging", "loaded"}
Chained(bs) ==
  \A i \in DOMAIN bs : bs[i] # <<>> /\ Run(bs[i]) /\ (i > 1 => Joins(bs[i - 1], bs[i]))
Sends(L, t, b) ==
  /\ Chained(b.batches)
  /\ ~b.ended => Untold(L, t)
  /\ b.batches # <<>> => ~b.ended /\ Joins(EventsOf(L, t), b.batches[1])
Says(s, t, b) ==
  /\ b.phase \in Early => Silent(Line(s), t) /\ ~HasBarrier(s.queue, t) /\ ~b.ended
  /\ b.phase = "sending" => Sends(Line(s), t, b)

DenseInv == Kept(sock, token) /\ \A t \in DOMAIN bodies : Says(sock, t, bodies[t])

LEMMA DensePrimed ==
  DenseInv' <=> Kept(sock', token') /\ \A t \in DOMAIN bodies' : Says(sock', t, bodies'[t])
BY DEF DenseInv, Kept, LineOK, Keyed, Numbered, Waited, Says, Sends, Line, Hand, Spoken, FlatMap, Mapped,
  FrameFor, EventsOf, EventsFor, Run, Joins, Ends, Concludes, Silent, Untold, Chained, HasRequest, HasBarrier,
  IsFrame

LEMMA LineEmpty ==
  ASSUME NEW s, s.out \in Seq(Msg), s.inflight = None, s.queue = <<>>
  PROVE  Line(s) = s.out
<1>1. Line(s) = (s.out \o <<>>) \o <<>>
  BY FlatMapEmpty DEF Line, Hand
<1>2. PICK o \in Seq(Msg) : o = s.out
  OBVIOUS
<1>3. o \o <<>> = o
  BY ConcatEmptySeq
<1> QED BY <1>1, <1>2, <1>3

LEMMA LineQueues ==
  ASSUME NEW s \in SocketType, NEW q, q.out = s.out, q.inflight = s.inflight,
         NEW more \in Seq(Item), q.queue = s.queue \o more
  PROVE  Line(q) = Line(s) \o FlatMap(Spoken, more) /\ FlatMap(Spoken, more) \in Seq(Msg)
<1>1. s.out \o Hand(s) \in Seq(Msg) /\ s.queue \in Seq(Item)
  BY LineOf
<1>2. Hand(q) = Hand(s)
  BY DEF Hand
<1>3. PICK queue \in Seq(Item) : queue = s.queue
  BY <1>1
<1>4. /\ FlatMap(Spoken, queue) \in Seq(Msg)
      /\ FlatMap(Spoken, queue \o more) = FlatMap(Spoken, queue) \o FlatMap(Spoken, more)
  BY SpokenTurns, FlatMapConcat
<1>5. FlatMap(Spoken, more) \in Seq(Msg)
  BY SpokenTurns, FlatMapConcat
<1>6. PICK a \in Seq(Msg), b \in Seq(Msg), c \in Seq(Msg) :
        a = s.out \o Hand(s) /\ b = FlatMap(Spoken, queue) /\ c = FlatMap(Spoken, more)
  BY <1>1, <1>4, <1>5
<1>7. Line(q) = a \o (b \o c) /\ Line(s) = a \o b
  BY <1>2, <1>3, <1>4, <1>6 DEF Line
<1>8. (a \o b) \o c = a \o (b \o c)
  BY ConcatAssociative, SMTT(30)
<1> QED BY <1>5, <1>6, <1>7, <1>8

LEMMA LineAppends ==
  ASSUME NEW s \in SocketType, NEW q, q.out = s.out, q.inflight = s.inflight,
         NEW item \in Item, q.queue = Append(s.queue, item)
  PROVE  Line(q) = Line(s) \o Spoken[item] /\ Spoken[item] \in Seq(Msg)
<1>1. s.queue \in Seq(Item) /\ <<item>> \in Seq(Item)
  BY LineOf
<1>2. PICK more \in Seq(Item) : more = <<item>>
  BY <1>1
<1>3. Append(s.queue, item) = s.queue \o <<item>>
  BY <1>1
<1>4. Line(q) = Line(s) \o FlatMap(Spoken, more) /\ FlatMap(Spoken, more) \in Seq(Msg)
  BY <1>2, <1>3, LineQueues
<1>5. FlatMap(Spoken, <<item>>) = Spoken[item]
  BY SpokenTurns, FlatMapOne
<1> QED BY <1>2, <1>4, <1>5

\* The messages sent, when they are no more than that, and errors behind them.
LEMMA OutKept ==
  ASSUME NEW n, NEW s \in SocketType, LineOK(Line(s), n), NEW ms \in Seq(Msg), Hushed(ms, n),
         NEW q, q.out = s.out \o ms, q.inflight = None, q.queue = <<>>, q.requests = <<>>
  PROVE  Kept(q, n)
<1>1. /\ s.out \in Seq(Msg) /\ Hand(s) \in Seq(Msg) /\ FlatMap(Spoken, s.queue) \in Seq(Msg)
      /\ Line(s) = (s.out \o Hand(s)) \o FlatMap(Spoken, s.queue)
  BY LineOf DEF Line
<1>2. PICK o \in Seq(Msg), h \in Seq(Msg), f \in Seq(Msg) :
        o = s.out /\ h = Hand(s) /\ f = FlatMap(Spoken, s.queue)
  BY <1>1
<1>3. o \o h \in Seq(Msg)
  OBVIOUS
<1>4. LineOK(o \o h, n)
  BY <1>1, <1>2, <1>3, LineBreaksOff, ZenonT(30)
<1>5. LineOK(o, n)
  BY <1>4, LineBreaksOff
<1>6. LineOK(o \o ms, n)
  BY <1>5, LineGoesOn
<1>7. o \o ms \in Seq(Msg)
  OBVIOUS
<1>8. Line(q) = o \o ms
  BY <1>2, <1>7, LineEmpty
<1>9. Keyed(q) /\ Numbered(q, n) /\ Waited(q)
  BY DEF Keyed, Numbered, Waited
<1> QED BY <1>6, <1>8, <1>9 DEF Kept

LEMMA ClosedKept ==
  ASSUME NEW n, NEW s \in SocketType, LineOK(Line(s), n)
  PROVE  Kept(Closed(s), n)
<1>1. s.out \in Seq(Msg)
  BY LineOf
<1>3. s.out \o <<>> = s.out
  BY <1>1, ConcatEmptySeq
<1>4. <<>> \in Seq(Msg) /\ Hushed(<<>>, n)
  BY DEF Hushed
<1>a. /\ Closed(s).out = s.out /\ Closed(s).inflight = None /\ Closed(s).queue = <<>>
      /\ Closed(s).requests = <<>>
  <2> DEFINE o == s.out
             q == [EmptySocket EXCEPT !.open = FALSE, !.out = o]
  <2> HIDE DEF o
  <2>1. q.out = o /\ q.inflight = None /\ q.queue = <<>> /\ q.requests = <<>>
    BY DEF EmptySocket
  <2> QED BY <2>1 DEF Closed, o
<1>5. /\ Closed(s).out = s.out \o <<>> /\ Closed(s).inflight = None /\ Closed(s).queue = <<>>
      /\ Closed(s).requests = <<>>
  BY <1>3, <1>a
<1>6. PICK q : q = Closed(s)
  OBVIOUS
<1>7. PICK ms \in Seq(Msg) : ms = <<>>
  BY <1>4
<1> QED BY <1>4, <1>5, <1>6, <1>7, OutKept

LEMMA OverflowKept ==
  ASSUME gen \in Gens, NEW n, NEW s \in SocketType, LineOK(Line(s), n), Keyed(s), OwnTokens(s, n)
  PROVE  Kept(QueueOverflow(s), n) /\ ~QueueOverflow(s).open
<1> DEFINE ms == Terminals(s.requests)
           o == s.out \o ms
           q == QueueOverflow(s)
<1>1. s.requests \in Seq(Req) /\ ms \in Seq(Msg)
  <2>1. s.requests \in Seq(Req)
    BY DEF SocketType
  <2> QED BY <2>1, TerminalsAreMsgs
<1>2. Hushed(ms, n)
  <2>1. DOMAIN ms = DOMAIN s.requests /\ \A i \in DOMAIN ms : ms[i] = FailedTerminal(s.requests[i])
    BY DEF Terminals
  <2>2. ASSUME NEW i \in DOMAIN s.requests
        PROVE  LET m == FailedTerminal(s.requests[i]) IN m.id <= n /\ m.error /\ m.events = <<>>
    <3>1. s.requests[i].key = s.requests[i].token /\ s.requests[i].token >= 1 /\ s.requests[i].token <= n
      BY <2>2 DEF Keyed, OwnTokens
    <3>a. s.requests[i] \in Req
      BY <1>1, <2>2
    <3>2. s.requests[i].token \in Nat
      BY <3>a DEF Req
    <3>3. IdOf(s.requests[i].key) = s.requests[i].token
      BY <3>1, <3>2 DEF IdOf
    <3> QED BY <3>1, <3>3 DEF FailedTerminal, Frame
  <2> HIDE DEF ms
  <2> QED BY <2>1, <2>2 DEF Hushed
<1> HIDE DEF ms
<1>3. q = [EmptySocket EXCEPT !.open = FALSE, !.out = o]
  BY DEF QueueOverflow, ms
<1> HIDE DEF q, o
<1>4. /\ q.out = o /\ q.inflight = None /\ q.queue = <<>> /\ q.requests = <<>> /\ ~q.open
  BY <1>3 DEF EmptySocket
<1>5. Kept(q, n)
  BY <1>1, <1>2, <1>4, OutKept DEF o
<1> QED BY <1>4, <1>5 DEF q

\* Who hears what: what a body says, it says still.
Hears(s, q, t) == \A b : Says(s, t, b) => Says(q, t, b)

LEMMA HearsOn ==
  ASSUME NEW s \in SocketType, NEW q, NEW ms \in Seq(Msg), Line(q) = Line(s) \o ms, NEW t, Silent(ms, t),
         HasBarrier(q.queue, t) => HasBarrier(s.queue, t)
  PROVE  Hears(s, q, t)
<1>1. PICK L \in Seq(Msg) : L = Line(s)
  BY LineOf
<1> DEFINE K == L \o ms
<1>2. /\ \A i \in DOMAIN K : \/ i \in DOMAIN L /\ K[i] = L[i]
                             \/ \E j \in DOMAIN ms : i = Len(L) + j /\ K[i] = ms[j]
  BY ConcatParts
<1>3. EventsOf(K, t) = EventsOf(L, t)
  <2>1. EventsOf(ms, t) = <<>>
    <3>1. \A i \in DOMAIN ms : FrameFor(ms[i], t) => ms[i].events = <<>>
      BY DEF Silent
    <3> QED BY <3>1, NoEvents
  <2>2. EventsOf(L, t) \in Seq(Event) /\ EventsOf(K, t) = EventsOf(L, t) \o EventsOf(ms, t)
    BY EventsConcat
  <2>3. PICK es \in Seq(Event) : es = EventsOf(L, t)
    BY <2>2
  <2> HIDE DEF K
  <2> QED BY <2>1, <2>2, <2>3, ConcatEmptySeq
<1>4. Line(q) = K
  BY <1>1
<1> HIDE DEF K
<1>5. Silent(L, t) => Silent(K, t)
  BY <1>2 DEF Silent
<1>6. Untold(L, t) => Untold(K, t)
  <2>1. \A m : Concludes(m, t) => FrameFor(m, t)
    BY DEF Concludes, FrameFor
  <2> QED BY <1>2, <2>1 DEF Silent, Untold
<1> QED BY <1>1, <1>3, <1>4, <1>5, <1>6 DEF Hears, Says, Sends

\* Another queue for the same messages, requests and, at most, barriers.
LEMMA HearsSame ==
  ASSUME NEW s, NEW q, Line(q) = Line(s), NEW t, HasBarrier(q.queue, t) => HasBarrier(s.queue, t)
  PROVE  Hears(s, q, t)
BY DEF Hears, Says

\* What is queued behind the rest.
LEMMA EnqueueKept ==
  ASSUME gen \in Gens, NEW n, NEW s \in SocketType, Kept(s, n), OwnTokens(s, n), NEW item \in Item,
         item.kind = "barrier" => item.token \in 1..n,
         item.kind = "message" /\ item.key # NoId =>
           HasRequest(s, item.key) /\ ~HasBarrier(s.queue, item.key),
         LineOK(Line(s) \o Spoken[item], n),
         NEW q, q = Enqueue(s, item)
  PROVE  /\ Kept(q, n)
         /\ q.open => /\ Line(q) = Line(s) \o Spoken[item] /\ q.requests = s.requests
                      /\ q.queue = Append(s.queue, item)
<1> DEFINE longer == Append(s.queue, item)
           more == s.queued + IF item.kind = "message" THEN item.count ELSE 0
           p == [s EXCEPT !.queue = longer, !.queued = more]
<1>1. CASE q = QueueOverflow(s)
  <2>1. Kept(QueueOverflow(s), n) /\ ~QueueOverflow(s).open
    BY OverflowKept DEF Kept
  <2> QED BY <1>1, <2>1
<1>2. CASE q # QueueOverflow(s)
  <2>1. q = p
    BY <1>2 DEF Enqueue, SocketType
  <2>2. s.queue \in Seq(Item)
    BY DEF SocketType
  <2>3. /\ Len(s.queue) \in Nat /\ DOMAIN s.queue = 1..Len(s.queue)
        /\ DOMAIN longer = 1..(Len(s.queue) + 1)
        /\ \A i \in 1..Len(s.queue) : longer[i] = s.queue[i]
        /\ longer[Len(s.queue) + 1] = item
    BY <2>2, AppendProperties, LenProperties
  <2>4. \A i \in DOMAIN s.queue : i \in DOMAIN longer /\ longer[i] = s.queue[i] /\ i < Len(s.queue) + 1
    BY <2>3
  <2>5. \A i \in DOMAIN longer : (i \in DOMAIN s.queue /\ longer[i] = s.queue[i])
                                 \/ (i = Len(s.queue) + 1 /\ longer[i] = item)
    BY <2>3
  <2> HIDE DEF longer, more
  <2>7. q.out = s.out /\ q.inflight = s.inflight /\ q.queue = longer /\ q.requests = s.requests
    BY <2>1 DEF SocketType
  <2> HIDE DEF p
  <2>8. Line(q) = Line(s) \o Spoken[item]
    BY <2>7, LineAppends DEF longer
  <2>9. Keyed(q)
    BY <2>7 DEF Kept, Keyed
  <2>10. Numbered(q, n)
    BY <2>5, <2>7 DEF Kept, Numbered
  <2>11. ASSUME NEW j \in DOMAIN longer, longer[j].kind = "message", longer[j].key # NoId
         PROVE  HasRequest(q, longer[j].key)
    BY <2>5, <2>7, <2>11 DEF Kept, Waited, HasRequest
  <2>12. ASSUME NEW j \in DOMAIN longer, NEW k \in DOMAIN longer, longer[j].kind = "barrier",
                longer[k].kind = "message", j < k
         PROVE  longer[k].key # longer[j].token
    <3>1. j \in DOMAIN s.queue /\ longer[j] = s.queue[j]
      BY <2>3, <2>5, <2>12
    <3>2. CASE k \in DOMAIN s.queue /\ longer[k] = s.queue[k]
      BY <2>12, <3>1, <3>2 DEF Kept, Waited
    <3>3. CASE longer[k] = item
      <4>1. HasBarrier(s.queue, longer[j].token) /\ longer[j].token \in 1..n
        BY <2>12, <3>1 DEF HasBarrier, Kept, Numbered
      <4>2. item.key = longer[j].token => item.key # NoId
        BY <4>1 DEF NoId
      <4> QED BY <2>12, <3>3, <4>1, <4>2
    <3> QED BY <2>5, <3>2, <3>3
  <2>13. Waited(q)
    BY <2>7, <2>11, <2>12 DEF Waited
  <2> QED BY <2>7, <2>8, <2>9, <2>10, <2>13 DEF Kept, longer
<1> QED BY <1>1, <1>2

\* A request is completed when nothing is queued for it.
LEMMA CompleteKept ==
  ASSUME gen \in Gens, NEW n, NEW s, SocketOK(s, n), Kept(s, n), NEW t,
         \A j \in DOMAIN s.queue : s.queue[j].kind = "message" => s.queue[j].key # t,
         NEW q, q = CompleteRequest(s, t)
  PROVE  Kept(q, n) /\ (q.open => \A u : Hears(s, q, u))
<1> DEFINE rest == Without(s, t)
           live == [i \in DOMAIN s.pendingLive |-> LiveItem(s.pendingLive[i])]
           ms == [i \in DOMAIN s.pendingLive |-> Live(s.pendingLive[i])]
           due == IF s.pendingLive = <<>> THEN s.queued ELSE Max2(s.queued, 1)
           longer == s.queue \o live
           fewer == [s EXCEPT !.requests = rest]
           free == [s EXCEPT !.requests = rest, !.suppressed = FALSE, !.pendingLive = <<>>,
                             !.queue = longer, !.queued = due]
<1>1. s \in SocketType /\ s.queue \in Seq(Item) /\ s.pendingLive \in Seq(Event) /\ s.requests \in Seq(Req)
  BY DEF SocketOK, SocketType
<1>2. CASE q = s
  BY <1>2 DEF Hears
<1>a. /\ \A i \in DOMAIN rest : \E j \in DOMAIN s.requests : rest[i] = s.requests[j]
      /\ \A j \in DOMAIN s.requests : s.requests[j].token # t =>
           \E i \in DOMAIN rest : rest[i] = s.requests[j]
      /\ rest \in Seq(Req) /\ OwnTokens([requests |-> rest], n)
  <3> DEFINE S == {r \in Range(s.requests) : r.token # t}
             k == Those(s.requests, S)
  <3>1. rest = k
    BY DEF Without
  <3>2. \A j \in DOMAIN s.requests : s.requests[j].token # t => s.requests[j] \in S
    BY <1>1 DEF Range
  <3>3. k \in Seq(Req) /\ Leaves(s.requests, S, Len(s.requests), k)
    <4> HIDE DEF S
    <4> QED BY <1>1, ThoseOf
  <3> HIDE DEF S, k
  <3>4. DOMAIN k = 1..Len(k) /\ DOMAIN s.requests = 1..Len(s.requests)
    BY <1>1, <3>3
  <3>5. OwnTokens([requests |-> rest], n)
    BY WithoutOf DEF OwnTokens
  <3> HIDE DEF rest
  <3> QED BY <3>1, <3>2, <3>3, <3>4, <3>5 DEF Leaves
<1>3. CASE Active(s, t) /\ q = QueueOverflow(fewer)
  <2> HIDE DEF rest
  <2>1. fewer \in SocketType /\ fewer.requests = rest
    BY <1>1, <1>a DEF SocketType
  <2>2. fewer.out = s.out /\ fewer.inflight = s.inflight /\ fewer.queue = s.queue
    BY <1>1 DEF SocketType
  <2> HIDE DEF fewer
  <2>3. Line(fewer) = Line(s)
    BY <2>2 DEF Line, Hand
  <2>4. Keyed(fewer) /\ OwnTokens(fewer, n)
    BY <1>a, <2>1 DEF Kept, Keyed, OwnTokens
  <2>5. Kept(QueueOverflow(fewer), n) /\ ~QueueOverflow(fewer).open
    BY <2>1, <2>3, <2>4, OverflowKept DEF Kept
  <2> QED BY <1>3, <2>5
<1>4. CASE Active(s, t) /\ (q = fewer \/ q = free)
  <2>1. live \in Seq(Item) /\ (\A i \in DOMAIN live : live[i].kind = "message" /\ live[i].key = NoId)
        /\ ms \in Seq(Msg) /\ Len(ms) = Len(live) /\ (\A i \in DOMAIN live : Spoken[live[i]] = <<ms[i]>>)
        /\ (\A i \in DOMAIN ms : ~IsFrame(ms[i]))
    <3>1. \A e \in Event : /\ LiveItem(e) \in Item /\ LiveItem(e).kind = "message" /\ LiveItem(e).key = NoId
                           /\ Spoken[LiveItem(e)] = <<Live(e)>> /\ Live(e) \in Msg /\ ~IsFrame(Live(e))
      BY LiveItemIs DEF NoId, Spoken, Live, Msg, IsFrame
    <3>2. DOMAIN s.pendingLive = 1..Len(s.pendingLive) /\ Len(s.pendingLive) \in Nat
      BY <1>1
    <3>3. \A i \in 1..Len(s.pendingLive) : s.pendingLive[i] \in Event
      BY <1>1
    <3>4. live \in Seq(Item) /\ Len(live) = Len(s.pendingLive) /\ DOMAIN live = 1..Len(s.pendingLive)
      <4> HIDE DEF Item
      <4> QED BY <3>1, <3>2, <3>3
    <3>5. ms \in Seq(Msg) /\ Len(ms) = Len(s.pendingLive) /\ DOMAIN ms = 1..Len(s.pendingLive)
      <4> HIDE DEF Msg
      <4> QED BY <3>1, <3>2, <3>3
    <3>6. \A i \in 1..Len(s.pendingLive) : live[i] = LiveItem(s.pendingLive[i]) /\ ms[i] = Live(s.pendingLive[i])
      BY <3>2
    <3> HIDE DEF live, ms
    <3> QED BY <3>1, <3>3, <3>4, <3>5, <3>6
  <2> HIDE DEF live, ms, rest, due
  <2>a. FlatMap(Spoken, live) = ms
    BY <2>1, SpokenTurns, FlatMapSingles
  <2>2. /\ \A i \in DOMAIN s.queue : i \in DOMAIN longer /\ longer[i] = s.queue[i]
        /\ \A i \in DOMAIN longer : \/ i \in DOMAIN s.queue /\ longer[i] = s.queue[i]
                                    \/ longer[i].kind = "message" /\ longer[i].key = NoId
    <3>1. PICK x \in Seq(Item), y \in Seq(Item) : x = s.queue /\ y = live
      BY <1>1, <2>1
    <3>2. /\ \A i \in DOMAIN (x \o y) :
              \/ i \in DOMAIN x /\ (x \o y)[i] = x[i]
              \/ \E j \in DOMAIN y : i = Len(x) + j /\ (x \o y)[i] = y[j]
         /\ \A i \in DOMAIN x : i \in DOMAIN (x \o y) /\ (x \o y)[i] = x[i]
      BY ConcatParts
    <3>3. longer = x \o y
      BY <3>1
    <3> HIDE DEF longer
    <3> QED BY <2>1, <3>1, <3>2, <3>3
  <2>3. /\ q.out = s.out /\ q.inflight = s.inflight /\ q.requests = rest
        /\ q.queue = s.queue \/ q.queue = longer
    <3> HIDE DEF longer
    <3> QED BY <1>1, <1>4 DEF SocketType
  <2>4. PICK add \in Seq(Msg) : Line(q) = Line(s) \o add /\ \A i \in DOMAIN add : ~IsFrame(add[i])
    <3>1. CASE q.queue = s.queue
      <4>1. Line(q) = Line(s) /\ Line(s) \in Seq(Msg)
        BY <1>1, <2>3, <3>1, LineOf DEF Line, Hand
      <4>2. PICK L \in Seq(Msg) : L = Line(s)
        BY <4>1
      <4>3. L \o <<>> = L /\ <<>> \in Seq(Msg) /\ DOMAIN <<>> = {}
        BY ConcatEmptySeq
      <4> QED BY <4>1, <4>2, <4>3
    <3>2. CASE q.queue = longer
      BY <1>1, <2>1, <2>3, <2>a, <3>2, LineQueues
    <3> QED BY <2>3, <3>1, <3>2
  <2>5. LineOK(Line(q), n)
    <3>1. Line(s) \in Seq(Msg) /\ LineOK(Line(s), n)
      BY <1>1, LineOf DEF Kept
    <3>2. Hushed(add, n)
      BY <2>4 DEF Hushed
    <3> QED BY <2>4, <3>1, <3>2, LineGoesOn
  <2> HIDE DEF fewer, free, longer
  <2>6. Keyed(q)
    BY <1>a, <2>3 DEF Kept, Keyed
  <2>7. Numbered(q, n)
    BY <2>2, <2>3 DEF Kept, Numbered
  <2>8. ASSUME NEW j \in DOMAIN q.queue, q.queue[j].kind = "message", q.queue[j].key # NoId
        PROVE  HasRequest(q, q.queue[j].key)
    <3>1. j \in DOMAIN s.queue /\ q.queue[j] = s.queue[j]
      BY <2>2, <2>3, <2>8
    <3>2. PICK i \in DOMAIN s.requests : s.requests[i].key = q.queue[j].key
      BY <2>8, <3>1 DEF Kept, Waited, HasRequest
    <3>3. s.requests[i].token # t
      BY <2>8, <3>1, <3>2 DEF Kept, Keyed
    <3> QED BY <1>a, <2>3, <3>2, <3>3 DEF HasRequest
  <2>9. ASSUME NEW j \in DOMAIN q.queue, NEW k \in DOMAIN q.queue, q.queue[j].kind = "barrier",
               q.queue[k].kind = "message", j < k
        PROVE  q.queue[k].key # q.queue[j].token
    <3>1. j \in DOMAIN s.queue /\ q.queue[j] = s.queue[j]
      BY <2>2, <2>3, <2>9
    <3>2. q.queue[j].token \in 1..n /\ q.queue[j].token # NoId
      BY <2>9, <3>1 DEF Kept, Numbered, NoId
    <3> QED BY <2>2, <2>3, <2>9, <3>1, <3>2 DEF Kept, Waited
  <2>10. Waited(q)
    BY <2>8, <2>9 DEF Waited
  <2>11. ASSUME NEW u PROVE Hears(s, q, u)
    <3>1. Silent(add, u)
      BY <2>4 DEF Silent, FrameFor
    <3>2. HasBarrier(q.queue, u) => HasBarrier(s.queue, u)
      BY <2>2, <2>3 DEF HasBarrier
    <3> QED BY <1>1, <2>4, <3>1, <3>2, HearsOn
  <2> QED BY <2>5, <2>6, <2>7, <2>10, <2>11 DEF Kept
<1> HIDE DEF fewer, free
<1>5. q = s \/ (Active(s, t) /\ (q = fewer \/ q = free \/ q = QueueOverflow(fewer)))
  BY <1>1 DEF CompleteRequest, SocketType, fewer, free
<1> QED BY <1>2, <1>3, <1>4, <1>5

-----------------------------------------------------------------------------
(* What a body is going to send is one run, in frames. *)

LEMMA EntriesRun ==
  ASSUME NEW g, NEW from \in Nat, NEW to \in Int
  PROVE  Run(Entries(g, from, to))
<1> DEFINE n == to - from + 1
           es == Entries(g, from, to)
<1>1. n \in Int /\ es = [i \in 1..n |-> [gen |-> g, seq |-> from + i - 1]]
  BY DEF Entries
<1>2. \A i \in 1..n : es[i].seq = from + i - 1
  BY <1>1
<1>3. n \in Nat => Len(es) = n
  BY <1>1
<1>4. n \notin Nat => Len(es) = 0
  <2> SUFFICES ASSUME n \notin Nat PROVE Len(es) = 0
    OBVIOUS
  <2>1. 1..n = {}
    BY <1>1
  <2>2. es = <<>>
    BY <1>1, <2>1
  <2> QED BY <2>2
<1> HIDE DEF es, n
<1>5. Len(es) \in Nat /\ \A i \in 1..(Len(es) - 1) : i \in 1..n /\ i + 1 \in 1..n
  <2>1. CASE n \in Nat
    BY <1>3, <2>1
  <2>2. CASE n \notin Nat
    BY <1>4, <2>2
  <2> QED BY <2>1, <2>2
<1>6. ASSUME NEW i \in 1..(Len(es) - 1) PROVE es[i + 1].seq = es[i].seq + 1
  <2>1. es[i + 1].seq = from + (i + 1) - 1 /\ es[i].seq = from + i - 1 /\ i \in Int
    BY <1>2, <1>5
  <2> QED BY <2>1
<1> QED BY <1>6 DEF Run, es

LEMMA SubSeqOf ==
  ASSUME NEW T, NEW s \in Seq(T), NEW m \in Nat \ {0}, NEW n \in Nat, n <= Len(s)
  PROVE  LET k == SubSeq(s, m, n) IN
         /\ k \in Seq(T) /\ Len(k) = IF m <= n THEN n - m + 1 ELSE 0
         /\ \A i \in 1..Len(k) : k[i] = s[m + i - 1] /\ m + i - 1 \in m..n /\ m + i - 1 \in DOMAIN s
<1> DEFINE k == SubSeq(s, m, n)
<1>1. /\ k \in Seq(T) /\ Len(k) = IF m <= n THEN n - m + 1 ELSE 0
      /\ \A i \in 1..(n - m + 1) : k[i] = s[m + i - 1]
  <2>1. \A i \in m..n : s[i] \in T
    OBVIOUS
  <2> QED BY <2>1, SubSeqProperties
<1> HIDE DEF k
<1>2. \A i \in 1..Len(k) : i \in 1..(n - m + 1) /\ m + i - 1 \in m..n /\ m + i - 1 \in 1..Len(s)
  BY <1>1
<1> QED BY <1>1, <1>2 DEF k

LEMMA SubSeqRun ==
  ASSUME NEW s \in Seq(Event), Run(s), NEW m \in Nat \ {0}, NEW n \in Nat, n <= Len(s)
  PROVE  Run(SubSeq(s, m, n))
<1> DEFINE k == SubSeq(s, m, n)
<1>1. /\ k \in Seq(Event) /\ \A i \in 1..Len(k) : k[i] = s[m + i - 1] /\ m + i - 1 \in m..n
  BY SubSeqOf
<1> HIDE DEF k
<1>2. SUFFICES ASSUME NEW i \in 1..(Len(k) - 1) PROVE k[i + 1].seq = k[i].seq + 1
  BY DEF Run, k
<1>3. i \in 1..Len(k) /\ i + 1 \in 1..Len(k) /\ i \in Nat
  BY <1>1
<1>4. k[i] = s[m + i - 1] /\ k[i + 1] = s[m + (i + 1) - 1] /\ m + (i + 1) - 1 \in m..n
  BY <1>1, <1>3
<1>5. m + i - 1 \in 1..(Len(s) - 1) /\ m + (i + 1) - 1 = (m + i - 1) + 1
  BY <1>3, <1>4
<1>6. s[(m + i - 1) + 1].seq = s[m + i - 1].seq + 1
  BY <1>5 DEF Run
<1> QED BY <1>4, <1>5, <1>6

LEMMA NewestRun ==
  ASSUME NEW s \in Seq(Event), Run(s), NEW n \in Nat
  PROVE  Run(Newest(s, n))
<1>1. Max2(1, Len(s) - n + 1) \in Nat \ {0}
  BY DEF Max2
<1> QED BY <1>1, SubSeqRun DEF Newest

LEMMA BatchesChained ==
  ASSUME NEW es \in Seq(Event), Run(es)
  PROVE  Chained(Batches(es))
<1> DEFINE n == (Len(es) + FrameSize - 1) \div FrameSize
           From(i) == (i - 1) * FrameSize + 1
           To(i) == Min2(i * FrameSize, Len(es))
           At(i) == SubSeq(es, From(i), To(i))
           bs == Batches(es)
<1>1. FrameSize \in Nat \ {0} /\ Len(es) \in Nat
  BY CoordinatorAssumption
<1>2. n \in Nat /\ n * FrameSize <= Len(es) + FrameSize - 1
  BY <1>1
<1>3. bs = [i \in 1..n |-> At(i)]
  BY DEF Batches
<1>4. ASSUME NEW i \in 1..n
      PROVE  /\ From(i) \in Nat \ {0} /\ To(i) \in Nat /\ From(i) <= To(i) /\ To(i) <= Len(es)
             /\ To(i) # Len(es) => To(i) = i * FrameSize
             /\ (i - 1) * FrameSize < Len(es) /\ i * FrameSize \in Nat
  <2>1. PICK x \in Int : x = (i - 1) * FrameSize
    BY <1>1, <1>2
  <2>2. i * FrameSize = x + FrameSize
    BY <1>1, <1>2, <2>1
  <2>3. x >= 0
    BY <1>1, <1>2, <2>1
  <2>4. i * FrameSize <= n * FrameSize
    BY <1>1, <1>2
  <2>5. x < Len(es)
    BY <1>1, <1>2, <2>2, <2>4
  <2> QED BY <1>1, <2>1, <2>2, <2>3, <2>5 DEF Min2
<1> HIDE DEF n
<1>5. ASSUME NEW i \in 1..n
      PROVE  /\ At(i) \in Seq(Event) /\ Len(At(i)) = To(i) - From(i) + 1
             /\ Run(At(i)) /\ \A k \in 1..Len(At(i)) : At(i)[k] = es[From(i) + k - 1]
  <2>1. PICK f \in Nat \ {0}, t \in Nat : f = From(i) /\ t = To(i) /\ f <= t /\ t <= Len(es)
    BY <1>4
  <2> DEFINE k == SubSeq(es, f, t)
  <2>a. f \in Nat \ {0} /\ t \in Nat /\ f <= t /\ t <= Len(es)
    BY <2>1
  <2>2. k \in Seq(Event) /\ \A j \in 1..Len(k) : k[j] = es[f + j - 1]
    BY <2>a, SubSeqOf
  <2>b. Len(k) = t - f + 1
    BY <2>a, SubSeqOf
  <2>3. Run(SubSeq(es, f, t))
    BY <2>1, SubSeqRun
  <2>4. At(i) = k
    BY <2>1
  <2> HIDE DEF At, From, To, k
  <2> QED BY <2>1, <2>2, <2>3, <2>4, <2>b DEF k
<1>6. ASSUME NEW i \in 1..n PROVE At(i) # <<>> /\ At(i)[1] = es[From(i)] /\ At(i)[Len(At(i))] = es[To(i)]
  <2>1. From(i) \in Nat /\ To(i) \in Nat /\ From(i) <= To(i)
    BY <1>4
  <2>2. /\ At(i) \in Seq(Event) /\ Len(At(i)) = To(i) - From(i) + 1
        /\ \A k \in 1..Len(At(i)) : At(i)[k] = es[From(i) + k - 1]
    BY <1>5
  <2> HIDE DEF At, From, To
  <2>3. Len(At(i)) >= 1 /\ 1 \in 1..Len(At(i)) /\ Len(At(i)) \in 1..Len(At(i))
        /\ From(i) + 1 - 1 = From(i) /\ From(i) + Len(At(i)) - 1 = To(i)
    BY <2>1, <2>2
  <2> QED BY <2>2, <2>3
<1>7. ASSUME NEW i \in 1..n, i > 1 PROVE Joins(At(i - 1), At(i))
  <2>1. i - 1 \in 1..n /\ (i - 1) - 1 \in Int
    BY <1>2, <1>7 DEF n
  <2>2. To(i - 1) = (i - 1) * FrameSize
    <3>1. (i - 1) * FrameSize < Len(es)
      BY <1>4
    <3> QED BY <1>1, <2>1, <3>1 DEF Min2
  <2>3. From(i) = To(i - 1) + 1 /\ To(i - 1) \in 1..(Len(es) - 1)
    <3>1. (i - 1) * FrameSize < Len(es)
      BY <1>4
    <3>2. To(i - 1) \in Nat /\ From(i - 1) \in Nat \ {0} /\ From(i - 1) <= To(i - 1)
      BY <1>4, <2>1
    <3>3. From(i) = To(i - 1) + 1
      BY <2>2
    <3> HIDE DEF From, To
    <3> QED BY <1>1, <2>2, <3>1, <3>2, <3>3
  <2>4. es[To(i - 1) + 1].seq = es[To(i - 1)].seq + 1
    BY <2>3 DEF Run
  <2>5. At(i - 1)[Len(At(i - 1))] = es[To(i - 1)] /\ At(i)[1] = es[From(i)]
    BY <1>6, <2>1
  <2> HIDE DEF At, From, To
  <2> QED BY <2>3, <2>4, <2>5 DEF Joins
<1> HIDE DEF At, From, To
<1>8. DOMAIN bs = 1..n /\ \A i \in 1..n : bs[i] = At(i)
  BY <1>3
<1>9. \A i \in 1..n : i > 1 => i - 1 \in 1..n
  BY <1>2 DEF n
<1> HIDE DEF bs
<1> QED BY <1>5, <1>6, <1>7, <1>8, <1>9 DEF Chained, bs

\* Some frames of a chain, from one to another.
LEMMA SubSeqChained ==
  ASSUME NEW bs \in Seq(Seq(Event)), Chained(bs), NEW m \in Nat \ {0}, NEW n \in Nat, n <= Len(bs)
  PROVE  Chained(SubSeq(bs, m, n))
<1> DEFINE k == SubSeq(bs, m, n)
<1>1. /\ k \in Seq(Seq(Event))
      /\ \A i \in 1..Len(k) : k[i] = bs[m + i - 1] /\ m + i - 1 \in m..n /\ m + i - 1 \in DOMAIN bs
  BY SubSeqOf
<1> HIDE DEF k
<1>2. DOMAIN k = 1..Len(k)
  BY <1>1
<1>3. ASSUME NEW i \in 1..Len(k), i > 1 PROVE Joins(k[i - 1], k[i])
  <2>1. i - 1 \in 1..Len(k) /\ m + (i - 1) - 1 = (m + i - 1) - 1 /\ m + i - 1 > 1
    BY <1>3
  <2>2. k[i - 1] = bs[(m + i - 1) - 1] /\ k[i] = bs[m + i - 1] /\ m + i - 1 \in DOMAIN bs
    BY <1>1, <2>1
  <2> QED BY <2>1, <2>2 DEF Chained
<1> QED BY <1>1, <1>2, <1>3 DEF Chained, k

LEMMA NewestChained ==
  ASSUME NEW bs \in Seq(Seq(Event)), Chained(bs), NEW n \in Nat
  PROVE  Chained(Newest(bs, n))
<1>1. Max2(1, Len(bs) - n + 1) \in Nat \ {0}
  BY DEF Max2
<1> QED BY <1>1, SubSeqChained DEF Newest

LEMMA SelectedRun ==
  ASSUME NEW b \in Body, b.raw \in Raw
  PROVE  Run(Selected(b))
<1>1. /\ b.raw.gen \in Gens /\ b.raw.lo \in Nat /\ b.raw.hi \in Nat /\ b.at \in Nat /\ b.file \in Nat
  BY DEF Body, Raw
<1>2. /\ Min2(b.at - 1, b.file) \in Int /\ Min2(b.at - 1, b.raw.hi) \in Int
      /\ Max2(b.raw.lo, b.at + 1) \in Nat
  BY <1>1 DEF Min2, Max2
<1>3. \A from \in Nat, to \in Int : Run(Entries(b.raw.gen, from, to))
  BY EntriesRun
<1>4. 1 \in Nat /\ b.raw.hi \in Int
  BY <1>1
<1>5. Run(Entries(b.raw.gen, 1, Min2(b.at - 1, b.file)))
  BY <1>2, <1>3, <1>4, Zenon
<1>6. Run(Entries(b.raw.gen, b.raw.lo, Min2(b.at - 1, b.raw.hi)))
  BY <1>1, <1>2, <1>3, Zenon
<1>7. Run(Entries(b.raw.gen, Max2(b.raw.lo, b.at + 1), b.raw.hi))
  BY <1>2, <1>3, <1>4, Zenon
<1>8. Run(Entries(b.raw.gen, b.raw.lo, b.raw.hi))
  BY <1>1, <1>3, <1>4, Zenon
<1> QED BY <1>5, <1>6, <1>7, <1>8 DEF Selected

-----------------------------------------------------------------------------
(* The actions. *)

\* What bodies say in q, or said and say still.
Heard(q, bs) ==
  \A t \in DOMAIN bs :
    Says(q, t, bs[t]) \/ (t \in DOMAIN bodies /\ bs[t] = bodies[t] /\ Hears(sock, q, t))

LEMMA BecomeDense ==
  ASSUME DenseInv, NEW q, NEW bs, NEW tl, Become(q, bs, tl), token' = token,
         Kept(q, token), q.open => Heard(q, bs)
  PROVE  DenseInv'
<1>1. sock' = q /\ bodies' = IF q.open THEN bs ELSE Empty
  BY DEF Become
<1>2. q.open => \A t \in DOMAIN bs : Says(q, t, bs[t])
  BY DEF DenseInv, Heard, Hears
<1>3. DOMAIN Empty = {}
  BY DEF Empty
<1>4. \A t \in DOMAIN bodies' : Says(q, t, bodies'[t])
  BY <1>1, <1>2, <1>3
<1>5. Kept(sock', token')
  BY <1>1
<1> HIDE DEF Kept, Says
<1> QED BY <1>1, <1>4, <1>5, DensePrimed

LEMMA StayHeard == Heard(sock, bodies) /\ \A t : Heard(sock, DropBody(bodies, t))
BY DropBodyIs DEF Heard, Hears

LEMMA DropDense ==
  ASSUME DenseInv, NEW t, NEW tl, Become(sock, DropBody(bodies, t), tl), token' = token
  PROVE  DenseInv'
BY StayHeard, BecomeDense DEF DenseInv

\* One body goes on, and the others hear what they heard.
LEMMA OneHeard ==
  ASSUME NEW q, NEW t \in DOMAIN bodies, NEW c, Says(q, t, c), \A u \in DOMAIN bodies \ {t} : Hears(sock, q, u)
  PROVE  Heard(q, [bodies EXCEPT ![t] = c])
BY DEF Heard

LEMMA DropHeard ==
  ASSUME NEW q, NEW t, \A u \in DOMAIN bodies \ {t} : Hears(sock, q, u)
  PROVE  Heard(q, DropBody(bodies, t))
BY DropBodyIs DEF Heard

\* A socket with the same messages and the same requests, whatever their kinds.
LEMMA SameKept ==
  ASSUME NEW s, NEW q, NEW n, Kept(s, n),
         q.out = s.out, q.inflight = s.inflight, q.queue = s.queue,
         DOMAIN q.requests = DOMAIN s.requests,
         \A i \in DOMAIN s.requests : /\ q.requests[i].token = s.requests[i].token
                                      /\ q.requests[i].key = s.requests[i].key
  PROVE  Kept(q, n) /\ \A u : Hears(s, q, u)
<1>1. Line(q) = Line(s)
  BY DEF Line, Hand
<1>2. Keyed(q) /\ Numbered(q, n)
  BY DEF Kept, Keyed, Numbered
<1>3. \A key : HasRequest(s, key) => HasRequest(q, key)
  BY DEF HasRequest
<1>4. Waited(q)
  BY <1>3 DEF Kept, Waited
<1> QED BY <1>1, <1>2, <1>4, HearsSame DEF Kept

LEMMA AdmitDense ==
  ASSUME IInv, DenseInv, NEW t \in DOMAIN bodies, Admit(t)
  PROVE  DenseInv'
<1>1. CASE Valid(t)
  <2> DEFINE mismatch   == bodies[t].known # None /\ bodies[t].known # gen
             outOfRange == /\ bodies[t].kind = "delta" /\ HasEvents
                           /\ (bodies[t].at < lo - 1 \/ bodies[t].at > hi)
             cold       == mismatch \/ outOfRange
             asCold     == [i \in DOMAIN sock.requests |->
                              IF cold /\ sock.requests[i].token = t
                              THEN [sock.requests[i] EXCEPT !.kind = "cold"] ELSE sock.requests[i]]
             sup == sock.suppressed \/ cold
             kind == IF cold THEN "cold" ELSE bodies[t].kind
             c == [bodies[t] EXCEPT !.phase = "waiting", !.reset = cold, !.kind = kind]
             q == [sock EXCEPT !.requests = asCold, !.suppressed = sup]
  <2>1. Become([sock EXCEPT !.requests = asCold, !.suppressed = @ \/ cold],
               [bodies EXCEPT ![t].phase = "waiting", ![t].reset = cold,
                              ![t].kind = IF cold THEN "cold" ELSE @],
               Append(tail, t)) /\ token' = token
    BY <1>1 DEF Admit
  <2>2. /\ sock \in SocketType /\ sock.open
        /\ \A i \in DOMAIN sock.requests : sock.requests[i] \in Req
    <3>1. sock \in SocketType /\ sock.requests \in Seq(Req)
      BY SockTyped DEF SocketType
    <3> QED BY <1>1, <3>1 DEF Valid
  <2>3. bodies[t] \in Body /\ bodies[t].phase = "hydrated"
    BY BodyOf DEF Admit, InPhase
  <2>4. DOMAIN asCold = DOMAIN sock.requests
        /\ \A i \in DOMAIN sock.requests : /\ asCold[i].token = sock.requests[i].token
                                           /\ asCold[i].key = sock.requests[i].key
    <3> HIDE DEF cold
    <3> QED BY <2>2 DEF Req
  <2> HIDE DEF cold, asCold
  <2>5. [sock EXCEPT !.requests = asCold, !.suppressed = @ \/ cold] = q
    BY <2>2 DEF SocketType
  <2>6. [bodies EXCEPT ![t].phase = "waiting", ![t].reset = cold,
                              ![t].kind = IF cold THEN "cold" ELSE @] = [bodies EXCEPT ![t] = c]
    BY <2>3 DEF Body
  <2>7. c.phase = "waiting" /\ c.ended = bodies[t].ended
    BY <2>3 DEF Body
  <2>8. /\ q.out = sock.out /\ q.inflight = sock.inflight /\ q.queue = sock.queue
        /\ q.requests = asCold
    BY <2>2 DEF SocketType
  <2> HIDE DEF q, c, kind, sup
  <2>9. Kept(q, token) /\ \A u : Hears(sock, q, u)
    <3>1. Kept(sock, token)
      BY DEF DenseInv
    <3> QED BY <2>4, <2>8, <3>1, SameKept
  <2>10. Says(q, t, c)
    <3>1. Says(sock, t, bodies[t])
      BY DEF DenseInv
    <3>2. Says(q, t, bodies[t])
      BY <2>9, <3>1 DEF Hears
    <3> QED BY <2>3, <2>7, <3>2 DEF Says, Early
  <2>11. Heard(q, [bodies EXCEPT ![t] = c])
    BY <2>9, <2>10, OneHeard
  <2> QED BY <2>1, <2>5, <2>6, <2>9, <2>11, BecomeDense
<1>2. CASE ~Valid(t)
  BY <1>2, DropDense DEF Admit
<1> QED BY <1>1, <1>2

LEMMA TakeSnapshotDense ==
  ASSUME IInv, DenseInv, NEW t \in DOMAIN bodies, TakeSnapshot(t)
  PROVE  DenseInv'
<1>1. CASE Valid(t)
  <2>1. PICK raw, phase, file :
          /\ phase \in {"paging", "loaded"} /\ token' = token
          /\ Become(sock, [bodies EXCEPT ![t].raw = raw, ![t].phase = phase, ![t].file = file], tail)
    <3> DEFINE paging == HasEvents /\ lo > 1 /\ HasFile
                /\ (bodies[t].kind = "older" \/ (bodies[t].kind = "cold" /\ bodies[t].tailMode))
               cached == persisted # None /\ persisted.gen = gen
               ph == IF paging /\ ~cached THEN "paging" ELSE "loaded"
               f == IF paging /\ cached THEN persisted.n ELSE 0
    <3>1. /\ Become(sock, [bodies EXCEPT
                     ![t].raw = [gen |-> gen, lo |-> lo, hi |-> hi],
                     ![t].phase = ph, ![t].file = f], tail)
          /\ token' = token
      BY <1>1 DEF TakeSnapshot
    <3>2. ph \in {"paging", "loaded"}
      OBVIOUS
    <3> HIDE DEF ph, f
    <3> QED BY <3>1, <3>2
  <2> DEFINE c == [bodies[t] EXCEPT !.raw = raw, !.phase = phase, !.file = file]
  <2>2. bodies[t] \in Body /\ bodies[t].phase = "waiting"
    BY BodyOf DEF TakeSnapshot, Delivering, InPhase
  <2>3. [bodies EXCEPT ![t].raw = raw, ![t].phase = phase, ![t].file = file] = [bodies EXCEPT ![t] = c]
    BY <2>2 DEF Body
  <2>4. c.phase \in {"paging", "loaded"} /\ c.ended = bodies[t].ended
    BY <2>1, <2>2 DEF Body
  <2> HIDE DEF c
  <2>5. Says(sock, t, c) /\ Kept(sock, token)
    <3>1. Says(sock, t, bodies[t]) /\ Kept(sock, token)
      BY DEF DenseInv
    <3> QED BY <2>2, <2>4, <3>1 DEF Says, Early
  <2>6. Heard(sock, [bodies EXCEPT ![t] = c])
    <3>1. \A u : Hears(sock, sock, u)
      BY DEF Hears
    <3> QED BY <2>5, <3>1, OneHeard
  <2> QED BY <2>1, <2>3, <2>5, <2>6, BecomeDense
<1>2. CASE ~Valid(t)
  BY <1>2, DropDense DEF TakeSnapshot
<1> QED BY <1>1, <1>2

\* A body plans from a snapshot that is the store as it is: nothing has come
\* since, and what is selected is one run.
LEMMA PlanDense ==
  ASSUME IInv, OnceInv, DenseInv, NEW t \in DOMAIN bodies, Plan(t)
  PROVE  DenseInv'
<1> DEFINE b == bodies[t]
           found   == Selected(b)
           chosen  == IF b.kind = "delta" \/ (b.kind = "cold" /\ ~b.tailMode) THEN found
                      ELSE Newest(found, WindowFrames * FrameSize)
           newer   == Entries(gen, Max2(lo, (IF b.raw.lo <= b.raw.hi THEN b.raw.hi ELSE 0) + 1), hi)
           catchup == IF b.kind = "older" THEN <<>> ELSE newer
           batches == Batches(chosen \o catchup)
           kept    == IF b.kind = "delta" THEN SubSeq(batches, 1, Min2(WindowFrames, Len(batches)))
                                          ELSE Newest(batches, WindowFrames)
           more    == \/ Len(chosen) < Len(found)
                      \/ b.kind # "delta" /\ Len(kept) < Len(batches)
                      \/ b.kind = "cold" /\ b.file > 0
           held    == Held(b)
           left    == Max2(0, sock.queued - (Len(sock.pendingLive) - Len(held)))
           s == [sock EXCEPT !.pendingLive = held, !.queued = left]
           c == [b EXCEPT !.phase = "sending", !.batches = kept, !.more = more]
<1>1. CASE ~Valid(t)
  BY <1>1, DropDense DEF Plan
<1>2. CASE Valid(t)
  <2>1. /\ gen \in Gens /\ lo \in Nat /\ hi \in Nat /\ lo \in 1..(hi + 1) /\ sock \in SocketType /\ token' = token
    BY SockTyped DEF IInv, StoreInv, Plan
  <2>2. /\ b \in Body /\ b.phase = "loaded" /\ b.raw = [gen |-> gen, lo |-> lo, hi |-> hi] /\ b.file = 0
        /\ b.raw \in Raw
    BY BodyOf DEF Plan, Delivering, InPhase, OnceInv, SnapOK, BodyOK
  <2>3. b.raw.lo = lo /\ b.raw.hi = hi
    BY <2>2
  <2>4. found \in Seq(Event) /\ Run(found)
    BY <2>2, SelectedTyped, SelectedRun
  <2>5. catchup = <<>>
    <3> DEFINE from == Max2(lo, (IF b.raw.lo <= b.raw.hi THEN b.raw.hi ELSE 0) + 1)
    <3>1. from \in Nat /\ from > hi
      BY <2>1, <2>3 DEF Max2
    <3> HIDE DEF from
    <3>2. 1..(hi - from + 1) = {}
      BY <2>1, <3>1
    <3>3. Entries(gen, from, hi) = <<>>
      BY <3>2 DEF Entries
    <3> QED BY <3>3 DEF from
  <2>7. WindowFrames \in Nat /\ FrameSize \in Nat /\ WindowFrames * FrameSize \in Nat
    BY CoordinatorAssumption
  <2> HIDE DEF found, newer
  <2>8. chosen \in Seq(Event) /\ Run(chosen)
    BY <2>4, <2>7, NewestTyped, NewestRun
  <2> HIDE DEF chosen, catchup
  <2>9. chosen \o catchup = chosen
    BY <2>5, <2>8, ConcatEmptySeq
  <2>10. batches \in Seq(Seq(Event)) /\ Chained(batches)
    BY <2>8, <2>9, BatchesTyped, BatchesChained
  <2> HIDE DEF batches
  <2>11. Chained(kept)
    <3>1. Chained(Newest(batches, WindowFrames))
      BY <2>7, <2>10, NewestChained
    <3>2. Min2(WindowFrames, Len(batches)) \in Nat /\ Min2(WindowFrames, Len(batches)) <= Len(batches)
      BY <2>7, <2>10 DEF Min2
    <3>3. Chained(SubSeq(batches, 1, Min2(WindowFrames, Len(batches))))
      BY <2>10, <3>2, SubSeqChained
    <3> QED BY <3>1, <3>3
  <2>12. Become(s, [bodies EXCEPT ![t] = c], tail)
    <3>1. Become([sock EXCEPT !.pendingLive = held,
                              !.queued = Max2(0, @ - (Len(sock.pendingLive) - Len(Held(b))))],
                 [bodies EXCEPT ![t].phase = "sending", ![t].batches = kept, ![t].more = more], tail)
      BY <1>2 DEF Plan, batches, chosen, catchup, found, newer
    <3> HIDE DEF kept, more
    <3>2. [bodies EXCEPT ![t].phase = "sending", ![t].batches = kept, ![t].more = more]
            = [bodies EXCEPT ![t] = c]
      BY <2>2 DEF Body
    <3> HIDE DEF held
    <3>3. [sock EXCEPT !.pendingLive = held,
                       !.queued = Max2(0, @ - (Len(sock.pendingLive) - Len(Held(b))))] = s
      BY <2>1 DEF SocketType, held
    <3> QED BY <3>1, <3>2, <3>3
  <2> HIDE DEF kept, more, left, held
  <2>14. c.phase = "sending" /\ c.batches = kept /\ c.ended = b.ended
    BY <2>2 DEF Body
  <2>15. /\ s.out = sock.out /\ s.inflight = sock.inflight /\ s.queue = sock.queue
         /\ s.requests = sock.requests
    BY <2>1 DEF SocketType
  <2> HIDE DEF c, s
  <2>16. Kept(s, token) /\ \A u : Hears(sock, s, u)
    <3>1. Kept(sock, token)
      BY DEF DenseInv
    <3> QED BY <2>15, <3>1, SameKept
  <2>17. Silent(Line(sock), t) /\ ~b.ended
    <3>1. Says(sock, t, b)
      BY DEF DenseInv
    <3> QED BY <2>2, <3>1 DEF Says, Early
  <2>18. Says(s, t, c)
    <3>1. Line(s) = Line(sock) /\ Line(sock) \in Seq(Msg)
      BY <2>1, <2>15, LineOf DEF Line, Hand
    <3>2. Untold(Line(s), t)
      BY <2>17, <3>1 DEF Silent, Untold, Concludes, FrameFor
    <3>3. EventsOf(Line(s), t) = <<>>
      <4>1. PICK L \in Seq(Msg) : L = Line(sock)
        BY <3>1
      <4>2. \A i \in DOMAIN L : FrameFor(L[i], t) => L[i].events = <<>>
        BY <2>17, <4>1 DEF Silent
      <4> QED BY <3>1, <4>1, <4>2, NoEvents
    <3>4. Sends(Line(s), t, c)
      BY <2>11, <2>14, <2>17, <3>2, <3>3 DEF Sends, Joins
    <3> QED BY <2>14, <3>4 DEF Says, Early
  <2>19. Heard(s, [bodies EXCEPT ![t] = c])
    BY <2>16, <2>18, OneHeard
  <2> QED BY <2>1, <2>12, <2>16, <2>19, BecomeDense
<1> QED BY <1>1, <1>2

\* A valid body's request: its key is its number.
LEMMA RequestOwned ==
  ASSUME IInv, DenseInv, NEW t, Valid(t)
  PROVE  LET r == RequestOf(sock, t) IN
         /\ r \in Req /\ r.token = t /\ r.key = t /\ IdOf(r.key) = t /\ t \in 1..token
         /\ HasRequest(sock, t) /\ token \in Nat
         /\ sock.open /\ sock \in SocketType /\ SocketOK(sock, token) /\ OwnTokens(sock, token)
         /\ Kept(sock, token) /\ gen \in Gens
<1> DEFINE r == RequestOf(sock, t)
<1>1. r \in Req /\ r.token = t /\ sock.open /\ \E i \in DOMAIN sock.requests : r = sock.requests[i]
  BY RequestActive
<1>2. PICK i \in DOMAIN sock.requests : r = sock.requests[i]
  BY <1>1
<1> HIDE DEF r
<1>3. Kept(sock, token)
  BY DEF DenseInv
<1>4. SocketOK(sock, token) /\ OwnTokens(sock, token)
  BY DEF IInv, SocketInv, SocketOK
<1>5. r.key = r.token /\ r.token >= 1 /\ r.token <= token /\ r.token \in Nat /\ token \in Nat
  BY <1>1, <1>2, <1>3, <1>4, SockTyped DEF Kept, Keyed, IInv, SocketInv, SocketOK, OwnTokens, Req
<1>6. IdOf(r.key) = t
  BY <1>1, <1>5 DEF IdOf
<1>7. HasRequest(sock, t)
  BY <1>1, <1>2, <1>5 DEF HasRequest
<1> QED BY <1>1, <1>3, <1>4, <1>5, <1>6, <1>7, SockTyped DEF r

\* What is queued for another is not heard.
LEMMA QueuedHears ==
  ASSUME NEW s \in SocketType, NEW item \in Item, NEW q, Line(q) = Line(s) \o Spoken[item],
         q.queue = Append(s.queue, item), NEW u,
         item.kind = "message" => ~FrameFor(item.msg, u), item.kind = "barrier" => item.token # u
  PROVE  Hears(s, q, u)
<1>1. PICK ms : ms = Spoken[item] /\ ms \in Seq(Msg)
  BY SpokenTurns DEF Turns
<1>2. Silent(ms, u)
  BY <1>1 DEF Spoken, Silent
<1>3. HasBarrier(q.queue, u) => HasBarrier(s.queue, u)
  <2>1. s.queue \in Seq(Item)
    BY DEF SocketType
  <2>2. /\ DOMAIN s.queue = 1..Len(s.queue) /\ Len(s.queue) \in Nat
        /\ DOMAIN Append(s.queue, item) = 1..(Len(s.queue) + 1)
        /\ \A i \in 1..Len(s.queue) : Append(s.queue, item)[i] = s.queue[i]
        /\ Append(s.queue, item)[Len(s.queue) + 1] = item
    BY <2>1, AppendProperties, LenProperties
  <2> DEFINE longer == Append(s.queue, item)
  <2> HIDE DEF longer
  <2>3. q.queue = longer
    BY DEF longer
  <2>4. \A i \in DOMAIN longer : (i \in DOMAIN s.queue /\ longer[i] = s.queue[i]) \/ longer[i] = item
    BY <2>2 DEF longer
  <2> QED BY <2>3, <2>4 DEF HasBarrier
<1> QED BY <1>1, <1>2, <1>3, HearsOn

\* The failed terminal and its barrier, from a body that has said nothing.
LEMMA AdmitUnavailableDense ==
  ASSUME IInv, DenseInv, NEW t \in DOMAIN bodies, AdmitUnavailable(t)
  PROVE  DenseInv'
<1> DEFINE r == RequestOf(sock, t)
           msg == FailedTerminal(r)
           item == Message(msg, r.key)
           s == Enqueue(sock, item)
           q == Enqueue(s, Barrier(r))
<1>1. CASE ~Valid(t)
  BY <1>1, DropDense DEF AdmitUnavailable
<1>2. CASE Valid(t)
  <2>1. /\ r \in Req /\ r.token = t /\ r.key = t /\ IdOf(r.key) = t /\ t \in 1..token
        /\ HasRequest(sock, t) /\ token \in Nat
        /\ sock.open /\ sock \in SocketType /\ SocketOK(sock, token) /\ OwnTokens(sock, token)
        /\ Kept(sock, token) /\ gen \in Gens
    BY <1>2, RequestOwned
  <2>2. /\ item \in Item /\ item.kind = "message" /\ item.key = t /\ item.msg = msg /\ msg \in Msg
        /\ FrameFor(msg, t) /\ msg.id = t /\ msg.error /\ msg.events = <<>>
    <3>1. msg \in Msg /\ r.key \in Int
      BY <2>1, TerminalIsMsg DEF Req
    <3>2. FrameFor(msg, t) /\ msg.id = t /\ msg.error /\ msg.events = <<>>
      BY <2>1 DEF FailedTerminal, Frame, FrameFor, IsFrame
    <3> HIDE DEF r, msg
    <3>3. item \in MessageItem
      BY <3>1, MessageIs
    <3> QED BY <2>1, <3>1, <3>2, <3>3 DEF Item, MessageItem, Message
  <2>3. Barrier(r) \in Item /\ Barrier(r).token = t /\ Barrier(r).kind = "barrier"
    BY <2>1, BarrierIs DEF Barrier
  <2>4. /\ token' = token
        /\ \/ Become(s, [bodies EXCEPT ![t].phase = "failing"], tail)
           \/ Become(IF s.open THEN q ELSE s, DropBody(bodies, t), tail)
    BY <1>2 DEF AdmitUnavailable
  <2>5. ~HasBarrier(sock.queue, t)
    <3>1. bodies[t].phase \in Early /\ Says(sock, t, bodies[t])
      BY DEF AdmitUnavailable, InPhase, Early, DenseInv
    <3> QED BY <3>1 DEF Says
  <2> HIDE DEF item, r, msg
  <2>6. SocketOK(s, token) /\ s \in SocketType
    BY <2>1, <2>2, EnqueueOK DEF SocketOK
  <2>7. Spoken[item] = <<msg>>
    BY <2>2 DEF Spoken
  <2>8. LineOK(Line(sock) \o Spoken[item], token)
    <3>0. <<msg>> \in Seq(Msg)
      BY <2>2
    <3>1. PICK ms \in Seq(Msg) : ms = <<msg>>
      BY <3>0
    <3>2. Hushed(ms, token)
      BY <2>1, <2>2, <3>1 DEF Hushed
    <3>3. Line(sock) \in Seq(Msg) /\ LineOK(Line(sock), token)
      BY <2>1, LineOf DEF Kept
    <3> QED BY <2>7, <3>1, <3>2, <3>3, LineGoesOn
  <2>9. /\ Kept(s, token)
        /\ s.open => /\ Line(s) = Line(sock) \o Spoken[item] /\ s.requests = sock.requests
                     /\ s.queue = Append(sock.queue, item)
    <3> HIDE DEF s
    <3>1. \A w : w = Enqueue(sock, item) =>
            /\ Kept(w, token)
            /\ w.open => /\ Line(w) = Line(sock) \o Spoken[item] /\ w.requests = sock.requests
                         /\ w.queue = Append(sock.queue, item)
      BY <2>1, <2>2, <2>5, <2>8, EnqueueKept
    <3> QED BY <3>1 DEF s
  <2> HIDE DEF s
  <2>10. s.open => \A u \in DOMAIN bodies \ {t} : Hears(sock, s, u)
    BY <2>1, <2>2, <2>9, QueuedHears DEF FrameFor
  <2>11. CASE Become(s, [bodies EXCEPT ![t].phase = "failing"], tail)
    <3> DEFINE c == [bodies[t] EXCEPT !.phase = "failing"]
    <3>1. [bodies EXCEPT ![t].phase = "failing"] = [bodies EXCEPT ![t] = c] /\ c.phase = "failing"
      BY BodyOf DEF Body
    <3> HIDE DEF c
    <3>2. Says(s, t, c)
      BY <3>1 DEF Says, Early
    <3>3. s.open => Heard(s, [bodies EXCEPT ![t] = c])
      BY <2>10, <3>2, OneHeard
    <3> QED BY <2>4, <2>9, <2>11, <3>1, <3>3, BecomeDense
  <2>12. CASE Become(IF s.open THEN q ELSE s, DropBody(bodies, t), tail)
    <3>1. CASE ~s.open
      BY <2>4, <2>9, <2>12, <3>1, BecomeDense
    <3>2. CASE s.open
      <4>0. Spoken[Barrier(r)] = <<>> /\ Line(s) \in Seq(Msg)
        BY <2>3, <2>6, LineOf DEF Spoken
      <4>1. LineOK(Line(s) \o Spoken[Barrier(r)], token)
        <5>1. PICK L \in Seq(Msg) : L = Line(s)
          BY <4>0
        <5>2. L \o <<>> = L
          BY ConcatEmptySeq
        <5> QED BY <2>9, <4>0, <5>1, <5>2 DEF Kept
      <4>2. OwnTokens(s, token)
        BY <2>6 DEF SocketOK
      <4>3. /\ Kept(q, token)
            /\ q.open => /\ Line(q) = Line(s) \o Spoken[Barrier(r)] /\ q.queue = Append(s.queue, Barrier(r))
        <5> DEFINE bar == Barrier(r)
        <5> HIDE DEF bar
        <5>1. bar \in Item /\ bar.kind = "barrier" /\ bar.token \in 1..token /\ LineOK(Line(s) \o Spoken[bar], token)
          BY <2>1, <2>3, <4>1 DEF bar
        <5>2. \A w : w = Enqueue(s, bar) =>
                /\ Kept(w, token)
                /\ w.open => Line(w) = Line(s) \o Spoken[bar] /\ w.queue = Append(s.queue, bar)
          BY <2>1, <2>6, <2>9, <4>2, <5>1, EnqueueKept
        <5> QED BY <5>2 DEF bar
      <4>4. ASSUME q.open, NEW u \in DOMAIN bodies \ {t} PROVE Hears(sock, q, u)
        <5>1. Hears(s, q, u)
          BY <2>3, <2>6, <4>3, <4>4, QueuedHears
        <5>2. Hears(sock, s, u)
          BY <2>10, <3>2
        <5> QED BY <5>1, <5>2 DEF Hears
      <4>5. Become(q, DropBody(bodies, t), tail)
        BY <2>12, <3>2
      <4> HIDE DEF q
      <4>6. q.open => Heard(q, DropBody(bodies, t))
        BY <4>4, DropHeard
      <4> QED BY <2>4, <4>3, <4>5, <4>6, BecomeDense
    <3> QED BY <3>1, <3>2
  <2> QED BY <2>4, <2>11, <2>12
<1> QED BY <1>1, <1>2

LEMMA JoinsConcat ==
  ASSUME NEW es \in Seq(Event), NEW fs \in Seq(Event), fs # <<>>, NEW gs, Joins(fs, gs)
  PROVE  Joins(es \o fs, gs)
<1> DEFINE k == es \o fs
<1>1. /\ Len(k) = Len(es) + Len(fs) /\ Len(es) \in Nat /\ Len(fs) \in Nat
      /\ \A j \in DOMAIN fs : k[Len(es) + j] = fs[j]
  BY ConcatParts, ConcatProperties
<1>2. Len(fs) \in DOMAIN fs
  OBVIOUS
<1>3. k[Len(k)] = fs[Len(fs)]
  BY <1>1, <1>2
<1> HIDE DEF k
<1>4. gs # <<>> => gs[1].seq = k[Len(k)].seq + 1
  BY <1>3 DEF Joins
<1> QED BY <1>4 DEF Joins, k

\* The first frame of a chain, and the rest of it.
LEMMA TailChained ==
  ASSUME NEW bs \in Seq(Seq(Event)), bs # <<>>, Chained(bs)
  PROVE  /\ Head(bs) \in Seq(Event) /\ Head(bs) # <<>> /\ Run(Head(bs)) /\ Head(bs) = bs[1]
         /\ Tail(bs) \in Seq(Seq(Event)) /\ Chained(Tail(bs))
         /\ Tail(bs) # <<>> => Joins(Head(bs), Tail(bs)[1])
<1> DEFINE k == Tail(bs)
<1>1. /\ k \in Seq(Seq(Event)) /\ Len(k) = Len(bs) - 1 /\ Len(bs) \in Nat /\ Len(k) \in Nat
      /\ \A i \in 1..Len(k) : k[i] = bs[i + 1]
  BY HeadTailProperties, LenProperties
<1>2. Head(bs) = bs[1] /\ 1 \in DOMAIN bs /\ DOMAIN bs = 1..Len(bs)
  OBVIOUS
<1>3. Head(bs) \in Seq(Event)
  BY <1>2
<1>4. DOMAIN k = 1..Len(k) /\ (k # <<>> => 1 \in 1..Len(k))
  BY <1>1
<1> HIDE DEF k
<1>5. ASSUME NEW i \in 1..Len(k)
      PROVE  k[i] = bs[i + 1] /\ i + 1 \in DOMAIN bs /\ i \in Nat /\ Joins(bs[i], bs[i + 1])
  <2>1. i + 1 \in DOMAIN bs /\ i \in Nat /\ i + 1 > 1 /\ (i + 1) - 1 = i
    BY <1>1, <1>2
  <2>2. Joins(bs[(i + 1) - 1], bs[i + 1])
    BY <2>1 DEF Chained
  <2> QED BY <1>1, <2>1, <2>2
<1>6. ASSUME NEW i \in 1..Len(k)
      PROVE  k[i] # <<>> /\ Run(k[i]) /\ (i > 1 => Joins(k[i - 1], k[i]))
  <2>1. k[i] # <<>> /\ Run(k[i])
    BY <1>5 DEF Chained
  <2>2. i > 1 => i - 1 \in 1..Len(k) /\ (i - 1) + 1 = i
    BY <1>1
  <2> QED BY <1>5, <2>1, <2>2
<1>7. Chained(k)
  BY <1>4, <1>6 DEF Chained
<1>8. k # <<>> => Joins(bs[1], k[1])
  BY <1>4, <1>5
<1>9. Head(bs) # <<>> /\ Run(Head(bs))
  BY <1>2 DEF Chained
<1> QED BY <1>1, <1>2, <1>3, <1>7, <1>8, <1>9 DEF k

\* A frame that is no terminal leaves its request untold.
LEMMA UntoldStill ==
  ASSUME NEW L \in Seq(Msg), NEW m \in Msg, NEW id, Untold(L, id), ~Concludes(m, id)
  PROVE  Untold(L \o <<m>>, id)
<1>a. <<m>> \in Seq(Msg)
  OBVIOUS
<1>0. PICK ms \in Seq(Msg) : ms = <<m>>
  BY <1>a
<1> DEFINE K == L \o ms
<1>1. \A i \in DOMAIN K : \/ i \in DOMAIN L /\ K[i] = L[i]
                          \/ \E j \in DOMAIN ms : i = Len(L) + j /\ K[i] = ms[j]
  BY ConcatParts
<1>2. \A j \in DOMAIN ms : ms[j] = m
  BY <1>0
<1> HIDE DEF K
<1>3. Untold(K, id)
  BY <1>1, <1>2 DEF Untold
<1> QED BY <1>0, <1>3 DEF K

LEMMA SendNextDense ==
  ASSUME IInv, DenseInv, NEW t \in DOMAIN bodies, SendNext(t)
  PROVE  DenseInv'
<1> DEFINE b == bodies[t]
           r == RequestOf(sock, t)
           L == Line(sock)
<1>1. CASE ~Valid(t)
  BY <1>1, DropDense DEF SendNext
<1>2. CASE Valid(t)
  <2>1. /\ r \in Req /\ r.token = t /\ r.key = t /\ IdOf(r.key) = t /\ t \in 1..token
        /\ HasRequest(sock, t) /\ token \in Nat
        /\ sock.open /\ sock \in SocketType /\ SocketOK(sock, token) /\ OwnTokens(sock, token)
        /\ Kept(sock, token) /\ gen \in Gens
    BY <1>2, RequestOwned
  <2>2. /\ b \in Body /\ b.batches \in Seq(Seq(Event)) /\ b.more \in BOOLEAN /\ b.ended \in BOOLEAN
        /\ b.phase = "sending" /\ token' = token /\ sock.queue = <<>>
    BY BodyOf DEF Body, SendNext, Delivering, InPhase, Drained
  <2>3. /\ L \in Seq(Msg) /\ LineOK(L, token) /\ Says(sock, t, b) /\ Sends(L, t, b)
        /\ \A u : ~HasBarrier(sock.queue, u)
    <3>1. Says(sock, t, b)
      BY DEF DenseInv
    <3> QED BY <2>1, <2>2, <3>1, LineOf DEF Kept, Says, HasBarrier
  <2> HIDE DEF L
  <2>4. ASSUME NEW msg \in Msg, NEW c,
               Become(Enqueue(sock, Message(msg, r.key)), [bodies EXCEPT ![t] = c], tail),
               \A u : FrameFor(msg, u) => u = t, LineOK(L \o <<msg>>, token),
               \A q : Line(q) = L \o <<msg>> /\ q.queue = Append(sock.queue, Message(msg, r.key)) => Says(q, t, c)
        PROVE  DenseInv'
    <3> DEFINE item == Message(msg, r.key)
               q == Enqueue(sock, item)
    <3>1. item \in Item /\ item.kind = "message" /\ item.key = t /\ item.msg = msg
      <4> HIDE DEF r
      <4>1. item \in MessageItem
        BY <2>1, MessageIs DEF Req
      <4> QED BY <2>1, <4>1 DEF Item, MessageItem, Message
    <3>2. Become(q, [bodies EXCEPT ![t] = c], tail)
      BY <2>4
    <3>3. \A w : w.queue = Append(sock.queue, item) /\ Line(w) = L \o <<msg>> => Says(w, t, c)
      BY <2>4
    <3> HIDE DEF item
    <3>4. Spoken[item] = <<msg>>
      BY <3>1 DEF Spoken
    <3>5. LineOK(Line(sock) \o Spoken[item], token)
      BY <2>4, <3>4 DEF L
    <3>6. \A w : w = Enqueue(sock, item) =>
            /\ Kept(w, token)
            /\ w.open => Line(w) = Line(sock) \o Spoken[item] /\ w.queue = Append(sock.queue, item)
      BY <2>1, <2>3, <3>1, <3>5, EnqueueKept
    <3>7. /\ Kept(q, token)
          /\ q.open => Line(q) = Line(sock) \o Spoken[item] /\ q.queue = Append(sock.queue, item)
      BY <3>6
    <3> HIDE DEF q
    <3>8. q.open => \A u \in DOMAIN bodies \ {t} : Hears(sock, q, u)
      BY <2>1, <2>4, <3>1, <3>7, QueuedHears
    <3>9. q.open => Says(q, t, c)
      BY <3>3, <3>4, <3>7 DEF L
    <3>10. q.open => Heard(q, [bodies EXCEPT ![t] = c])
      BY <3>8, <3>9, OneHeard
    <3> QED BY <2>2, <3>2, <3>7, <3>10, BecomeDense
  <2>5. CASE b.reset
    <3> DEFINE c == [b EXCEPT !.reset = FALSE]
               msg == Reset(IdOf(r.key))
    <3>1. msg \in Msg /\ ~IsFrame(msg)
      BY <2>1 DEF Reset, Msg, IsFrame
    <3>2. Become(Enqueue(sock, Message(msg, r.key)), [bodies EXCEPT ![t] = c], tail)
      BY <1>2, <2>5 DEF SendNext
    <3>3. c.phase = b.phase /\ c.ended = b.ended /\ c.batches = b.batches
      BY <2>2 DEF Body
    <3>4. Message(msg, r.key) \in Item /\ Message(msg, r.key).msg = msg /\ Message(msg, r.key).kind = "message"
      <4>1. r.key \in Int
        BY <2>1 DEF Req
      <4> HIDE DEF r, msg
      <4>2. Message(msg, r.key) \in MessageItem
        BY <3>1, <4>1, MessageIs
      <4> QED BY <4>2 DEF Item, Message
    <3> HIDE DEF c, b, msg, r
    <3>5. LineOK(L \o <<msg>>, token)
      <4>0. <<msg>> \in Seq(Msg)
        BY <3>1
      <4>1. PICK ms \in Seq(Msg) : ms = <<msg>>
        BY <4>0
      <4>2. Hushed(ms, token)
        BY <3>1, <4>1 DEF Hushed
      <4> QED BY <2>3, <4>1, <4>2, LineGoesOn
    <3>6. ASSUME NEW q, Line(q) = L \o <<msg>>, q.queue = Append(sock.queue, Message(msg, r.key))
          PROVE  Says(q, t, c)
      <4>1. PICK item : item = Message(msg, r.key)
        OBVIOUS
      <4>2. Spoken[item] = <<msg>> /\ item.kind = "message" /\ item \in Item /\ ~FrameFor(item.msg, t)
        BY <3>1, <3>4, <4>1 DEF Spoken, FrameFor
      <4>3. Line(q) = Line(sock) \o Spoken[item] /\ q.queue = Append(sock.queue, item)
        BY <3>6, <4>1, <4>2 DEF L
      <4>4. Hears(sock, q, t)
        BY <2>1, <4>2, <4>3, QueuedHears
      <4>5. Says(q, t, b)
        BY <2>3, <4>4 DEF Hears
      <4> QED BY <2>2, <3>3, <4>5 DEF Says, Sends, Early
    <3>7. \A u : FrameFor(msg, u) => u = t
      BY <3>1 DEF FrameFor
    <3> QED BY <2>4, <3>1, <3>2, <3>5, <3>6, <3>7
  <2>6. CASE ~b.reset /\ b.batches # <<>>
    <3> DEFINE head == Head(b.batches)
               msg == Frame(r, head, FALSE, b.more, FALSE)
               rest == Tail(b.batches)
               c == [b EXCEPT !.batches = rest]
    <3>0. /\ Chained(b.batches) /\ ~b.ended /\ Untold(L, t) /\ Joins(EventsOf(L, t), b.batches[1])
      BY <2>3, <2>6 DEF Sends
    <3>1. /\ head \in Seq(Event) /\ head # <<>> /\ Run(head) /\ head = b.batches[1]
          /\ rest \in Seq(Seq(Event)) /\ Chained(rest) /\ (rest # <<>> => Joins(head, rest[1]))
      <4> HIDE DEF b
      <4> QED BY <2>2, <2>6, <3>0, TailChained
    <3>2. Become(Enqueue(sock, Message(msg, r.key)), [bodies EXCEPT ![t] = [b EXCEPT !.batches = Tail(@)]], tail)
      BY <1>2, <2>6 DEF SendNext
    <3>3. [b EXCEPT !.batches = Tail(@)] = c
      BY <2>2 DEF Body
    <3> HIDE DEF rest, head
    <3>4. c.phase = "sending" /\ ~c.ended /\ c.batches = rest
      BY <2>2, <3>0 DEF Body
    <3>5. Become(Enqueue(sock, Message(msg, r.key)), [bodies EXCEPT ![t] = c], tail)
      BY <3>2, <3>3
    <3>6. /\ msg \in Msg /\ IsFrame(msg) /\ ~msg.error /\ msg.id = t /\ msg.events = head /\ ~msg.last
      <4>1. msg \in Msg
        <5> HIDE DEF b, r
        <5> QED BY <2>1, <2>2, <3>1, FrameIs
      <4> QED BY <2>1, <4>1 DEF Frame, IsFrame
    <3> HIDE DEF r, c, b, msg
    <3>7. LineOK(L \o <<msg>>, token) /\ EventsOf(L \o <<msg>>, t) = EventsOf(L, t) \o head
      <4>1. msg.id \in 1..token /\ Untold(L, msg.id) /\ Run(msg.events) /\ Joins(EventsOf(L, msg.id), msg.events)
        BY <2>1, <3>0, <3>1, <3>6
      <4>2. LineOK(L \o <<msg>>, token) /\ EventsOf(L \o <<msg>>, msg.id) = EventsOf(L, msg.id) \o msg.events
        BY <2>1, <2>3, <3>6, <4>1, LineTakesFrame
      <4> QED BY <3>6, <4>2
    <3>8. Untold(L \o <<msg>>, t)
      BY <2>3, <3>0, <3>6, UntoldStill DEF Concludes
    <3>9. rest # <<>> => Joins(EventsOf(L \o <<msg>>, t), rest[1])
      <4>1. EventsOf(L, t) \in Seq(Event)
        BY <2>3, EventsConcat
      <4>2. PICK es \in Seq(Event) : es = EventsOf(L, t)
        BY <4>1
      <4>3. rest # <<>> => Joins(es \o head, rest[1])
        BY <3>1, JoinsConcat
      <4> QED BY <3>7, <4>2, <4>3
    <3>10. ASSUME NEW q, Line(q) = L \o <<msg>>
           PROVE  Says(q, t, c)
      <4>1. Sends(Line(q), t, c)
        BY <3>1, <3>4, <3>8, <3>9, <3>10 DEF Sends
      <4> QED BY <3>4, <4>1 DEF Says, Early
    <3>11. \A u : FrameFor(msg, u) => u = t
      BY <3>6 DEF FrameFor
    <3> QED BY <2>4, <3>5, <3>6, <3>7, <3>10, <3>11
  <2>7. CASE ~b.reset /\ b.batches = <<>> /\ ~b.ended
    <3> DEFINE msg == Frame(r, <<>>, TRUE, b.more, FALSE)
               c == [b EXCEPT !.ended = TRUE]
    <3>1. msg \in Msg /\ IsFrame(msg) /\ ~msg.error /\ msg.id = t /\ msg.events = <<>>
      <4>1. <<>> \in Seq(Event)
        OBVIOUS
      <4>2. msg \in Msg
        <5> HIDE DEF b, r
        <5> QED BY <2>1, <2>2, <4>1, FrameIs
      <4> QED BY <2>1, <4>2 DEF Frame, IsFrame
    <3>2. Become(Enqueue(sock, Message(msg, r.key)), [bodies EXCEPT ![t] = c], tail)
      BY <1>2, <2>7 DEF SendNext
    <3>3. c.phase = "sending" /\ c.ended /\ c.batches = <<>>
      BY <2>2, <2>7 DEF Body
    <3> HIDE DEF r, c, msg
    <3>4. LineOK(L \o <<msg>>, token)
      <4>1. Untold(L, t)
        BY <2>3, <2>7 DEF Sends
      <4> HIDE DEF b
      <4>2. Run(msg.events) /\ Joins(EventsOf(L, msg.id), msg.events)
        BY <3>1 DEF Run, Joins
      <4>3. msg.id \in 1..token /\ Untold(L, msg.id)
        BY <2>1, <3>1, <4>1
      <4> QED BY <2>1, <2>3, <3>1, <4>2, <4>3, LineTakesFrame
    <3> HIDE DEF b
    <3>5. ASSUME NEW q PROVE Says(q, t, c)
      BY <3>3 DEF Says, Sends, Early, Chained
    <3>6. \A u : FrameFor(msg, u) => u = t
      BY <3>1 DEF FrameFor
    <3> QED BY <2>4, <3>1, <3>2, <3>4, <3>5, <3>6
  <2>8. CASE ~b.reset /\ b.batches = <<>> /\ b.ended
    <3> DEFINE c == [b EXCEPT !.phase = "closing"]
               u == CompleteRequest(sock, t)
               v == Enqueue(sock, Barrier(r))
    <3>1. Become(IF r.kind = "older" THEN u ELSE v, [bodies EXCEPT ![t].phase = "closing"], tail)
      BY <1>2, <2>8 DEF SendNext
    <3>2. [bodies EXCEPT ![t].phase = "closing"] = [bodies EXCEPT ![t] = c] /\ c.phase = "closing"
      BY <2>2 DEF Body
    <3> HIDE DEF c
    <3>3. \A q : Says(q, t, c)
      BY <3>2 DEF Says, Early
    <3>4. Kept(u, token) /\ (u.open => \A x : Hears(sock, u, x))
      <4>1. \A w : w = CompleteRequest(sock, t) => Kept(w, token) /\ (w.open => \A x : Hears(sock, w, x))
        <5>1. \A j \in DOMAIN sock.queue : sock.queue[j].kind = "message" => sock.queue[j].key # t
          BY <2>2
        <5> QED BY <2>1, <5>1, CompleteKept
      <4> QED BY <4>1
    <3>5. Kept(v, token) /\ (v.open => \A x \in DOMAIN bodies \ {t} : Hears(sock, v, x))
      <4> DEFINE bar == Barrier(r)
      <4>1. bar \in Item /\ bar.kind = "barrier" /\ bar.token = t
        BY <2>1, BarrierIs DEF Barrier
      <4> HIDE DEF bar
      <4>2. LineOK(Line(sock) \o Spoken[bar], token)
        <5>1. Spoken[bar] = <<>> /\ L \o <<>> = L
          BY <2>3, <4>1, ConcatEmptySeq DEF Spoken
        <5> QED BY <2>3, <5>1 DEF L
      <4>3. \A w : w = Enqueue(sock, bar) =>
              /\ Kept(w, token)
              /\ w.open => Line(w) = Line(sock) \o Spoken[bar] /\ w.queue = Append(sock.queue, bar)
        BY <2>1, <4>1, <4>2, EnqueueKept
      <4>4. /\ Kept(v, token)
            /\ v.open => Line(v) = Line(sock) \o Spoken[bar] /\ v.queue = Append(sock.queue, bar)
        BY <4>3 DEF bar
      <4> HIDE DEF v
      <4> QED BY <2>1, <4>1, <4>4, QueuedHears
    <3> HIDE DEF u, v, r, b
    <3>6. \A q : (\A x \in DOMAIN bodies \ {t} : Hears(sock, q, x)) => Heard(q, [bodies EXCEPT ![t] = c])
      BY <3>3, OneHeard
    <3>7. u.open => Heard(u, [bodies EXCEPT ![t] = c])
      BY <3>4, <3>6
    <3>8. v.open => Heard(v, [bodies EXCEPT ![t] = c])
      BY <3>5, <3>6
    <3> QED BY <2>2, <3>1, <3>2, <3>4, <3>5, <3>7, <3>8, BecomeDense
  <2> QED BY <2>2, <2>5, <2>6, <2>7, <2>8
<1> QED BY <1>1, <1>2

LEMMA CloseDense ==
  ASSUME IInv, DenseInv, NEW t \in DOMAIN bodies, Close(t)
  PROVE  DenseInv'
<1>1. CASE Become(sock, DropBody(bodies, t), Tail(tail))
  BY <1>1, DropDense DEF Close
<1>2. CASE Become(CompleteRequest(sock, t), DropBody(bodies, t), tail)
  <2>1. /\ Kept(sock, token) /\ SocketOK(sock, token) /\ gen \in Gens /\ sock.queue = <<>>
        /\ token' = token
    BY SockTyped DEF DenseInv, IInv, SocketInv, Close, Drained
  <2>2. \A w : w = CompleteRequest(sock, t) => Kept(w, token) /\ (w.open => \A u : Hears(sock, w, u))
    <3>1. \A j \in DOMAIN sock.queue : sock.queue[j].kind = "message" => sock.queue[j].key # t
      BY <2>1
    <3> QED BY <2>1, <3>1, CompleteKept
  <2>3. PICK q : q = CompleteRequest(sock, t)
    OBVIOUS
  <2>4. Kept(q, token) /\ (q.open => \A u : Hears(sock, q, u)) /\ Become(q, DropBody(bodies, t), tail)
    BY <1>2, <2>2, <2>3
  <2>5. q.open => Heard(q, DropBody(bodies, t))
    BY <2>4, DropHeard
  <2> QED BY <2>1, <2>4, <2>5, BecomeDense
<1> QED BY <1>1, <1>2 DEF Close

\* A queue whose head is taken, sent or in hand.
LEMMA TakenKept ==
  ASSUME NEW n, NEW s \in SocketType, s.queue # <<>>, s.inflight = None, Kept(s, n),
         NEW q, q.queue = Tail(s.queue), q.requests = s.requests,
         q.out \o Hand(q) = s.out \o Spoken[Head(s.queue)]
  PROVE  /\ Head(s.queue) \in Item /\ Tail(s.queue) \in Seq(Item)
         /\ Kept(q, n) /\ \A u : Hears(s, q, u)
         /\ Line(q) = Line(s) /\ \A u : HasBarrier(q.queue, u) => HasBarrier(s.queue, u)
         /\ Head(s.queue).kind = "barrier" => HasBarrier(s.queue, Head(s.queue).token)
         /\ Head(s.queue).kind = "barrier" =>
              \A j \in DOMAIN q.queue : q.queue[j].kind = "message" => q.queue[j].key # Head(s.queue).token
         /\ Head(s.queue).kind = "message" /\ Head(s.queue).key # NoId => HasRequest(q, Head(s.queue).key)
<1> DEFINE head == Head(s.queue)
           rest == Tail(s.queue)
<1>1. s.queue \in Seq(Item)
  BY DEF SocketType
<1>2. PICK u \in Seq(Item) : u = s.queue /\ u # <<>>
  BY <1>1
<1>3. /\ Tail(u) \in Seq(Item) /\ Len(Tail(u)) = Len(u) - 1 /\ Len(u) \in Nat /\ Len(Tail(u)) \in Nat
      /\ \A i \in 1..Len(Tail(u)) : Tail(u)[i] = u[i + 1]
  BY <1>2, HeadTailProperties, LenProperties
<1>4. Head(u) = u[1] /\ DOMAIN u = 1..Len(u) /\ 1 \in DOMAIN u
  BY <1>2
<1>5. head \in Item /\ rest \in Seq(Item) /\ head = u[1] /\ DOMAIN rest = 1..Len(rest)
  BY <1>2, <1>3, <1>4
<1>6. \A i \in DOMAIN rest : i \in Nat /\ i + 1 \in DOMAIN u /\ 1 < i + 1 /\ rest[i] = u[i + 1]
  BY <1>2, <1>3, <1>4, <1>5
<1>7. u = <<head>> \o rest
  <2>1. u = <<Head(u)>> \o Tail(u)
    BY <1>2, HeadTailProperties
  <2> QED BY <1>2, <2>1
<1> HIDE DEF head, rest
<1>8. Line(q) = Line(s)
  <2>0. <<head>> \in Seq(Item)
    BY <1>5
  <2>1. PICK h \in Seq(Item), v \in Seq(Item) : h = <<head>> /\ v = rest
    BY <1>5, <2>0
  <2>2. FlatMap(Spoken, h \o v) = FlatMap(Spoken, h) \o FlatMap(Spoken, v)
    BY SpokenTurns, FlatMapConcat
  <2>3. FlatMap(Spoken, <<head>>) = Spoken[head] /\ Spoken[head] \in Seq(Msg)
    <3>1. FlatMap(Spoken, <<head>>) = Spoken[head]
      BY <1>5, SpokenTurns, FlatMapOne
    <3>2. Spoken[head] \in Seq(Msg)
      BY <1>5, SpokenTurns DEF Turns
    <3> QED BY <3>1, <3>2
  <2>4. FlatMap(Spoken, v) \in Seq(Msg) /\ s.out \in Seq(Msg)
    BY <2>1, SpokenTurns, FlatMapConcat, LineOf
  <2>5. PICK a \in Seq(Msg), b \in Seq(Msg), c \in Seq(Msg) :
          a = s.out /\ b = Spoken[head] /\ c = FlatMap(Spoken, v)
    BY <2>3, <2>4
  <2>6. Line(q) = (a \o b) \o c
    BY <2>1, <2>5 DEF Line, head, rest
  <2>7. Line(s) = (a \o <<>>) \o (b \o c)
    BY <1>2, <1>7, <2>1, <2>2, <2>3, <2>5 DEF Line, Hand
  <2>8. a \o <<>> = a /\ (a \o b) \o c = a \o (b \o c)
    BY ConcatEmptySeq, ConcatAssociative
  <2> QED BY <2>6, <2>7, <2>8
<1>9. q.queue = rest
  BY DEF rest
<1>10. Keyed(q)
  BY DEF Kept, Keyed
<1>11. Numbered(q, n)
  BY <1>2, <1>6, <1>9 DEF Kept, Numbered
<1>12. \A key : HasRequest(s, key) => HasRequest(q, key)
  BY DEF HasRequest
<1>13. ASSUME NEW j \in DOMAIN rest, NEW k \in DOMAIN rest, rest[j].kind = "barrier",
              rest[k].kind = "message", j < k
       PROVE  rest[k].key # rest[j].token
  <2>1. j + 1 \in DOMAIN u /\ k + 1 \in DOMAIN u /\ j + 1 < k + 1 /\ rest[j] = u[j + 1] /\ rest[k] = u[k + 1]
    BY <1>6, <1>13
  <2> QED BY <1>2, <1>13, <2>1 DEF Kept, Waited
<1>14. ASSUME NEW j \in DOMAIN rest, rest[j].kind = "message", rest[j].key # NoId
       PROVE  HasRequest(q, rest[j].key)
  <2>1. j + 1 \in DOMAIN u /\ rest[j] = u[j + 1]
    BY <1>6
  <2> QED BY <1>2, <1>12, <1>14, <2>1 DEF Kept, Waited
<1>15. Waited(q)
  BY <1>9, <1>13, <1>14 DEF Waited
<1>16. ASSUME head.kind = "barrier", NEW j \in DOMAIN rest, rest[j].kind = "message"
       PROVE  rest[j].key # head.token
  <2>1. j + 1 \in DOMAIN u /\ rest[j] = u[j + 1] /\ 1 < j + 1
    BY <1>6
  <2> QED BY <1>2, <1>4, <1>5, <1>16, <2>1 DEF Kept, Waited
<1>17. head.kind = "message" /\ head.key # NoId => HasRequest(q, head.key)
  BY <1>2, <1>4, <1>5, <1>12 DEF Kept, Waited
<1>18. Kept(q, n)
  BY <1>8, <1>10, <1>11, <1>15 DEF Kept
<1>19. \A x : HasBarrier(q.queue, x) => HasBarrier(s.queue, x)
  BY <1>2, <1>6, <1>9 DEF HasBarrier
<1>20. \A x : Hears(s, q, x)
  BY <1>8, <1>19, HearsSame
<1>21. head.kind = "barrier" => HasBarrier(s.queue, head.token)
  BY <1>2, <1>4, <1>5 DEF HasBarrier
<1> QED BY <1>5, <1>8, <1>9, <1>16, <1>17, <1>18, <1>19, <1>20, <1>21 DEF head, rest

\* The bodies as they are, over a socket they hear the same from.
LEMMA WithinDense ==
  ASSUME DenseInv, NEW q, NEW tl, Become(q, bodies, tl), token' = token,
         Kept(q, token), q.open => \A u : Hears(sock, q, u)
  PROVE  DenseInv'
<1>1. q.open => Heard(q, bodies)
  BY DEF Heard
<1> QED BY <1>1, BecomeDense

LEMMA AppendsOne ==
  ASSUME NEW s \in Seq(Msg), NEW m \in Msg
  PROVE  Append(s, m) = s \o <<m>> /\ Append(s, m) \o <<>> = s \o <<m>> /\ s \o <<>> = s
<1>1. Append(s, m) = s \o <<m>> /\ Append(s, m) \in Seq(Msg)
  OBVIOUS
<1>2. PICK x \in Seq(Msg) : x = Append(s, m)
  BY <1>1
<1>3. x \o <<>> = x /\ s \o <<>> = s
  BY ConcatEmptySeq
<1> QED BY <1>1, <1>2, <1>3

\* What the drain takes is sent or in hand, or completes a request that nothing
\* is queued for; nothing it takes is of a request that is gone.
LEMMA DrainTakeDense ==
  ASSUME IInv, DenseInv, DrainTake
  PROVE  DenseInv'
<1> DEFINE item == Head(sock.queue)
           rest == Tail(sock.queue)
           s == [sock EXCEPT !.queue = rest]
<1>1. /\ sock \in SocketType /\ sock.queue \in Seq(Item) /\ sock.queue # <<>> /\ sock.inflight = None
      /\ sock.open /\ SocketOK(sock, token) /\ Kept(sock, token) /\ token' = token /\ gen \in Gens
      /\ sock.out \in Seq(Msg)
  BY SockTyped DEF SocketType, DrainTake, CanTake, IInv, SocketInv, DenseInv
<1>2. rest \in Seq(Item) /\ item \in Item
  BY <1>1, HeadTailProperties
<1>3. \/ item.kind = "barrier" /\ Become(CompleteRequest(s, item.token), bodies, tail)
      \/ /\ item.kind = "message" /\ item.key # NoId /\ ~HasRequest(s, item.key)
      \/ /\ item.kind = "message"
         /\ Become(Sent(s, item), bodies, tail) \/ Become([s EXCEPT !.inflight = item], bodies, tail)
  <2>1. \/ item.kind = "barrier" /\ Become(CompleteRequest(s, item.token), bodies, tail)
        \/ /\ item.kind = "message" /\ item.key # NoId /\ ~HasRequest(s, item.key)
           /\ Become([s EXCEPT !.queued = Max2(0, @ - item.count)], bodies, tail)
        \/ /\ item.kind = "message"
           /\ \E n \in {Sent(s, item), [s EXCEPT !.inflight = item]} : Become(n, bodies, tail)
    BY DEF DrainTake
  <2> HIDE DEF rest, item, s
  <2> QED BY <2>1
<1>4. ASSUME NEW q, q.queue = rest, q.requests = sock.requests, q.out \o Hand(q) = sock.out \o Spoken[item]
      PROVE  /\ Kept(q, token) /\ \A u : Hears(sock, q, u)
             /\ item.kind = "barrier" =>
                  \A j \in DOMAIN q.queue : q.queue[j].kind = "message" => q.queue[j].key # item.token
             /\ item.kind = "message" /\ item.key # NoId => HasRequest(q, item.key)
  BY <1>1, <1>4, TakenKept
<1>5. item.kind = "message" /\ item.key # NoId => HasRequest(sock, item.key)
  <2>1. 1 \in DOMAIN sock.queue /\ sock.queue[1] = item
    <3> HIDE DEF Item
    <3> QED BY <1>1
  <2> HIDE DEF item
  <2> QED BY <1>1, <2>1 DEF Kept, Waited
<1> HIDE DEF rest, item
<1>6. /\ s \in SocketType /\ s.queue = rest /\ s.requests = sock.requests /\ s.out = sock.out
      /\ s.inflight = None /\ s.suppressed = sock.suppressed /\ s.open = sock.open
      /\ s.pendingLive = sock.pendingLive
  BY <1>1, <1>2 DEF SocketType
<1> HIDE DEF s
<1>7. CASE item.kind = "barrier" /\ Become(CompleteRequest(s, item.token), bodies, tail)
  <2>1. s.out \o Hand(s) = sock.out \o Spoken[item]
    BY <1>2, <1>6, <1>7 DEF Hand, Spoken
  <2>2. /\ Kept(s, token) /\ \A u : Hears(sock, s, u)
        /\ \A j \in DOMAIN s.queue : s.queue[j].kind = "message" => s.queue[j].key # item.token
    BY <1>4, <1>6, <1>7, <2>1
  <2>3. SocketOK(s, token)
    BY <1>1, <1>6, SameRequestsOK DEF SocketOK, Suppressing
  <2>4. \A q : q = CompleteRequest(s, item.token) => Kept(q, token) /\ (q.open => \A u : Hears(s, q, u))
    BY <1>1, <2>2, <2>3, CompleteKept
  <2>5. PICK q : q = CompleteRequest(s, item.token)
    OBVIOUS
  <2>6. Kept(q, token) /\ (q.open => \A u : Hears(sock, q, u))
    BY <2>2, <2>4, <2>5 DEF Hears
  <2>7. Become(q, bodies, tail)
    BY <1>7, <2>5
  <2> QED BY <1>1, <2>6, <2>7, WithinDense
<1>8. CASE item.kind = "message" /\ item.key # NoId /\ ~HasRequest(s, item.key)
  BY <1>5, <1>6, <1>8 DEF HasRequest
<1>9. CASE item.kind = "message" /\ Become(Sent(s, item), bodies, tail)
  <2> DEFINE left == Max2(0, s.queued - item.count)
             o == Append(s.out, item.msg)
             q == [s EXCEPT !.out = o, !.queued = left]
  <2>1. Sent(s, item) = q
    BY <1>6 DEF SocketType, Sent
  <2>2. item.msg \in Msg
    BY <1>2, <1>9 DEF Item, MessageItem
  <2>3. o \o <<>> = sock.out \o Spoken[item]
    BY <1>1, <1>2, <1>6, <1>9, <2>2, AppendsOne DEF Spoken
  <2> HIDE DEF left, o
  <2>4. q.queue = rest /\ q.requests = sock.requests /\ q.out = o /\ q.inflight = None
    BY <1>6 DEF SocketType
  <2> HIDE DEF q
  <2>5. q.out \o Hand(q) = sock.out \o Spoken[item]
    BY <2>3, <2>4 DEF Hand
  <2>6. Kept(q, token) /\ \A u : Hears(sock, q, u)
    BY <1>4, <2>4, <2>5
  <2>7. Become(q, bodies, tail)
    BY <1>9, <2>1
  <2> QED BY <1>1, <2>6, <2>7, WithinDense
<1>10. CASE item.kind = "message" /\ Become([s EXCEPT !.inflight = item], bodies, tail)
  <2> DEFINE q == [s EXCEPT !.inflight = item]
  <2>1. q.queue = rest /\ q.requests = sock.requests /\ q.out = sock.out /\ q.inflight = item
    BY <1>6 DEF SocketType
  <2>2. item # None
    BY <1>2, <1>10, NoneAssumption DEF Item, MessageItem
  <2>3. Become(q, bodies, tail)
    BY <1>10
  <2> HIDE DEF q
  <2>4. q.out \o Hand(q) = sock.out \o Spoken[item]
    BY <1>2, <1>10, <2>1, <2>2 DEF Hand, Spoken
  <2>5. Kept(q, token) /\ \A u : Hears(sock, q, u)
    BY <1>4, <2>1, <2>4
  <2> QED BY <1>1, <2>3, <2>5, WithinDense
<1> QED BY <1>3, <1>7, <1>8, <1>9, <1>10

LEMMA DrainSendDense ==
  ASSUME IInv, DenseInv, DrainSend
  PROVE  DenseInv'
<1> DEFINE item == sock.inflight
           o == Append(sock.out, item.msg)
           left == Max2(0, sock.queued - item.count)
           q == [sock EXCEPT !.out = o, !.queued = left, !.inflight = None]
<1>1. sock \in SocketType /\ item.msg \in Msg /\ sock.open /\ item # None /\ sock.out \in Seq(Msg)
  BY SockTyped DEF SocketType, DrainSend, MessageItem
<1>2. sock' = q
  BY <1>1 DEF DrainSend, Sent, SocketType
<1>a. o \o <<>> = sock.out \o Hand(sock)
  BY <1>1, AppendsOne DEF Hand
<1> HIDE DEF o, left, item
<1>3. q.out = o /\ q.queue = sock.queue /\ q.requests = sock.requests /\ q.open /\ q.inflight = None
  BY <1>1 DEF SocketType
<1> HIDE DEF q
<1>4. Line(q) = Line(sock)
  BY <1>3, <1>a DEF Line, Hand
<1>5. Kept(sock, token)
  BY DEF DenseInv
<1>6. Kept(q, token)
  <2>1. Keyed(q) /\ Numbered(q, token) /\ Waited(q)
    BY <1>3, <1>5 DEF Kept, Keyed, Numbered, Waited, HasRequest
  <2> QED BY <1>4, <1>5, <2>1 DEF Kept
<1>7. \A u : Hears(sock, q, u)
  BY <1>3, <1>4, HearsSame
<1>8. Become(q, bodies, tail) /\ token' = token
  BY <1>2, <1>3 DEF Become, DrainSend
<1> QED BY <1>6, <1>7, <1>8, WithinDense

LEMMA EventForwardDense ==
  ASSUME IInv, DenseInv, EventForward
  PROVE  DenseInv'
<1> DEFINE e == [gen |-> gen, seq |-> hi + 1]
<1>1. /\ sock \in SocketType /\ e \in Event /\ token' = token /\ gen \in Gens
      /\ Kept(sock, token) /\ SocketOK(sock, token) /\ OwnTokens(sock, token)
  BY SockTyped DEF Event, EventForward, DenseInv, IInv, SocketInv, SocketOK
<1>2. \/ Become(sock, bodies, tail)
      \/ Become(SuppressLive(sock, e), bodies, tail)
      \/ Become(Enqueue(sock, LiveItem(e)), bodies, tail)
  <2>1. CASE ~sock.open \/ ~sock.present \/ replaying
    BY <2>1 DEF EventForward
  <2>2. CASE ~(~sock.open \/ ~sock.present \/ replaying) /\ sock.suppressed
    BY <2>2 DEF EventForward
  <2>3. CASE ~(~sock.open \/ ~sock.present \/ replaying) /\ ~sock.suppressed
    BY <2>3 DEF EventForward
  <2> QED BY <2>1, <2>2, <2>3
<1> HIDE DEF e
<1>3. CASE Become(sock, bodies, tail)
  BY <1>1, <1>3, WithinDense DEF Hears
<1>4. CASE Become(SuppressLive(sock, e), bodies, tail)
  <2> DEFINE held == Append(sock.pendingLive, e)
             more == sock.queued + 1
             longer == [sock EXCEPT !.pendingLive = held, !.queued = more]
  <2>1. SuppressLive(sock, e) \in {sock, longer, QueueOverflow(sock)}
    BY <1>1 DEF SuppressLive, SocketType
  <2> HIDE DEF held, more
  <2>2. /\ longer.out = sock.out /\ longer.inflight = sock.inflight /\ longer.queue = sock.queue
        /\ longer.requests = sock.requests
    BY <1>1 DEF SocketType
  <2> HIDE DEF longer
  <2>3. Kept(longer, token) /\ \A u : Hears(sock, longer, u)
    BY <1>1, <2>2, SameKept
  <2>4. Kept(QueueOverflow(sock), token) /\ ~QueueOverflow(sock).open
    BY <1>1, OverflowKept DEF Kept
  <2>5. PICK q : q = SuppressLive(sock, e)
    OBVIOUS
  <2>6. Kept(q, token) /\ (q.open => \A u : Hears(sock, q, u))
    BY <1>1, <2>1, <2>3, <2>4, <2>5 DEF Hears
  <2>7. Become(q, bodies, tail)
    BY <1>4, <2>5
  <2> QED BY <1>1, <2>6, <2>7, WithinDense
<1>5. CASE Become(Enqueue(sock, LiveItem(e)), bodies, tail)
  <2> DEFINE item == LiveItem(e)
             msg == Live(e)
  <2>1. item \in Item /\ item.kind = "message" /\ item.key = NoId /\ item.msg = msg
    BY <1>1, LiveItemIs DEF LiveItem, Message
  <2>2. msg \in Msg /\ ~IsFrame(msg)
    BY <1>1 DEF Live, Msg, IsFrame
  <2>3. Become(Enqueue(sock, item), bodies, tail)
    BY <1>5
  <2> HIDE DEF item, msg
  <2>4. LineOK(Line(sock) \o Spoken[item], token)
    <3>0. <<msg>> \in Seq(Msg) /\ Spoken[item] = <<msg>>
      BY <2>1, <2>2 DEF Spoken
    <3>1. PICK ms \in Seq(Msg) : ms = <<msg>>
      BY <3>0
    <3>2. Hushed(ms, token)
      BY <2>2, <3>1 DEF Hushed
    <3>3. Line(sock) \in Seq(Msg) /\ LineOK(Line(sock), token)
      BY <1>1, LineOf DEF Kept
    <3> QED BY <3>0, <3>1, <3>2, <3>3, LineGoesOn
  <2>5. \A w : w = Enqueue(sock, item) =>
          /\ Kept(w, token)
          /\ w.open => Line(w) = Line(sock) \o Spoken[item] /\ w.queue = Append(sock.queue, item)
    BY <1>1, <2>1, <2>4, EnqueueKept
  <2>6. PICK q : q = Enqueue(sock, item)
    OBVIOUS
  <2>7. /\ Kept(q, token) /\ Become(q, bodies, tail)
        /\ q.open => Line(q) = Line(sock) \o Spoken[item] /\ q.queue = Append(sock.queue, item)
    BY <2>3, <2>5, <2>6
  <2>8. q.open => \A u : Hears(sock, q, u)
    BY <1>1, <2>1, <2>2, <2>7, QueuedHears DEF FrameFor
  <2> QED BY <1>1, <2>7, <2>8, WithinDense
<1> QED BY <1>2, <1>3, <1>4, <1>5

LEMMA LoadDoneDense ==
  ASSUME IInv, DenseInv, NEW ok \in BOOLEAN, LoadDone(ok)
  PROVE  DenseInv'
<1>1. /\ sock' = sock /\ token' = token /\ DOMAIN bodies' = DOMAIN bodies
      /\ \A t \in DOMAIN bodies :
           \/ bodies'[t] = bodies[t]
           \/ /\ bodies[t].phase = "hydrating"
              /\ \E phase \in {"hydrated", "unavailable"} : bodies'[t] = [bodies[t] EXCEPT !.phase = phase]
           \/ /\ bodies[t].phase = "paging"
              /\ \E file : bodies'[t] = [bodies[t] EXCEPT !.phase = "loaded", !.file = file]
  BY DEF LoadDone, LoadFills
<1>2. ASSUME NEW t \in DOMAIN bodies PROVE Says(sock, t, bodies'[t])
  <2>1. bodies[t] \in Body /\ Says(sock, t, bodies[t])
    BY BodyOf DEF DenseInv
  <2>2. \/ bodies'[t] = bodies[t]
        \/ /\ bodies[t].phase \in Early /\ bodies'[t].phase \in Early
           /\ bodies'[t].ended = bodies[t].ended
    BY <1>1, <2>1 DEF Body, Early
  <2>3. CASE bodies'[t] = bodies[t]
    BY <2>1, <2>3
  <2>4. CASE bodies[t].phase \in Early /\ bodies'[t].phase \in Early /\ bodies'[t].ended = bodies[t].ended
    BY <2>1, <2>4 DEF Says, Early
  <2> QED BY <2>2, <2>3, <2>4
<1>3. Kept(sock', token') /\ \A t \in DOMAIN bodies' : Says(sock', t, bodies'[t])
  BY <1>1, <1>2 DEF DenseInv
<1> QED BY <1>3, DensePrimed

\* A message from the browser asks under a name it has not used.
LEMMA FreshName ==
  ASSUME "supersede" \notin Incidents, IInv, NEW m \in BrowserMessages
  PROVE  m.id = token + 1 /\ m.kind \in KindSet /\ m.kind \in Kinds
<1>1. m \in Request
  BY BrowserMessagesAre
<1>2. Ids = {token + 1}
  BY DEF Ids
<1>3. m.id \in Ids /\ m.kind \in Kinds
  <2> DEFINE Older(kind) == [id : Ids, kind : {kind}, at : 1..(hi + 1), known : {gen, <<0, 0>>}]
  <2>1. \/ m \in UNION {Older(kind) : kind \in Kinds \ {"cold"}}
        \/ m \in [id : Ids, kind : Kinds \cap {"cold"}, at : {0}, known : {None, gen}]
    BY Zenon DEF BrowserMessages
  <2>2. \A kind : \A x \in Older(kind) : x.id \in Ids /\ x.kind = kind
    OBVIOUS
  <2>3. \A x \in [id : Ids, kind : Kinds \cap {"cold"}, at : {0}, known : {None, gen}] :
          x.id \in Ids /\ x.kind \in Kinds
    OBVIOUS
  <2> HIDE DEF Older
  <2> QED BY <2>1, <2>2, <2>3
<1> QED BY <1>1, <1>2, <1>3 DEF Request

\* What a request under a new name adds.
Asked(m, q, r, b, n) ==
  /\ r \in Req /\ r.token = n /\ r.key = n /\ r.kind = m.kind
  /\ b = NewBody(m.kind, m.at, m.known, IF ~HasEvents /\ HasFile THEN "hydrating" ELSE "hydrated")
  /\ bodies' = [u \in DOMAIN bodies \cup {n} |-> IF u # n THEN bodies[u] ELSE b]
  /\ q.out = sock.out /\ q.inflight = sock.inflight /\ q.queue = sock.queue
  /\ q.pendingLive = sock.pendingLive /\ q.open = sock.open /\ q.present
  /\ q.suppressed = (sock.suppressed \/ m.kind # "older")
  /\ \A i \in DOMAIN q.requests : q.requests[i] = r \/ \E j \in DOMAIN sock.requests : q.requests[i] = sock.requests[j]
  /\ \A j \in DOMAIN sock.requests : \E i \in DOMAIN q.requests : q.requests[i] = sock.requests[j]
  /\ \E i \in DOMAIN q.requests : q.requests[i] = r

LEMMA SubscribeIs ==
  ASSUME "supersede" \notin Incidents, IInv, DenseInv, NEW m \in BrowserMessages, Subscribe(m)
  PROVE  token' = token + 1 /\ \E r, b : Asked(m, sock', r, b, token + 1)
<1> DEFINE t     == token + 1
           r     == [token |-> t, key |-> m.id, kind |-> m.kind]
           same  == {x \in Range(sock.requests) : x.key = m.id}
           prior == Those(sock.requests, same)
           others == Range(sock.requests) \ same
           rest  == Those(sock.requests, others)
           requests == Append(rest, r)
           loads == ~HasEvents /\ HasFile
           phase == IF loads THEN "hydrating" ELSE "hydrated"
           b     == NewBody(m.kind, m.at, m.known, phase)
           sup   == sock.suppressed \/ m.kind # "older"
           q     == [sock EXCEPT !.present = TRUE, !.requests = requests, !.suppressed = sup]
<1>1. /\ token \in Nat /\ SocketOK(sock, token) /\ sock \in SocketType /\ Kept(sock, token)
      /\ sock.requests \in Seq(Req) /\ DOMAIN bodies \subseteq 1..token /\ sock.out \in Seq(Msg)
  BY DEF IInv, SocketInv, SocketOK, SocketType, DenseInv, Serving, BodiesOK
<1>2. m.id = t /\ m.kind \in KindSet
  BY <1>1, FreshName
<1>3. /\ token' = t
      /\ sock' \in Direct([sock EXCEPT !.present = TRUE,
                   !.requests = Append(rest, r), !.suppressed = @ \/ m.kind # "older"], Terminals(prior))
      /\ bodies' = [u \in DOMAIN bodies \cup {t} |-> IF u # t THEN bodies[u] ELSE b]
  BY DEF Subscribe
<1>4. [sock EXCEPT !.present = TRUE,
         !.requests = Append(rest, r), !.suppressed = @ \/ m.kind # "older"] = q
  BY <1>1 DEF SocketType
<1>a. \A j \in DOMAIN sock.requests : sock.requests[j].key # t /\ sock.requests[j] \in Req
  BY <1>1 DEF Kept, Keyed, SocketOK, OwnTokens
<1>5. /\ rest \in Seq(Req)
      /\ \A i \in DOMAIN rest : \E j \in DOMAIN sock.requests : rest[i] = sock.requests[j]
      /\ \A j \in DOMAIN sock.requests : \E i \in DOMAIN rest : rest[i] = sock.requests[j]
  <2>1. rest \in Seq(Req) /\ Leaves(sock.requests, others, Len(sock.requests), rest)
    <3> HIDE DEF others
    <3> QED BY <1>1, ThoseOf
  <2>2. \A j \in DOMAIN sock.requests : sock.requests[j] \in others
    BY <1>2, <1>a DEF Range
  <2> HIDE DEF others, rest
  <2>3. DOMAIN rest = 1..Len(rest) /\ DOMAIN sock.requests = 1..Len(sock.requests)
    BY <1>1, <2>1
  <2> QED BY <2>1, <2>2, <2>3 DEF Leaves
<1>6. Terminals(prior) = <<>>
  <2>1. same = {}
    BY <1>2, <1>a DEF Range
  <2>2. prior \in Seq(Req) /\ Leaves(sock.requests, same, Len(sock.requests), prior)
    <3> HIDE DEF same
    <3> QED BY <1>1, ThoseOf
  <2> HIDE DEF same, prior
  <2>3. DOMAIN prior = 1..Len(prior)
    BY <2>2
  <2>4. DOMAIN prior = {}
    BY <2>1, <2>2, <2>3 DEF Leaves
  <2> QED BY <2>4 DEF Terminals
<1>7. r \in Req /\ r.token = t /\ r.key = t /\ r.kind = m.kind
  BY <1>1, <1>2 DEF Req
<1> HIDE DEF prior, rest, r
<1>8. /\ \A i \in DOMAIN requests : \/ requests[i] = r
                                    \/ \E j \in DOMAIN sock.requests : requests[i] = sock.requests[j]
      /\ \A j \in DOMAIN sock.requests : \E i \in DOMAIN requests : requests[i] = sock.requests[j]
      /\ \E i \in DOMAIN requests : requests[i] = r
  <2>1. /\ Len(rest) \in Nat /\ DOMAIN rest = 1..Len(rest)
        /\ DOMAIN requests = 1..(Len(rest) + 1)
        /\ \A i \in 1..Len(rest) : requests[i] = rest[i]
        /\ requests[Len(rest) + 1] = r
    BY <1>5, <1>7, AppendProperties, LenProperties
  <2> HIDE DEF requests
  <2>2. \A i \in DOMAIN requests : i \in DOMAIN rest \/ i = Len(rest) + 1
    BY <2>1
  <2>3. \A i \in DOMAIN rest : i \in DOMAIN requests
    BY <2>1
  <2> QED BY <1>5, <2>1, <2>2, <2>3
<1>b. b = NewBody(m.kind, m.at, m.known, IF ~HasEvents /\ HasFile THEN "hydrating" ELSE "hydrated")
  OBVIOUS
<1> HIDE DEF requests, sup, b
<1>9. /\ q.out = sock.out /\ q.inflight = sock.inflight /\ q.queue = sock.queue
      /\ q.requests = requests /\ q.pendingLive = sock.pendingLive /\ q.open = sock.open /\ q.present
      /\ q.suppressed = sup
  BY <1>1 DEF SocketType
<1>c. DOMAIN q = DOMAIN sock /\ "out" \in DOMAIN sock
  BY <1>1 DEF SocketType
<1> HIDE DEF q
<1>10. sock' = q
  <2>1. q.out \o Terminals(prior) = q.out
    BY <1>1, <1>6, <1>9, ConcatEmptySeq
  <2>2. [q EXCEPT !.out = q.out \o Terminals(prior)] = q
    <3>1. DOMAIN q = DOMAIN sock
      BY <1>c
    <3>2. [q EXCEPT !.out = q.out] = q
      BY DEF q
    <3> QED BY <2>1, <3>2
  <2> QED BY <1>3, <1>4, <2>2 DEF Direct
<1>11. Asked(m, q, r, b, t)
  BY <1>3, <1>7, <1>8, <1>9, <1>b DEF Asked, sup
<1> HIDE DEF b, r, t
<1> QED BY <1>3, <1>10, <1>11 DEF t

\* It finds nothing said under its name.
LEMMA SubscribeDense ==
  ASSUME "supersede" \notin Incidents, IInv, DenseInv, NEW m \in BrowserMessages, Subscribe(m)
  PROVE  DenseInv'
<1> DEFINE t == token + 1
<1>1. /\ token \in Nat /\ SocketOK(sock, token) /\ sock \in SocketType /\ Kept(sock, token)
      /\ DOMAIN bodies \subseteq 1..token
  BY DEF IInv, SocketInv, SocketOK, SocketType, DenseInv, Serving, BodiesOK
<1>2. PICK r, b : token' = t /\ Asked(m, sock', r, b, t)
  BY SubscribeIs
<1>3. PICK q : q = sock'
  OBVIOUS
<1>7. r.token = t /\ r.key = t
  BY <1>2 DEF Asked
<1>8. /\ \A i \in DOMAIN q.requests : \/ q.requests[i] = r
                                      \/ \E j \in DOMAIN sock.requests : q.requests[i] = sock.requests[j]
      /\ \A j \in DOMAIN sock.requests : \E i \in DOMAIN q.requests : q.requests[i] = sock.requests[j]
  BY <1>2, <1>3 DEF Asked
<1>9. q.out = sock.out /\ q.inflight = sock.inflight /\ q.queue = sock.queue
  BY <1>2, <1>3 DEF Asked
<1>b. b.phase \in Early /\ ~b.ended
  BY <1>2 DEF Asked, NewBody, Early
<1>c. bodies' = [u \in DOMAIN bodies \cup {t} |-> IF u # t THEN bodies[u] ELSE b]
  BY <1>2 DEF Asked
<1>11. Line(q) = Line(sock)
  BY <1>9 DEF Line, Hand
<1>12. LineOK(Line(q), t)
  <2>1. \A i \in DOMAIN Line(sock) : IsFrame(Line(sock)[i]) => Line(sock)[i].id <= t
    <3>1. Line(sock) \in Seq(Msg)
      BY <1>1, LineOf
    <3>2. \A i \in DOMAIN Line(sock) : IsFrame(Line(sock)[i]) => Line(sock)[i].id \in Int
      BY <3>1, MsgEvents
    <3>3. \A i \in DOMAIN Line(sock) : IsFrame(Line(sock)[i]) => Line(sock)[i].id <= token
      BY <1>1 DEF Kept, LineOK
    <3> HIDE DEF Line
    <3> QED BY <1>1, <3>2, <3>3
  <2> QED BY <1>1, <1>11, <2>1 DEF Kept, LineOK
<1>13. Keyed(q)
  BY <1>1, <1>7, <1>8, <1>9 DEF Kept, Keyed
<1>14. Numbered(q, t)
  BY <1>1, <1>9 DEF Kept, Numbered
<1>15. Waited(q)
  <2>1. \A key : HasRequest(sock, key) => HasRequest(q, key)
    BY <1>8, <1>9 DEF HasRequest
  <2> QED BY <1>1, <1>9, <2>1 DEF Kept, Waited
<1>16. Says(q, t, b)
  <2>1. Silent(Line(q), t)
    <3>1. \A i \in DOMAIN Line(sock) : IsFrame(Line(sock)[i]) => Line(sock)[i].id # t
      BY <1>1 DEF Kept, LineOK
    <3> QED BY <1>11, <3>1 DEF Silent, FrameFor
  <2>2. ~HasBarrier(q.queue, t)
    BY <1>1, <1>9 DEF Kept, Numbered, HasBarrier
  <2> QED BY <1>b, <2>1, <2>2 DEF Says, Early
<1>17. ASSUME NEW u \in DOMAIN bodies PROVE Says(q, u, bodies[u]) /\ u # t
  <2>1. Hears(sock, q, u)
    BY <1>9, <1>11, HearsSame
  <2>2. Says(sock, u, bodies[u])
    BY DEF DenseInv
  <2> QED BY <1>1, <2>1, <2>2 DEF Hears
<1>18. \A u \in DOMAIN bodies' : Says(q, u, bodies'[u])
  BY <1>c, <1>16, <1>17
<1>19. Kept(sock', token')
  BY <1>2, <1>3, <1>12, <1>13, <1>14, <1>15 DEF Kept
<1> HIDE DEF Kept, Says
<1> QED BY <1>3, <1>18, <1>19, DensePrimed

\* A connection that is lost, and one that is new.
LEMMA ClosedDense ==
  ASSUME IInv, DenseInv, NEW tl, Become(Closed(sock), bodies, tl), token' = token
  PROVE  DenseInv'
<1>1. Kept(Closed(sock), token)
  BY SockTyped, ClosedKept DEF DenseInv, Kept
<1>2. ~Closed(sock).open
  <2> DEFINE o == sock.out
  <2> HIDE DEF o
  <2>1. ~[EmptySocket EXCEPT !.open = FALSE, !.out = o].open
    BY DEF EmptySocket
  <2> QED BY <2>1 DEF Closed, o
<1>3. PICK q : q = Closed(sock)
  OBVIOUS
<1> QED BY <1>1, <1>2, <1>3, BecomeDense

LEMMA ConnectDense ==
  ASSUME DenseInv, Connect
  PROVE  DenseInv'
<1>1. sock' = EmptySocket /\ bodies' = bodies /\ token' = token
  BY DEF Connect
<1>2. PICK q : q = EmptySocket
  OBVIOUS
<1>3. q.out = <<>> /\ q.inflight = None /\ q.queue = <<>> /\ q.requests = <<>>
  BY <1>2 DEF EmptySocket
<1>a. <<>> \in Seq(Msg) /\ DOMAIN <<>> = {}
  OBVIOUS
<1>4. Line(q) = <<>>
  BY <1>3, <1>a, LineEmpty
<1>5. \A id : EventsOf(<<>>, id) = <<>>
  BY FlatMapEmpty DEF EventsOf
<1>6. Kept(q, token)
  <2>1. LineOK(<<>>, token)
    BY <1>5 DEF LineOK, Run, Ends
  <2> QED BY <1>3, <1>4, <2>1 DEF Kept, Keyed, Numbered, Waited
<1>7. ASSUME NEW t \in DOMAIN bodies PROVE Says(q, t, bodies[t])
  <2>1. Silent(<<>>, t) /\ Untold(<<>>, t) /\ ~HasBarrier(<<>>, t)
    BY <1>a DEF Silent, Untold, HasBarrier
  <2>2. Says(sock, t, bodies[t])
    BY DEF DenseInv
  <2> QED BY <1>3, <1>4, <1>5, <2>1, <2>2 DEF Says, Sends, Joins
<1>8. Kept(sock', token') /\ \A t \in DOMAIN bodies' : Says(sock', t, bodies'[t])
  BY <1>1, <1>2, <1>6, <1>7
<1> HIDE DEF Kept, Says
<1> QED BY <1>8, DensePrimed

LEMMA MicrotaskDense ==
  ASSUME IInv, OnceInv, DenseInv, Microtask
  PROVE  DenseInv'
BY AdmitDense, AdmitUnavailableDense, TakeSnapshotDense, PlanDense, SendNextDense, CloseDense, DrainTakeDense
   DEF Microtask

LEMMA SameDense ==
  ASSUME DenseInv, UNCHANGED <<sock, bodies, token>>
  PROVE  DenseInv'
<1>1. Kept(sock', token') /\ \A t \in DOMAIN bodies' : Says(sock', t, bodies'[t])
  BY DEF DenseInv
<1> QED BY <1>1, DensePrimed

\* Names used again, and messages of one state that overtake those of another.
Mixers == {"supersede", "register", "unsubscribe"}

LEMMA NextDense ==
  ASSUME Incidents \cap Mixers = {}, IInv, OnceInv, DenseInv, [CoordNext]_serverVars
  PROVE  DenseInv'
<1>1. "supersede" \notin Incidents /\ "register" \notin Incidents /\ "unsubscribe" \notin Incidents
  BY DEF Mixers
<1>2. CASE CoordNext
  <2>1. \/ Microtask \/ DrainSend \/ EventForward
        \/ \E m \in BrowserMessages : Subscribe(m)
        \/ \E ok \in BOOLEAN : LoadDone(ok)
        \/ Disconnect \/ ServerRestart \/ Connect
    BY <1>1, <1>2 DEF CoordNext
  <2>2. Disconnect \/ ServerRestart => DenseInv'
    BY ClosedDense DEF Disconnect, ServerRestart
  <2> QED BY <1>1, <2>1, <2>2, MicrotaskDense, DrainSendDense, EventForwardDense, SubscribeDense,
             LoadDoneDense, ConnectDense
<1>3. CASE UNCHANGED serverVars
  BY <1>3, SameDense DEF serverVars, coordVars
<1> QED BY <1>2, <1>3

-----------------------------------------------------------------------------
(* What a browser reads of the line: the frames of one answer. *)

\* What each element of es leaves in the sequence of those in S.
Keeping(kept, es, S, T) ==
  /\ kept \in [0..Len(es) -> Seq(T)] /\ kept[0] = <<>> /\ Those(es, S) = kept[Len(es)]
  /\ \A k \in 1..Len(es) : kept[k] = IF es[k] \in S THEN Append(kept[k - 1], es[k]) ELSE kept[k - 1]

LEMMA ThoseKept ==
  ASSUME NEW T, NEW es \in Seq(T), NEW S
  PROVE  \E kept : Keeping(kept, es, S, T)
<1> DEFINE n == Len(es)
           Add(x, i) == IF es[i] \in S THEN Append(x, es[i]) ELSE x
           step == [i \in 1..n |-> [x \in Seq(T) |-> Add(x, i)]]
           Loop(f) == f = [i \in 0..n |->
                             IF i = 0 THEN <<>>
                             ELSE IF es[i] \in S THEN Append(f[i - 1], es[i]) ELSE f[i - 1]]
           kept == CHOOSE f : Loop(f)
<1>1. n \in Nat /\ \A i \in 1..n : es[i] \in T
  OBVIOUS
<1>2. \A i \in 1..n, x \in Seq(T) : step[i][x] = Add(x, i) /\ Add(x, i) \in Seq(T)
  BY <1>1
<1>3. PICK f : Recursion(f, n, Seq(T), <<>>, step)
  <2> HIDE DEF step, n
  <2>1. Leads(step, n, Seq(T))
    BY <1>2, ZenonT(30) DEF Leads
  <2>2. <<>> \in Seq(T)
    OBVIOUS
  <2> QED BY <1>1, <2>1, <2>2, RecursionExists
<1> HIDE DEF step, n
<1>4. f \in [0..n -> Seq(T)] /\ f[0] = <<>> /\ \A i \in 1..n : f[i] = step[i][f[i - 1]]
  BY <1>3 DEF Recursion
<1>5. \A i \in 0..n : i # 0 => i \in 1..n /\ f[i - 1] \in Seq(T)
  BY <1>1, <1>4
<1>6. \A i \in 1..n : f[i - 1] \in Seq(T)
  BY <1>1, <1>4
<1>7. \A i \in 1..n : f[i] = IF es[i] \in S THEN Append(f[i - 1], es[i]) ELSE f[i - 1]
  BY <1>2, <1>4, <1>6
<1>8. Loop(f)
  BY <1>4, <1>5, <1>7
<1>9. Loop(kept)
  BY <1>8
<1>10. Those(es, S) = kept[n]
  BY DEF Those, n
<1> HIDE DEF kept
<1> DEFINE R == {i \in 0..n : kept[i] = f[i]}
<1>11. 0 \in R
  BY <1>1, <1>4, <1>9
<1>12. ASSUME NEW i \in 0..(n - 1), i \in R PROVE i + 1 \in R
  <2>1. i + 1 \in 0..n /\ i + 1 \in 1..n /\ i + 1 # 0 /\ (i + 1) - 1 = i
    BY <1>1
  <2>2. kept[i + 1] = IF es[i + 1] \in S THEN Append(kept[i], es[i + 1]) ELSE kept[i]
    BY <1>9, <2>1
  <2>3. f[i + 1] = IF es[i + 1] \in S THEN Append(f[i], es[i + 1]) ELSE f[i]
    BY <1>7, <2>1
  <2> QED BY <1>12, <2>1, <2>2, <2>3
<1>13. n \in R
  <2> HIDE DEF R
  <2>1. 0..n \subseteq R
    BY <1>1, <1>11, <1>12, UpTo
  <2> QED BY <1>1, <2>1
<1>14. Those(es, S) = f[n]
  BY <1>10, <1>13
<1>15. Keeping(f, es, S, T)
  BY <1>4, <1>7, <1>14 DEF Keeping, n
<1> QED BY <1>15

\* They keep their order.
InOrder(k, es, S, m) ==
  /\ \A j \in 1..Len(k) : \E b \in 1..m : k[j] = es[b] /\ es[b] \in S
  /\ \A i, j \in 1..Len(k) : i < j => \E a, b \in 1..m : a < b /\ k[i] = es[a] /\ k[j] = es[b]

LEMMA ThoseInOrder ==
  ASSUME NEW T, NEW es \in Seq(T), NEW S
  PROVE  Those(es, S) \in Seq(T) /\ InOrder(Those(es, S), es, S, Len(es))
<1> DEFINE n == Len(es)
<1>1. n \in Nat /\ \A i \in 1..n : es[i] \in T
  OBVIOUS
<1>2. PICK kept : Keeping(kept, es, S, T)
  BY ThoseKept
<1> HIDE DEF n
<1>3. /\ kept \in [0..n -> Seq(T)] /\ kept[0] = <<>> /\ Those(es, S) = kept[n]
      /\ \A k \in 1..n : kept[k] = IF es[k] \in S THEN Append(kept[k - 1], es[k]) ELSE kept[k - 1]
  BY <1>2 DEF Keeping, n
<1> DEFINE R == {i \in 0..n : InOrder(kept[i], es, S, i)}
<1>4. 0 \in R
  <2>1. 1..Len(kept[0]) = {} /\ 0 \in 0..n
    BY <1>1, <1>3
  <2> QED BY <2>1 DEF InOrder
<1>5. ASSUME NEW m \in 0..(n - 1), m \in R PROVE m + 1 \in R
  <2>1. m + 1 \in 0..n /\ m + 1 \in 1..n /\ (m + 1) - 1 = m /\ m \in 0..n
    BY <1>1
  <2>2. PICK k \in Seq(T), e \in T : k = kept[m] /\ e = es[m + 1]
    BY <1>1, <1>3, <2>1
  <2>3. InOrder(k, es, S, m)
    BY <1>5, <2>2
  <2>4. \A b \in 1..m : b \in 1..(m + 1) /\ b < m + 1
    BY <2>1
  <2>5. CASE e \notin S
    <3>1. kept[m + 1] = k
      BY <1>3, <2>1, <2>2, <2>5
    <3>2. InOrder(k, es, S, m + 1)
      BY <2>3, <2>4 DEF InOrder
    <3> QED BY <2>1, <3>1, <3>2
  <2>6. CASE e \in S
    <3> DEFINE l == Append(k, e)
    <3>1. kept[m + 1] = l
      BY <1>3, <2>1, <2>2, <2>6
    <3>2. /\ Len(k) \in Nat /\ Len(l) = Len(k) + 1 /\ l[Len(k) + 1] = e
          /\ \A j \in 1..Len(k) : l[j] = k[j]
      BY AppendProperties, LenProperties
    <3> HIDE DEF l
    <3>3. \A j \in 1..Len(l) : j \in 1..Len(k) \/ j = Len(k) + 1
      BY <3>2
    <3>4. m + 1 \in 1..(m + 1) /\ es[m + 1] = e
      BY <2>1, <2>2
    <3>5. ASSUME NEW j \in 1..Len(l) PROVE \E b \in 1..(m + 1) : l[j] = es[b] /\ es[b] \in S
      <4>1. CASE j \in 1..Len(k)
        BY <2>3, <2>4, <3>2, <4>1, SMTT(30) DEF InOrder
      <4>2. CASE j = Len(k) + 1
        BY <2>6, <3>2, <3>4, <4>2
      <4> QED BY <3>3, <4>1, <4>2
    <3>6. ASSUME NEW i \in 1..Len(l), NEW j \in 1..Len(l), i < j
          PROVE  \E a, b \in 1..(m + 1) : a < b /\ l[i] = es[a] /\ l[j] = es[b]
      <4>0. i \in 1..Len(k)
        <5>1. Len(k) \in Nat /\ Len(l) = Len(k) + 1
          BY <3>2
        <5>2. i \in 1..Len(l) /\ j \in 1..Len(l) /\ i < j
          BY <3>6
        <5> QED BY <5>1, <5>2
      <4>1. CASE j \in 1..Len(k)
        <5>1. i < j
          BY <3>6
        <5>2. PICK a \in 1..m, b \in 1..m : a < b /\ k[i] = es[a] /\ k[j] = es[b]
          BY <2>3, <4>0, <4>1, <5>1 DEF InOrder
        <5>3. l[i] = k[i] /\ l[j] = k[j]
          BY <3>2, <4>0, <4>1
        <5>4. a \in 1..(m + 1) /\ b \in 1..(m + 1)
          BY <2>4, <5>2
        <5> QED BY <5>2, <5>3, <5>4
      <4>2. CASE j = Len(k) + 1
        <5>1. PICK a \in 1..m : k[i] = es[a]
          BY <2>3, <4>0 DEF InOrder
        <5> QED BY <2>4, <3>2, <3>4, <4>0, <4>2, <5>1
      <4> QED BY <3>3, <4>1, <4>2
    <3>7. InOrder(l, es, S, m + 1)
      BY <3>5, <3>6 DEF InOrder
    <3> QED BY <2>1, <3>1, <3>7
  <2> QED BY <2>5, <2>6
<1>6. n \in R
  <2> HIDE DEF R
  <2>1. 0..n \subseteq R
    BY <1>1, <1>4, <1>5, UpTo
  <2> QED BY <1>1, <2>1
<1>7. Those(es, S) = kept[n] /\ kept[n] \in Seq(T)
  BY <1>1, <1>3
<1> QED BY <1>6, <1>7 DEF n

\* What those that are left out would add is nothing.
LEMMA ThoseFlat ==
  ASSUME NEW T, NEW E, NEW F, Turns(F, T, E), NEW es \in Seq(T), NEW S,
         \A i \in DOMAIN es : es[i] \notin S => F[es[i]] = <<>>
  PROVE  FlatMap(F, Those(es, S)) = FlatMap(F, es)
<1> DEFINE n == Len(es)
<1>1. n \in Nat /\ \A i \in 1..n : es[i] \in T /\ (es[i] \notin S => F[es[i]] = <<>>)
  OBVIOUS
<1>2. PICK kept : Keeping(kept, es, S, T)
  BY ThoseKept
<1>3. PICK f : Grown(f, F, es, E)
  BY FlatMapSums
<1> HIDE DEF n
<1>4. /\ kept \in [0..n -> Seq(T)] /\ kept[0] = <<>> /\ Those(es, S) = kept[n]
      /\ \A k \in 1..n : kept[k] = IF es[k] \in S THEN Append(kept[k - 1], es[k]) ELSE kept[k - 1]
  BY <1>2 DEF Keeping, n
<1>5. /\ f \in [0..n -> Seq(E)] /\ f[0] = <<>> /\ FlatMap(F, es) = f[n]
      /\ \A k \in 1..n : f[k] = f[k - 1] \o F[es[k]]
  BY <1>3 DEF Grown, n
<1> DEFINE R == {i \in 0..n : FlatMap(F, kept[i]) = f[i]}
<1>6. 0 \in R
  <2>1. FlatMap(F, kept[0]) = f[0] /\ 0 \in 0..n
    BY <1>1, <1>4, <1>5, FlatMapEmpty
  <2> QED BY <2>1
<1>7. ASSUME NEW m \in 0..(n - 1), m \in R PROVE m + 1 \in R
  <2>1. m + 1 \in 0..n /\ m + 1 \in 1..n /\ (m + 1) - 1 = m /\ m \in 0..n
    BY <1>1
  <2>2. PICK k \in Seq(T), e \in T, g \in Seq(E) : k = kept[m] /\ e = es[m + 1] /\ g = f[m]
    BY <1>1, <1>4, <1>5, <2>1
  <2>3. FlatMap(F, k) = g /\ f[m + 1] = g \o F[e]
    BY <1>5, <1>7, <2>1, <2>2
  <2>4. CASE e \notin S
    <3>1. kept[m + 1] = k /\ F[e] = <<>>
      BY <1>1, <1>4, <2>1, <2>2, <2>4
    <3>2. g \o <<>> = g
      BY ConcatEmptySeq
    <3> QED BY <2>1, <2>3, <3>1, <3>2
  <2>5. CASE e \in S
    <3>1. kept[m + 1] = Append(k, e)
      BY <1>4, <2>1, <2>2, <2>5
    <3>2. FlatMap(F, Append(k, e)) = FlatMap(F, k) \o F[e]
      BY FlatMapAppend
    <3> QED BY <2>1, <2>3, <3>1, <3>2
  <2> QED BY <2>4, <2>5
<1>8. n \in R
  <2> HIDE DEF R
  <2>1. 0..n \subseteq R
    BY <1>1, <1>6, <1>7, UpTo
  <2> QED BY <1>1, <2>1
<1> QED BY <1>4, <1>5, <1>8

LEMMA DenseAnswers == IInv /\ DenseInv => AnswersAreDense
<1> SUFFICES ASSUME IInv, DenseInv, NEW id \in 1..token
             PROVE  LET fs == FramesOf(id)
                        es == FlattenSeq([i \in DOMAIN fs |-> fs[i].events])
                    IN  /\ \A i \in DOMAIN fs : \A j \in 1..(i - 1) : fs[j].last => fs[i].error
                        /\ \A i \in 1..(Len(es) - 1) : es[i + 1].seq = es[i].seq + 1
  BY DEF AnswersAreDense
<1>1. token \in Nat /\ id \in Nat \ {0} /\ sock \in SocketType
  BY SockTyped DEF IInv, SocketInv
<1>2. PICK o \in Seq(Msg), h \in Seq(Msg), f \in Seq(Msg) :
        o = sock.out /\ h = Hand(sock) /\ f = FlatMap(Spoken, sock.queue)
  BY <1>1, LineOf
<1>3. LineOK(o, token)
  <2>1. LineOK((o \o h) \o f, token) /\ o \o h \in Seq(Msg)
    BY <1>2 DEF DenseInv, Kept, Line
  <2>2. LineOK(o \o h, token)
    BY <1>2, <2>1, LineBreaksOff
  <2> QED BY <2>2, LineBreaksOff
<1>4. Run(EventsOf(o, id)) /\ Ends(o, id)
  BY <1>1, <1>3 DEF LineOK
<1> DEFINE S == {m \in Range(o) : IsFrame(m) /\ m.id = id}
           fs == FramesOf(id)
<1>5. fs = Those(o, S)
  BY <1>2 DEF FramesOf, Out
<1>6. fs \in Seq(Msg) /\ InOrder(fs, o, S, Len(o))
  <2> HIDE DEF S, fs
  <2> QED BY <1>5, ThoseInOrder
<1>7. \A i \in DOMAIN fs : FrameFor(fs[i], id) /\ fs[i] \in Msg
  <2>1. \A m \in S : FrameFor(m, id)
    BY DEF FrameFor
  <2> HIDE DEF S, fs
  <2> SUFFICES ASSUME NEW i \in DOMAIN fs PROVE FrameFor(fs[i], id) /\ fs[i] \in Msg
    OBVIOUS
  <2>2. i \in 1..Len(fs) /\ fs[i] \in Msg
    BY <1>6
  <2>3. PICK b \in 1..Len(o) : fs[i] = o[b] /\ o[b] \in S
    BY <1>6, <2>2 DEF InOrder
  <2> QED BY <2>1, <2>2, <2>3
<1>8. \A i \in DOMAIN o : o[i] \notin S => ~FrameFor(o[i], id)
  BY DEF FrameFor, Range
<1> HIDE DEF S, fs
<1>9. ASSUME NEW i \in DOMAIN fs, NEW j \in 1..(i - 1), fs[j].last PROVE fs[i].error
  <2>1. i \in 1..Len(fs) /\ j \in 1..Len(fs) /\ j < i
    BY <1>6, <1>9
  <2>2. PICK a \in 1..Len(o), b \in 1..Len(o) : a < b /\ fs[j] = o[a] /\ fs[i] = o[b]
    BY <1>6, <2>1 DEF InOrder
  <2>3. FrameFor(o[b], id) /\ Concludes(o[a], id) /\ b \in DOMAIN o /\ a \in 1..(b - 1)
    BY <1>2, <1>6, <1>7, <1>9, <2>1, <2>2, SMTT(30) DEF FrameFor, Concludes
  <2> QED BY <1>4, <2>2, <2>3 DEF Ends
<1> DEFINE F == EventsFor(id)
<1>10. FlattenSeq([i \in DOMAIN fs |-> fs[i].events]) = EventsOf(o, id)
  <2>1. Turns(F, Msg, Event)
    BY EventsTurns
  <2>2. \A i \in DOMAIN o : o[i] \notin S => F[o[i]] = <<>>
    <3>1. \A i \in DOMAIN o : o[i] \in Msg
      OBVIOUS
    <3> QED BY <1>8, <3>1 DEF EventsFor
  <2>3. \A i \in DOMAIN fs : F[fs[i]] = fs[i].events
    BY <1>7 DEF EventsFor
  <2> HIDE DEF F
  <2>4. FlatMap(F, Those(o, S)) = FlatMap(F, o)
    BY <2>1, <2>2, ThoseFlat
  <2>5. Mapped(F, fs) = [i \in DOMAIN fs |-> fs[i].events]
    BY <2>3 DEF Mapped
  <2> QED BY <1>5, <2>4, <2>5 DEF FlatMap, EventsOf, F
<1>11. \A i \in 1..(Len(EventsOf(o, id)) - 1) : EventsOf(o, id)[i + 1].seq = EventsOf(o, id)[i].seq + 1
  BY <1>4 DEF Run
<1> QED BY <1>9, <1>10, <1>11 DEF fs

LEMMA InitDense == CoordInit => DenseInv
<1> SUFFICES ASSUME CoordInit PROVE DenseInv
  OBVIOUS
<1>1. /\ sock.out = <<>> /\ sock.inflight = None /\ sock.queue = <<>> /\ sock.requests = <<>>
      /\ DOMAIN bodies = {}
  BY DEF CoordInit, EmptySocket, Empty
<1>2. <<>> \in Seq(Msg) /\ DOMAIN <<>> = {}
  OBVIOUS
<1>3. Line(sock) = <<>>
  BY <1>1, <1>2, LineEmpty
<1>4. \A id : EventsOf(<<>>, id) = <<>>
  BY FlatMapEmpty DEF EventsOf
<1>5. LineOK(<<>>, token)
  BY <1>4 DEF LineOK, Run, Ends
<1> QED BY <1>1, <1>3, <1>5 DEF DenseInv, Kept, Keyed, Numbered, Waited

\* The frames that answer a request are one dense run of events, and nothing
\* but an error follows its terminal: what deliverRequestBody sends frame by frame,
\* what waits for a congested socket and what queueOverflow sends past it are
\* one answer - over restarts, lost connections, failed loads, messages lost
\* past the queue and full queues.  Assumed is that no request reads the session
\* file for older history, so that its snapshot is the store as it is, and that
\* no name is used again and no registration or unsubscribe lets the messages
\* of one state go between those of another.
THEOREM AnswersAreRuns ==
  ASSUME Unpaged, Incidents \cap Mixers = {}
  PROVE  CoordSpec => []AnswersAreDense
<1>1. CoordInit => IInv /\ OnceInv /\ DenseInv
  BY InitHolds, InitOnce, InitDense
<1>2. (IInv /\ OnceInv /\ DenseInv) /\ [CoordNext]_serverVars => (IInv /\ OnceInv /\ DenseInv)'
  <2> SUFFICES ASSUME IInv, OnceInv, DenseInv, [CoordNext]_serverVars PROVE IInv' /\ OnceInv' /\ DenseInv'
    OBVIOUS
  <2>1. "unsubscribe" \notin Incidents
    BY DEF Mixers
  <2> QED BY <2>1, NextHolds, NextOnce, NextDense
<1> QED BY <1>1, <1>2, DenseAnswers, PTL DEF CoordSpec
-----------------------------------------------------------------------------
(* Where the live stream goes on.  The news on a line is what its messages *)
(* tell a browser of new events; a live event on it follows the news       *)
(* before it.                                                              *)

NewsOf == [m \in Msg |-> News(m)]
NewsOn(L) == FlatMap(NewsOf, L)

\* The newest of es is event n, if there is any.
Reaches(es, n) == es # <<>> => es[Len(es)].seq = n
Follows(L) ==
  \A j \in DOMAIN L : L[j].type = "event" =>
    Reaches(NewsOn(SubSeq(L, 1, j - 1)), L[j].entry.seq - 1)

LEMMA NewsTurns == Turns(NewsOf, Msg, Event)
<1>1. ASSUME NEW m \in Msg PROVE News(m) \in Seq(Event)
  <2>1. CASE m.type = "event"
    <3>1. m.entry \in Event
      BY <2>1 DEF Msg
    <3>2. News(m) = <<m.entry>>
      BY <2>1 DEF News, IsFrame
    <3> QED BY <3>1, <3>2
  <2>2. CASE m.type # "event" /\ IsFrame(m) /\ m.kind # "older"
    <3>1. m.events \in Seq(Event)
      BY <2>2, MsgEvents
    <3> QED BY <2>2, <3>1 DEF News
  <2>3. CASE m.type # "event" /\ ~(IsFrame(m) /\ m.kind # "older")
    BY <2>3 DEF News
  <2> QED BY <2>1, <2>2, <2>3
<1> QED BY <1>1 DEF Turns, NewsOf

LEMMA NewsConcat ==
  ASSUME NEW L \in Seq(Msg), NEW ms \in Seq(Msg)
  PROVE  /\ NewsOn(L) \in Seq(Event) /\ NewsOn(ms) \in Seq(Event)
         /\ NewsOn(L \o ms) = NewsOn(L) \o NewsOn(ms)
<1>1. PICK F : F = NewsOf /\ Turns(F, Msg, Event)
  BY NewsTurns
<1>c. Turns(F, Msg, Event)
  BY <1>1
<1>2. FlatMap(F, L) \in Seq(Event) /\ FlatMap(F, L \o ms) = FlatMap(F, L) \o FlatMap(F, ms)
  BY <1>c, FlatMapConcat
<1>3. FlatMap(F, ms) \in Seq(Event)
  BY <1>c, FlatMapConcat
<1> QED BY <1>1, <1>2, <1>3 DEF NewsOn

LEMMA NewsOne ==
  ASSUME NEW m \in Msg
  PROVE  NewsOn(<<m>>) = News(m) /\ News(m) \in Seq(Event)
<1>1. PICK F : F = NewsOf /\ Turns(F, Msg, Event)
  BY NewsTurns
<1>2. FlatMap(F, <<m>>) = F[m] /\ F[m] = News(m)
  BY <1>1, FlatMapOne DEF NewsOf
<1>3. F[m] \in Seq(Event)
  BY <1>1 DEF Turns
<1> QED BY <1>1, <1>2, <1>3 DEF NewsOn

LEMMA NewsNone == NewsOn(<<>>) = <<>>
BY FlatMapEmpty DEF NewsOn

LEMMA ReachesConcat ==
  ASSUME NEW es \in Seq(Event), NEW fs \in Seq(Event), NEW n
  PROVE  /\ fs = <<>> => (Reaches(es \o fs, n) <=> Reaches(es, n))
         /\ fs # <<>> => (Reaches(es \o fs, n) <=> Reaches(fs, n))
<1> DEFINE k == es \o fs
<1>1. ASSUME fs = <<>> PROVE k = es
  BY <1>1, ConcatEmptySeq
<1>2. ASSUME fs # <<>> PROVE k # <<>> /\ k[Len(k)] = fs[Len(fs)]
  <2>1. /\ Len(k) = Len(es) + Len(fs) /\ Len(es) \in Nat /\ Len(fs) \in Nat
        /\ \A j \in DOMAIN fs : k[Len(es) + j] = fs[j]
    BY ConcatParts, ConcatProperties
  <2>2. Len(fs) \in DOMAIN fs /\ Len(fs) > 0
    BY <1>2
  <2>3. k[Len(k)] = fs[Len(fs)] /\ Len(k) > 0
    BY <2>1, <2>2
  <2> HIDE DEF k
  <2>4. Len(<<>>) = 0
    OBVIOUS
  <2> QED BY <2>3, <2>4
<1> HIDE DEF k
<1> QED BY <1>1, <1>2 DEF Reaches, k

\* A beginning of a sequence.
LEMMA HeadOf ==
  ASSUME NEW T, NEW s \in Seq(T), NEW n \in Nat, n <= Len(s)
  PROVE  /\ SubSeq(s, 1, n) \in Seq(T) /\ Len(SubSeq(s, 1, n)) = n
         /\ \A i \in 1..n : SubSeq(s, 1, n)[i] = s[i]
<1>1. PICK k : k = SubSeq(s, 1, n)
  OBVIOUS
<1>2. 1 \in Nat \ {0}
  OBVIOUS
<1>3. /\ k \in Seq(T) /\ Len(k) = IF 1 <= n THEN n - 1 + 1 ELSE 0
      /\ \A i \in 1..Len(k) : k[i] = s[1 + i - 1]
  BY <1>1, <1>2, SubSeqOf
<1>4. Len(k) = n
  BY <1>3
<1>5. \A i \in 1..n : 1 + i - 1 = i
  OBVIOUS
<1>6. \A i \in 1..n : k[i] = s[i]
  BY <1>3, <1>4, <1>5
<1> QED BY <1>1, <1>3, <1>4, <1>6

\* The beginnings of a concatenation.
LEMMA Beginnings ==
  ASSUME NEW T, NEW p \in Seq(T), NEW q \in Seq(T)
  PROVE  /\ \A j \in 1..Len(p) : SubSeq(p \o q, 1, j - 1) = SubSeq(p, 1, j - 1)
         /\ \A k \in 1..Len(q) : SubSeq(p \o q, 1, Len(p) + k - 1) = p \o SubSeq(q, 1, k - 1)
<1>1. PICK r \in Seq(T) : r = p \o q
  BY ConcatParts
<1>2. /\ Len(r) = Len(p) + Len(q) /\ Len(p) \in Nat /\ Len(q) \in Nat
      /\ \A i \in 1..(Len(p) + Len(q)) : r[i] = IF i <= Len(p) THEN p[i] ELSE q[i - Len(p)]
  BY <1>1, ConcatProperties
<1>3. ASSUME NEW j \in 1..Len(p) PROVE SubSeq(r, 1, j - 1) = SubSeq(p, 1, j - 1)
  <2>1. PICK n \in Nat : n = j - 1 /\ n <= Len(p) /\ n <= Len(r)
    BY <1>2
  <2>2. PICK a, b : a = SubSeq(r, 1, n) /\ b = SubSeq(p, 1, n)
    OBVIOUS
  <2>3. a \in Seq(T) /\ Len(a) = n /\ \A i \in 1..n : a[i] = r[i]
    BY <2>1, <2>2, HeadOf
  <2>4. b \in Seq(T) /\ Len(b) = n /\ \A i \in 1..n : b[i] = p[i]
    BY <2>1, <2>2, HeadOf
  <2>5. Len(a) = n /\ Len(b) = n
    BY <2>1, <2>3, <2>4
  <2>6. \A i \in 1..n : i <= Len(p) /\ i \in 1..(Len(p) + Len(q))
    BY <1>2, <2>1
  <2>7. \A i \in 1..n : a[i] = b[i]
    BY <1>2, <2>3, <2>4, <2>5, <2>6
  <2>8. a = b
    BY <2>3, <2>4, <2>5, <2>7
  <2> QED BY <2>1, <2>2, <2>8
<1>4. ASSUME NEW k \in 1..Len(q) PROVE SubSeq(r, 1, Len(p) + k - 1) = p \o SubSeq(q, 1, k - 1)
  <2>1. PICK n \in Nat, m \in Nat : /\ m = k - 1 /\ n = Len(p) + k - 1 /\ n = Len(p) + m
                                    /\ m <= Len(q) /\ n <= Len(r)
    <3>1. /\ k - 1 \in Nat /\ Len(p) + k - 1 \in Nat /\ Len(p) + k - 1 = Len(p) + (k - 1)
          /\ k - 1 <= Len(q) /\ Len(p) + k - 1 <= Len(r)
      BY <1>2
    <3> QED BY <3>1, Zenon
  <2>2. PICK a, b : a = SubSeq(r, 1, n) /\ b = SubSeq(q, 1, m)
    OBVIOUS
  <2>3. a \in Seq(T) /\ Len(a) = n /\ \A i \in 1..n : a[i] = r[i]
    BY <2>1, <2>2, HeadOf
  <2>4. b \in Seq(T) /\ Len(b) = m /\ \A i \in 1..m : b[i] = q[i]
    BY <2>1, <2>2, HeadOf
  <2>5. Len(a) = n /\ Len(b) = m
    BY <2>1, <2>3, <2>4
  <2>6. PICK c \in Seq(T) : c = p \o b
    BY <2>4, ConcatParts
  <2>7. /\ Len(c) = Len(p) + Len(b)
        /\ \A i \in 1..(Len(p) + Len(b)) : c[i] = IF i <= Len(p) THEN p[i] ELSE b[i - Len(p)]
    BY <2>4, <2>6, ConcatProperties
  <2>8. ASSUME NEW i \in 1..n PROVE a[i] = c[i]
    <3>1. i \in 1..(Len(p) + Len(q)) /\ i \in 1..(Len(p) + Len(b)) /\ i \in 1..Len(a)
      BY <1>2, <2>1, <2>5
    <3>2. a[i] = IF i <= Len(p) THEN p[i] ELSE q[i - Len(p)]
      BY <1>2, <2>3, <3>1
    <3>3. c[i] = IF i <= Len(p) THEN p[i] ELSE b[i - Len(p)]
      BY <2>7, <3>1
    <3>4. ASSUME ~(i <= Len(p)) PROVE b[i - Len(p)] = q[i - Len(p)]
      <4>1. i - Len(p) \in 1..Len(b)
        BY <1>2, <2>1, <2>5, <3>4
      <4> QED BY <2>4, <2>5, <4>1
    <3> QED BY <3>2, <3>3, <3>4
  <2>9. Len(c) = n
    BY <2>1, <2>5, <2>7
  <2>a. a \in Seq(T) /\ c \in Seq(T) /\ Len(a) = n /\ Len(c) = n /\ \A i \in 1..n : a[i] = c[i]
    BY <2>3, <2>5, <2>6, <2>8, <2>9
  <2>10. a = c
    BY <2>a
  <2> QED BY <2>1, <2>2, <2>6, <2>10
<1> QED BY <1>1, <1>3, <1>4

\* A line that goes on, and one that is broken off.
LEMMA FollowsConcat ==
  ASSUME NEW L \in Seq(Msg), NEW ms \in Seq(Msg), Follows(L),
         \A k \in DOMAIN ms : ms[k].type = "event" =>
           Reaches(NewsOn(L) \o NewsOn(SubSeq(ms, 1, k - 1)), ms[k].entry.seq - 1)
  PROVE  Follows(L \o ms)
<1>1. PICK K \in Seq(Msg) : K = L \o ms
  BY ConcatParts
<1>2. \A i \in DOMAIN K : \/ i \in DOMAIN L /\ K[i] = L[i]
                          \/ \E j \in DOMAIN ms : i = Len(L) + j /\ K[i] = ms[j]
  BY <1>1, ConcatParts
<1>3. /\ \A j \in 1..Len(L) : SubSeq(K, 1, j - 1) = SubSeq(L, 1, j - 1)
      /\ \A k \in 1..Len(ms) : SubSeq(K, 1, Len(L) + k - 1) = L \o SubSeq(ms, 1, k - 1)
  BY <1>1, Beginnings, SMTT(30)
<1>4. DOMAIN L = 1..Len(L) /\ DOMAIN ms = 1..Len(ms) /\ Len(L) \in Nat /\ Len(ms) \in Nat
  OBVIOUS
<1>5. SUFFICES ASSUME NEW i \in DOMAIN K, K[i].type = "event"
               PROVE  Reaches(NewsOn(SubSeq(K, 1, i - 1)), K[i].entry.seq - 1)
  BY <1>1 DEF Follows
<1>6. CASE i \in DOMAIN L /\ K[i] = L[i]
  <2>1. SubSeq(K, 1, i - 1) = SubSeq(L, 1, i - 1)
    BY <1>3, <1>4, <1>6
  <2>2. Reaches(NewsOn(SubSeq(L, 1, i - 1)), L[i].entry.seq - 1)
    BY <1>5, <1>6 DEF Follows
  <2> QED BY <1>6, <2>1, <2>2
<1>7. CASE \E j \in DOMAIN ms : i = Len(L) + j /\ K[i] = ms[j]
  <2>1. PICK j \in DOMAIN ms : i = Len(L) + j /\ K[i] = ms[j]
    BY <1>7
  <2>a. i - 1 = Len(L) + j - 1 /\ j \in 1..Len(ms)
    BY <1>4, <2>1
  <2>b. SubSeq(K, 1, Len(L) + j - 1) = L \o SubSeq(ms, 1, j - 1)
    BY <1>3, <2>a
  <2>2. SubSeq(K, 1, i - 1) = L \o SubSeq(ms, 1, j - 1)
    BY <2>a, <2>b
  <2>3. j - 1 \in Nat /\ j - 1 <= Len(ms) /\ 1 \in Nat \ {0}
    BY <1>4
  <2>4. PICK k \in Seq(Msg) : k = SubSeq(ms, 1, j - 1)
    BY <2>3, SubSeqOf
  <2>5. NewsOn(L \o k) = NewsOn(L) \o NewsOn(k)
    BY NewsConcat
  <2>6. Reaches(NewsOn(L) \o NewsOn(SubSeq(ms, 1, j - 1)), ms[j].entry.seq - 1)
    BY <1>5, <2>1
  <2> QED BY <2>1, <2>2, <2>4, <2>5, <2>6
<1> QED BY <1>2, <1>6, <1>7

LEMMA FollowsQuiet ==
  ASSUME NEW L \in Seq(Msg), NEW ms \in Seq(Msg), Follows(L), \A k \in DOMAIN ms : ms[k].type # "event"
  PROVE  Follows(L \o ms)
BY FollowsConcat

LEMMA FollowsBreaksOff ==
  ASSUME NEW L \in Seq(Msg), NEW ms \in Seq(Msg), Follows(L \o ms)
  PROVE  Follows(L)
<1>1. PICK K \in Seq(Msg) : K = L \o ms
  BY ConcatParts
<1>2. \A i \in DOMAIN L : i \in DOMAIN K /\ K[i] = L[i]
  BY <1>1, ConcatParts
<1>3. \A j \in 1..Len(L) : SubSeq(K, 1, j - 1) = SubSeq(L, 1, j - 1)
  BY <1>1, Beginnings
<1>4. DOMAIN L = 1..Len(L)
  OBVIOUS
<1>5. Follows(K)
  BY <1>1
<1> QED BY <1>2, <1>3, <1>4, <1>5 DEF Follows

\* Live events, one after the other, behind a line that has reached n.
LEMMA FollowsLives ==
  ASSUME NEW L \in Seq(Msg), Follows(L), NEW n \in Int, Reaches(NewsOn(L), n),
         NEW es \in Seq(Event), \A i \in DOMAIN es : es[i].seq = n + i,
         NEW ms \in Seq(Msg), Len(ms) = Len(es), \A i \in DOMAIN es : ms[i] = Live(es[i])
  PROVE  Follows(L \o ms) /\ Reaches(NewsOn(L \o ms), n + Len(es))
<1>1. /\ DOMAIN es = 1..Len(es) /\ DOMAIN ms = 1..Len(es) /\ Len(es) \in Nat
      /\ \A i \in 1..Len(es) : es[i] \in Event /\ es[i].seq = n + i /\ ms[i] = Live(es[i])
  OBVIOUS
<1>2. \A i \in 1..Len(es) : NewsOf[ms[i]] = <<es[i]>> /\ ms[i].type = "event" /\ ms[i].entry = es[i] /\ ms[i] \in Msg
  <2>1. \A e \in Event : /\ Live(e) \in Msg /\ News(Live(e)) = <<e>> /\ Live(e).type = "event" /\ Live(e).entry = e
    BY DEF Live, Msg, News, IsFrame
  <2> QED BY <1>1, <2>1 DEF NewsOf
<1>3. ASSUME NEW k \in 0..Len(es)
      PROVE  /\ Reaches(NewsOn(L) \o NewsOn(SubSeq(ms, 1, k)), n + k)
             /\ SubSeq(ms, 1, k) \in Seq(Msg)
  <2>1. k \in Nat /\ k <= Len(ms) /\ k <= Len(es) /\ 1 \in Nat \ {0}
    BY <1>1
  <2>2. PICK a, b : a = SubSeq(ms, 1, k) /\ b = SubSeq(es, 1, k)
    OBVIOUS
  <2>3. /\ a \in Seq(Msg) /\ Len(a) = (IF 1 <= k THEN k - 1 + 1 ELSE 0)
        /\ \A i \in 1..Len(a) : a[i] = ms[1 + i - 1]
    BY <2>1, <2>2, SubSeqOf
  <2>4. /\ b \in Seq(Event) /\ Len(b) = (IF 1 <= k THEN k - 1 + 1 ELSE 0)
        /\ \A i \in 1..Len(b) : b[i] = es[1 + i - 1]
    BY <2>1, <2>2, SubSeqOf
  <2>5. Len(a) = k /\ Len(b) = k
    BY <2>1, <2>3, <2>4
  <2>6. \A i \in 1..k : 1 + i - 1 = i /\ i \in 1..Len(es)
    BY <1>1, <2>1
  <2>7. \A i \in DOMAIN a : NewsOf[a[i]] = <<b[i]>>
    <3>1. DOMAIN a = 1..k
      BY <2>3, <2>5
    <3>2. ASSUME NEW i \in 1..k PROVE NewsOf[a[i]] = <<b[i]>>
      <4>1. a[i] = ms[i] /\ b[i] = es[i] /\ i \in 1..Len(es)
        BY <2>3, <2>4, <2>5, <2>6
      <4> QED BY <1>2, <4>1
    <3> QED BY <3>1, <3>2
  <2>8. NewsOn(a) = b
    <3>1. PICK F : F = NewsOf /\ Turns(F, Msg, Event)
      BY NewsTurns
    <3>2. \A i \in DOMAIN a : F[a[i]] = <<b[i]>>
      BY <2>7, <3>1
    <3>a. Turns(F, Msg, Event) /\ Len(b) = Len(a)
      BY <2>5, <3>1
    <3>3. FlatMap(F, a) = b
      BY <2>3, <2>4, <3>2, <3>a, FlatMapSingles
    <3> QED BY <3>1, <3>3 DEF NewsOn
  <2>9. PICK N \in Seq(Event) : N = NewsOn(L)
    BY NewsConcat
  <2>10. Reaches(N \o b, n + k)
    <3>1. CASE k = 0
      <4>1. b = <<>>
        BY <2>4, <2>5, <3>1
      <4>2. Reaches(N, n + k)
        BY <2>9, <3>1
      <4> QED BY <2>4, <4>1, <4>2, ReachesConcat
    <3>2. CASE k > 0
      <4>1. b # <<>> /\ k \in 1..k
        BY <2>1, <2>4, <2>5, <3>2
      <4>2. b[k] = es[k] /\ es[k].seq = n + k
        BY <1>1, <2>4, <2>5, <2>6, <4>1
      <4>3. Reaches(b, n + k)
        BY <2>5, <4>2 DEF Reaches
      <4> QED BY <2>4, <4>1, <4>3, ReachesConcat
    <3> QED BY <2>1, <3>1, <3>2
  <2> QED BY <2>2, <2>3, <2>8, <2>9, <2>10
<1>4. ASSUME NEW k \in DOMAIN ms, ms[k].type = "event"
      PROVE  Reaches(NewsOn(L) \o NewsOn(SubSeq(ms, 1, k - 1)), ms[k].entry.seq - 1)
  <2>1. k - 1 \in 0..Len(es) /\ k \in 1..Len(es)
    BY <1>1
  <2>2. ms[k].entry.seq - 1 = n + (k - 1)
    <3>1. ms[k].entry.seq = n + k
      BY <1>1, <1>2, <2>1
    <3> QED BY <2>1, <3>1
  <2> QED BY <1>3, <2>1, <2>2
<1>5. Follows(L \o ms)
  BY <1>4, FollowsConcat
<1>6. Reaches(NewsOn(L \o ms), n + Len(es))
  <2>1. Len(es) \in 0..Len(es)
    BY <1>1
  <2>2. SubSeq(ms, 1, Len(es)) = ms
    BY <1>1
  <2>3. NewsOn(L \o ms) = NewsOn(L) \o NewsOn(ms)
    BY NewsConcat
  <2> QED BY <1>3, <2>1, <2>2, <2>3
<1> QED BY <1>5, <1>6
\* The newest event of the line once what is owed to it has been sent: what is
\* held back comes next.
Ready(s, h) == h - Len(s.pendingLive)

\* A body that is going to send events of the present, and one that has them.
Due(b) == b.phase = "sending" /\ b.kind # "older" /\ b.batches # <<>>
Owing(b) == (b.kind # "older" /\ b.phase \in Early) \/ Due(b)
LastReaches(batches, n) ==
  LET last == batches[Len(batches)] IN last # <<>> /\ last[Len(last)].seq = n

\* What is held back, what a body is going to send, and the line where no body
\* is to send any more, lead up to the store's newest event.
Level(s, bs, h) ==
  /\ Ready(s, h) \in Nat
  /\ \A i \in DOMAIN s.pendingLive : s.pendingLive[i].seq = Ready(s, h) + i
  /\ \A t \in DOMAIN bs : Due(bs[t]) => LastReaches(bs[t].batches, Ready(s, h))
  /\ (\A t \in DOMAIN bs : ~Owing(bs[t])) => Reaches(NewsOn(Line(s)), Ready(s, h))

\* A body that is not through has its request, one that is has its barrier
\* ahead of it, and only the first of the tail sends.
Sorted(s, bs, tl) ==
  /\ \A t \in DOMAIN bs :
       /\ bs[t].kind # "delta" /\ bs[t].phase \in {"hydrated", "waiting", "loaded", "sending", "closing"}
       /\ bs[t].phase # "closing" => Active(s, t)
       /\ bs[t].phase \in {"sending", "closing"} => tl # <<>> /\ t = Head(tl)
       /\ \A i \in DOMAIN s.requests :
            s.requests[i].token = t => (s.requests[i].kind = "older" <=> bs[t].kind = "older")
  /\ \A t : HasBarrier(s.queue, t) => t \in DOMAIN bs /\ bs[t].phase = "closing"
  /\ s.suppressed => LiveRequests(s.requests)

\* Without a bridge there are no live events.
Still(s) == s.pendingLive = <<>> /\ \A i \in DOMAIN Line(s) : Line(s)[i].type # "event"

Streams(s, bs, tl, h, up) == IF up THEN Level(s, bs, h) /\ Sorted(s, bs, tl) ELSE Still(s)
Flows(s, bs, tl, h, up) ==
  /\ Follows(Line(s))
  /\ s.open => Streams(s, bs, tl, h, up)
  /\ s.open /\ ~s.present => s = EmptySocket /\ DOMAIN bs = {}
  /\ ~s.open => DOMAIN bs = {}

\* A bridge that is there has forwarded its history before the model begins.
FlowInv ==
  /\ ~replaying /\ (bridge # None => bridge.due = 0 /\ hi >= 1 /\ load = None)
  /\ Flows(sock, bodies, tail, hi, bridge # None)

LEMMA FlowPrimed ==
  FlowInv' <=> /\ ~replaying' /\ (bridge' # None => bridge'.due = 0 /\ hi' >= 1 /\ load' = None)
               /\ Flows(sock', bodies', tail', hi', bridge' # None)
BY DEF FlowInv, Flows, Streams, Still, Sorted, Level, LastReaches, Owing, Due, Ready, Follows, Reaches, NewsOn,
  NewsOf, News, IsFrame, FlatMap, Mapped, Line, Hand, Spoken, Early, Active, HasBarrier, LiveRequests, EmptySocket

\* Each action's socket and bodies, and that nothing else matters changes.
LEMMA BecomeFlows ==
  ASSUME FlowInv, NEW q, NEW bs, NEW tl, Become(q, bs, tl), hi' = hi, bridge' = bridge, replaying' = replaying,
         bridge # None => load' = load,
         Follows(Line(q)), q.open => q.present /\ Streams(q, bs, tl, hi, bridge # None)
  PROVE  FlowInv'
<1>1. sock' = q /\ bodies' = (IF q.open THEN bs ELSE Empty) /\ tail' = (IF q.open THEN tl ELSE <<>>)
  BY DEF Become
<1>2. DOMAIN Empty = {}
  BY DEF Empty
<1>3. Flows(sock', bodies', tail', hi', bridge' # None)
  BY <1>1, <1>2 DEF Flows
<1>4. ~replaying' /\ (bridge' # None => bridge'.due = 0 /\ hi' >= 1 /\ load' = None)
  BY DEF FlowInv
<1> QED BY <1>3, <1>4, FlowPrimed

\* The messages sent, when they are no more than that, and others behind them
\* that are not live.
LEMMA OutFollows ==
  ASSUME NEW s \in SocketType, Follows(Line(s)), NEW ms \in Seq(Msg), \A i \in DOMAIN ms : ms[i].type # "event",
         NEW q, q.out = s.out \o ms, q.inflight = None, q.queue = <<>>
  PROVE  Follows(Line(q))
<1>1. /\ s.out \in Seq(Msg) /\ Hand(s) \in Seq(Msg) /\ FlatMap(Spoken, s.queue) \in Seq(Msg)
      /\ Line(s) = (s.out \o Hand(s)) \o FlatMap(Spoken, s.queue)
  BY LineOf DEF Line
<1>2. PICK o \in Seq(Msg), h \in Seq(Msg), f \in Seq(Msg) :
        o = s.out /\ h = Hand(s) /\ f = FlatMap(Spoken, s.queue)
  BY <1>1
<1>3. o \o h \in Seq(Msg)
  OBVIOUS
<1>4. Follows(o \o h)
  BY <1>1, <1>2, <1>3, FollowsBreaksOff
<1>5. Follows(o)
  BY <1>4, FollowsBreaksOff
<1>6. Follows(o \o ms)
  BY <1>5, FollowsQuiet
<1>7. o \o ms \in Seq(Msg)
  OBVIOUS
<1>8. Line(q) = o \o ms
  BY <1>2, <1>7, LineEmpty
<1> QED BY <1>6, <1>8

LEMMA ClosedFollows ==
  ASSUME NEW s \in SocketType, Follows(Line(s))
  PROVE  Follows(Line(Closed(s))) /\ ~Closed(s).open
<1>1. s.out \in Seq(Msg)
  BY LineOf
<1>2. s.out \o <<>> = s.out
  BY <1>1, ConcatEmptySeq
<1>3. <<>> \in Seq(Msg) /\ DOMAIN <<>> = {}
  OBVIOUS
<1>4. PICK q : q = Closed(s)
  OBVIOUS
<1>5. q.out = s.out /\ q.inflight = None /\ q.queue = <<>> /\ ~q.open
  <2> DEFINE o == s.out
             z == [EmptySocket EXCEPT !.open = FALSE, !.out = o]
  <2> HIDE DEF o
  <2>1. z.out = o /\ z.inflight = None /\ z.queue = <<>> /\ ~z.open
    BY DEF EmptySocket
  <2> QED BY <1>4, <2>1 DEF Closed, o
<1>6. PICK ms \in Seq(Msg) : ms = <<>>
  BY <1>3
<1>7. Follows(Line(q))
  BY <1>2, <1>3, <1>5, <1>6, OutFollows
<1> QED BY <1>4, <1>5, <1>7

LEMMA OverflowFollows ==
  ASSUME gen \in Gens, NEW s \in SocketType, NEW z \in SocketType, Follows(Line(s)), z.out = s.out
  PROVE  Follows(Line(QueueOverflow(z))) /\ ~QueueOverflow(z).open
<1> DEFINE ms == Terminals(z.requests)
           o == z.out \o ms
           q == QueueOverflow(z)
<1>1. ms \in Seq(Msg) /\ \A i \in DOMAIN ms : ms[i].type # "event"
  <2>1. z.requests \in Seq(Req)
    BY DEF SocketType
  <2>2. ms \in Seq(Msg)
    BY <2>1, TerminalsAreMsgs
  <2>3. DOMAIN ms = DOMAIN z.requests /\ \A i \in DOMAIN ms : ms[i] = FailedTerminal(z.requests[i])
    BY DEF Terminals
  <2>4. \A r : FailedTerminal(r).type # "event"
    BY DEF FailedTerminal, Frame
  <2> HIDE DEF ms
  <2> QED BY <2>2, <2>3, <2>4
<1> HIDE DEF ms
<1>3. q = [EmptySocket EXCEPT !.open = FALSE, !.out = o]
  BY DEF QueueOverflow, ms
<1> HIDE DEF q, o
<1>4. q.out = o /\ q.inflight = None /\ q.queue = <<>> /\ ~q.open
  BY <1>3 DEF EmptySocket
<1>5. Follows(Line(q))
  BY <1>1, <1>4, OutFollows DEF o
<1> QED BY <1>4, <1>5 DEF q

\* What is queued goes to the end of the line, if the queue has room.
Queues(s, item, q) ==
  /\ q.out = s.out /\ q.inflight = s.inflight /\ q.queue = Append(s.queue, item)
  /\ q.requests = s.requests /\ q.pendingLive = s.pendingLive /\ q.suppressed = s.suppressed
  /\ q.open = s.open /\ q.present = s.present
  /\ Line(q) = Line(s) \o Spoken[item] /\ Spoken[item] \in Seq(Msg) /\ q \in SocketType
  /\ \A t : HasBarrier(q.queue, t) => HasBarrier(s.queue, t) \/ (item.kind = "barrier" /\ item.token = t)

LEMMA EnqueueIs ==
  ASSUME NEW s \in SocketType, NEW item \in Item, NEW q, q = Enqueue(s, item)
  PROVE  q = QueueOverflow(s) \/ Queues(s, item, q)
<1> DEFINE longer == Append(s.queue, item)
           more == s.queued + IF item.kind = "message" THEN item.count ELSE 0
           p == [s EXCEPT !.queue = longer, !.queued = more]
<1>1. q = QueueOverflow(s) \/ q = p
  BY DEF Enqueue, SocketType
<1>2. s.queue \in Seq(Item) /\ longer \in Seq(Item) /\ more \in Nat
  BY DEF SocketType, Item, MessageItem
<1>3. /\ Len(s.queue) \in Nat /\ DOMAIN s.queue = 1..Len(s.queue)
      /\ DOMAIN longer = 1..(Len(s.queue) + 1)
      /\ \A i \in 1..Len(s.queue) : longer[i] = s.queue[i]
      /\ longer[Len(s.queue) + 1] = item
  BY <1>2, AppendProperties, LenProperties
<1>4. \A i \in DOMAIN longer : (i \in DOMAIN s.queue /\ longer[i] = s.queue[i]) \/ longer[i] = item
  BY <1>3
<1> HIDE DEF longer, more
<1>5. ASSUME q = p
      PROVE  /\ q.out = s.out /\ q.inflight = s.inflight /\ q.queue = longer
             /\ q.requests = s.requests /\ q.pendingLive = s.pendingLive /\ q.suppressed = s.suppressed
             /\ q.open = s.open /\ q.present = s.present /\ q \in SocketType
  BY <1>2, <1>5 DEF SocketType
<1>6. ASSUME q = p PROVE Line(q) = Line(s) \o Spoken[item] /\ Spoken[item] \in Seq(Msg)
  BY <1>5, <1>6, LineAppends DEF longer
<1>7. \A t : HasBarrier(longer, t) => HasBarrier(s.queue, t) \/ (item.kind = "barrier" /\ item.token = t)
  BY <1>4 DEF HasBarrier
<1> HIDE DEF p
<1> QED BY <1>1, <1>5, <1>6, <1>7 DEF longer, Queues

\* Held events as queue items, and as messages.
LEMMA LivesOf ==
  ASSUME NEW es \in Seq(Event)
  PROVE  LET live == [i \in DOMAIN es |-> LiveItem(es[i])]
             ms == [i \in DOMAIN es |-> Live(es[i])]
         IN  /\ live \in Seq(Item) /\ \A i \in DOMAIN live : live[i].kind = "message"
             /\ ms \in Seq(Msg) /\ Len(ms) = Len(es) /\ FlatMap(Spoken, live) = ms
<1> DEFINE live == [i \in DOMAIN es |-> LiveItem(es[i])]
           ms == [i \in DOMAIN es |-> Live(es[i])]
<1>1. \A e \in Event : /\ LiveItem(e) \in Item /\ LiveItem(e).kind = "message"
                       /\ Spoken[LiveItem(e)] = <<Live(e)>> /\ Live(e) \in Msg
  BY LiveItemIs DEF NoId, Spoken, Live, Msg
<1>2. DOMAIN es = 1..Len(es) /\ Len(es) \in Nat
  OBVIOUS
<1>3. \A i \in 1..Len(es) : es[i] \in Event
  OBVIOUS
<1>4. live \in Seq(Item) /\ Len(live) = Len(es) /\ DOMAIN live = 1..Len(es)
  <2> HIDE DEF Item
  <2> QED BY <1>1, <1>2, <1>3
<1>5. ms \in Seq(Msg) /\ Len(ms) = Len(es) /\ DOMAIN ms = 1..Len(es)
  <2> HIDE DEF Msg
  <2> QED BY <1>1, <1>2, <1>3
<1>6. \A i \in 1..Len(es) : live[i] = LiveItem(es[i]) /\ ms[i] = Live(es[i])
  BY <1>2
<1> HIDE DEF live, ms
<1>7. (\A i \in DOMAIN live : live[i].kind = "message") /\ \A i \in DOMAIN live : Spoken[live[i]] = <<ms[i]>>
  BY <1>1, <1>3, <1>4, <1>6
<1>8. FlatMap(Spoken, live) = ms
  BY <1>4, <1>5, <1>7, SpokenTurns, FlatMapSingles
<1> QED BY <1>4, <1>5, <1>7, <1>8 DEF live, ms

\* The requests that are left when t's is done with.
LEMMA RestOf ==
  ASSUME NEW n, NEW s, SocketOK(s, n), NEW t
  PROVE  LET rest == Without(s, t) IN
         /\ rest \in Seq(Req)
         /\ \A i \in DOMAIN rest : \E j \in DOMAIN s.requests : rest[i] = s.requests[j] /\ s.requests[j].token # t
         /\ \A j \in DOMAIN s.requests : s.requests[j].token # t => \E i \in DOMAIN rest : rest[i] = s.requests[j]
<1> DEFINE S == {r \in Range(s.requests) : r.token # t}
           k == Those(s.requests, S)
<1>1. s.requests \in Seq(Req)
  BY DEF SocketOK, SocketType
<1>2. \A j \in DOMAIN s.requests : s.requests[j].token # t <=> s.requests[j] \in S
  BY <1>1 DEF Range
<1>3. k \in Seq(Req) /\ Leaves(s.requests, S, Len(s.requests), k)
  <2> HIDE DEF S
  <2> QED BY <1>1, ThoseOf
<1>4. Without(s, t) = k
  BY DEF Without
<1> HIDE DEF S, k
<1>5. DOMAIN k = 1..Len(k) /\ DOMAIN s.requests = 1..Len(s.requests)
  BY <1>1, <1>3
<1>6. \A i \in DOMAIN k : \E j \in DOMAIN s.requests : k[i] = s.requests[j] /\ s.requests[j].token # t
  <2> SUFFICES ASSUME NEW i \in DOMAIN k
               PROVE  \E j \in DOMAIN s.requests : k[i] = s.requests[j] /\ s.requests[j].token # t
    OBVIOUS
  <2>1. PICK a \in 1..Len(s.requests) : k[i] = s.requests[a] /\ s.requests[a] \in S
    BY <1>3, <1>5 DEF Leaves
  <2> QED BY <1>2, <1>5, <2>1
<1>7. \A j \in DOMAIN s.requests : s.requests[j].token # t => \E i \in DOMAIN k : k[i] = s.requests[j]
  BY <1>2, <1>3, <1>5 DEF Leaves
<1> QED BY <1>3, <1>4, <1>6, <1>7
\* A request is done with.  The last one releases what is held back, to a line
\* that no body is going to add to.
LEMMA CompleteFlows ==
  ASSUME gen \in Gens, NEW n, NEW s, SocketOK(s, n), s.open, s.present, Follows(Line(s)), NEW t,
         NEW bs, NEW tl, NEW h \in Nat, NEW up \in BOOLEAN, Streams(s, bs, tl, h, up),
         up => \A u \in DOMAIN bs : bs[u].phase # "closing" => u # t,
         NEW q, q = CompleteRequest(s, t)
  PROVE  Follows(Line(q)) /\ (q.open => q.present /\ Streams(q, bs, tl, h, up))
<1> DEFINE rest == Without(s, t)
           live == [i \in DOMAIN s.pendingLive |-> LiveItem(s.pendingLive[i])]
           ms == [i \in DOMAIN s.pendingLive |-> Live(s.pendingLive[i])]
           due == IF s.pendingLive = <<>> THEN s.queued ELSE Max2(s.queued, 1)
           longer == s.queue \o live
           fewer == [s EXCEPT !.requests = rest]
           free == [s EXCEPT !.requests = rest, !.suppressed = FALSE, !.pendingLive = <<>>,
                             !.queue = longer, !.queued = due]
<1>1. s \in SocketType /\ s.queue \in Seq(Item) /\ s.pendingLive \in Seq(Event) /\ s.requests \in Seq(Req)
  BY DEF SocketOK, SocketType
<1>2. CASE q = s
  BY <1>2
<1>a. /\ rest \in Seq(Req)
      /\ \A i \in DOMAIN rest : \E j \in DOMAIN s.requests : rest[i] = s.requests[j] /\ s.requests[j].token # t
      /\ \A j \in DOMAIN s.requests : s.requests[j].token # t => \E i \in DOMAIN rest : rest[i] = s.requests[j]
  BY RestOf
<1>b. /\ live \in Seq(Item) /\ \A i \in DOMAIN live : live[i].kind = "message"
      /\ ms \in Seq(Msg) /\ Len(ms) = Len(s.pendingLive) /\ FlatMap(Spoken, live) = ms
  BY <1>1, LivesOf
<1>c. \A i \in DOMAIN s.pendingLive : ms[i] = Live(s.pendingLive[i])
  OBVIOUS
<1>d. s.pendingLive = <<>> => ms = <<>>
  OBVIOUS
<1>5. q = s \/ (Active(s, t) /\ ((q = fewer /\ LiveRequests(rest)) \/ (q = free /\ ~LiveRequests(rest))
                                 \/ q = QueueOverflow(fewer)))
  BY <1>1 DEF CompleteRequest, SocketType
<1> HIDE DEF rest, live, ms, due
<1>3. CASE q = QueueOverflow(fewer)
  <2>1. fewer \in SocketType /\ fewer.out = s.out
    BY <1>1, <1>a DEF SocketType
  <2> HIDE DEF fewer
  <2> QED BY <1>1, <1>3, <2>1, OverflowFollows
<1>6. ASSUME NEW w, w.requests = rest, ~up \/ (\A u : HasBarrier(w.queue, u) => HasBarrier(s.queue, u)),
             ~up \/ (w.suppressed => LiveRequests(rest)), up
      PROVE  Sorted(w, bs, tl)
  <2>0. Sorted(s, bs, tl)
    BY <1>6 DEF Streams
  <2>1. ASSUME NEW u \in DOMAIN bs, bs[u].phase # "closing" PROVE Active(w, u)
    <3>1. PICK j \in DOMAIN s.requests : s.requests[j].token = u
      BY <2>0, <2>1 DEF Sorted, Active
    <3>2. u # t
      BY <1>6, <2>1
    <3>3. PICK i \in DOMAIN rest : rest[i] = s.requests[j]
      BY <1>a, <3>1, <3>2
    <3> QED BY <1>6, <3>1, <3>3 DEF Active
  <2>2. ASSUME NEW u \in DOMAIN bs, NEW i \in DOMAIN rest, rest[i].token = u
        PROVE  rest[i].kind = "older" <=> bs[u].kind = "older"
    <3>1. PICK j \in DOMAIN s.requests : rest[i] = s.requests[j]
      BY <1>a
    <3> QED BY <2>0, <2>2, <3>1 DEF Sorted
  <2> QED BY <1>6, <2>0, <2>1, <2>2 DEF Sorted
<1>7. CASE q = fewer /\ LiveRequests(rest)
  <2>1. /\ q.requests = rest /\ q.queue = s.queue /\ q.out = s.out /\ q.inflight = s.inflight
        /\ q.pendingLive = s.pendingLive /\ q.present = s.present
    BY <1>1, <1>7 DEF SocketType
  <2> HIDE DEF fewer
  <2>2. Line(q) = Line(s)
    BY <2>1 DEF Line, Hand
  <2>3. up => Level(q, bs, h)
    BY <2>1, <2>2 DEF Streams, Level, Ready
  <2>4. ~up => Still(q)
    BY <2>1, <2>2 DEF Streams, Still
  <2>5. up => Sorted(q, bs, tl)
    BY <1>6, <1>7, <2>1
  <2> QED BY <2>1, <2>2, <2>3, <2>4, <2>5 DEF Streams
<1>8. CASE q = free /\ ~LiveRequests(rest)
  <2> HIDE DEF longer
  <2>1. /\ q.requests = rest /\ q.queue = longer /\ q.out = s.out /\ q.inflight = s.inflight
        /\ q.pendingLive = <<>> /\ q.present = s.present /\ ~q.suppressed
    BY <1>1, <1>8 DEF SocketType
  <2> HIDE DEF free
  <2>2. Line(q) = Line(s) \o ms /\ Line(s) \in Seq(Msg)
    BY <1>1, <1>b, <2>1, LineQueues, LineOf DEF longer
  <2>3. \A u : HasBarrier(q.queue, u) => HasBarrier(s.queue, u)
    <3>1. PICK x \in Seq(Item), y \in Seq(Item) : x = s.queue /\ y = live
      BY <1>1, <1>b
    <3>2. \A i \in DOMAIN (x \o y) :
              \/ i \in DOMAIN x /\ (x \o y)[i] = x[i]
              \/ \E j \in DOMAIN y : i = Len(x) + j /\ (x \o y)[i] = y[j]
      BY ConcatParts
    <3>3. q.queue = x \o y
      BY <2>1, <3>1 DEF longer
    <3>4. \A i \in DOMAIN q.queue : (i \in DOMAIN s.queue /\ q.queue[i] = s.queue[i]) \/ q.queue[i].kind = "message"
      BY <1>b, <3>1, <3>2, <3>3
    <3> QED BY <3>4 DEF HasBarrier
  <2>4. up => Sorted(q, bs, tl)
    BY <1>6, <2>1, <2>3
  <2>5. CASE ~up
    <3>1. Still(s) /\ ms = <<>>
      BY <1>d, <2>5 DEF Streams, Still
    <3>2. PICK L \in Seq(Msg) : L = Line(s)
      BY <2>2
    <3>3. Line(q) = Line(s)
      BY <2>2, <3>1, <3>2, ConcatEmptySeq
    <3>4. Still(q)
      BY <2>1, <3>1, <3>3 DEF Still
    <3> QED BY <2>1, <2>5, <3>3, <3>4 DEF Streams
  <2>6. CASE up
    <3>0. Level(s, bs, h) /\ Sorted(s, bs, tl)
      BY <2>6 DEF Streams
    <3>1. ASSUME NEW u \in DOMAIN bs PROVE ~Owing(bs[u])
      <4> SUFFICES ASSUME Owing(bs[u]) PROVE FALSE
        OBVIOUS
      <4>1. bs[u].kind # "older" /\ bs[u].phase # "closing"
        BY DEF Owing, Due, Early
      <4>2. PICK j \in DOMAIN s.requests : s.requests[j].token = u
        BY <3>0, <4>1 DEF Sorted, Active
      <4>3. s.requests[j].kind # "older" /\ u # t
        BY <2>6, <3>0, <4>1, <4>2 DEF Sorted
      <4>4. PICK i \in DOMAIN rest : rest[i] = s.requests[j]
        BY <1>a, <4>2, <4>3
      <4> QED BY <1>8, <4>3, <4>4 DEF LiveRequests
    <3>2. Reaches(NewsOn(Line(s)), Ready(s, h))
      BY <3>0, <3>1 DEF Level
    <3>3. Ready(s, h) \in Int /\ Ready(s, h) + Len(s.pendingLive) = h /\ Len(s.pendingLive) \in Nat
      BY <1>1 DEF Ready
    <3>4. PICK es \in Seq(Event), k \in Int, m \in Seq(Msg), L \in Seq(Msg) :
            es = s.pendingLive /\ k = Ready(s, h) /\ m = ms /\ L = Line(s)
      BY <1>1, <1>b, <2>2, <3>3
    <3>5. /\ Follows(L) /\ Reaches(NewsOn(L), k) /\ Len(m) = Len(es)
          /\ \A i \in DOMAIN es : es[i].seq = k + i
          /\ \A i \in DOMAIN es : m[i] = Live(es[i])
      BY <1>b, <1>c, <3>0, <3>2, <3>4 DEF Level
    <3>6. Follows(L \o m) /\ Reaches(NewsOn(L \o m), k + Len(es))
      BY <3>5, FollowsLives
    <3>7. Follows(Line(q)) /\ Reaches(NewsOn(Line(q)), h)
      BY <2>2, <3>3, <3>4, <3>6
    <3>8. Ready(q, h) = h
      BY <2>1 DEF Ready
    <3>9. Level(q, bs, h)
      <4>1. \A u \in DOMAIN bs : ~Due(bs[u])
        BY <3>1 DEF Owing
      <4>2. DOMAIN q.pendingLive = {}
        BY <2>1
      <4> QED BY <3>7, <3>8, <4>1, <4>2 DEF Level
    <3> QED BY <2>1, <2>4, <2>6, <3>7, <3>9 DEF Streams
  <2> QED BY <2>5, <2>6
<1> HIDE DEF fewer, free
<1> QED BY <1>2, <1>3, <1>5, <1>7, <1>8
-----------------------------------------------------------------------------
(* The actions, and the live stream. *)

LEMMA BodyFlows ==
  ASSUME FlowInv, NEW t \in DOMAIN bodies
  PROVE  /\ sock.open /\ sock.present /\ Follows(Line(sock))
         /\ Streams(sock, bodies, tail, hi, bridge # None)
         /\ bridge # None =>
              /\ bodies[t].phase \in {"hydrated", "waiting", "loaded", "sending", "closing"}
              /\ bodies[t].phase # "closing" => Valid(t)
<1>1. /\ sock.open /\ sock.present /\ Follows(Line(sock))
      /\ Streams(sock, bodies, tail, hi, bridge # None)
  BY DEF FlowInv, Flows
<1>2. bridge # None => Sorted(sock, bodies, tail)
  BY <1>1 DEF Streams
<1> QED BY <1>1, <1>2 DEF Sorted, Valid

\* What is due and what is owed, over a line of the same news.
LEMMA LevelOn ==
  ASSUME NEW s, NEW bs, NEW h, Level(s, bs, h), NEW q, NEW cs, q.pendingLive = s.pendingLive,
         \A n : Reaches(NewsOn(Line(s)), n) => Reaches(NewsOn(Line(q)), n),
         \A u \in DOMAIN cs : Due(cs[u]) => u \in DOMAIN bs /\ Due(bs[u]) /\ cs[u].batches = bs[u].batches,
         \A u \in DOMAIN bs : Owing(bs[u]) => u \in DOMAIN cs /\ Owing(cs[u])
  PROVE  Level(q, cs, h)
<1>1. Ready(q, h) = Ready(s, h)
  BY DEF Ready
<1>2. \A u \in DOMAIN cs : Due(cs[u]) => LastReaches(cs[u].batches, Ready(q, h))
  BY <1>1 DEF Level
<1>3. (\A u \in DOMAIN cs : ~Owing(cs[u])) => Reaches(NewsOn(Line(q)), Ready(q, h))
  BY <1>1 DEF Level
<1> QED BY <1>1, <1>2, <1>3 DEF Level

LEMMA SortedOver ==
  ASSUME NEW s, NEW bs, NEW tl, Sorted(s, bs, tl), NEW q, q.requests = s.requests, q.suppressed = s.suppressed,
         \A u : HasBarrier(q.queue, u) => HasBarrier(s.queue, u) \/ (u \in DOMAIN bs /\ bs[u].phase = "closing")
  PROVE  Sorted(q, bs, tl)
BY DEF Sorted, Active

LEMMA SortedGoesOn ==
  ASSUME NEW s, NEW bs, NEW tl, Sorted(s, bs, tl), NEW t \in DOMAIN bs, bs[t].phase # "closing", NEW c,
         c.kind = bs[t].kind, c.phase \in {"hydrated", "waiting", "loaded", "sending", "closing"},
         c.phase \in {"sending", "closing"} => tl # <<>> /\ t = Head(tl)
  PROVE  Sorted(s, [bs EXCEPT ![t] = c], tl)
<1> DEFINE cs == [bs EXCEPT ![t] = c]
<1>1. DOMAIN cs = DOMAIN bs /\ \A u \in DOMAIN bs : cs[u] = IF u = t THEN c ELSE bs[u]
  OBVIOUS
<1> HIDE DEF cs
<1>2. Sorted(s, cs, tl)
  BY <1>1 DEF Sorted
<1> QED BY <1>2 DEF cs

\* A body without its request, which only happens without a bridge.
LEMMA InvalidFlows ==
  ASSUME FlowInv, NEW t \in DOMAIN bodies, bodies[t].phase # "closing", ~Valid(t), NEW bs, NEW tl,
         Become(sock, bs, tl), hi' = hi, bridge' = bridge, replaying' = replaying
  PROVE  FlowInv'
<1>1. bridge = None /\ sock.present /\ Follows(Line(sock)) /\ Streams(sock, bodies, tail, hi, bridge # None)
  BY BodyFlows
<1>2. Streams(sock, bs, tl, hi, bridge # None)
  BY <1>1 DEF Streams
<1> QED BY <1>1, <1>2, BecomeFlows

\* A socket that says the same and holds back the same.
LEMMA SameFlows ==
  ASSUME NEW s, NEW q, Line(q) = Line(s), q.pendingLive = s.pendingLive
  PROVE  /\ Follows(Line(s)) => Follows(Line(q))
         /\ Still(s) => Still(q)
         /\ \A n : Reaches(NewsOn(Line(s)), n) => Reaches(NewsOn(Line(q)), n)
BY DEF Still

LEMMA AdmitFlows ==
  ASSUME IInv, FlowInv, NEW t \in DOMAIN bodies, Admit(t)
  PROVE  FlowInv'
<1>0. bodies[t].phase = "hydrated" /\ hi' = hi /\ bridge' = bridge /\ replaying' = replaying /\ load' = load
  BY DEF Admit, InPhase, sourceVars
<1>1. CASE Valid(t)
  <2> DEFINE mismatch   == bodies[t].known # None /\ bodies[t].known # gen
             outOfRange == /\ bodies[t].kind = "delta" /\ HasEvents
                           /\ (bodies[t].at < lo - 1 \/ bodies[t].at > hi)
             cold       == mismatch \/ outOfRange
             asCold     == [i \in DOMAIN sock.requests |->
                              IF cold /\ sock.requests[i].token = t
                              THEN [sock.requests[i] EXCEPT !.kind = "cold"] ELSE sock.requests[i]]
             sup == sock.suppressed \/ cold
             kind == IF cold THEN "cold" ELSE bodies[t].kind
             c == [bodies[t] EXCEPT !.phase = "waiting", !.reset = cold, !.kind = kind]
             cs == [bodies EXCEPT ![t] = c]
             tl == Append(tail, t)
             q == [sock EXCEPT !.requests = asCold, !.suppressed = sup]
  <2>1. Become([sock EXCEPT !.requests = asCold, !.suppressed = @ \/ cold],
               [bodies EXCEPT ![t].phase = "waiting", ![t].reset = cold,
                              ![t].kind = IF cold THEN "cold" ELSE @],
               tl)
    BY <1>1 DEF Admit
  <2>2. /\ sock \in SocketType /\ sock.open
        /\ \A i \in DOMAIN sock.requests : sock.requests[i] \in Req
    <3>1. sock \in SocketType /\ sock.requests \in Seq(Req)
      BY SockTyped DEF SocketType
    <3> QED BY <1>1, <3>1 DEF Valid
  <2>3. bodies[t] \in Body
    BY BodyOf
  <2>4. /\ DOMAIN asCold = DOMAIN sock.requests
        /\ \A i \in DOMAIN sock.requests : asCold[i].token = sock.requests[i].token
        /\ \A i \in DOMAIN sock.requests : asCold[i].kind =
             IF cold /\ sock.requests[i].token = t THEN "cold" ELSE sock.requests[i].kind
    <3> HIDE DEF cold
    <3> QED BY <2>2 DEF Req
  <2> HIDE DEF cold, asCold
  <2>5. [sock EXCEPT !.requests = asCold, !.suppressed = @ \/ cold] = q
    BY <2>2 DEF SocketType
  <2>6. [bodies EXCEPT ![t].phase = "waiting", ![t].reset = cold,
                              ![t].kind = IF cold THEN "cold" ELSE @] = cs
    BY <2>3 DEF Body
  <2>7. c.phase = "waiting" /\ c.kind = kind
    BY <2>3 DEF Body
  <2>8. /\ q.out = sock.out /\ q.inflight = sock.inflight /\ q.queue = sock.queue
        /\ q.requests = asCold /\ q.pendingLive = sock.pendingLive /\ q.present = sock.present
        /\ q.suppressed = sup
    BY <2>2 DEF SocketType
  <2> HIDE DEF q, c
  <2>9. /\ DOMAIN cs = DOMAIN bodies /\ \A u \in DOMAIN bodies : cs[u] = IF u = t THEN c ELSE bodies[u]
    OBVIOUS
  <2> HIDE DEF cs
  <2>10. Line(q) = Line(sock)
    BY <2>8 DEF Line, Hand
  <2>11. /\ sock.present /\ Follows(Line(sock)) /\ Streams(sock, bodies, tail, hi, bridge # None)
    BY BodyFlows
  <2>12. bridge # None => Level(q, cs, hi)
    <3>1. ASSUME NEW u \in DOMAIN cs, Due(cs[u])
          PROVE  u \in DOMAIN bodies /\ Due(bodies[u]) /\ cs[u].batches = bodies[u].batches
      BY <2>7, <2>9, <3>1 DEF Due
    <3>2. ASSUME NEW u \in DOMAIN bodies, Owing(bodies[u]) PROVE u \in DOMAIN cs /\ Owing(cs[u])
      BY <2>7, <2>9, <3>2, <1>0 DEF Owing, Due, Early
    <3>3. \A n : Reaches(NewsOn(Line(sock)), n) => Reaches(NewsOn(Line(q)), n)
      BY <2>10
    <3> QED BY <2>8, <2>11, <3>1, <3>2, <3>3, LevelOn DEF Streams
  <2>13. ASSUME bridge # None PROVE Sorted(q, cs, tl)
    <3>0. Sorted(sock, bodies, tail)
      BY <2>11, <2>13 DEF Streams
    <3>1. \A u : Active(sock, u) => Active(q, u)
      BY <2>4, <2>8 DEF Active
    <3>2. tail # <<>> => tl # <<>> /\ Head(tl) = Head(tail)
      <4>1. tail \in Seq(Nat) /\ t \in Nat
        BY BodyOf DEF IInv, SocketInv, Serving, TailOK
      <4> QED BY <4>1
    <3> HIDE DEF tl
    <3>3. ASSUME NEW u \in DOMAIN cs
          PROVE  /\ cs[u].kind # "delta" /\ cs[u].phase \in {"hydrated", "waiting", "loaded", "sending", "closing"}
                 /\ cs[u].phase # "closing" => Active(q, u)
                 /\ cs[u].phase \in {"sending", "closing"} => tl # <<>> /\ u = Head(tl)
      BY <1>1, <2>7, <2>9, <3>0, <3>1, <3>2 DEF Sorted, Valid
    <3>4. ASSUME NEW u \in DOMAIN cs, NEW i \in DOMAIN q.requests, q.requests[i].token = u
          PROVE  q.requests[i].kind = "older" <=> cs[u].kind = "older"
      <4>1. i \in DOMAIN sock.requests /\ sock.requests[i].token = u
        BY <2>4, <2>8, <3>4
      <4>2. sock.requests[i].kind = "older" <=> bodies[u].kind = "older"
        BY <2>9, <3>0, <4>1 DEF Sorted
      <4> QED BY <2>4, <2>7, <2>8, <2>9, <4>1, <4>2
    <3>5. ASSUME NEW u, HasBarrier(q.queue, u) PROVE u \in DOMAIN cs /\ cs[u].phase = "closing"
      BY <1>0, <2>8, <2>9, <3>0, <3>5 DEF Sorted
    <3>6. ASSUME q.suppressed PROVE LiveRequests(q.requests)
      <4>1. CASE cold
        <5>1. PICK i \in DOMAIN sock.requests : sock.requests[i].token = t
          BY <1>1 DEF Valid, Active
        <5> QED BY <2>4, <2>8, <4>1, <5>1 DEF LiveRequests
      <4>2. CASE ~cold
        <5>1. PICK i \in DOMAIN sock.requests : sock.requests[i].kind # "older"
          BY <2>8, <3>0, <3>6, <4>2 DEF Sorted, LiveRequests
        <5> QED BY <2>4, <2>8, <4>2, <5>1 DEF LiveRequests
      <4> QED BY <4>1, <4>2
    <3> QED BY <3>3, <3>4, <3>5, <3>6 DEF Sorted
  <2>14. Streams(q, cs, tl, hi, bridge # None) /\ Follows(Line(q))
    BY <2>8, <2>10, <2>11, <2>12, <2>13, SameFlows DEF Streams
  <2> QED BY <1>0, <2>1, <2>5, <2>6, <2>8, <2>11, <2>14, BecomeFlows
<1>2. CASE ~Valid(t)
  BY <1>0, <1>2, InvalidFlows DEF Admit
<1> QED BY <1>1, <1>2

LEMMA TakeSnapshotFlows ==
  ASSUME Keep = 0, IInv, OnceInv, FlowInv, NEW t \in DOMAIN bodies, TakeSnapshot(t)
  PROVE  FlowInv'
<1>0. /\ bodies[t].phase = "waiting" /\ hi' = hi /\ bridge' = bridge /\ replaying' = replaying
      /\ tail # <<>> /\ t = Head(tail)
  BY DEF TakeSnapshot, Delivering, InPhase, sourceVars
<1>1. CASE Valid(t)
  <2>1. PICK raw, phase, file :
          /\ phase \in {"paging", "loaded"} /\ (bridge # None => phase = "loaded" /\ load' = load)
          /\ Become(sock, [bodies EXCEPT ![t].raw = raw, ![t].phase = phase, ![t].file = file], tail)
    <3> DEFINE paging == HasEvents /\ lo > 1 /\ HasFile
                /\ (bodies[t].kind = "older" \/ (bodies[t].kind = "cold" /\ bodies[t].tailMode))
               cached == persisted # None /\ persisted.gen = gen
               ph == IF paging /\ ~cached THEN "paging" ELSE "loaded"
               f == IF paging /\ cached THEN persisted.n ELSE 0
    <3>1. /\ Become(sock, [bodies EXCEPT
                     ![t].raw = [gen |-> gen, lo |-> lo, hi |-> hi],
                     ![t].phase = ph, ![t].file = f], tail)
          /\ load' = IF paging /\ ~cached /\ load = None
                     THEN [gen |-> gen, hydrate |-> FALSE, from |-> history] ELSE load
      BY <1>1 DEF TakeSnapshot
    <3>2. ph \in {"paging", "loaded"} /\ ~paging
      BY DEF OnceInv
    <3> HIDE DEF paging
    <3>3. ph = "loaded" /\ load' = load
      BY <3>1, <3>2
    <3> HIDE DEF ph, f
    <3> QED BY <3>1, <3>2, <3>3
  <2> DEFINE c == [bodies[t] EXCEPT !.raw = raw, !.phase = phase, !.file = file]
             cs == [bodies EXCEPT ![t] = c]
  <2>2. bodies[t] \in Body
    BY BodyOf
  <2>3. [bodies EXCEPT ![t].raw = raw, ![t].phase = phase, ![t].file = file] = cs
    BY <2>2 DEF Body
  <2>4. c.phase = phase /\ c.kind = bodies[t].kind
    BY <2>2 DEF Body
  <2> HIDE DEF c
  <2>5. DOMAIN cs = DOMAIN bodies /\ \A u \in DOMAIN bodies : cs[u] = IF u = t THEN c ELSE bodies[u]
    OBVIOUS
  <2>6. sock.present /\ Follows(Line(sock)) /\ Streams(sock, bodies, tail, hi, bridge # None)
    BY BodyFlows
  <2>7. ASSUME bridge # None PROVE Level(sock, cs, hi) /\ Sorted(sock, cs, tail)
    <3>1. Level(sock, bodies, hi) /\ Sorted(sock, bodies, tail)
      BY <2>6, <2>7 DEF Streams
    <3>2. Sorted(sock, cs, tail)
      BY <1>0, <2>1, <2>4, <2>7, <3>1, SortedGoesOn
    <3> HIDE DEF cs
    <3>3. ASSUME NEW u \in DOMAIN cs, Due(cs[u])
          PROVE  u \in DOMAIN bodies /\ Due(bodies[u]) /\ cs[u].batches = bodies[u].batches
      BY <2>1, <2>4, <2>5, <3>3 DEF Due
    <3>4. ASSUME NEW u \in DOMAIN bodies, Owing(bodies[u]) PROVE u \in DOMAIN cs /\ Owing(cs[u])
      BY <1>0, <2>1, <2>4, <2>5, <3>4 DEF Owing, Due, Early
    <3>5. Level(sock, cs, hi)
      BY <3>1, <3>3, <3>4, LevelOn
    <3> QED BY <3>2, <3>5
  <2>8. Streams(sock, cs, tail, hi, bridge # None)
    BY <2>6, <2>7 DEF Streams
  <2> QED BY <1>0, <2>1, <2>3, <2>6, <2>8, BecomeFlows
<1>2. CASE ~Valid(t)
  BY <1>0, <1>2, InvalidFlows DEF TakeSnapshot
<1> QED BY <1>1, <1>2
\* What is queued, when it is no live event: the line goes on with its news.
LEMMA EnqueueFlows ==
  ASSUME gen \in Gens, NEW s \in SocketType, s.open, s.present, Follows(Line(s)), NEW item \in Item,
         item.kind = "message" => item.msg.type # "event", NEW q, q = Enqueue(s, item)
  PROVE  /\ Follows(Line(q))
         /\ q.open =>
              /\ q \in SocketType /\ q.present /\ q.pendingLive = s.pendingLive
              /\ q.requests = s.requests /\ q.suppressed = s.suppressed
              /\ \A t : HasBarrier(q.queue, t) =>
                   HasBarrier(s.queue, t) \/ (item.kind = "barrier" /\ item.token = t)
              /\ Still(s) => Still(q)
              /\ NewsOn(Line(q)) = NewsOn(Line(s)) \o (IF item.kind = "message" THEN News(item.msg) ELSE <<>>)
              /\ NewsOn(Line(s)) \in Seq(Event)
<1>0. q = QueueOverflow(s) \/ Queues(s, item, q)
  BY EnqueueIs
<1>1. CASE q = QueueOverflow(s)
  BY <1>1, OverflowFollows
<1>2. CASE Queues(s, item, q)
  <2>0. /\ q.requests = s.requests /\ q.pendingLive = s.pendingLive /\ q.suppressed = s.suppressed
        /\ q.open = s.open /\ q.present = s.present
        /\ Line(q) = Line(s) \o Spoken[item] /\ Spoken[item] \in Seq(Msg) /\ q \in SocketType
        /\ \A t : HasBarrier(q.queue, t) => HasBarrier(s.queue, t) \/ (item.kind = "barrier" /\ item.token = t)
    BY <1>2 DEF Queues
  <2>1. PICK L \in Seq(Msg), ms \in Seq(Msg) : L = Line(s) /\ ms = Spoken[item]
    BY <2>0, LineOf
  <2>2. ms = IF item.kind = "message" THEN <<item.msg>> ELSE <<>>
    BY <2>1 DEF Spoken
  <2>3. \A i \in DOMAIN ms : ms[i].type # "event"
    BY <2>2
  <2>4. Follows(L \o ms)
    BY <2>1, <2>3, FollowsQuiet
  <2>5. NewsOn(L) \in Seq(Event) /\ NewsOn(L \o ms) = NewsOn(L) \o NewsOn(ms)
    BY NewsConcat
  <2>6. NewsOn(ms) = IF item.kind = "message" THEN News(item.msg) ELSE <<>>
    <3>1. CASE item.kind = "message"
      <4>1. item.msg \in Msg
        BY <3>1 DEF Item, MessageItem
      <4> QED BY <2>2, <3>1, <4>1, NewsOne
    <3>2. CASE item.kind # "message"
      BY <2>2, <3>2, NewsNone
    <3> QED BY <3>1, <3>2
  <2>7. Still(s) => Still(q)
    <3>1. \A i \in DOMAIN (L \o ms) : \/ i \in DOMAIN L /\ (L \o ms)[i] = L[i]
                                      \/ \E j \in DOMAIN ms : i = Len(L) + j /\ (L \o ms)[i] = ms[j]
      BY ConcatParts
    <3>2. PICK K : K = L \o ms
      OBVIOUS
    <3>3. Line(q) = K /\ \A i \in DOMAIN K : (i \in DOMAIN L /\ K[i] = L[i]) \/ K[i].type # "event"
      BY <2>0, <2>1, <2>3, <3>1, <3>2
    <3> QED BY <2>0, <2>1, <3>3 DEF Still
  <2> QED BY <2>0, <2>1, <2>4, <2>5, <2>6, <2>7
<1> QED BY <1>0, <1>1, <1>2

\* One that brings no news.
LEMMA NothingNew ==
  ASSUME NEW s, NEW q, NEW es, es = <<>>, NewsOn(Line(s)) \in Seq(Event), NewsOn(Line(q)) = NewsOn(Line(s)) \o es
  PROVE  \A n : Reaches(NewsOn(Line(s)), n) => Reaches(NewsOn(Line(q)), n)
<1>1. PICK k \in Seq(Event) : k = NewsOn(Line(s))
  OBVIOUS
<1>2. k \o <<>> = k
  BY ConcatEmptySeq
<1> QED BY <1>1, <1>2

LEMMA AdmitUnavailableFlows ==
  ASSUME IInv, DenseInv, FlowInv, NEW t \in DOMAIN bodies, AdmitUnavailable(t)
  PROVE  FlowInv'
<1>0. /\ bodies[t].phase = "unavailable" /\ hi' = hi /\ bridge' = bridge /\ replaying' = replaying /\ load' = load
  BY DEF AdmitUnavailable, InPhase, sourceVars
<1>1. CASE ~Valid(t)
  BY <1>0, <1>1, InvalidFlows DEF AdmitUnavailable
<1>2. CASE Valid(t)
  <2> DEFINE r == RequestOf(sock, t)
             msg == FailedTerminal(r)
             item == Message(msg, r.key)
             bar == Barrier(r)
             s == Enqueue(sock, item)
             q == Enqueue(s, bar)
  <2>1. /\ bridge = None /\ sock.open /\ sock.present /\ Follows(Line(sock)) /\ Still(sock)
        /\ sock \in SocketType /\ gen \in Gens
    BY <1>0, BodyFlows, SockTyped DEF Streams
  <2>2. /\ item \in Item /\ item.kind = "message" /\ item.msg.type # "event"
        /\ bar \in Item /\ bar.kind = "barrier"
    <3>1. r \in Req
      BY <1>2, RequestOwned
    <3>2. msg \in Msg /\ r.key \in Int
      BY <2>1, <3>1, TerminalIsMsg DEF Req
    <3>3. msg.type # "event"
      BY DEF FailedTerminal, Frame
    <3>4. bar \in Item /\ bar.kind = "barrier"
      BY <3>1, BarrierIs
    <3> HIDE DEF r, msg
    <3>5. item \in MessageItem
      BY <3>2, MessageIs
    <3> QED BY <3>3, <3>4, <3>5 DEF Item, MessageItem, Message
  <2>3. \/ \E bs : Become(s, bs, tail)
        \/ \E bs : Become(IF s.open THEN q ELSE s, bs, tail)
    BY <1>2 DEF AdmitUnavailable
  <2> HIDE DEF item, bar
  <2>4. PICK w : w = s
    OBVIOUS
  <2>5. Follows(Line(w)) /\ (w.open => w \in SocketType /\ w.present /\ Still(w))
    BY <2>1, <2>2, <2>4, EnqueueFlows
  <2>6. \A x : x.open /\ Still(x) => \A bs, tl : Streams(x, bs, tl, hi, bridge # None)
    BY <2>1 DEF Streams
  <2>7. ASSUME NEW bs, Become(w, bs, tail) PROVE FlowInv'
    BY <1>0, <2>5, <2>6, <2>7, BecomeFlows
  <2>8. ASSUME w.open, NEW bs, Become(q, bs, tail) PROVE FlowInv'
    <3>1. PICK z : z = Enqueue(w, bar)
      OBVIOUS
    <3>2. Follows(Line(z)) /\ (z.open => z.present /\ Still(z))
      BY <2>1, <2>2, <2>5, <2>8, <3>1, EnqueueFlows
    <3>3. Become(z, bs, tail)
      BY <2>4, <2>8, <3>1
    <3> QED BY <1>0, <2>6, <3>2, <3>3, BecomeFlows
  <2> HIDE DEF s, q
  <2>9. \/ \E bs : Become(w, bs, tail)
        \/ w.open /\ \E bs : Become(q, bs, tail)
    BY <2>3, <2>4
  <2> QED BY <2>7, <2>8, <2>9
<1> QED BY <1>1, <1>2

\* The first of a body's batches, and the others.
LEMMA TailReaches ==
  ASSUME NEW bs \in Seq(Seq(Event)), bs # <<>>, NEW n, LastReaches(bs, n)
  PROVE  /\ Head(bs) \in Seq(Event) /\ Tail(bs) \in Seq(Seq(Event))
         /\ Tail(bs) = <<>> => Head(bs) # <<>> /\ Reaches(Head(bs), n)
         /\ Tail(bs) # <<>> => LastReaches(Tail(bs), n)
<1> DEFINE k == Tail(bs)
<1>1. /\ k \in Seq(Seq(Event)) /\ Len(k) = Len(bs) - 1 /\ Len(bs) \in Nat /\ Len(k) \in Nat
      /\ \A i \in 1..Len(k) : k[i] = bs[i + 1]
  BY HeadTailProperties, LenProperties
<1>2. Head(bs) = bs[1] /\ 1 \in DOMAIN bs /\ DOMAIN bs = 1..Len(bs)
  OBVIOUS
<1>3. Head(bs) \in Seq(Event)
  BY <1>2
<1> HIDE DEF k
<1>4. k = <<>> => Len(bs) = 1
  <2>1. Len(<<>>) = 0
    OBVIOUS
  <2> QED BY <1>1, <2>1
<1>5. k # <<>> => Len(k) \in 1..Len(k) /\ Len(k) + 1 = Len(bs)
  BY <1>1
<1>6. k # <<>> => k[Len(k)] = bs[Len(bs)]
  BY <1>1, <1>5
<1>7. k = <<>> => Head(bs) # <<>> /\ Reaches(Head(bs), n)
  BY <1>2, <1>4 DEF LastReaches, Reaches
<1>8. k # <<>> => LastReaches(k, n)
  BY <1>6 DEF LastReaches
<1> QED BY <1>1, <1>3, <1>7, <1>8 DEF k
\* A body's message, and what it leaves due.
LEMMA SendNextFlows ==
  ASSUME IInv, DenseInv, FlowInv, NEW t \in DOMAIN bodies, SendNext(t)
  PROVE  FlowInv'
<1> DEFINE b == bodies[t]
           r == RequestOf(sock, t)
           up == bridge # None
<1>0. /\ b.phase = "sending" /\ hi' = hi /\ bridge' = bridge /\ replaying' = replaying /\ load' = load
      /\ tail # <<>> /\ t = Head(tail) /\ sock.queue = <<>>
  BY DEF SendNext, Delivering, InPhase, sourceVars, Drained
<1>1. CASE ~Valid(t)
  BY <1>0, <1>1, InvalidFlows DEF SendNext
<1>2. CASE Valid(t)
  <2>1. /\ r \in Req /\ r.key \in Int /\ r.token = t /\ sock \in SocketType /\ gen \in Gens
        /\ SocketOK(sock, token) /\ hi \in Nat
    BY <1>2, RequestOwned, SockTyped DEF Req
  <2>a. \E i \in DOMAIN sock.requests : r = sock.requests[i]
    BY <2>1, <1>2, ActiveRequest DEF Valid
  <2>2. /\ b \in Body /\ b.batches \in Seq(Seq(Event)) /\ b.more \in BOOLEAN /\ b.ended \in BOOLEAN
    BY BodyOf DEF Body
  <2>3. /\ sock.open /\ sock.present /\ Follows(Line(sock)) /\ Streams(sock, bodies, tail, hi, up)
    BY BodyFlows
  <2>4. up => Level(sock, bodies, hi) /\ Sorted(sock, bodies, tail)
    BY <2>3 DEF Streams
  <2>5. up => (r.kind = "older" <=> b.kind = "older")
    BY <2>1, <2>4, <2>a DEF Sorted
  <2>6. \A u : ~HasBarrier(sock.queue, u)
    BY <1>0 DEF HasBarrier
  <2>7. up => \A u \in DOMAIN bodies \ {t} : ~Due(bodies[u])
    BY <1>0, <2>4 DEF Sorted, Due
  <2> HIDE DEF r
  <2>8. ASSUME NEW msg \in Msg, msg.type # "event", NEW c, c.kind = b.kind, c.phase = "sending",
               Become(Enqueue(sock, Message(msg, r.key)), [bodies EXCEPT ![t] = c], tail),
               \A q : /\ up /\ q.pendingLive = sock.pendingLive
                      /\ NewsOn(Line(q)) = NewsOn(Line(sock)) \o News(msg) /\ NewsOn(Line(sock)) \in Seq(Event)
                      => Level(q, [bodies EXCEPT ![t] = c], hi)
        PROVE  FlowInv'
    <3> DEFINE item == Message(msg, r.key)
               cs == [bodies EXCEPT ![t] = c]
    <3>1. item \in Item /\ item.kind = "message" /\ item.msg = msg
      <4>1. item \in MessageItem
        BY <2>1, <2>8, MessageIs
      <4> QED BY <4>1 DEF Item, MessageItem, Message
    <3>2. PICK q : q = Enqueue(sock, item)
      OBVIOUS
    <3>3. Become(q, cs, tail)
      BY <2>8, <3>2
    <3>4. up => Sorted(sock, cs, tail)
      BY <1>0, <2>4, <2>8, SortedGoesOn
    <3>5. \A z : /\ up /\ z.pendingLive = sock.pendingLive
                 /\ NewsOn(Line(z)) = NewsOn(Line(sock)) \o News(msg) /\ NewsOn(Line(sock)) \in Seq(Event)
                 => Level(z, cs, hi)
      BY <2>8
    <3> HIDE DEF item, cs
    <3>6. /\ Follows(Line(q))
          /\ q.open =>
               /\ q.present /\ q.pendingLive = sock.pendingLive
               /\ q.requests = sock.requests /\ q.suppressed = sock.suppressed
               /\ \A u : ~HasBarrier(q.queue, u)
               /\ Still(sock) => Still(q)
               /\ NewsOn(Line(q)) = NewsOn(Line(sock)) \o News(msg)
               /\ NewsOn(Line(sock)) \in Seq(Event)
      BY <2>1, <2>3, <2>6, <2>8, <3>1, <3>2, EnqueueFlows
    <3>7. q.open /\ up => Sorted(q, cs, tail)
      BY <3>4, <3>6, SortedOver
    <3>8. q.open => Streams(q, cs, tail, hi, up)
      BY <2>3, <3>5, <3>6, <3>7 DEF Streams
    <3> QED BY <1>0, <3>3, <3>6, <3>8, BecomeFlows
  <2>9. ASSUME NEW c, Due(c) => Due(b) /\ c.batches = b.batches, Owing(b) => Owing(c),
               NEW q, up, q.pendingLive = sock.pendingLive,
               NewsOn(Line(q)) = NewsOn(Line(sock)) \o <<>>, NewsOn(Line(sock)) \in Seq(Event)
        PROVE  Level(q, [bodies EXCEPT ![t] = c], hi)
    <3> DEFINE cs == [bodies EXCEPT ![t] = c]
    <3>1. DOMAIN cs = DOMAIN bodies /\ \A u \in DOMAIN bodies : cs[u] = IF u = t THEN c ELSE bodies[u]
      OBVIOUS
    <3> HIDE DEF cs
    <3>2. \A n : Reaches(NewsOn(Line(sock)), n) => Reaches(NewsOn(Line(q)), n)
      BY <2>9, NothingNew
    <3>3. /\ \A u \in DOMAIN cs : Due(cs[u]) => u \in DOMAIN bodies /\ Due(bodies[u]) /\ cs[u].batches = bodies[u].batches
          /\ \A u \in DOMAIN bodies : Owing(bodies[u]) => u \in DOMAIN cs /\ Owing(cs[u])
      BY <2>9, <3>1
    <3>4. Level(q, cs, hi)
      BY <2>4, <2>9, <3>2, <3>3, LevelOn
    <3> QED BY <3>4 DEF cs
  <2>10. CASE b.reset
    <3> DEFINE c == [b EXCEPT !.reset = FALSE]
               msg == Reset(IdOf(r.key))
    <3>1. msg \in Msg /\ msg.type # "event" /\ News(msg) = <<>>
      BY <2>1 DEF Reset, Msg, IsFrame, News, IdOf, NoId
    <3>2. Become(Enqueue(sock, Message(msg, r.key)), [bodies EXCEPT ![t] = c], tail)
      BY <1>2, <2>10 DEF SendNext, r
    <3>3. c.phase = "sending" /\ c.batches = b.batches /\ c.kind = b.kind
      BY <1>0, <2>2 DEF Body
    <3> HIDE DEF c, b, msg
    <3>4. (Due(c) <=> Due(b)) /\ (Owing(b) <=> Owing(c))
      BY <1>0, <3>3 DEF Due, Owing, Early
    <3> QED BY <2>8, <2>9, <3>1, <3>2, <3>3, <3>4
  <2>11. CASE ~b.reset /\ b.batches # <<>>
    <3> DEFINE head == Head(b.batches)
               msg == Frame(r, head, FALSE, b.more, FALSE)
               rest == Tail(b.batches)
               c == [b EXCEPT !.batches = rest]
               cs == [bodies EXCEPT ![t] = c]
    <3>1. head \in Seq(Event) /\ rest \in Seq(Seq(Event))
      <4> HIDE DEF b
      <4>1. b.batches[1] \in Seq(Event) /\ head = b.batches[1]
        BY <2>2, <2>11
      <4> QED BY <2>2, <2>11, <4>1, HeadTailProperties
    <3>2. Become(Enqueue(sock, Message(msg, r.key)), [bodies EXCEPT ![t] = [b EXCEPT !.batches = Tail(@)]], tail)
      BY <1>2, <2>11 DEF SendNext, r
    <3>3. [b EXCEPT !.batches = Tail(@)] = c
      BY <2>2 DEF Body
    <3>4. up /\ b.kind # "older" =>
            /\ rest = <<>> => head # <<>> /\ Reaches(head, Ready(sock, hi))
            /\ rest # <<>> => LastReaches(rest, Ready(sock, hi))
      <4>1. ASSUME up, b.kind # "older" PROVE LastReaches(b.batches, Ready(sock, hi))
        BY <1>0, <2>4, <2>11, <4>1 DEF Due, Level
      <4> HIDE DEF b
      <4> QED BY <2>2, <2>11, <4>1, TailReaches
    <3> HIDE DEF rest, head
    <3>5. c.phase = "sending" /\ c.kind = b.kind /\ c.batches = rest
      BY <1>0, <2>2 DEF Body
    <3>6. Become(Enqueue(sock, Message(msg, r.key)), cs, tail)
      BY <3>2, <3>3
    <3>7. /\ msg \in Msg /\ msg.type # "event"
          /\ News(msg) = IF r.kind # "older" THEN head ELSE <<>>
      <4>1. msg \in Msg
        <5> HIDE DEF b
        <5> QED BY <2>1, <2>2, <3>1, FrameIs
      <4> QED BY <4>1 DEF Frame, IsFrame, News
    <3>8. DOMAIN cs = DOMAIN bodies /\ \A u \in DOMAIN bodies : cs[u] = IF u = t THEN c ELSE bodies[u]
      OBVIOUS
    <3> HIDE DEF c, msg
    <3>9. ASSUME NEW q, up, q.pendingLive = sock.pendingLive,
                 NewsOn(Line(q)) = NewsOn(Line(sock)) \o News(msg), NewsOn(Line(sock)) \in Seq(Event)
          PROVE  Level(q, cs, hi)
      <4>1. CASE b.kind = "older"
        <5>1. NewsOn(Line(q)) = NewsOn(Line(sock)) \o <<>>
          BY <2>5, <3>7, <3>9, <4>1
        <5>2. ~Due(c) /\ ~Owing(b)
          BY <3>5, <4>1 DEF Due, Owing
        <5> HIDE DEF b
        <5> QED BY <2>9, <3>9, <5>1, <5>2
      <4>2. CASE b.kind # "older"
        <5> HIDE DEF cs
        <5>1. Ready(q, hi) = Ready(sock, hi)
          BY <3>9 DEF Ready
        <5>2. \A u \in DOMAIN cs : Due(cs[u]) => u = t /\ rest # <<>> /\ cs[u].batches = rest
          BY <2>7, <3>5, <3>8, <3>9 DEF Due
        <5>3. \A u \in DOMAIN cs : Due(cs[u]) => LastReaches(cs[u].batches, Ready(q, hi))
          BY <3>4, <3>9, <4>2, <5>1, <5>2
        <5>4. ASSUME \A u \in DOMAIN cs : ~Owing(cs[u]) PROVE Reaches(NewsOn(Line(q)), Ready(q, hi))
          <6>1. ~Owing(c)
            BY <3>8, <5>4
          <6>2. rest = <<>>
            BY <3>5, <4>2, <6>1 DEF Owing, Due
          <6>3. NewsOn(Line(q)) = NewsOn(Line(sock)) \o head
            BY <2>5, <3>7, <3>9, <4>2
          <6>4. PICK es \in Seq(Event), fs \in Seq(Event) : es = NewsOn(Line(sock)) /\ fs = head
            BY <3>1, <3>9
          <6>5. Reaches(fs, Ready(q, hi)) /\ fs # <<>>
            BY <3>4, <3>9, <4>2, <5>1, <6>2, <6>4
          <6>6. Reaches(es \o fs, Ready(q, hi))
            BY <6>5, ReachesConcat
          <6> QED BY <6>3, <6>4, <6>6
        <5> QED BY <2>4, <3>9, <5>1, <5>3, <5>4 DEF Level
      <4> QED BY <4>1, <4>2
    <3> QED BY <2>8, <3>5, <3>6, <3>7, <3>9
  <2>12. CASE ~b.reset /\ b.batches = <<>> /\ ~b.ended
    <3> DEFINE msg == Frame(r, <<>>, TRUE, b.more, FALSE)
               c == [b EXCEPT !.ended = TRUE]
    <3>1. msg \in Msg /\ msg.type # "event" /\ News(msg) = <<>>
      <4>1. <<>> \in Seq(Event)
        OBVIOUS
      <4>2. msg \in Msg
        <5> HIDE DEF b
        <5> QED BY <2>1, <2>2, <4>1, FrameIs
      <4> QED BY <4>2 DEF Frame, IsFrame, News
    <3>2. Become(Enqueue(sock, Message(msg, r.key)), [bodies EXCEPT ![t] = c], tail)
      BY <1>2, <2>12 DEF SendNext, r
    <3>3. c.phase = "sending" /\ c.batches = b.batches /\ c.kind = b.kind
      BY <1>0, <2>2 DEF Body
    <3> HIDE DEF c, b, msg
    <3>4. (Due(c) <=> Due(b)) /\ (Owing(b) <=> Owing(c))
      BY <1>0, <3>3 DEF Due, Owing, Early
    <3> QED BY <2>8, <2>9, <3>1, <3>2, <3>3, <3>4
  <2>13. CASE ~b.reset /\ b.batches = <<>> /\ b.ended
    <3> DEFINE c == [b EXCEPT !.phase = "closing"]
               cs == [bodies EXCEPT ![t] = c]
    <3>1. Become(IF r.kind = "older" THEN CompleteRequest(sock, t) ELSE Enqueue(sock, Barrier(r)), cs, tail)
      <4>1. Become(IF r.kind = "older" THEN CompleteRequest(sock, t) ELSE Enqueue(sock, Barrier(r)),
                   [bodies EXCEPT ![t].phase = "closing"], tail)
        BY <1>2, <2>13 DEF SendNext, r
      <4>2. [bodies EXCEPT ![t].phase = "closing"] = cs
        BY <2>2 DEF Body
      <4> QED BY <4>1, <4>2
    <3>2. c.phase = "closing" /\ c.kind = b.kind
      BY <2>2 DEF Body
    <3>3. ~Due(c) /\ ~Owing(b)
      BY <1>0, <2>13, <3>2 DEF Due, Owing, Early
    <3>4. DOMAIN cs = DOMAIN bodies /\ \A u \in DOMAIN bodies : cs[u] = IF u = t THEN c ELSE bodies[u]
      OBVIOUS
    <3> HIDE DEF c
    <3>5. up => Sorted(sock, cs, tail)
      <4> HIDE DEF b
      <4>1. bodies[t].phase # "closing" /\ c.kind = bodies[t].kind
        BY <1>0, <3>2 DEF b
      <4> QED BY <1>0, <2>4, <3>2, <4>1, SortedGoesOn
    <3>6. ASSUME NEW q, up, q.pendingLive = sock.pendingLive,
                 \A n : Reaches(NewsOn(Line(sock)), n) => Reaches(NewsOn(Line(q)), n)
          PROVE  Level(q, cs, hi)
      <4> HIDE DEF cs
      <4>1. /\ \A u \in DOMAIN cs : Due(cs[u]) => u \in DOMAIN bodies /\ Due(bodies[u]) /\ cs[u].batches = bodies[u].batches
            /\ \A u \in DOMAIN bodies : Owing(bodies[u]) => u \in DOMAIN cs /\ Owing(cs[u])
        BY <3>3, <3>4
      <4> QED BY <2>4, <3>6, <4>1, LevelOn
    <3> HIDE DEF cs
    <3>7. CASE r.kind = "older"
      <4>1. PICK q : q = CompleteRequest(sock, t)
        OBVIOUS
      <4>2. Streams(sock, cs, tail, hi, up)
        BY <2>3, <3>5, <3>6 DEF Streams
      <4>3. \A u \in DOMAIN cs : cs[u].phase # "closing" => u # t
        BY <3>2, <3>4
      <4>4. Follows(Line(q)) /\ (q.open => q.present /\ Streams(q, cs, tail, hi, up))
        <5>1. up \in BOOLEAN
          OBVIOUS
        <5> HIDE DEF up
        <5>2. \A z : z = CompleteRequest(sock, t) =>
                Follows(Line(z)) /\ (z.open => z.present /\ Streams(z, cs, tail, hi, up))
          BY <2>1, <2>3, <4>2, <4>3, <5>1, CompleteFlows
        <5> QED BY <4>1, <5>2
      <4>5. Become(q, cs, tail)
        BY <3>1, <3>7, <4>1
      <4> QED BY <1>0, <4>4, <4>5, BecomeFlows
    <3>8. CASE r.kind # "older"
      <4>0. PICK bar : bar = Barrier(r)
        OBVIOUS
      <4>1. PICK q : q = Enqueue(sock, bar)
        OBVIOUS
      <4>2. bar \in Item /\ bar.kind = "barrier" /\ bar.token = t
        BY <2>1, <4>0, BarrierIs
      <4>3. /\ Follows(Line(q))
            /\ q.open =>
                 /\ q.present /\ q.pendingLive = sock.pendingLive
                 /\ q.requests = sock.requests /\ q.suppressed = sock.suppressed
                 /\ \A u : HasBarrier(q.queue, u) => u = t
                 /\ Still(sock) => Still(q)
                 /\ NewsOn(Line(q)) = NewsOn(Line(sock)) \o <<>>
                 /\ NewsOn(Line(sock)) \in Seq(Event)
        <5>1. /\ Follows(Line(q))
              /\ q.open =>
                   /\ q.present /\ q.pendingLive = sock.pendingLive
                   /\ q.requests = sock.requests /\ q.suppressed = sock.suppressed
                   /\ \A u : HasBarrier(q.queue, u) =>
                        HasBarrier(sock.queue, u) \/ (bar.kind = "barrier" /\ bar.token = u)
                   /\ Still(sock) => Still(q)
                   /\ NewsOn(Line(q)) = NewsOn(Line(sock)) \o (IF bar.kind = "message" THEN News(bar.msg) ELSE <<>>)
                   /\ NewsOn(Line(sock)) \in Seq(Event)
          BY <2>1, <2>3, <4>1, <4>2, EnqueueFlows
        <5> QED BY <2>6, <4>2, <5>1
      <4>4. q.open => \A n : Reaches(NewsOn(Line(sock)), n) => Reaches(NewsOn(Line(q)), n)
        BY <4>3, NothingNew
      <4>5. q.open /\ up => Level(q, cs, hi)
        BY <3>6, <4>3, <4>4
      <4>6. q.open /\ up => Sorted(q, cs, tail)
        <5>1. t \in DOMAIN cs /\ cs[t].phase = "closing"
          BY <3>2, <3>4
        <5> QED BY <3>5, <4>3, <5>1, SortedOver
      <4>7. q.open => Streams(q, cs, tail, hi, up)
        BY <2>3, <4>3, <4>5, <4>6 DEF Streams
      <4>8. Become(q, cs, tail)
        BY <3>1, <3>8, <4>0, <4>1
      <4> QED BY <1>0, <4>3, <4>7, <4>8, BecomeFlows
    <3> QED BY <3>7, <3>8
  <2> QED BY <2>2, <2>10, <2>11, <2>12, <2>13
<1> QED BY <1>1, <1>2

-----------------------------------------------------------------------------
(* What a plan ends with. *)

LEMMA EntriesReach ==
  ASSUME NEW g \in Gens, NEW n \in Nat \ {0}
  PROVE  LET es == Entries(g, 1, n) IN es \in Seq(Event) /\ es # <<>> /\ es[Len(es)].seq = n
<1> DEFINE es == Entries(g, 1, n)
<1>1. 1 \in Nat /\ n \in Int
  OBVIOUS
<1>2. es \in Seq(Event)
  BY <1>1, EntriesTyped
<1>3. es = [i \in 1..n |-> [gen |-> g, seq |-> 1 + i - 1]]
  BY DEF Entries
<1>4. DOMAIN es = 1..n /\ es[n].seq = n
  BY <1>3
<1> HIDE DEF es
<1>5. Len(es) = n
  BY <1>2, <1>4
<1>6. es # <<>>
  <2>1. Len(<<>>) = 0
    OBVIOUS
  <2> QED BY <1>5, <2>1
<1> QED BY <1>2, <1>4, <1>5, <1>6 DEF es

LEMMA NewestLast ==
  ASSUME NEW T, NEW s \in Seq(T), s # <<>>, NEW n \in Nat \ {0}
  PROVE  LET k == Newest(s, n) IN k \in Seq(T) /\ k # <<>> /\ k[Len(k)] = s[Len(s)]
<1> DEFINE m == Max2(1, Len(s) - n + 1)
           k == SubSeq(s, m, Len(s))
<1>1. Len(s) \in Nat /\ Len(s) >= 1
  OBVIOUS
<1>2. m \in Nat \ {0} /\ m <= Len(s)
  BY <1>1 DEF Max2
<1> HIDE DEF m
<1>3. /\ k \in Seq(T) /\ Len(k) = Len(s) - m + 1
      /\ \A i \in 1..Len(k) : k[i] = s[m + i - 1]
  BY <1>1, <1>2, SubSeqOf
<1> HIDE DEF k
<1>4. Len(k) \in 1..Len(k) /\ m + Len(k) - 1 = Len(s) /\ Len(k) >= 1
  BY <1>1, <1>2, <1>3
<1>5. k # <<>>
  <2>1. Len(<<>>) = 0
    OBVIOUS
  <2> QED BY <1>4, <2>1
<1>6. k[Len(k)] = s[Len(s)]
  BY <1>3, <1>4
<1> QED BY <1>3, <1>5, <1>6 DEF Newest, k, m

LEMMA BatchesLast ==
  ASSUME NEW es \in Seq(Event), es # <<>>, NEW n, es[Len(es)].seq = n
  PROVE  Batches(es) \in Seq(Seq(Event)) /\ Batches(es) # <<>> /\ LastReaches(Batches(es), n)
<1> DEFINE m == (Len(es) + FrameSize - 1) \div FrameSize
           At(i) == SubSeq(es, (i - 1) * FrameSize + 1, Min2(i * FrameSize, Len(es)))
           bs == Batches(es)
           from == (m - 1) * FrameSize + 1
           last == SubSeq(es, from, Len(es))
<1>1. FrameSize \in Nat \ {0} /\ Len(es) \in Nat /\ Len(es) >= 1
  BY CoordinatorAssumption
<1>2. /\ m \in Nat /\ m * FrameSize <= Len(es) + FrameSize - 1
      /\ Len(es) <= m * FrameSize
  BY <1>1
<1>3. m \in Nat \ {0}
  BY <1>1, <1>2
<1>4. bs = [i \in 1..m |-> At(i)] /\ bs \in Seq(Seq(Event))
  BY BatchesTyped DEF Batches
<1> HIDE DEF m
<1>5. DOMAIN bs = 1..m /\ bs[m] = At(m)
  <2> HIDE DEF At, bs
  <2>1. m \in 1..m
    BY <1>3
  <2> QED BY <1>4, <2>1
<1>6. from \in Nat \ {0} /\ from <= Len(es)
  <2>1. PICK x \in Int : x = (m - 1) * FrameSize
    BY <1>1, <1>3
  <2>2. m * FrameSize = x + FrameSize
    BY <1>1, <1>3, <2>1
  <2>3. x >= 0
    BY <1>1, <1>3, <2>1
  <2> QED BY <1>1, <1>2, <2>1, <2>2, <2>3
<1>7. At(m) = last
  <2>1. Min2(m * FrameSize, Len(es)) = Len(es)
    BY <1>1, <1>2, <1>3 DEF Min2
  <2> QED BY <2>1
<1> HIDE DEF bs, At, from
<1>8. Len(bs) = m /\ bs # <<>>
  <2>1. Len(bs) = m
    BY <1>3, <1>4, <1>5
  <2>2. Len(<<>>) = 0
    OBVIOUS
  <2> QED BY <1>3, <2>1, <2>2
<1>9. /\ last \in Seq(Event) /\ Len(last) = Len(es) - from + 1
      /\ \A i \in 1..Len(last) : last[i] = es[from + i - 1]
  BY <1>1, <1>6, SubSeqOf
<1> HIDE DEF last
<1>10. Len(last) \in 1..Len(last) /\ from + Len(last) - 1 = Len(es) /\ Len(last) >= 1
  BY <1>1, <1>6, <1>9
<1>11. last # <<>> /\ last[Len(last)] = es[Len(es)]
  <2>1. Len(<<>>) = 0
    OBVIOUS
  <2> QED BY <1>9, <1>10, <2>1
<1>12. LastReaches(bs, n)
  BY <1>5, <1>7, <1>8, <1>11 DEF LastReaches
<1> QED BY <1>4, <1>8, <1>12 DEF bs

\* All that is held back is in the snapshot.
LEMMA HeldNone ==
  ASSUME sock.pendingLive \in Seq(Event), NEW b,
         \A i \in DOMAIN sock.pendingLive :
           ~(sock.pendingLive[i].seq < b.raw.lo) /\ ~(sock.pendingLive[i].seq > b.raw.hi)
  PROVE  Held(b) = <<>>
<1> DEFINE S == {e \in Range(sock.pendingLive) : e.seq < b.raw.lo \/ e.seq > b.raw.hi}
           k == Those(sock.pendingLive, S)
<1>1. S = {}
  BY DEF Range
<1>2. k \in Seq(Event) /\ Leaves(sock.pendingLive, S, Len(sock.pendingLive), k)
  <2> HIDE DEF S
  <2> QED BY ThoseOf
<1>3. Held(b) = k
  BY DEF Held
<1> HIDE DEF S, k
<1>4. \A i \in 1..Len(k) : FALSE
  BY <1>1, <1>2 DEF Leaves
<1>5. k = <<>>
  <2>1. Len(k) \in Nat
    BY <1>2
  <2>2. Len(k) = 0
    <3>1. Len(k) # 0 => 1 \in 1..Len(k)
      BY <2>1
    <3> QED BY <1>4, <3>1
  <2> QED BY <1>2, <2>2
<1> QED BY <1>3, <1>5

\* A plan for a cold request ends with the store's newest event, and takes in
\* all that is held back.  One for older history finds nothing held back, or a
\* cold request's body behind it in the tail.
LEMMA PlanFlows ==
  ASSUME Keep = 0, IInv, OnceInv, FlowInv, NEW t \in DOMAIN bodies, Plan(t)
  PROVE  FlowInv'
<1> DEFINE b == bodies[t]
           up == bridge # None
           found   == Selected(b)
           chosen  == IF b.kind = "delta" \/ (b.kind = "cold" /\ ~b.tailMode) THEN found
                      ELSE Newest(found, WindowFrames * FrameSize)
           newer   == Entries(gen, Max2(lo, (IF b.raw.lo <= b.raw.hi THEN b.raw.hi ELSE 0) + 1), hi)
           catchup == IF b.kind = "older" THEN <<>> ELSE newer
           batches == Batches(chosen \o catchup)
           kept    == IF b.kind = "delta" THEN SubSeq(batches, 1, Min2(WindowFrames, Len(batches)))
                                          ELSE Newest(batches, WindowFrames)
           more    == \/ Len(chosen) < Len(found)
                      \/ b.kind # "delta" /\ Len(kept) < Len(batches)
                      \/ b.kind = "cold" /\ b.file > 0
           held    == Held(b)
           left    == Max2(0, sock.queued - (Len(sock.pendingLive) - Len(held)))
           s == [sock EXCEPT !.pendingLive = held, !.queued = left]
           c == [b EXCEPT !.phase = "sending", !.batches = kept, !.more = more]
           cs == [bodies EXCEPT ![t] = c]
<1>0. /\ b.phase = "loaded" /\ hi' = hi /\ bridge' = bridge /\ replaying' = replaying /\ load' = load
      /\ tail # <<>> /\ t = Head(tail)
  BY DEF Plan, Delivering, InPhase, sourceVars
<1>1. CASE ~Valid(t)
  BY <1>0, <1>1, InvalidFlows DEF Plan
<1>2. CASE Valid(t)
  <2>1. /\ gen \in Gens /\ hi \in Nat /\ lo = 1 /\ sock \in SocketType /\ sock.pendingLive \in Seq(Event)
        /\ SocketOK(sock, token) /\ Served(sock, bodies)
    BY SockTyped DEF SocketType, OnceInv, IInv, SocketInv, Serving
  <2>2. /\ b \in Body /\ b.kind \in KindSet /\ b.raw.gen = gen /\ b.raw.lo = 1 /\ b.raw.hi = hi
    BY <1>0, <2>1, BodyOf DEF OnceInv, SnapOK, Body
  <2>3. /\ sock.open /\ sock.present /\ Follows(Line(sock)) /\ Streams(sock, bodies, tail, hi, up)
    BY BodyFlows
  <2>4. up => Level(sock, bodies, hi) /\ Sorted(sock, bodies, tail) /\ hi >= 1
    BY <2>3 DEF Streams, FlowInv
  <2>5. held = <<>>
    <3>1. CASE ~up
      BY <2>1, <2>3, <3>1, HeldTyped DEF Streams, Still
    <3>2. CASE up
      <4>1. /\ Ready(sock, hi) \in Nat /\ Len(sock.pendingLive) \in Nat
            /\ Ready(sock, hi) + Len(sock.pendingLive) = hi
            /\ DOMAIN sock.pendingLive = 1..Len(sock.pendingLive)
        BY <2>1, <2>4, <3>2 DEF Level, Ready
      <4>2. \A i \in DOMAIN sock.pendingLive : sock.pendingLive[i].seq = Ready(sock, hi) + i
        BY <2>4, <3>2 DEF Level
      <4>3. \A i \in DOMAIN sock.pendingLive :
              ~(sock.pendingLive[i].seq < b.raw.lo) /\ ~(sock.pendingLive[i].seq > b.raw.hi)
        <5> HIDE DEF b
        <5> QED BY <2>2, <4>1, <4>2
      <4> HIDE DEF b
      <4> QED BY <2>1, <4>3, HeldNone
    <3> QED BY <3>1, <3>2
  <2>6. WindowFrames \in Nat \ {0} /\ FrameSize \in Nat \ {0} /\ WindowFrames * FrameSize \in Nat \ {0}
    <3>1. WindowFrames \in Nat \ {0} /\ FrameSize \in Nat \ {0}
      BY CoordinatorAssumption
    <3> QED BY <3>1
  <2>7. up /\ b.kind # "older" => kept # <<>> /\ LastReaches(kept, hi)
    <3> SUFFICES ASSUME up, b.kind # "older" PROVE kept # <<>> /\ LastReaches(kept, hi)
      OBVIOUS
    <3>1. b.kind = "cold"
      BY <2>2, <2>4 DEF Sorted, KindSet
    <3>2. found \in Seq(Event) /\ found # <<>> /\ found[Len(found)].seq = hi
      <4>1. found = Entries(gen, 1, hi)
        <5> HIDE DEF b
        <5> QED BY <2>2, <3>1 DEF Selected
      <4>2. hi \in Nat \ {0}
        BY <2>1, <2>4
      <4> HIDE DEF found
      <4> QED BY <2>1, <4>1, <4>2, EntriesReach
    <3>3. newer = <<>>
      <4> DEFINE from == Max2(lo, (IF b.raw.lo <= b.raw.hi THEN b.raw.hi ELSE 0) + 1)
      <4>1. from \in Nat /\ from > hi
        <5> HIDE DEF b
        <5> QED BY <2>1, <2>2, <2>4 DEF Max2
      <4> HIDE DEF from
      <4>2. 1..(hi - from + 1) = {}
        BY <2>1, <4>1
      <4>3. Entries(gen, from, hi) = <<>>
        BY <4>2 DEF Entries
      <4> QED BY <4>3 DEF from
    <3> HIDE DEF found, newer
    <3>4. chosen \in Seq(Event) /\ chosen # <<>> /\ chosen[Len(chosen)].seq = hi
      <4>1. PICK k : k = Newest(found, WindowFrames * FrameSize)
        OBVIOUS
      <4>2. k \in Seq(Event) /\ k # <<>> /\ k[Len(k)] = found[Len(found)]
        BY <2>6, <3>2, <4>1, NewestLast
      <4> HIDE DEF b
      <4> QED BY <3>2, <4>1, <4>2
    <3> HIDE DEF chosen
    <3>5. chosen \o catchup = chosen
      BY <3>3, <3>4, ConcatEmptySeq
    <3>6. batches \in Seq(Seq(Event)) /\ batches # <<>> /\ LastReaches(batches, hi)
      BY <3>4, <3>5, BatchesLast
    <3> HIDE DEF batches
    <3>7. PICK k : k = Newest(batches, WindowFrames)
      OBVIOUS
    <3>8. k # <<>> /\ k[Len(k)] = batches[Len(batches)]
      BY <2>6, <3>6, <3>7, NewestLast
    <3>9. LastReaches(k, hi)
      BY <3>6, <3>8 DEF LastReaches
    <3> QED BY <3>1, <3>7, <3>8, <3>9
  <2>8. Become(s, cs, tail)
    <3>1. Become([sock EXCEPT !.pendingLive = held,
                              !.queued = Max2(0, @ - (Len(sock.pendingLive) - Len(Held(b))))],
                 [bodies EXCEPT ![t].phase = "sending", ![t].batches = kept, ![t].more = more], tail)
      BY <1>2 DEF Plan, batches, chosen, catchup, found, newer
    <3> HIDE DEF kept, more
    <3>2. [bodies EXCEPT ![t].phase = "sending", ![t].batches = kept, ![t].more = more] = cs
      BY <2>2 DEF Body
    <3> HIDE DEF held
    <3>3. [sock EXCEPT !.pendingLive = held,
                       !.queued = Max2(0, @ - (Len(sock.pendingLive) - Len(Held(b))))] = s
      BY <2>1 DEF SocketType, held
    <3> QED BY <3>1, <3>2, <3>3
  <2> HIDE DEF kept, more, left, held
  <2>9. c.phase = "sending" /\ c.batches = kept /\ c.kind = b.kind
    BY <2>2 DEF Body
  <2>10. /\ s.out = sock.out /\ s.inflight = sock.inflight /\ s.queue = sock.queue
         /\ s.requests = sock.requests /\ s.suppressed = sock.suppressed /\ s.pendingLive = held
         /\ s.present = sock.present
    BY <2>1 DEF SocketType
  <2> HIDE DEF c, s
  <2>11. DOMAIN cs = DOMAIN bodies /\ \A u \in DOMAIN bodies : cs[u] = IF u = t THEN c ELSE bodies[u]
    OBVIOUS
  <2>12. Line(s) = Line(sock)
    BY <2>10 DEF Line, Hand
  <2>13. ASSUME up PROVE Sorted(s, cs, tail)
    <3>1. Sorted(sock, cs, tail)
      BY <1>0, <2>4, <2>9, <2>13, SortedGoesOn
    <3> HIDE DEF cs
    <3> QED BY <2>10, <3>1, SortedOver
  <2> HIDE DEF cs
  <2>14. ASSUME up PROVE Level(s, cs, hi)
    <3>1. Ready(s, hi) = hi
      <4>1. Len(<<>>) = 0
        OBVIOUS
      <4> QED BY <2>1, <2>5, <2>10, <4>1 DEF Ready
    <3>2. \A u \in DOMAIN bodies \ {t} : bodies[u].phase \notin {"sending", "closing"}
      BY <1>0, <2>4, <2>14 DEF Sorted
    <3>3. ASSUME NEW u \in DOMAIN cs, Due(cs[u]) PROVE LastReaches(cs[u].batches, hi)
      <4>1. u = t
        BY <2>11, <3>2, <3>3 DEF Due
      <4>2. c.kind # "older" /\ c.batches # <<>>
        BY <2>11, <3>3, <4>1 DEF Due
      <4> QED BY <2>7, <2>9, <2>11, <2>14, <4>1, <4>2
    <3>4. ASSUME \A u \in DOMAIN cs : ~Owing(cs[u]) PROVE Reaches(NewsOn(Line(s)), hi)
      <4>1. b.kind = "older"
        <5>1. ~Owing(c)
          BY <2>11, <3>4
        <5> QED BY <2>7, <2>9, <2>14, <5>1 DEF Owing, Due
      <4>2. sock.pendingLive = <<>>
        <5> SUFFICES ASSUME sock.pendingLive # <<>> PROVE FALSE
          OBVIOUS
        <5>1. sock.suppressed
          BY <2>1 DEF SocketOK, Suppressing
        <5>2. PICK i \in DOMAIN sock.requests : sock.requests[i].kind # "older"
          BY <2>4, <2>14, <5>1 DEF Sorted, LiveRequests
        <5> DEFINE u == sock.requests[i].token
        <5>3. u \in DOMAIN bodies
          BY <2>1, <2>4, <2>14 DEF Served, Sorted
        <5>4. bodies[u].kind # "older" /\ u # t
          BY <2>4, <2>14, <4>1, <5>2, <5>3 DEF Sorted
        <5>5. bodies[u].phase \in Early
          BY <2>4, <2>14, <3>2, <5>3, <5>4 DEF Sorted, Early
        <5> QED BY <2>11, <3>4, <5>3, <5>4, <5>5 DEF Owing
      <4>3. \A u \in DOMAIN bodies : ~Owing(bodies[u])
        BY <2>11, <3>4, <4>1 DEF Owing, Due
      <4>4. Ready(sock, hi) = hi
        <5>1. Len(<<>>) = 0
          OBVIOUS
        <5> QED BY <2>1, <4>2, <5>1 DEF Ready
      <4> QED BY <2>4, <2>12, <2>14, <4>3, <4>4 DEF Level
    <3>5. DOMAIN s.pendingLive = {}
      BY <2>5, <2>10
    <3> QED BY <2>1, <3>1, <3>3, <3>4, <3>5 DEF Level
  <2>15. ~up => Still(s)
    BY <2>3, <2>5, <2>10, <2>12 DEF Streams, Still
  <2> QED BY <1>0, <2>3, <2>8, <2>10, <2>12, <2>13, <2>14, <2>15, BecomeFlows DEF Streams
<1> QED BY <1>1, <1>2

\* A body that is through leaves nothing owed, and its barrier has been passed.
LEMMA CloseFlows ==
  ASSUME IInv, FlowInv, NEW t \in DOMAIN bodies, Close(t)
  PROVE  FlowInv'
<1> DEFINE cs == DropBody(bodies, t)
           up == bridge # None
<1>1. hi' = hi /\ bridge' = bridge /\ replaying' = replaying /\ load' = load /\ sock.queue = <<>>
  BY DEF Close, Drained, sourceVars
<1>2. DOMAIN cs = DOMAIN bodies \ {t} /\ \A u \in DOMAIN bodies \ {t} : cs[u] = bodies[u]
  BY DropBodyIs
<1> HIDE DEF cs
<1>3. sock.open /\ sock.present /\ Follows(Line(sock)) /\ Streams(sock, bodies, tail, hi, up)
  BY BodyFlows
<1>4. CASE Delivering({"closing"}) /\ t = Head(tail) /\ Become(sock, cs, Tail(tail))
  <2>0. bodies[t].phase = "closing"
    BY <1>4 DEF Delivering, InPhase
  <2>1. ASSUME up PROVE Level(sock, cs, hi) /\ Sorted(sock, cs, Tail(tail))
    <3>1. Level(sock, bodies, hi) /\ Sorted(sock, bodies, tail)
      BY <1>3, <2>1 DEF Streams
    <3>2. /\ \A u \in DOMAIN cs : Due(cs[u]) => u \in DOMAIN bodies /\ Due(bodies[u]) /\ cs[u].batches = bodies[u].batches
          /\ \A u \in DOMAIN bodies : Owing(bodies[u]) => u \in DOMAIN cs /\ Owing(cs[u])
      BY <1>2, <2>0 DEF Owing, Due, Early
    <3>3. Level(sock, cs, hi)
      BY <3>1, <3>2, LevelOn
    <3>4. \A u : ~HasBarrier(sock.queue, u)
      BY <1>1 DEF HasBarrier
    <3>5. \A u \in DOMAIN cs : cs[u].phase \notin {"sending", "closing"}
      BY <1>2, <1>4, <3>1 DEF Sorted
    <3>6. Sorted(sock, cs, Tail(tail))
      BY <1>2, <3>1, <3>4, <3>5 DEF Sorted
    <3> QED BY <3>3, <3>6
  <2>2. Streams(sock, cs, Tail(tail), hi, up)
    BY <1>3, <2>1 DEF Streams
  <2> QED BY <1>1, <1>3, <1>4, <2>2, BecomeFlows
<1>5. CASE bodies[t].phase = "failing" /\ Become(CompleteRequest(sock, t), cs, tail)
  <2>1. ~up
    BY <1>5, BodyFlows
  <2>2. SocketOK(sock, token) /\ gen \in Gens /\ hi \in Nat
    BY SockTyped DEF IInv, SocketInv
  <2>3. Streams(sock, cs, tail, hi, FALSE)
    BY <1>3, <2>1 DEF Streams
  <2>4. PICK q : q = CompleteRequest(sock, t)
    OBVIOUS
  <2>5. Follows(Line(q)) /\ (q.open => q.present /\ Streams(q, cs, tail, hi, FALSE))
    <3> HIDE DEF up
    <3> QED BY <1>3, <2>2, <2>3, <2>4, CompleteFlows
  <2>6. q.open => Streams(q, cs, tail, hi, up)
    BY <2>1, <2>5 DEF Streams
  <2> QED BY <1>1, <1>5, <2>4, <2>5, <2>6, BecomeFlows
<1>6. \/ Delivering({"closing"}) /\ t = Head(tail) /\ Become(sock, cs, Tail(tail))
      \/ bodies[t].phase = "failing" /\ Become(CompleteRequest(sock, t), cs, tail)
  BY DEF Close, InPhase, cs
<1> QED BY <1>4, <1>5, <1>6

\* The socket's line is carried on: the same messages, whoever has them.
LEMMA CarriedFlows ==
  ASSUME FlowInv, sock.open, sock.present, NEW q, Line(q) = Line(sock), q.pendingLive = sock.pendingLive,
         q.requests = sock.requests, q.suppressed = sock.suppressed,
         \A u : HasBarrier(q.queue, u) => HasBarrier(sock.queue, u)
  PROVE  Follows(Line(q)) /\ Streams(q, bodies, tail, hi, bridge # None)
<1>1. Follows(Line(sock)) /\ Streams(sock, bodies, tail, hi, bridge # None)
  BY DEF FlowInv, Flows
<1>2. ASSUME bridge # None PROVE Level(q, bodies, hi) /\ Sorted(q, bodies, tail)
  <2>1. Level(sock, bodies, hi) /\ Sorted(sock, bodies, tail)
    BY <1>1, <1>2 DEF Streams
  <2>2. Sorted(q, bodies, tail)
    BY <2>1, SortedOver
  <2>3. \A n : Reaches(NewsOn(Line(sock)), n) => Reaches(NewsOn(Line(q)), n)
    OBVIOUS
  <2>4. Level(q, bodies, hi)
    BY <2>1, <2>3, LevelOn
  <2> QED BY <2>2, <2>4
<1>3. bridge = None => Still(q)
  BY <1>1 DEF Streams, Still
<1> QED BY <1>1, <1>2, <1>3 DEF Streams

LEMMA DrainTakeFlows ==
  ASSUME IInv, DenseInv, FlowInv, DrainTake
  PROVE  FlowInv'
<1> DEFINE item == Head(sock.queue)
           rest == Tail(sock.queue)
           s == [sock EXCEPT !.queue = rest]
           up == bridge # None
<1>0. hi' = hi /\ bridge' = bridge /\ replaying' = replaying /\ load' = load
  BY DEF DrainTake, sourceVars
<1>1. /\ sock \in SocketType /\ sock.queue \in Seq(Item) /\ sock.queue # <<>> /\ sock.inflight = None
      /\ sock.open /\ SocketOK(sock, token) /\ Kept(sock, token) /\ gen \in Gens /\ hi \in Nat
      /\ sock.out \in Seq(Msg)
  BY SockTyped DEF SocketType, DrainTake, CanTake, IInv, SocketInv, DenseInv
<1>2. rest \in Seq(Item) /\ item \in Item
  BY <1>1, HeadTailProperties
<1>a. sock.present
  BY <1>1 DEF FlowInv, Flows, EmptySocket
<1>3. \/ item.kind = "barrier" /\ Become(CompleteRequest(s, item.token), bodies, tail)
      \/ /\ item.kind = "message" /\ item.key # NoId /\ ~HasRequest(s, item.key)
      \/ /\ item.kind = "message"
         /\ Become(Sent(s, item), bodies, tail) \/ Become([s EXCEPT !.inflight = item], bodies, tail)
  <2>1. \/ item.kind = "barrier" /\ Become(CompleteRequest(s, item.token), bodies, tail)
        \/ /\ item.kind = "message" /\ item.key # NoId /\ ~HasRequest(s, item.key)
           /\ Become([s EXCEPT !.queued = Max2(0, @ - item.count)], bodies, tail)
        \/ /\ item.kind = "message"
           /\ \E n \in {Sent(s, item), [s EXCEPT !.inflight = item]} : Become(n, bodies, tail)
    BY DEF DrainTake
  <2> HIDE DEF rest, item, s
  <2> QED BY <2>1
<1>4. ASSUME NEW q, q.queue = rest, q.requests = sock.requests, q.out \o Hand(q) = sock.out \o Spoken[item],
             q.pendingLive = sock.pendingLive, q.suppressed = sock.suppressed
      PROVE  /\ Follows(Line(q)) /\ Streams(q, bodies, tail, hi, up)
             /\ item.kind = "barrier" => HasBarrier(sock.queue, item.token)
  <2>1. /\ Line(q) = Line(sock) /\ \A u : HasBarrier(q.queue, u) => HasBarrier(sock.queue, u)
        /\ item.kind = "barrier" => HasBarrier(sock.queue, item.token)
    BY <1>1, <1>4, TakenKept
  <2> HIDE DEF item
  <2> QED BY <1>1, <1>4, <1>a, <2>1, CarriedFlows
<1>5. item.kind = "message" /\ item.key # NoId => HasRequest(sock, item.key)
  <2>1. 1 \in DOMAIN sock.queue /\ sock.queue[1] = item
    <3> HIDE DEF Item
    <3> QED BY <1>1
  <2> HIDE DEF item
  <2> QED BY <1>1, <2>1 DEF Kept, Waited
<1> HIDE DEF rest, item
<1>6. /\ s \in SocketType /\ s.queue = rest /\ s.requests = sock.requests /\ s.out = sock.out
      /\ s.inflight = None /\ s.suppressed = sock.suppressed /\ s.open = sock.open
      /\ s.pendingLive = sock.pendingLive /\ s.present = sock.present
  BY <1>1, <1>2 DEF SocketType
<1> HIDE DEF s
<1>7. CASE item.kind = "barrier" /\ Become(CompleteRequest(s, item.token), bodies, tail)
  <2>1. s.out \o Hand(s) = sock.out \o Spoken[item]
    BY <1>2, <1>6, <1>7 DEF Hand, Spoken
  <2>2. Follows(Line(s)) /\ Streams(s, bodies, tail, hi, up) /\ HasBarrier(sock.queue, item.token)
    BY <1>4, <1>6, <1>7, <2>1
  <2>3. SocketOK(s, token)
    BY <1>1, <1>6, SameRequestsOK DEF SocketOK, Suppressing
  <2>4. up => \A u \in DOMAIN bodies : bodies[u].phase # "closing" => u # item.token
    <3>1. up => Sorted(sock, bodies, tail)
      BY <1>1, <1>a DEF FlowInv, Flows, Streams
    <3> QED BY <2>2, <3>1 DEF Sorted
  <2>5. PICK q : q = CompleteRequest(s, item.token)
    OBVIOUS
  <2>6. up \in BOOLEAN
    OBVIOUS
  <2>7. Follows(Line(q)) /\ (q.open => q.present /\ Streams(q, bodies, tail, hi, up))
    <3> HIDE DEF up
    <3>1. PICK k : k = item.token
      OBVIOUS
    <3>2. up => \A u \in DOMAIN bodies : bodies[u].phase # "closing" => u # k
      BY <2>4, <3>1
    <3>3. s.open /\ s.present
      BY <1>1, <1>6, <1>a
    <3>4. \A z : z = CompleteRequest(s, k) =>
            Follows(Line(z)) /\ (z.open => z.present /\ Streams(z, bodies, tail, hi, up))
      BY <1>1, <2>2, <2>3, <2>6, <3>2, <3>3, CompleteFlows
    <3> QED BY <2>5, <3>1, <3>4
  <2>8. Become(q, bodies, tail)
    BY <1>7, <2>5
  <2> QED BY <1>0, <2>7, <2>8, BecomeFlows
<1>8. CASE item.kind = "message" /\ item.key # NoId /\ ~HasRequest(s, item.key)
  BY <1>5, <1>6, <1>8 DEF HasRequest
<1>9. CASE item.kind = "message" /\ Become(Sent(s, item), bodies, tail)
  <2> DEFINE left == Max2(0, s.queued - item.count)
             o == Append(s.out, item.msg)
             q == [s EXCEPT !.out = o, !.queued = left]
  <2>1. Sent(s, item) = q
    BY <1>6 DEF SocketType, Sent
  <2>2. item.msg \in Msg
    BY <1>2, <1>9 DEF Item, MessageItem
  <2>3. o \o <<>> = sock.out \o Spoken[item]
    BY <1>1, <1>2, <1>6, <1>9, <2>2, AppendsOne DEF Spoken
  <2> HIDE DEF left, o
  <2>4. /\ q.queue = rest /\ q.requests = sock.requests /\ q.out = o /\ q.inflight = None
        /\ q.pendingLive = sock.pendingLive /\ q.suppressed = sock.suppressed /\ q.present
    BY <1>6, <1>a DEF SocketType
  <2> HIDE DEF q
  <2>5. q.out \o Hand(q) = sock.out \o Spoken[item]
    BY <2>3, <2>4 DEF Hand
  <2>6. Follows(Line(q)) /\ Streams(q, bodies, tail, hi, up)
    BY <1>4, <2>4, <2>5
  <2>7. Become(q, bodies, tail)
    BY <1>9, <2>1
  <2> QED BY <1>0, <2>4, <2>6, <2>7, BecomeFlows
<1>10. CASE item.kind = "message" /\ Become([s EXCEPT !.inflight = item], bodies, tail)
  <2> DEFINE q == [s EXCEPT !.inflight = item]
  <2>1. /\ q.queue = rest /\ q.requests = sock.requests /\ q.out = sock.out /\ q.inflight = item
        /\ q.pendingLive = sock.pendingLive /\ q.suppressed = sock.suppressed /\ q.present
    BY <1>6, <1>a DEF SocketType
  <2>2. item # None
    BY <1>2, <1>10, NoneAssumption DEF Item, MessageItem
  <2>3. Become(q, bodies, tail)
    BY <1>10
  <2> HIDE DEF q
  <2>4. q.out \o Hand(q) = sock.out \o Spoken[item]
    BY <1>2, <1>10, <2>1, <2>2 DEF Hand, Spoken
  <2>5. Follows(Line(q)) /\ Streams(q, bodies, tail, hi, up)
    BY <1>4, <2>1, <2>4
  <2> QED BY <1>0, <2>1, <2>3, <2>5, BecomeFlows
<1> QED BY <1>3, <1>7, <1>8, <1>9, <1>10

LEMMA MicrotaskFlows ==
  ASSUME Keep = 0, IInv, OnceInv, DenseInv, FlowInv, Microtask
  PROVE  FlowInv'
BY AdmitFlows, AdmitUnavailableFlows, TakeSnapshotFlows, PlanFlows, SendNextFlows, CloseFlows, DrainTakeFlows
  DEF Microtask

LEMMA DrainSendFlows ==
  ASSUME IInv, FlowInv, DrainSend
  PROVE  FlowInv'
<1> DEFINE item == sock.inflight
           o == Append(sock.out, item.msg)
           left == Max2(0, sock.queued - item.count)
           q == [sock EXCEPT !.out = o, !.queued = left, !.inflight = None]
<1>0. /\ hi' = hi /\ bridge' = bridge /\ replaying' = replaying /\ load' = load
      /\ bodies' = bodies /\ tail' = tail
  BY DEF DrainSend, sourceVars
<1>1. sock \in SocketType /\ item.msg \in Msg /\ sock.open /\ item # None /\ sock.out \in Seq(Msg)
  BY SockTyped DEF SocketType, DrainSend, MessageItem
<1>2. sock' = q
  BY <1>1 DEF DrainSend, Sent, SocketType
<1>3. o \o <<>> = sock.out \o Hand(sock)
  BY <1>1, AppendsOne DEF Hand
<1>4. sock.present
  BY <1>1 DEF FlowInv, Flows, EmptySocket
<1> HIDE DEF o, left, item
<1>5. /\ q.out = o /\ q.queue = sock.queue /\ q.requests = sock.requests /\ q.open /\ q.inflight = None
      /\ q.pendingLive = sock.pendingLive /\ q.suppressed = sock.suppressed /\ q.present
  BY <1>1, <1>4 DEF SocketType
<1> HIDE DEF q
<1>6. Line(q) = Line(sock)
  BY <1>3, <1>5 DEF Line, Hand
<1>7. Follows(Line(q)) /\ Streams(q, bodies, tail, hi, bridge # None)
  BY <1>1, <1>4, <1>5, <1>6, CarriedFlows
<1>8. Flows(sock', bodies', tail', hi', bridge' # None)
  BY <1>0, <1>2, <1>5, <1>7 DEF Flows
<1> QED BY <1>0, <1>8, FlowPrimed DEF FlowInv

LEMMA EmptyFlows ==
  ASSUME NEW bs, DOMAIN bs = {}, NEW tl, NEW h \in Nat, NEW up \in BOOLEAN
  PROVE  Follows(Line(EmptySocket)) /\ Streams(EmptySocket, bs, tl, h, up)
<1>1. PICK q : q = EmptySocket
  OBVIOUS
<1>2. /\ q.out = <<>> /\ q.inflight = None /\ q.queue = <<>> /\ q.requests = <<>>
      /\ q.pendingLive = <<>> /\ ~q.suppressed
  BY <1>1 DEF EmptySocket
<1>3. <<>> \in Seq(Msg) /\ DOMAIN <<>> = {} /\ Len(<<>>) = 0
  OBVIOUS
<1>4. Line(q) = <<>>
  BY <1>2, <1>3, LineEmpty
<1>5. Reaches(NewsOn(Line(q)), Ready(q, h))
  BY <1>4, NewsNone DEF Reaches
<1>6. Ready(q, h) \in Nat
  BY <1>2, <1>3 DEF Ready
<1>7. Level(q, bs, h)
  BY <1>2, <1>3, <1>5, <1>6 DEF Level
<1>8. Sorted(q, bs, tl)
  BY <1>2, <1>3 DEF Sorted, HasBarrier
<1>9. Follows(Line(q)) /\ Still(q)
  BY <1>2, <1>3, <1>4 DEF Follows, Still
<1> QED BY <1>1, <1>7, <1>8, <1>9 DEF Streams

LEMMA OpenFlows ==
  ASSUME IInv, FlowInv, sock.open
  PROVE  Follows(Line(sock)) /\ Streams(sock, bodies, tail, hi, bridge # None)
<1>1. hi \in Nat /\ (bridge # None) \in BOOLEAN
  BY SockTyped
<1>2. Flows(sock, bodies, tail, hi, bridge # None)
  BY DEF FlowInv
<1> QED BY <1>2 DEF Flows

LEMMA SameFlow ==
  ASSUME FlowInv, UNCHANGED <<hi, bridge, load, sock, bodies, tail, replaying>>
  PROVE  FlowInv'
<1>1. Flows(sock', bodies', tail', hi', bridge' # None)
  BY DEF FlowInv
<1> QED BY <1>1, FlowPrimed DEF FlowInv

\* A live event goes on the line, behind the news it follows, or is held back
\* behind those held back before it.
LEMMA EventForwardFlows ==
  ASSUME IInv, FlowInv, EventForward
  PROVE  FlowInv'
<1> DEFINE e == [gen |-> gen, seq |-> hi + 1]
<1>1. /\ sock \in SocketType /\ e \in Event /\ gen \in Gens /\ hi \in Nat /\ SocketOK(sock, token)
      /\ sock.pendingLive \in Seq(Event)
  BY SockTyped DEF Event, IInv, SocketInv, SocketType
<1>2. /\ bridge # None /\ bridge.due = 0 /\ hi >= 1 /\ load = None /\ ~replaying
      /\ hi' = hi + 1 /\ load' = load /\ replaying' = replaying /\ bridge' = bridge
  BY DEF EventForward, Insert, FlowInv
<1>3. Become(IF ~sock.open \/ ~sock.present THEN sock
             ELSE IF sock.suppressed THEN SuppressLive(sock, e)
             ELSE Enqueue(sock, LiveItem(e)), bodies, tail)
  BY <1>2 DEF EventForward
<1>4. e.seq = hi + 1
  OBVIOUS
<1> HIDE DEF e
<1>5. ASSUME NEW q, Become(q, bodies, tail), Follows(Line(q)),
             q.open => Level(q, bodies, hi + 1) /\ Sorted(q, bodies, tail),
             q.open /\ ~q.present => q = EmptySocket /\ DOMAIN bodies = {}
      PROVE  FlowInv'
  <2>1. sock' = q /\ bodies' = (IF q.open THEN bodies ELSE Empty) /\ tail' = (IF q.open THEN tail ELSE <<>>)
    BY <1>5 DEF Become
  <2>2. DOMAIN Empty = {}
    BY DEF Empty
  <2>3. Flows(sock', bodies', tail', hi', bridge' # None)
    BY <1>2, <1>5, <2>1, <2>2 DEF Flows, Streams
  <2>4. hi' >= 1
    BY <1>1, <1>2
  <2> QED BY <1>2, <2>3, <2>4, FlowPrimed
<1>6. CASE ~sock.open
  <2>1. Become(sock, bodies, tail) /\ Follows(Line(sock))
    BY <1>3, <1>6 DEF FlowInv, Flows
  <2> QED BY <1>5, <1>6, <2>1
<1>7. CASE sock.open /\ ~sock.present
  <2>1. sock = EmptySocket /\ DOMAIN bodies = {} /\ hi + 1 \in Nat
    BY <1>1, <1>7 DEF FlowInv, Flows
  <2>2. Follows(Line(sock)) /\ Streams(sock, bodies, tail, hi + 1, TRUE)
    BY <2>1, EmptyFlows
  <2>3. Become(sock, bodies, tail)
    BY <1>3, <1>7
  <2> QED BY <1>5, <2>1, <2>2, <2>3 DEF Streams
<1>8. ASSUME sock.open, sock.present
      PROVE  /\ Follows(Line(sock)) /\ Level(sock, bodies, hi) /\ Sorted(sock, bodies, tail)
             /\ Ready(sock, hi) \in Nat /\ Len(sock.pendingLive) \in Nat
             /\ Ready(sock, hi) + Len(sock.pendingLive) = hi
             /\ DOMAIN sock.pendingLive = 1..Len(sock.pendingLive)
             /\ \A i \in DOMAIN sock.pendingLive : sock.pendingLive[i].seq = Ready(sock, hi) + i
  <2>1. Follows(Line(sock)) /\ Level(sock, bodies, hi) /\ Sorted(sock, bodies, tail)
    BY <1>2, <1>8, OpenFlows DEF Streams
  <2>2. Ready(sock, hi) \in Nat /\ \A i \in DOMAIN sock.pendingLive : sock.pendingLive[i].seq = Ready(sock, hi) + i
    BY <2>1 DEF Level
  <2>3. /\ Len(sock.pendingLive) \in Nat /\ Ready(sock, hi) + Len(sock.pendingLive) = hi
        /\ DOMAIN sock.pendingLive = 1..Len(sock.pendingLive)
    BY <1>1, <2>2 DEF Ready
  <2> QED BY <2>1, <2>2, <2>3
<1>9. CASE sock.open /\ sock.present /\ sock.suppressed
  <2> DEFINE held == Append(sock.pendingLive, e)
             more == sock.queued + 1
             q == [sock EXCEPT !.pendingLive = held, !.queued = more]
  <2>1. \A i \in DOMAIN sock.pendingLive : sock.pendingLive[i].seq # e.seq
    BY <1>1, <1>4, <1>8, <1>9
  <2>2. SuppressLive(sock, e) = QueueOverflow(sock) \/ SuppressLive(sock, e) = q
    BY <1>1, <2>1 DEF SuppressLive, SocketType
  <2>3. PICK z : z = SuppressLive(sock, e)
    OBVIOUS
  <2>4. Become(z, bodies, tail)
    BY <1>3, <1>9, <2>3
  <2>5. CASE z = QueueOverflow(sock)
    <3>1. Follows(Line(z)) /\ ~z.open
      BY <1>1, <1>8, <1>9, <2>5, OverflowFollows
    <3> QED BY <1>5, <2>4, <3>1
  <2>6. CASE z = q
    <3>1. /\ Len(held) = Len(sock.pendingLive) + 1 /\ DOMAIN held = 1..(Len(sock.pendingLive) + 1)
          /\ \A i \in 1..Len(sock.pendingLive) : held[i] = sock.pendingLive[i]
          /\ held[Len(sock.pendingLive) + 1] = e
      BY <1>1, AppendProperties
    <3> HIDE DEF held, more
    <3>2. /\ z.out = sock.out /\ z.inflight = sock.inflight /\ z.queue = sock.queue
          /\ z.requests = sock.requests /\ z.pendingLive = held /\ z.suppressed = sock.suppressed
          /\ z.present = sock.present
      BY <1>1, <2>6 DEF SocketType
    <3>3. Line(z) = Line(sock)
      BY <3>2 DEF Line, Hand
    <3>4. Ready(z, hi + 1) = Ready(sock, hi)
      <4>1. Ready(z, hi + 1) = (hi + 1) - Len(held) /\ Ready(sock, hi) = hi - Len(sock.pendingLive)
        BY <3>2 DEF Ready
      <4>2. Len(sock.pendingLive) \in Nat
        BY <1>8, <1>9
      <4>3. PICK n \in Nat : n = Len(sock.pendingLive) /\ Len(held) = n + 1
        BY <3>1, <4>2
      <4>4. (hi + 1) - (n + 1) = hi - n
        BY <1>1, <4>3
      <4> QED BY <4>1, <4>3, <4>4
    <3>5. \A i \in DOMAIN held : held[i].seq = Ready(sock, hi) + i
      <4> SUFFICES ASSUME NEW i \in DOMAIN held PROVE held[i].seq = Ready(sock, hi) + i
        OBVIOUS
      <4>1. CASE i \in 1..Len(sock.pendingLive)
        BY <1>8, <1>9, <3>1, <4>1
      <4>2. CASE i = Len(sock.pendingLive) + 1
        <5>1. held[i] = e
          BY <3>1, <4>2
        <5>2. Ready(sock, hi) \in Nat /\ Len(sock.pendingLive) \in Nat /\ Ready(sock, hi) + Len(sock.pendingLive) = hi
          BY <1>8, <1>9
        <5> QED BY <1>4, <4>2, <5>1, <5>2
      <4> QED BY <1>8, <1>9, <3>1, <4>1, <4>2
    <3>6. Level(z, bodies, hi + 1)
      BY <1>8, <1>9, <3>2, <3>3, <3>4, <3>5 DEF Level
    <3>7. Sorted(z, bodies, tail)
      BY <1>8, <1>9, <3>2, SortedOver
    <3> QED BY <1>5, <1>8, <1>9, <2>4, <3>2, <3>3, <3>6, <3>7
  <2> QED BY <2>2, <2>3, <2>5, <2>6
<1>10. CASE sock.open /\ sock.present /\ ~sock.suppressed
  <2>1. PICK item : item = LiveItem(e)
    OBVIOUS
  <2>2. PICK z : z = Enqueue(sock, item)
    OBVIOUS
  <2>3. Become(z, bodies, tail)
    BY <1>3, <1>10, <2>1, <2>2
  <2>4. item \in Item /\ Spoken[item] = <<Live(e)>> /\ item.kind = "message" /\ Live(e) \in Msg
    BY <1>1, <2>1, LiveItemIs DEF NoId, Spoken, Live, Msg
  <2>5. z = QueueOverflow(sock) \/ Queues(sock, item, z)
    BY <1>1, <2>2, <2>4, EnqueueIs
  <2>6. CASE z = QueueOverflow(sock)
    <3>1. Follows(Line(z)) /\ ~z.open
      BY <1>1, <1>8, <1>10, <2>6, OverflowFollows
    <3> QED BY <1>5, <2>3, <3>1
  <2>7. CASE Queues(sock, item, z)
    <3>1. sock.pendingLive = <<>> /\ ~LiveRequests(sock.requests)
      BY <1>1, <1>10 DEF SocketOK, Suppressing
    <3>2. \A u \in DOMAIN bodies : ~Owing(bodies[u])
      <4> SUFFICES ASSUME NEW u \in DOMAIN bodies, Owing(bodies[u]) PROVE FALSE
        OBVIOUS
      <4>1. bodies[u].kind # "older" /\ bodies[u].phase # "closing"
        BY DEF Owing, Due, Early
      <4>2. PICK j \in DOMAIN sock.requests : sock.requests[j].token = u
        BY <1>8, <1>10, <4>1 DEF Sorted, Active
      <4>3. sock.requests[j].kind # "older"
        BY <1>8, <1>10, <4>1, <4>2 DEF Sorted
      <4> QED BY <3>1, <4>3 DEF LiveRequests
    <3>3. Ready(sock, hi) = hi
      <4>1. Len(<<>>) = 0
        OBVIOUS
      <4> QED BY <1>1, <3>1, <4>1 DEF Ready
    <3>4. Reaches(NewsOn(Line(sock)), hi)
      BY <1>8, <1>10, <3>2, <3>3 DEF Level
    <3>5. <<e>> \in Seq(Event) /\ <<Live(e)>> \in Seq(Msg) /\ Line(sock) \in Seq(Msg)
      BY <1>1, <2>4, LineOf
    <3>6. PICK es \in Seq(Event), ms \in Seq(Msg), L \in Seq(Msg) :
            es = <<e>> /\ ms = <<Live(e)>> /\ L = Line(sock)
      BY <3>5
    <3>7. /\ Len(es) = 1 /\ Len(ms) = Len(es)
          /\ \A i \in DOMAIN es : es[i].seq = hi + i
          /\ \A i \in DOMAIN es : ms[i] = Live(es[i])
      BY <1>4, <3>6
    <3>8. Follows(L \o ms) /\ Reaches(NewsOn(L \o ms), hi + Len(es))
      <4>1. hi \in Int /\ Follows(L) /\ Reaches(NewsOn(L), hi)
        BY <1>1, <1>8, <1>10, <3>4, <3>6
      <4> QED BY <3>7, <4>1, FollowsLives
    <3>9. Line(z) = L \o ms
      BY <2>4, <2>7, <3>6 DEF Queues
    <3>10. /\ z.pendingLive = <<>> /\ z.requests = sock.requests /\ z.suppressed = sock.suppressed /\ z.present
           /\ \A u : HasBarrier(z.queue, u) => HasBarrier(sock.queue, u)
      BY <1>10, <2>4, <2>7, <3>1 DEF Queues
    <3>11. Ready(z, hi + 1) = hi + 1 /\ hi + 1 \in Nat /\ DOMAIN z.pendingLive = {}
      <4>1. Len(<<>>) = 0 /\ DOMAIN <<>> = {}
        OBVIOUS
      <4> QED BY <1>1, <3>10, <4>1 DEF Ready
    <3>12. Follows(Line(z)) /\ Reaches(NewsOn(Line(z)), hi + 1)
      BY <3>7, <3>8, <3>9
    <3>13. \A u \in DOMAIN bodies : ~Due(bodies[u])
      BY <3>2 DEF Owing
    <3>14. Level(z, bodies, hi + 1)
      BY <3>11, <3>12, <3>13 DEF Level
    <3>15. Sorted(z, bodies, tail)
      BY <1>8, <1>10, <3>10, SortedOver
    <3> QED BY <1>5, <2>3, <3>10, <3>12, <3>14, <3>15
  <2> QED BY <2>5, <2>6, <2>7
<1> QED BY <1>6, <1>7, <1>9, <1>10

\* A load is only under way without a bridge.
LEMMA LoadDoneFlows ==
  ASSUME IInv, FlowInv, load # None, NEW ok \in BOOLEAN, LoadDone(ok)
  PROVE  FlowInv'
<1>1. /\ bridge = None /\ bridge' = bridge /\ sock' = sock /\ tail' = tail /\ replaying' = replaying
      /\ DOMAIN bodies' = DOMAIN bodies
  BY DEF FlowInv, LoadDone, LoadFills
<1>2. Follows(Line(sock)) /\ (sock.open => Still(sock))
  BY <1>1, OpenFlows DEF FlowInv, Flows, Streams
<1>3. Flows(sock', bodies', tail', hi', bridge' # None)
  BY <1>1, <1>2 DEF FlowInv, Flows, Streams
<1> QED BY <1>1, <1>3, FlowPrimed DEF FlowInv

\* With a bridge there is history, so that what is asked for is served at once.
LEMMA SubscribeFlows ==
  ASSUME Keep = 0, "delta" \notin Kinds, "supersede" \notin Incidents,
         IInv, OnceInv, DenseInv, FlowInv, NEW m \in BrowserMessages, Subscribe(m)
  PROVE  FlowInv'
<1> DEFINE n == token + 1
           up == bridge # None
<1>1. /\ token \in Nat /\ SocketOK(sock, token) /\ sock \in SocketType /\ sock.open /\ hi \in Nat /\ lo = 1
      /\ DOMAIN bodies \subseteq 1..token /\ hi' = hi /\ bridge' = bridge /\ replaying' = replaying /\ tail' = tail
      /\ \A i \in DOMAIN sock.requests : sock.requests[i].token # n
  BY DEF IInv, SocketInv, SocketOK, OwnTokens, SocketType, Serving, BodiesOK, StoreInv, OnceInv, Subscribe, sourceVars
<1>2. PICK r, b : Asked(m, sock', r, b, n)
  BY SubscribeIs
<1>3. PICK q : q = sock'
  OBVIOUS
<1>4. PICK cs : cs = bodies'
  OBVIOUS
<1>5. /\ q.out = sock.out /\ q.inflight = sock.inflight /\ q.queue = sock.queue
      /\ q.pendingLive = sock.pendingLive /\ q.open = sock.open /\ q.present
      /\ q.suppressed = (sock.suppressed \/ m.kind # "older")
  BY <1>2, <1>3 DEF Asked
<1>6. /\ r.token = n /\ r.kind = m.kind
      /\ \A i \in DOMAIN q.requests : q.requests[i] = r \/ \E j \in DOMAIN sock.requests : q.requests[i] = sock.requests[j]
      /\ \A j \in DOMAIN sock.requests : \E i \in DOMAIN q.requests : q.requests[i] = sock.requests[j]
      /\ \E i \in DOMAIN q.requests : q.requests[i] = r
  BY <1>2, <1>3 DEF Asked
<1>7. /\ DOMAIN cs = DOMAIN bodies \cup {n} /\ n \notin DOMAIN bodies
      /\ \A u \in DOMAIN bodies : cs[u] = bodies[u]
      /\ cs[n] = b
  <2>1. cs = [u \in DOMAIN bodies \cup {n} |-> IF u # n THEN bodies[u] ELSE b]
    BY <1>2, <1>4 DEF Asked
  <2>2. n \notin DOMAIN bodies
    BY <1>1
  <2> QED BY <2>1, <2>2
<1>8. b.kind = m.kind /\ (up => b.phase = "hydrated")
  <2>1. up => HasEvents
    BY <1>1 DEF FlowInv, HasEvents
  <2>2. b = NewBody(m.kind, m.at, m.known, IF ~HasEvents /\ HasFile THEN "hydrating" ELSE "hydrated")
    BY <1>2 DEF Asked
  <2> QED BY <2>1, <2>2 DEF NewBody
<1>9. up => load' = load
  <2>1. up => HasEvents
    BY <1>1 DEF FlowInv, HasEvents
  <2> QED BY <2>1 DEF Subscribe
<1>10. m.kind # "delta"
  BY FreshName
<1>11. Follows(Line(sock)) /\ Streams(sock, bodies, tail, hi, up)
  BY <1>1, OpenFlows
<1>12. Line(q) = Line(sock)
  BY <1>5 DEF Line, Hand
<1> HIDE DEF n
<1>13. ASSUME up PROVE Level(q, cs, hi) /\ Sorted(q, cs, tail)
  <2>1. Level(sock, bodies, hi) /\ Sorted(sock, bodies, tail)
    BY <1>11, <1>13 DEF Streams
  <2>2. /\ \A u \in DOMAIN cs : Due(cs[u]) => u \in DOMAIN bodies /\ Due(bodies[u]) /\ cs[u].batches = bodies[u].batches
        /\ \A u \in DOMAIN bodies : Owing(bodies[u]) => u \in DOMAIN cs /\ Owing(cs[u])
    BY <1>7, <1>8, <1>13 DEF Due
  <2>3. \A k : Reaches(NewsOn(Line(sock)), k) => Reaches(NewsOn(Line(q)), k)
    BY <1>12
  <2>4. Level(q, cs, hi)
    BY <1>5, <2>1, <2>2, <2>3, LevelOn
  <2>5. ASSUME NEW u \in DOMAIN cs
        PROVE  /\ cs[u].kind # "delta" /\ cs[u].phase \in {"hydrated", "waiting", "loaded", "sending", "closing"}
               /\ cs[u].phase # "closing" => Active(q, u)
               /\ cs[u].phase \in {"sending", "closing"} => tail # <<>> /\ u = Head(tail)
    <3>1. CASE u = n
      BY <1>6, <1>7, <1>8, <1>10, <1>13, <3>1 DEF Active
    <3>2. CASE u \in DOMAIN bodies
      <4>1. Active(sock, u) => Active(q, u)
        BY <1>6 DEF Active
      <4> QED BY <1>7, <2>1, <3>2, <4>1 DEF Sorted
    <3> QED BY <1>7, <3>1, <3>2
  <2>6. ASSUME NEW u \in DOMAIN cs, NEW i \in DOMAIN q.requests, q.requests[i].token = u
        PROVE  q.requests[i].kind = "older" <=> cs[u].kind = "older"
    <3>1. CASE q.requests[i] = r
      BY <1>6, <1>7, <1>8, <2>6, <3>1
    <3>2. CASE \E j \in DOMAIN sock.requests : q.requests[i] = sock.requests[j]
      <4>1. PICK j \in DOMAIN sock.requests : q.requests[i] = sock.requests[j]
        BY <3>2
      <4>2. u \in DOMAIN bodies
        BY <1>1, <1>7, <2>6, <4>1
      <4> QED BY <1>7, <2>1, <2>6, <4>1, <4>2 DEF Sorted
    <3> QED BY <1>6, <3>1, <3>2
  <2>7. \A u : HasBarrier(q.queue, u) => u \in DOMAIN cs /\ cs[u].phase = "closing"
    BY <1>5, <1>7, <2>1 DEF Sorted
  <2>8. q.suppressed => LiveRequests(q.requests)
    <3>1. CASE m.kind # "older"
      BY <1>6, <3>1 DEF LiveRequests
    <3>2. CASE sock.suppressed
      <4>1. PICK j \in DOMAIN sock.requests : sock.requests[j].kind # "older"
        BY <2>1, <3>2 DEF Sorted, LiveRequests
      <4>2. PICK i \in DOMAIN q.requests : q.requests[i] = sock.requests[j]
        BY <1>6
      <4> QED BY <4>1, <4>2 DEF LiveRequests
    <3> QED BY <1>5, <3>1, <3>2
  <2>9. Sorted(q, cs, tail)
    BY <2>5, <2>6, <2>7, <2>8 DEF Sorted
  <2> QED BY <2>4, <2>9
<1>14. ~up => Still(q)
  BY <1>5, <1>11, <1>12 DEF Streams, Still
<1>15. Flows(sock', bodies', tail', hi', bridge' # None)
  <2>1. Streams(q, cs, tail, hi, up) /\ Follows(Line(q)) /\ q.open
    BY <1>1, <1>5, <1>11, <1>12, <1>13, <1>14 DEF Streams
  <2>2. Flows(q, cs, tail, hi, up)
    BY <1>5, <2>1 DEF Flows
  <2> QED BY <1>1, <1>3, <1>4, <2>2
<1> QED BY <1>1, <1>9, <1>15, FlowPrimed DEF FlowInv

\* A connection that is lost, and one that is new.
LEMMA DisconnectFlows ==
  ASSUME IInv, FlowInv, Disconnect \/ ServerRestart
  PROVE  FlowInv'
<1>1. Follows(Line(Closed(sock))) /\ ~Closed(sock).open
  BY SockTyped, ClosedFollows DEF FlowInv, Flows
<1>2. PICK q : q = Closed(sock)
  OBVIOUS
<1>3. Become(q, bodies, tail)
  BY <1>2 DEF Disconnect, ServerRestart
<1>4. sock' = q /\ DOMAIN bodies' = {}
  BY <1>1, <1>2, <1>3 DEF Become, Empty
<1>5. ~replaying' /\ (bridge' # None => bridge'.due = 0 /\ hi' >= 1 /\ load' = None)
  BY DEF FlowInv, Disconnect, ServerRestart, sourceVars
<1>6. Flows(sock', bodies', tail', hi', bridge' # None)
  BY <1>1, <1>2, <1>4 DEF Flows
<1> QED BY <1>5, <1>6, FlowPrimed

LEMMA ConnectFlows ==
  ASSUME IInv, FlowInv, Connect
  PROVE  FlowInv'
<1>1. /\ sock' = EmptySocket /\ bodies' = bodies /\ tail' = tail /\ hi' = hi /\ bridge' = bridge
      /\ load' = load /\ replaying' = replaying /\ hi \in Nat /\ DOMAIN bodies = {}
  BY SockTyped DEF Connect, sourceVars, FlowInv, Flows
<1>2. (bridge # None) \in BOOLEAN
  OBVIOUS
<1>3. Follows(Line(EmptySocket)) /\ Streams(EmptySocket, bodies, tail, hi, bridge # None)
  BY <1>1, <1>2, EmptyFlows
<1>4. EmptySocket.open
  BY DEF EmptySocket
<1>5. Flows(EmptySocket, bodies, tail, hi, bridge # None)
  BY <1>1, <1>3, <1>4 DEF Flows
<1>6. Flows(sock', bodies', tail', hi', bridge' # None)
  BY <1>1, <1>5
<1> QED BY <1>1, <1>6, FlowPrimed DEF FlowInv

LEMMA NextFlows ==
  ASSUME Keep = 0, "delta" \notin Kinds, Incidents \cap Mixers = {},
         IInv, OnceInv, DenseInv, FlowInv, [CoordNext]_serverVars
  PROVE  FlowInv'
<1>1. "supersede" \notin Incidents /\ "register" \notin Incidents /\ "unsubscribe" \notin Incidents
  BY DEF Mixers
<1>2. CASE CoordNext
  <2>1. \/ Microtask \/ DrainSend \/ EventForward
        \/ \E m \in BrowserMessages : Subscribe(m)
        \/ load # None /\ \E ok \in BOOLEAN : LoadDone(ok)
        \/ Disconnect \/ ServerRestart \/ Connect
    BY <1>1, <1>2 DEF CoordNext
  <2> QED BY <1>1, <2>1, MicrotaskFlows, DrainSendFlows, EventForwardFlows, SubscribeFlows,
             LoadDoneFlows, DisconnectFlows, ConnectFlows
<1>3. CASE UNCHANGED serverVars
  BY <1>3, SameFlow DEF serverVars, sourceVars, coordVars
<1> QED BY <1>2, <1>3

LEMMA InitFlows == CoordInit => FlowInv
<1> SUFFICES ASSUME CoordInit PROVE FlowInv
  OBVIOUS
<1>1. /\ sock = EmptySocket /\ bodies = Empty /\ tail = <<>> /\ ~replaying /\ load = None
      /\ bridge # None => bridge.due = 0 /\ hi = history /\ history = InitialHistory
  BY DEF CoordInit
<1>2. InitialHistory \in Nat /\ InitialHistory >= 1
  BY CoordinatorAssumption
<1>3. hi \in Nat
  BY InitHolds, SockTyped
<1>4. DOMAIN bodies = {} /\ EmptySocket.open /\ (bridge # None) \in BOOLEAN
  BY <1>1 DEF Empty, EmptySocket
<1>5. Follows(Line(EmptySocket)) /\ Streams(EmptySocket, bodies, tail, hi, bridge # None)
  BY <1>3, <1>4, EmptyFlows
<1>6. Flows(sock, bodies, tail, hi, bridge # None)
  BY <1>1, <1>4, <1>5 DEF Flows
<1> QED BY <1>1, <1>2, <1>6 DEF FlowInv

\* What is sent is the beginning of the line.
LEMMA FlowsContinue == IInv /\ FlowInv => LiveContinues
<1> SUFFICES ASSUME IInv, FlowInv, NEW j \in DOMAIN Out
             PROVE  LET before == FlattenSeq([i \in 1..(j - 1) |-> News(Out[i])])
                    IN  Out[j].type = "event" /\ before # <<>>
                          => Out[j].entry.seq = before[Len(before)].seq + 1
  BY DEF LiveContinues
<1> DEFINE before == FlattenSeq([i \in 1..(j - 1) |-> News(Out[i])])
<1>1. Out \in Seq(Msg) /\ Follows(Out)
  <2>1. /\ sock.out \in Seq(Msg) /\ Hand(sock) \in Seq(Msg) /\ FlatMap(Spoken, sock.queue) \in Seq(Msg)
        /\ Line(sock) = (sock.out \o Hand(sock)) \o FlatMap(Spoken, sock.queue) /\ Follows(Line(sock))
    BY SockTyped, LineOf DEF Line, FlowInv, Flows
  <2>2. PICK o \in Seq(Msg), h \in Seq(Msg), f \in Seq(Msg) :
          o = sock.out /\ h = Hand(sock) /\ f = FlatMap(Spoken, sock.queue)
    BY <2>1
  <2>3. o \o h \in Seq(Msg)
    OBVIOUS
  <2>4. Follows(o \o h)
    BY <2>1, <2>2, <2>3, FollowsBreaksOff
  <2>5. Follows(o)
    BY <2>4, FollowsBreaksOff
  <2> QED BY <2>2, <2>5 DEF Out
<1>2. PICK L \in Seq(Msg) : L = Out
  BY <1>1
<1>3. j \in 1..Len(L) /\ Len(L) \in Nat /\ j - 1 \in Nat /\ j - 1 <= Len(L) /\ 1 \in Nat \ {0}
  BY <1>2
<1>4. PICK k : k = SubSeq(L, 1, j - 1)
  OBVIOUS
<1>5. /\ k \in Seq(Msg) /\ Len(k) = (IF 1 <= j - 1 THEN (j - 1) - 1 + 1 ELSE 0)
      /\ \A i \in 1..Len(k) : k[i] = L[1 + i - 1]
  BY <1>3, <1>4, SubSeqOf
<1>6. Len(k) = j - 1 /\ DOMAIN k = 1..(j - 1) /\ \A i \in 1..(j - 1) : k[i] = L[i] /\ k[i] \in Msg
  BY <1>3, <1>5
<1>7. Mapped(NewsOf, k) = [i \in 1..(j - 1) |-> News(Out[i])]
  BY <1>2, <1>6 DEF Mapped, NewsOf
<1>8. before = NewsOn(k)
  BY <1>7 DEF NewsOn, FlatMap
<1> HIDE DEF before
<1>9. L[j].type = "event" => Reaches(before, L[j].entry.seq - 1)
  BY <1>1, <1>2, <1>4, <1>8 DEF Follows
<1>10. L[j].type = "event" => L[j].entry.seq \in Nat
  <2>1. L[j] \in Msg
    BY <1>3
  <2> QED BY <2>1 DEF Msg, Event
<1>11. Out[j].type = "event" /\ before # <<>> => Out[j].entry.seq = before[Len(before)].seq + 1
  BY <1>2, <1>9, <1>10 DEF Reaches
<1> QED BY <1>11 DEF before

-----------------------------------------------------------------------------
\* An event sent live follows the newest event delivered before it.  It does as
\* long as no request is for what came since (a delta ends where the budget
\* does), none takes over another's name, no bridge registers again and no
\* browser unsubscribes, which leaves what is in hand to be sent later, and the
\* store trims nothing: a held event that the snapshot no longer has stays held
\* and would be sent behind newer ones.
THEOREM LiveStreamContinues ==
  ASSUME Keep = 0, "delta" \notin Kinds, Incidents \cap Mixers = {}
  PROVE  CoordSpec => []LiveContinues
<1> DEFINE Inv == IInv /\ OnceInv /\ DenseInv /\ FlowInv
<1>1. CoordInit => Inv
  BY InitHolds, InitOnce, InitDense, InitFlows
<1>2. Inv /\ [CoordNext]_serverVars => Inv'
  <2> SUFFICES ASSUME IInv, OnceInv, DenseInv, FlowInv, [CoordNext]_serverVars
               PROVE  IInv' /\ OnceInv' /\ DenseInv' /\ FlowInv'
    OBVIOUS
  <2>1. "unsubscribe" \notin Incidents /\ Unpaged
    BY DEF Mixers, Unpaged
  <2> QED BY <2>1, NextHolds, NextOnce, NextDense, NextFlows
<1>3. Inv => LiveContinues
  BY FlowsContinue
<1> QED BY <1>1, <1>2, <1>3, PTL DEF CoordSpec
=============================================================================
