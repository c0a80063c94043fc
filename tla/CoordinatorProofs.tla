-------------------------- MODULE CoordinatorProofs --------------------------
(***************************************************************************)
(* Proofs about ReplayCoordinator, for every value of its constants.       *)
(*                                                                         *)
(* The invariant IInv has a part for the store and one for the socket.     *)
(* Of the store it says which generations a load, or what is remembered of *)
(* one, may be of: a load can answer after the source it read for is gone. *)
(* Of the socket it says that requests have tokens of their own, that live *)
(* events are held exactly while a request might be overtaken, that every  *)
(* body waits for its delivery once, and that a request whose body is      *)
(* through is left to its barrier.  One lemma per action shows that it is  *)
(* kept; the theorems follow from it.  Two sections add to it: the queue's *)
(* accounting, which is exact as long as no bridge registers; and the      *)
(* terminals, which are sent, in hand or queued once their body is through *)
(* and ahead of the barrier that takes the request away.  StreamProofs     *)
(* goes on from here with the events.                                      *)
(***************************************************************************)
EXTENDS ReplayCoordinator, DataLemmas

-----------------------------------------------------------------------------
(* The inductive invariant. *)

Req == [token : Nat, key : Int, kind : KindSet]
SocketType ==
  [open : BOOLEAN, present : BOOLEAN, queue : Seq(Item), queued : Nat,
   inflight : MessageItem \cup {None}, pendingLive : Seq(Event), suppressed : BOOLEAN,
   requests : Seq(Req), out : Seq(Msg), stray : Seq(Msg)]

\* The requests of a socket have tokens of their own, given out so far.
OwnTokens(s, n) ==
  /\ \A i \in DOMAIN s.requests : s.requests[i].token <= n
  /\ \A i, j \in DOMAIN s.requests : s.requests[i].token = s.requests[j].token => i = j

\* SuppressedWhileServing, of any socket.
Suppressing(s) ==
  /\ LiveRequests(s.requests) => s.suppressed
  /\ s.suppressed => s.requests # <<>>
  /\ ~s.suppressed => s.pendingLive = <<>>

SocketOK(s, n) ==
  /\ s \in SocketType /\ OwnTokens(s, n) /\ Suppressing(s)
  /\ ~s.open => s.requests = <<>>

Phases == {"hydrating", "hydrated", "unavailable", "waiting", "paging", "loaded", "sending",
           "closing", "failing"}
Delivered == {"waiting", "paging", "loaded", "sending", "closing"}
Raw == [gen : Gens, lo : Nat, hi : Nat]
Body ==
  [kind : KindSet, at : Nat, known : Gens \cup {None}, tailMode : BOOLEAN, phase : Phases,
   reset : BOOLEAN, raw : Raw \cup {None}, file : Nat, batches : Seq(Seq(Event)),
   more : BOOLEAN, ended : BOOLEAN]

BodiesOK(bs, n) ==
  /\ DOMAIN bs \subseteq 1..n
  /\ \A t \in DOMAIN bs : bs[t] \in Body /\ (bs[t].phase \in {"paging", "loaded"} => bs[t].raw \in Raw)

\* Each body waits for its delivery once.
TailOK(bs, tl) ==
  /\ tl \in Seq(Nat)
  /\ \A i \in DOMAIN tl : tl[i] \in DOMAIN bs /\ bs[tl[i]].phase \in Delivered
  /\ \A i, j \in DOMAIN tl : tl[i] = tl[j] => i = j

\* RequestHasServer, of any socket and bodies; a body that has queued its
\* barrier leaves its request to it.
HasBarrier(q, t) == \E j \in DOMAIN q : q[j].kind = "barrier" /\ q[j].token = t
Served(s, bs) ==
  \A i \in DOMAIN s.requests :
    \/ s.requests[i].token \in DOMAIN bs
    \/ HasBarrier(s.queue, s.requests[i].token)
Closing(s, bs) ==
  \A t \in DOMAIN bs : bs[t].phase = "closing" /\ Active(s, t) => HasBarrier(s.queue, t)

Serving(s, bs, tl, n) == BodiesOK(bs, n) /\ TailOK(bs, tl) /\ Served(s, bs) /\ Closing(s, bs)

SocketInv == token \in Nat /\ SocketOK(sock, token) /\ Serving(sock, bodies, tail, token)

\* A load, and what is remembered of one, is of a generation there has been
\* since the server started, and of the present one only if that has events or
\* will have them by it.
Past(g) == g \in Gens /\ g[1] = gen[1] /\ g[2] <= gen[2]
StoreInv ==
  /\ gen \in Gens /\ hi \in Nat /\ lo \in 1..(hi + 1) /\ history \in Nat \ {0}
  /\ load # None =>
       /\ load \in [gen : Gens, hydrate : BOOLEAN, from : 1..history]
       /\ Past(load.gen) /\ (load.gen # gen \/ HasEvents \/ load.hydrate)
  /\ persisted # None =>
       /\ persisted \in [gen : Gens, n : Nat]
       /\ Past(persisted.gen) /\ (persisted.gen # gen \/ HasEvents)

IInv == StoreInv /\ SocketInv

-----------------------------------------------------------------------------
(* The elements of a sequence that are in a set, in their order. *)

\* What the first m elements of es leave in k.
Leaves(es, S, m, k) ==
  /\ Len(k) <= m
  /\ \A j \in 1..m : es[j] \in S => \E i \in 1..Len(k) : k[i] = es[j]
  /\ \A i \in 1..Len(k) : \E a \in 1..m : k[i] = es[a] /\ es[a] \in S
  /\ \A i, j \in 1..Len(k) : i # j =>
       \E a, b \in 1..m : a # b /\ k[i] = es[a] /\ k[j] = es[b]

LEMMA LeavesMore ==
  ASSUME NEW T, NEW es \in Seq(T), NEW S, NEW m \in 0..(Len(es) - 1), NEW k \in Seq(T),
         Leaves(es, S, m, k)
  PROVE  LET e == es[m + 1]
             l == IF e \in S THEN Append(k, e) ELSE k
         IN  l \in Seq(T) /\ Leaves(es, S, m + 1, l)
<1> DEFINE e == es[m + 1]
           l == Append(k, e)
           n == Len(k)
<1>1. /\ m \in Nat /\ m + 1 \in 1..Len(es) /\ 1..(m + 1) = 1..m \cup {m + 1} /\ m + 1 \notin 1..m
      /\ e \in T /\ n \in Nat /\ n <= m
  BY DEF Leaves
<1>2. CASE e \notin S
  <2>1. \A j \in 1..(m + 1) : es[j] \in S => j \in 1..m
    BY <1>1, <1>2
  <2>2. Leaves(es, S, m + 1, k)
    BY <1>1, <2>1 DEF Leaves
  <2> QED BY <1>2, <2>2
<1>3. CASE e \in S
  <2>1. /\ l \in Seq(T) /\ Len(l) = n + 1 /\ l[n + 1] = e
        /\ \A i \in 1..n : l[i] = k[i]
    BY <1>1
  <2> HIDE DEF l, e, n
  <2>2. 1..(n + 1) = 1..n \cup {n + 1} /\ n + 1 \notin 1..n
    BY <1>1
  <2>3. ASSUME NEW j \in 1..(m + 1), es[j] \in S PROVE \E i \in 1..(n + 1) : l[i] = es[j]
    <3>1. CASE j = m + 1
      BY <2>1, <2>2, <3>1 DEF e
    <3>2. CASE j \in 1..m
      BY <2>1, <2>2, <2>3, <3>2 DEF Leaves, n
    <3> QED BY <1>1, <3>1, <3>2
  <2>4. ASSUME NEW i \in 1..(n + 1) PROVE \E a \in 1..(m + 1) : l[i] = es[a] /\ es[a] \in S
    <3>1. CASE i = n + 1
      BY <1>1, <1>3, <2>1, <3>1 DEF e
    <3>2. CASE i \in 1..n
      <4>1. PICK a \in 1..m : k[i] = es[a] /\ es[a] \in S
        BY <3>2 DEF Leaves, n
      <4> QED BY <1>1, <2>1, <3>2, <4>1
    <3> QED BY <2>2, <3>1, <3>2
  <2>5. \A i \in 1..n : \E a \in 1..m : a # m + 1 /\ l[i] = es[a]
    BY <1>1, <2>1 DEF Leaves, n
  <2>6. ASSUME NEW i \in 1..(n + 1), NEW j \in 1..(n + 1), i # j
        PROVE  \E a, b \in 1..(m + 1) : a # b /\ l[i] = es[a] /\ l[j] = es[b]
    <3>1. CASE i \in 1..n /\ j \in 1..n
      <4>1. PICK a \in 1..m, b \in 1..m : a # b /\ k[i] = es[a] /\ k[j] = es[b]
        BY <2>6, <3>1 DEF Leaves, n
      <4> QED BY <1>1, <2>1, <3>1, <4>1
    <3>2. CASE i = n + 1 /\ j \in 1..n
      BY <1>1, <2>1, <2>5, <3>2 DEF e
    <3>3. CASE i \in 1..n /\ j = n + 1
      BY <1>1, <2>1, <2>5, <3>3 DEF e
    <3> QED BY <2>2, <2>6, <3>1, <3>2, <3>3
  <2>7. Leaves(es, S, m + 1, l)
    BY <1>1, <2>1, <2>3, <2>4, <2>6 DEF Leaves
  <2> QED BY <1>3, <2>1, <2>7 DEF l, e
<1> QED BY <1>2, <1>3

LEMMA ThoseOf ==
  ASSUME NEW T, NEW es \in Seq(T), NEW S
  PROVE  LET k == Those(es, S) IN k \in Seq(T) /\ Leaves(es, S, Len(es), k)
<1> DEFINE n == Len(es)
           Add(x, i) == IF es[i] \in S THEN Append(x, es[i]) ELSE x
           step == [i \in 1..n |-> [x \in Seq(T) |-> Add(x, i)]]
           Loop(f) == f = [i \in 0..n |->
                             IF i = 0 THEN <<>>
                             ELSE IF es[i] \in S THEN Append(f[i - 1], es[i]) ELSE f[i - 1]]
           kept == CHOOSE f : Loop(f)
<1>1. n \in Nat /\ \A i \in 1..n : es[i] \in T
  OBVIOUS
<1>2. \E f \in [0..n -> Seq(T)] : Loop(f)
  <2>1. \A i \in 1..n, x \in Seq(T) : step[i][x] = Add(x, i) /\ Add(x, i) \in Seq(T)
    BY <1>1
  <2> HIDE DEF step, n
  <2>2. Leads(step, n, Seq(T))
    BY <2>1, ZenonT(30) DEF Leads
  <2>a. <<>> \in Seq(T)
    OBVIOUS
  <2>3. PICK f : Recursion(f, n, Seq(T), <<>>, step)
    BY <1>1, <2>2, <2>a, RecursionExists
  <2>4. f \in [0..n -> Seq(T)] /\ f[0] = <<>> /\ \A i \in 1..n : f[i] = step[i][f[i - 1]]
    BY <2>3 DEF Recursion
  <2>5. \A i \in 0..n : i # 0 => i \in 1..n /\ f[i - 1] \in Seq(T)
    BY <1>1, <2>4
  <2>6. \A i \in 0..n :
          f[i] = IF i = 0 THEN <<>>
                 ELSE IF es[i] \in S THEN Append(f[i - 1], es[i]) ELSE f[i - 1]
    BY <2>1, <2>4, <2>5
  <2> QED BY <2>4, <2>6
<1>3. Loop(kept)
  BY <1>2
<1>4. Those(es, S) = kept[n]
  BY DEF Those
<1> DEFINE R == {i \in 0..n : kept[i] \in Seq(T) /\ Leaves(es, S, i, kept[i])}
<1> HIDE DEF kept, n
<1>5. 0 \in R
  <2>1. kept[0] = <<>>
    BY <1>1, <1>3
  <2>2. Leaves(es, S, 0, <<>>)
    <3>1. 1..0 = {} /\ Len(<<>>) = 0
      OBVIOUS
    <3> QED BY <3>1 DEF Leaves
  <2>3. <<>> \in Seq(T) /\ 0 \in 0..n
    BY <1>1
  <2> HIDE DEF Leaves
  <2> QED BY <2>1, <2>2, <2>3
<1>6. ASSUME NEW i \in 0..(n - 1), i \in R PROVE i + 1 \in R
  <2>1. i + 1 \in 0..n /\ i + 1 # 0 /\ (i + 1) - 1 = i
    BY <1>1
  <2>2. kept[i + 1] = IF es[i + 1] \in S THEN Append(kept[i], es[i + 1]) ELSE kept[i]
    BY <1>3, <2>1
  <2>3. kept[i] \in Seq(T) /\ Leaves(es, S, i, kept[i])
    BY <1>6
  <2>4. kept[i + 1] \in Seq(T) /\ Leaves(es, S, i + 1, kept[i + 1])
    BY <1>6, <2>2, <2>3, LeavesMore DEF n
  <2> QED BY <2>1, <2>4
<1>7. n \in R
  <2> HIDE DEF R
  <2>1. 0..n \subseteq R
    BY <1>1, <1>5, <1>6, UpTo
  <2> QED BY <1>1, <2>1
<1> QED BY <1>4, <1>7 DEF n

-----------------------------------------------------------------------------
(* The socket's operators. *)

LEMMA ActiveRequest ==
  ASSUME NEW s, NEW n, SocketOK(s, n), NEW t, Active(s, t)
  PROVE  /\ RequestOf(s, t) \in Req /\ RequestOf(s, t).token = t /\ s.open
         /\ \E i \in DOMAIN s.requests : RequestOf(s, t) = s.requests[i]
<1>1. \E i \in DOMAIN s.requests : s.requests[i].token = t
  BY DEF Active
<1> DEFINE k == CHOOSE i \in DOMAIN s.requests : s.requests[i].token = t
<1>2. k \in DOMAIN s.requests /\ s.requests[k].token = t
  BY <1>1
<1>3. RequestOf(s, t) = s.requests[k]
  BY DEF RequestOf
<1> HIDE DEF k
<1>4. s.requests \in Seq(Req) /\ s.open \in BOOLEAN
  BY DEF SocketOK, SocketType
<1>5. s.requests # <<>> => s.open
  BY DEF SocketOK
<1> QED BY <1>2, <1>3, <1>4, <1>5

LEMMA TerminalIsMsg ==
  ASSUME gen \in Gens, NEW r \in Req
  PROVE  FailedTerminal(r) \in Msg
<1>1. r.kind \in KindSet /\ IdOf(r.key) \in Int
  BY DEF Req, IdOf, NoId
<1>2. <<>> \in Seq(Event)
  OBVIOUS
<1> QED BY <1>1, <1>2 DEF FailedTerminal, Frame, Msg

LEMMA TerminalsAreMsgs ==
  ASSUME gen \in Gens, NEW rs \in Seq(Req)
  PROVE  Terminals(rs) \in Seq(Msg)
<1>1. \A i \in 1..Len(rs) : FailedTerminal(rs[i]) \in Msg
  BY TerminalIsMsg
<1> QED BY <1>1 DEF Terminals

LEMMA OverflowOK ==
  ASSUME gen \in Gens, NEW s \in SocketType, NEW n
  PROVE  SocketOK(QueueOverflow(s), n) /\ ~QueueOverflow(s).open
<1> DEFINE o == s.out \o Terminals(s.requests)
           q == QueueOverflow(s)
<1>1. s.out \in Seq(Msg) /\ s.requests \in Seq(Req)
  BY DEF SocketType
<1>2. o \in Seq(Msg)
  BY <1>1, TerminalsAreMsgs
<1> HIDE DEF o
<1>3. q = [open |-> FALSE, present |-> FALSE, queue |-> <<>>, queued |-> 0,
           inflight |-> None, pendingLive |-> <<>>, suppressed |-> FALSE,
           requests |-> <<>>, out |-> o, stray |-> <<>>]
  <2> HIDE DEF q
  <2>1. q = [EmptySocket EXCEPT !.open = FALSE, !.out = o]
    BY DEF q, QueueOverflow, o
  <2> QED BY <2>1 DEF EmptySocket
<1>4. q \in SocketType
  BY <1>2, <1>3 DEF SocketType
<1> HIDE DEF q
<1>5. OwnTokens(q, n) /\ Suppressing(q)
  BY <1>3 DEF OwnTokens, Suppressing, LiveRequests
<1> QED BY <1>3, <1>4, <1>5 DEF SocketOK, q

LEMMA EmptySocketOK ==
  ASSUME NEW n, NEW o \in Seq(Msg), NEW x \in Seq(Msg), NEW open \in BOOLEAN, NEW s,
         s = [open |-> open, present |-> FALSE, queue |-> <<>>, queued |-> 0,
              inflight |-> None, pendingLive |-> <<>>, suppressed |-> FALSE,
              requests |-> <<>>, out |-> o, stray |-> x]
  PROVE  SocketOK(s, n)
<1>1. s \in SocketType
  BY DEF SocketType
<1>2. OwnTokens(s, n) /\ Suppressing(s)
  BY DEF OwnTokens, Suppressing, LiveRequests
<1> QED BY <1>1, <1>2 DEF SocketOK

\* A socket with the same requests and the same held events, or fewer of these.
LEMMA SameRequestsOK ==
  ASSUME NEW s, NEW n, SocketOK(s, n), NEW q \in SocketType,
         q.requests = s.requests, q.suppressed = s.suppressed, q.open = s.open,
         ~s.suppressed => q.pendingLive = <<>>
  PROVE  SocketOK(q, n)
BY DEF SocketOK, OwnTokens, Suppressing, LiveRequests

LEMMA LiveItemIs ==
  \A e \in Event : LiveItem(e) = [kind |-> "message", msg |-> Live(e), key |-> 0, count |-> 1]
                   /\ LiveItem(e) \in Item
<1> SUFFICES ASSUME NEW e \in Event
             PROVE  /\ LiveItem(e) = [kind |-> "message", msg |-> Live(e), key |-> 0, count |-> 1]
                    /\ LiveItem(e) \in Item
  OBVIOUS
<1> DEFINE msg == Live(e)
<1>1. msg \in Msg /\ msg.type = "event"
  BY DEF Live, Msg
<1> HIDE DEF msg
<1>2. LiveItem(e) = [kind |-> "message", msg |-> msg, key |-> 0, count |-> 1]
  BY <1>1 DEF LiveItem, Message, NoId, msg
<1> QED BY <1>1, <1>2 DEF Item, MessageItem, msg

LEMMA EnqueueOK ==
  ASSUME gen \in Gens, NEW s, NEW n, SocketOK(s, n), NEW item \in Item
  PROVE  LET q == Enqueue(s, item) IN
         /\ SocketOK(q, n)
         /\ q.open => /\ s.open /\ q.requests = s.requests /\ q.queue = Append(s.queue, item)
                      /\ q.present = s.present
<1> DEFINE more == s.queued + IF item.kind = "message" THEN item.count ELSE 0
           q == [s EXCEPT !.queue = Append(@, item), !.queued = more]
<1>1. s \in SocketType /\ s.queued \in Nat /\ s.queue \in Seq(Item)
  BY DEF SocketOK, SocketType
<1>2. more \in Nat
  BY <1>1 DEF Item, MessageItem
<1>3. CASE item.kind = "message" /\ s.queued + item.count > QueueCap
  BY <1>1, <1>3, OverflowOK DEF Enqueue
<1>4. CASE ~(item.kind = "message" /\ s.queued + item.count > QueueCap)
  <2>1. Enqueue(s, item) = q
    BY <1>1, <1>4 DEF Enqueue, SocketType
  <2>2. Append(s.queue, item) \in Seq(Item)
    BY <1>1
  <2> HIDE DEF more
  <2>3. /\ q \in SocketType /\ q.requests = s.requests /\ q.suppressed = s.suppressed
        /\ q.open = s.open /\ q.pendingLive = s.pendingLive /\ q.present = s.present
        /\ q.queue = Append(s.queue, item)
    BY <1>1, <1>2, <2>2 DEF SocketType
  <2> HIDE DEF q
  <2>4. SocketOK(q, n)
    BY <2>3, SameRequestsOK DEF SocketOK, Suppressing
  <2> QED BY <2>1, <2>3, <2>4
<1> QED BY <1>3, <1>4

LEMMA SuppressOK ==
  ASSUME gen \in Gens, NEW s, NEW n, SocketOK(s, n), s.suppressed, NEW e \in Event
  PROVE  LET q == SuppressLive(s, e) IN
         /\ SocketOK(q, n)
         /\ q.open => s.open /\ q.requests = s.requests /\ q.queue = s.queue
<1> DEFINE held == Append(s.pendingLive, e)
           more == s.queued + 1
           q == [s EXCEPT !.pendingLive = held, !.queued = more]
<1>1. s \in SocketType /\ s.queued \in Nat /\ s.pendingLive \in Seq(Event)
  BY DEF SocketOK, SocketType
<1>2. /\ q \in SocketType /\ q.requests = s.requests /\ q.suppressed = s.suppressed
      /\ q.open = s.open /\ q.queue = s.queue
  <2>1. held \in Seq(Event) /\ more \in Nat
    BY <1>1
  <2> HIDE DEF held, more
  <2> QED BY <1>1, <2>1 DEF SocketType
<1> HIDE DEF q
<1>3. SocketOK(q, n)
  BY <1>2, SameRequestsOK
<1>4. SuppressLive(s, e) \in {s, QueueOverflow(s), q}
  BY <1>1 DEF SuppressLive, SocketType, q
<1> QED BY <1>1, <1>2, <1>3, <1>4, OverflowOK

\* Some of a socket's requests.
LEMMA ThoseRequests ==
  ASSUME NEW s, NEW n, SocketOK(s, n), NEW S
  PROVE  LET rest == Those(s.requests, S) IN
         /\ rest \in Seq(Req)
         /\ \A i \in DOMAIN rest : rest[i] \in S /\ rest[i].token <= n
                                   /\ \E j \in DOMAIN s.requests : rest[i] = s.requests[j]
         /\ \A i, j \in DOMAIN rest : rest[i].token = rest[j].token => i = j
<1> DEFINE rest == Those(s.requests, S)
           m == Len(s.requests)
<1>1. s.requests \in Seq(Req) /\ m \in Nat /\ DOMAIN s.requests = 1..m
  BY DEF SocketOK, SocketType
<1>2. rest \in Seq(Req) /\ Leaves(s.requests, S, m, rest) /\ DOMAIN rest = 1..Len(rest)
  <2>1. rest \in Seq(Req) /\ Leaves(s.requests, S, m, rest)
    BY <1>1, ThoseOf
  <2> QED BY <2>1
<1> HIDE DEF rest, m
<1>3. ASSUME NEW i \in DOMAIN rest
      PROVE  /\ rest[i] \in S /\ rest[i].token <= n
             /\ \E j \in DOMAIN s.requests : rest[i] = s.requests[j]
  <2>1. PICK a \in 1..m : rest[i] = s.requests[a] /\ s.requests[a] \in S
    BY <1>2, <1>3 DEF Leaves
  <2> QED BY <1>1, <2>1 DEF SocketOK, OwnTokens
<1>4. ASSUME NEW i \in DOMAIN rest, NEW j \in DOMAIN rest, i # j
      PROVE  rest[i].token # rest[j].token
  <2>1. PICK a \in 1..m, b \in 1..m : a # b /\ rest[i] = s.requests[a] /\ rest[j] = s.requests[b]
    <3>1. i \in 1..Len(rest) /\ j \in 1..Len(rest)
      BY <1>2
    <3>2. \A x, y \in 1..Len(rest) : x # y =>
            \E a, b \in 1..m : a # b /\ rest[x] = s.requests[a] /\ rest[y] = s.requests[b]
      BY <1>2 DEF Leaves
    <3> QED BY <1>4, <3>1, <3>2
  <2> QED BY <1>1, <2>1 DEF SocketOK, OwnTokens
<1> QED BY <1>2, <1>3, <1>4 DEF rest

\* What is left without the request of token t.
LEMMA WithoutOf ==
  ASSUME NEW s, NEW n, SocketOK(s, n), NEW t
  PROVE  LET rest == Without(s, t) IN
         /\ rest \in Seq(Req)
         /\ \A i \in DOMAIN rest : rest[i].token # t
                                   /\ \E j \in DOMAIN s.requests : rest[i] = s.requests[j]
         /\ \A i \in DOMAIN rest : rest[i].token <= n
         /\ \A i, j \in DOMAIN rest : rest[i].token = rest[j].token => i = j
<1> DEFINE S == {r \in Range(s.requests) : r.token # t}
           rest == Those(s.requests, S)
<1>1. \A r \in S : r.token # t
  OBVIOUS
<1>2. Without(s, t) = rest
  BY DEF Without
<1> HIDE DEF S
<1>3. /\ rest \in Seq(Req)
      /\ \A i \in DOMAIN rest : rest[i] \in S /\ rest[i].token <= n
                                /\ \E j \in DOMAIN s.requests : rest[i] = s.requests[j]
      /\ \A i, j \in DOMAIN rest : rest[i].token = rest[j].token => i = j
  BY ThoseRequests
<1> HIDE DEF rest
<1> QED BY <1>1, <1>2, <1>3

LEMMA CompleteOK ==
  ASSUME gen \in Gens, NEW s, NEW n, SocketOK(s, n), NEW t
  PROVE  LET q == CompleteRequest(s, t) IN
         /\ SocketOK(q, n)
         /\ q.open => /\ s.open
                      /\ \A i \in DOMAIN q.requests :
                           q.requests[i].token # t
                           /\ \E j \in DOMAIN s.requests : q.requests[i] = s.requests[j]
                      /\ \A u : HasBarrier(s.queue, u) => HasBarrier(q.queue, u)
<1> DEFINE rest == Without(s, t)
           live == [i \in DOMAIN s.pendingLive |-> LiveItem(s.pendingLive[i])]
           due == IF s.pendingLive = <<>> THEN s.queued ELSE Max2(s.queued, 1)
           fewer == [s EXCEPT !.requests = rest]
           free == [s EXCEPT !.requests = rest, !.suppressed = FALSE, !.pendingLive = <<>>,
                             !.queue = @ \o live, !.queued = due]
<1>1. /\ s \in SocketType /\ s.queued \in Nat /\ s.queue \in Seq(Item) /\ s.pendingLive \in Seq(Event)
      /\ s.requests \in Seq(Req) /\ s.open \in BOOLEAN
  BY DEF SocketOK, SocketType
<1>2. CASE ~Active(s, t)
  <2>1. CompleteRequest(s, t) = s
    BY <1>2 DEF CompleteRequest
  <2> QED BY <1>2, <2>1 DEF Active
<1>3. CASE Active(s, t)
  <2>1. CompleteRequest(s, t) =
          IF LiveRequests(rest) THEN fewer
          ELSE IF s.pendingLive # <<>> /\ s.queued > QueueCap THEN QueueOverflow(fewer)
          ELSE free
    BY <1>1, <1>3 DEF CompleteRequest, SocketType
  <2>2. s.open
    BY <1>3, ActiveRequest
  <2>3. /\ rest \in Seq(Req)
        /\ \A i \in DOMAIN rest : rest[i].token # t
                                   /\ \E j \in DOMAIN s.requests : rest[i] = s.requests[j]
        /\ \A i \in DOMAIN rest : rest[i].token <= n
        /\ \A i, j \in DOMAIN rest : rest[i].token = rest[j].token => i = j
    BY WithoutOf
  <2>4. live \in Seq(Item)
    <3>1. \A e \in Event : LiveItem(e) \in Item
      BY LiveItemIs
    <3>2. \A i \in 1..Len(s.pendingLive) : LiveItem(s.pendingLive[i]) \in Item
      BY <1>1, <3>1
    <3>3. DOMAIN s.pendingLive = 1..Len(s.pendingLive) /\ Len(s.pendingLive) \in Nat
      BY <1>1
    <3> HIDE DEF Item
    <3> QED BY <3>2, <3>3
  <2>5. due \in Nat
    BY <1>1 DEF Max2
  <2> HIDE DEF rest, live, due
  <2>6. s.queue \o live \in Seq(Item) /\ <<>> \in Seq(Event)
    BY <1>1, <2>4
  <2>7. /\ fewer \in SocketType /\ fewer.requests = rest /\ fewer.open = s.open
        /\ fewer.queue = s.queue /\ fewer.suppressed = s.suppressed
        /\ fewer.pendingLive = s.pendingLive
    BY <1>1, <2>3 DEF SocketType
  <2>8. /\ free \in SocketType /\ free.requests = rest /\ free.open = s.open
        /\ free.queue = s.queue \o live /\ free.suppressed = FALSE
        /\ free.pendingLive = <<>>
    BY <1>1, <2>3, <2>5, <2>6 DEF SocketType
  <2> HIDE DEF fewer, free
  <2>9. CASE LiveRequests(rest)
    <3>1. Suppressing(fewer)
      <4>1. LiveRequests(s.requests)
        BY <2>3, <2>9 DEF LiveRequests
      <4>2. rest # <<>>
        BY <2>9 DEF LiveRequests
      <4> QED BY <2>7, <4>1, <4>2 DEF SocketOK, Suppressing
    <3>2. SocketOK(fewer, n)
      BY <2>2, <2>3, <2>7, <3>1 DEF SocketOK, OwnTokens
    <3> QED BY <2>1, <2>2, <2>3, <2>7, <2>9, <3>2
  <2>10. CASE ~LiveRequests(rest) /\ s.pendingLive # <<>> /\ s.queued > QueueCap
    BY <2>1, <2>7, <2>10, OverflowOK
  <2>11. CASE ~LiveRequests(rest) /\ ~(s.pendingLive # <<>> /\ s.queued > QueueCap)
    <3>1. SocketOK(free, n)
      BY <2>2, <2>3, <2>8, <2>11 DEF SocketOK, OwnTokens, Suppressing
    <3>2. ASSUME NEW u, HasBarrier(s.queue, u) PROVE HasBarrier(free.queue, u)
      <4>1. PICK j \in DOMAIN s.queue : s.queue[j].kind = "barrier" /\ s.queue[j].token = u
        BY <3>2 DEF HasBarrier
      <4>2. j \in DOMAIN (s.queue \o live) /\ (s.queue \o live)[j] = s.queue[j]
        BY <1>1, <2>4, <4>1, ConcatProperties
      <4> QED BY <2>8, <4>1, <4>2 DEF HasBarrier
    <3>3. CompleteRequest(s, t) = free
      BY <2>1, <2>11
    <3> QED BY <2>2, <2>3, <2>8, <3>1, <3>2, <3>3
  <2> QED BY <2>9, <2>10, <2>11
<1> QED BY <1>2, <1>3

LEMMA SentOK ==
  ASSUME NEW s, NEW n, SocketOK(s, n), NEW item \in MessageItem
  PROVE  LET q == Sent(s, item) IN
         /\ SocketOK(q, n) /\ q \in SocketType
         /\ q.open = s.open /\ q.requests = s.requests /\ q.queue = s.queue
         /\ q.suppressed = s.suppressed /\ q.pendingLive = s.pendingLive
<1> DEFINE o == Append(s.out, item.msg)
           left == Max2(0, s.queued - item.count)
           q == [s EXCEPT !.out = o, !.queued = left]
<1>1. s \in SocketType /\ s.queued \in Nat /\ s.out \in Seq(Msg) /\ item.msg \in Msg /\ item.count \in Nat
  BY DEF SocketOK, SocketType, MessageItem
<1>2. left \in Nat /\ o \in Seq(Msg)
  BY <1>1 DEF Max2
<1>3. Sent(s, item) = q
  BY <1>1 DEF Sent, SocketType
<1> HIDE DEF o, left
<1>4. /\ q \in SocketType /\ q.open = s.open /\ q.requests = s.requests /\ q.queue = s.queue
      /\ q.suppressed = s.suppressed /\ q.pendingLive = s.pendingLive
  BY <1>1, <1>2 DEF SocketType
<1> HIDE DEF q
<1>5. SocketOK(q, n)
  BY <1>4, SameRequestsOK DEF SocketOK, Suppressing
<1> QED BY <1>3, <1>4, <1>5

LEMMA MessageIs ==
  ASSUME NEW msg \in Msg, NEW key \in Int
  PROVE  Message(msg, key) \in MessageItem
<1> DEFINE count == IF msg.type = "event_replay" THEN Max2(1, Len(msg.events)) ELSE 1
<1>1. msg.type = "event_replay" => msg.events \in Seq(Event)
  BY DEF Msg
<1>2. msg.type = "event_replay" => Len(msg.events) \in Nat
  BY <1>1
<1>3. count \in Nat \ {0}
  BY <1>2 DEF Max2
<1>4. Message(msg, key) = [kind |-> "message", msg |-> msg, key |-> key, count |-> count]
  BY DEF Message
<1> HIDE DEF count
<1> QED BY <1>3, <1>4 DEF MessageItem

LEMMA BarrierIs ==
  ASSUME NEW r \in Req
  PROVE  Barrier(r) \in Item /\ Barrier(r).kind = "barrier" /\ Barrier(r).token = r.token
BY DEF Barrier, Item, Req

LEMMA FrameIs ==
  ASSUME gen \in Gens, NEW r \in Req, NEW events \in Seq(Event), NEW last \in BOOLEAN,
         NEW more \in BOOLEAN, NEW error \in BOOLEAN
  PROVE  Frame(r, events, last, more, error) \in Msg
BY DEF Frame, Msg, Req, IdOf, NoId

-----------------------------------------------------------------------------
(* Bodies and the delivery tail. *)

BodyOK(b) == b \in Body /\ (b.phase \in {"paging", "loaded"} => b.raw \in Raw)

LEMMA DropBodyIs ==
  ASSUME NEW bs, NEW t
  PROVE  /\ DOMAIN DropBody(bs, t) = DOMAIN bs \ {t}
         /\ \A u \in DOMAIN bs \ {t} : DropBody(bs, t)[u] = bs[u]
BY DEF DropBody

\* Requests of the same tokens, with their barriers, are as well served.
LEMMA ServingMoves ==
  ASSUME NEW s, NEW bs, NEW tl, NEW n, Serving(s, bs, tl, n), NEW q,
         \A i \in DOMAIN q.requests : \E j \in DOMAIN s.requests :
           q.requests[i].token = s.requests[j].token,
         \A u : Active(q, u) /\ HasBarrier(s.queue, u) => HasBarrier(q.queue, u)
  PROVE  Serving(q, bs, tl, n)
<1>1. Served(q, bs)
  BY DEF Serving, Served, Active
<1>2. \A t : Active(q, t) => Active(s, t)
  BY DEF Active
<1>3. Closing(q, bs)
  BY <1>2 DEF Serving, Closing
<1> QED BY <1>1, <1>3 DEF Serving

\* A body that goes on.
LEMMA ServingGoesOn ==
  ASSUME NEW s, NEW bs, NEW tl, NEW n, Serving(s, bs, tl, n), NEW t \in DOMAIN bs, NEW c, BodyOK(c),
         bs[t].phase \in Delivered => c.phase \in Delivered,
         c.phase = "closing" /\ Active(s, t) => HasBarrier(s.queue, t)
  PROVE  Serving(s, [bs EXCEPT ![t] = c], tl, n)
<1> DEFINE cs == [bs EXCEPT ![t] = c]
<1>1. DOMAIN cs = DOMAIN bs /\ \A u \in DOMAIN bs : cs[u] = IF u = t THEN c ELSE bs[u]
  OBVIOUS
<1> HIDE DEF cs
<1>2. BodiesOK(cs, n)
  BY <1>1 DEF Serving, BodiesOK, BodyOK
<1>3. TailOK(cs, tl)
  BY <1>1 DEF Serving, TailOK
<1>4. Served(s, cs)
  BY <1>1 DEF Serving, Served
<1>5. Closing(s, cs)
  BY <1>1 DEF Serving, Closing
<1> QED BY <1>2, <1>3, <1>4, <1>5 DEF Serving, cs

\* A body that is through, its request gone or left to its barrier.
LEMMA ServingDrops ==
  ASSUME NEW s, NEW bs, NEW tl, NEW n, Serving(s, bs, tl, n), NEW t,
         Active(s, t) => HasBarrier(s.queue, t),
         NEW rest, TailOK(DropBody(bs, t), rest)
  PROVE  Serving(s, DropBody(bs, t), rest, n)
<1> DEFINE cs == DropBody(bs, t)
<1>1. DOMAIN cs = DOMAIN bs \ {t} /\ \A u \in DOMAIN bs \ {t} : cs[u] = bs[u]
  BY DropBodyIs
<1> HIDE DEF cs
<1>2. BodiesOK(cs, n)
  BY <1>1 DEF Serving, BodiesOK
<1>3. Served(s, cs)
  BY <1>1 DEF Serving, Served, Active
<1>4. Closing(s, cs)
  BY <1>1 DEF Serving, Closing
<1> QED BY <1>2, <1>3, <1>4 DEF Serving, cs

LEMMA TailPops ==
  ASSUME NEW bs, NEW tl, TailOK(bs, tl), tl # <<>>
  PROVE  Head(tl) \in DOMAIN bs /\ TailOK(DropBody(bs, Head(tl)), Tail(tl))
<1> DEFINE t == Head(tl)
           cs == DropBody(bs, t)
           rest == Tail(tl)
<1>1. /\ tl \in Seq(Nat) /\ t = tl[1] /\ 1 \in DOMAIN tl /\ Len(tl) \in Nat
      /\ DOMAIN tl = 1..Len(tl)
  BY DEF TailOK
<1>2. DOMAIN cs = DOMAIN bs \ {t} /\ \A u \in DOMAIN bs \ {t} : cs[u] = bs[u]
  BY DropBodyIs
<1>3. /\ rest \in Seq(Nat) /\ DOMAIN rest = 1..(Len(tl) - 1)
      /\ \A i \in DOMAIN rest : rest[i] = tl[i + 1] /\ i + 1 \in DOMAIN tl /\ i + 1 # 1
  BY <1>1
<1> HIDE DEF t, cs, rest
<1>4. \A i \in DOMAIN rest : rest[i] \in DOMAIN bs /\ rest[i] # t /\ bs[rest[i]].phase \in Delivered
  BY <1>1, <1>3 DEF TailOK
<1>5. \A i, j \in DOMAIN rest : rest[i] = rest[j] => i = j
  BY <1>1, <1>3 DEF TailOK
<1>6. TailOK(cs, rest)
  BY <1>2, <1>3, <1>4, <1>5 DEF TailOK
<1>7. t \in DOMAIN bs
  BY <1>1 DEF TailOK
<1> QED BY <1>6, <1>7 DEF t, cs, rest

LEMMA TailKeeps ==
  ASSUME NEW bs, NEW tl, TailOK(bs, tl), NEW t \in DOMAIN bs, bs[t].phase \notin Delivered
  PROVE  TailOK(DropBody(bs, t), tl)
<1> DEFINE cs == DropBody(bs, t)
<1>1. DOMAIN cs = DOMAIN bs \ {t} /\ \A u \in DOMAIN bs \ {t} : cs[u] = bs[u]
  BY DropBodyIs
<1> HIDE DEF cs
<1>2. TailOK(cs, tl)
  BY <1>1 DEF TailOK
<1> QED BY <1>2 DEF cs

LEMMA TailPushes ==
  ASSUME NEW bs, NEW tl, TailOK(bs, tl), NEW t \in DOMAIN bs, t \in Nat, bs[t].phase \in Delivered,
         \A i \in DOMAIN tl : tl[i] # t
  PROVE  TailOK(bs, Append(tl, t))
<1> DEFINE more == Append(tl, t)
<1>1. tl \in Seq(Nat) /\ Len(tl) \in Nat /\ DOMAIN tl = 1..Len(tl)
  BY DEF TailOK
<1>2. /\ more \in Seq(Nat) /\ DOMAIN more = DOMAIN tl \cup {Len(tl) + 1}
      /\ \A i \in DOMAIN tl : more[i] = tl[i]
      /\ more[Len(tl) + 1] = t
  BY <1>1
<1> HIDE DEF more
<1>3. TailOK(bs, more)
  BY <1>2 DEF TailOK
<1> QED BY <1>3 DEF more

\* What a step leaves, before a closed socket's bodies are forgotten.
Fits(s, bs, tl, n) == SocketOK(s, n) /\ (s.open => Serving(s, bs, tl, n))

LEMMA BecomeHolds ==
  ASSUME NEW s, NEW bs, NEW tl, Become(s, bs, tl), token' \in Nat, Fits(s, bs, tl, token')
  PROVE  SocketInv'
<1>1. /\ sock' = s /\ SocketOK(s, token')
      /\ bodies' = IF s.open THEN bs ELSE Empty
      /\ tail' = IF s.open THEN tl ELSE <<>>
  BY DEF Become, Fits
<1>2. Serving(sock', bodies', tail', token')
  <2>1. CASE s.open
    BY <1>1, <2>1 DEF Fits
  <2>2. CASE ~s.open
    <3>1. s.requests = <<>>
      BY <1>1, <2>2 DEF SocketOK
    <3>2. BodiesOK(Empty, token') /\ TailOK(Empty, <<>>) /\ Closing(s, Empty)
      BY DEF BodiesOK, TailOK, Closing, Empty
    <3>3. Served(s, Empty)
      BY <3>1 DEF Served
    <3> QED BY <1>1, <2>2, <3>2, <3>3 DEF Serving
  <2> QED BY <2>1, <2>2
<1> QED BY <1>1, <1>2 DEF SocketInv

LEMMA AppendedBarrier ==
  ASSUME NEW q \in Seq(Item), NEW item
  PROVE  /\ \A u : HasBarrier(q, u) => HasBarrier(Append(q, item), u)
         /\ item.kind = "barrier" => HasBarrier(Append(q, item), item.token)
<1> DEFINE more == Append(q, item)
<1>1. /\ Len(q) \in Nat /\ DOMAIN more = DOMAIN q \cup {Len(q) + 1} /\ more[Len(q) + 1] = item
      /\ \A i \in DOMAIN q : more[i] = q[i]
  OBVIOUS
<1> HIDE DEF more
<1>2. /\ \A u : HasBarrier(q, u) => HasBarrier(more, u)
      /\ item.kind = "barrier" => HasBarrier(more, item.token)
  BY <1>1 DEF HasBarrier
<1> QED BY <1>2 DEF more

\* An item more in the queue.
LEMMA AppendKeeps ==
  ASSUME NEW s, NEW bs, NEW tl, NEW n, SocketOK(s, n), Serving(s, bs, tl, n), NEW q,
         NEW item, q.requests = s.requests, q.queue = Append(s.queue, item)
  PROVE  Serving(q, bs, tl, n)
<1>1. s.queue \in Seq(Item)
  BY DEF SocketOK, SocketType
<1>2. \A u : HasBarrier(s.queue, u) => HasBarrier(q.queue, u)
  BY <1>1, AppendedBarrier
<1> QED BY <1>2, ServingMoves

-----------------------------------------------------------------------------
(* Continuations keep the invariant. *)

LEMMA StoreSame == StoreInv /\ UNCHANGED <<sourceVars, history, load, persisted>> => StoreInv'
BY DEF StoreInv, sourceVars, HasEvents, Past

LEMMA BodyOf ==
  ASSUME IInv, NEW t \in DOMAIN bodies
  PROVE  /\ bodies[t] \in Body /\ BodyOK(bodies[t]) /\ t \in 1..token /\ t \in Nat
         /\ bodies[t].phase \notin Delivered => \A i \in DOMAIN tail : tail[i] # t
<1>1. token \in Nat /\ BodiesOK(bodies, token) /\ TailOK(bodies, tail)
  BY DEF IInv, SocketInv, Serving
<1> QED BY <1>1 DEF BodiesOK, TailOK, BodyOK

LEMMA RequestActive ==
  ASSUME IInv, NEW t, Valid(t)
  PROVE  LET r == RequestOf(sock, t) IN
         /\ r \in Req /\ r.token = t /\ sock.open /\ Active(sock, t)
         /\ \E i \in DOMAIN sock.requests : r = sock.requests[i]
BY ActiveRequest DEF Valid, IInv, SocketInv

\* A body whose request is gone, or whose socket is closed.
LEMMA InvalidDrops ==
  ASSUME IInv, NEW t, ~Valid(t), NEW rest, TailOK(DropBody(bodies, t), rest)
  PROVE  Fits(sock, DropBody(bodies, t), rest, token)
BY ServingDrops DEF IInv, SocketInv, Fits, Valid

\* The request of a live body becomes a cold one.
LEMMA ColdOK ==
  ASSUME IInv, NEW t, Valid(t), NEW cold \in BOOLEAN
  PROVE  LET asCold == [i \in DOMAIN sock.requests |->
                          IF cold /\ sock.requests[i].token = t
                          THEN [sock.requests[i] EXCEPT !.kind = "cold"] ELSE sock.requests[i]]
             s == [sock EXCEPT !.requests = asCold, !.suppressed = @ \/ cold]
         IN  SocketOK(s, token) /\ Serving(s, bodies, tail, token)
<1> DEFINE Cold(r) == IF cold /\ r.token = t THEN [r EXCEPT !.kind = "cold"] ELSE r
           asCold == [i \in DOMAIN sock.requests |->
                        IF cold /\ sock.requests[i].token = t
                        THEN [sock.requests[i] EXCEPT !.kind = "cold"] ELSE sock.requests[i]]
           suppressed == sock.suppressed \/ cold
           s == [sock EXCEPT !.requests = asCold, !.suppressed = suppressed]
<1>1. /\ SocketOK(sock, token) /\ sock \in SocketType /\ sock.requests \in Seq(Req) /\ sock.open
      /\ sock.suppressed \in BOOLEAN /\ Serving(sock, bodies, tail, token)
  BY DEF IInv, SocketInv, SocketOK, SocketType, Valid
<1>2. sock.requests # <<>>
  BY <1>1 DEF Valid, Active
<1>3. \A r \in Req : Cold(r) \in Req /\ Cold(r).token = r.token /\ (~cold => Cold(r) = r)
  BY DEF Req, KindSet
<1>4. /\ asCold \in Seq(Req) /\ DOMAIN asCold = DOMAIN sock.requests
      /\ \A i \in DOMAIN asCold : asCold[i].token = sock.requests[i].token
                                  /\ (~cold => asCold[i] = sock.requests[i])
  <2>1. \A i \in 1..Len(sock.requests) : sock.requests[i] \in Req
    BY <1>1
  <2>2. DOMAIN sock.requests = 1..Len(sock.requests) /\ Len(sock.requests) \in Nat
    BY <1>1
  <2>3. \A i \in 1..Len(sock.requests) : asCold[i] = Cold(sock.requests[i])
    BY <2>2
  <2> HIDE DEF Cold
  <2>4. \A i \in 1..Len(sock.requests) :
          asCold[i] \in Req /\ asCold[i].token = sock.requests[i].token
          /\ (~cold => asCold[i] = sock.requests[i])
    BY <1>3, <2>1, <2>3
  <2>5. asCold = [i \in 1..Len(sock.requests) |-> asCold[i]]
    BY <2>2
  <2> HIDE DEF asCold
  <2>6. asCold \in Seq(Req) /\ DOMAIN asCold = 1..Len(sock.requests)
    BY <2>2, <2>4, <2>5
  <2> QED BY <2>2, <2>4, <2>6
<1>5. suppressed \in BOOLEAN
  OBVIOUS
<1> HIDE DEF asCold, suppressed
<1>6. /\ s \in SocketType /\ s.requests = asCold /\ s.suppressed = suppressed
      /\ s.open = sock.open /\ s.queue = sock.queue /\ s.pendingLive = sock.pendingLive
  BY <1>1, <1>4, <1>5 DEF SocketType
<1> HIDE DEF s
<1>7. OwnTokens(s, token)
  BY <1>1, <1>4, <1>6 DEF SocketOK, OwnTokens
<1>8. Suppressing(s)
  <2>1. asCold # <<>>
    BY <1>2, <1>4
  <2>2. LiveRequests(asCold) => sock.suppressed \/ cold
    BY <1>1, <1>4 DEF SocketOK, Suppressing, LiveRequests
  <2> QED BY <1>1, <1>6, <2>1, <2>2 DEF SocketOK, Suppressing, suppressed
<1>9. SocketOK(s, token)
  BY <1>1, <1>6, <1>7, <1>8 DEF SocketOK
<1>10. Serving(s, bodies, tail, token)
  BY <1>1, <1>4, <1>6, ServingMoves
<1> QED BY <1>9, <1>10 DEF s, asCold, suppressed

LEMMA AdmitHolds ==
  ASSUME IInv, NEW t \in DOMAIN bodies, Admit(t)
  PROVE  IInv'
<1> DEFINE b == bodies[t]
           mismatch   == b.known # None /\ b.known # gen
           outOfRange == b.kind = "delta" /\ HasEvents /\ (b.at < lo - 1 \/ b.at > hi)
           cold       == mismatch \/ outOfRange
           asCold     == [i \in DOMAIN sock.requests |->
                            IF cold /\ sock.requests[i].token = t
                            THEN [sock.requests[i] EXCEPT !.kind = "cold"] ELSE sock.requests[i]]
           s == [sock EXCEPT !.requests = asCold, !.suppressed = @ \/ cold]
           c == [b EXCEPT !.phase = "waiting", !.reset = cold, !.kind = IF cold THEN "cold" ELSE @]
           bs == [bodies EXCEPT ![t] = c]
<1>1. StoreInv /\ SocketInv /\ token \in Nat
  BY DEF IInv, SocketInv
<1>2. StoreInv' /\ token' = token
  BY <1>1, StoreSame DEF Admit
<1>3. b \in Body /\ t \in Nat /\ b.phase = "hydrated" /\ \A i \in DOMAIN tail : tail[i] # t
  BY BodyOf DEF Admit, InPhase, Delivered
<1>4. CASE ~Valid(t)
  <2>1. Become(sock, DropBody(bodies, t), tail)
    BY <1>4 DEF Admit
  <2>2. TailOK(DropBody(bodies, t), tail)
    BY <1>1, <1>3, TailKeeps DEF SocketInv, Serving, Delivered
  <2>3. Fits(sock, DropBody(bodies, t), tail, token)
    BY <1>4, <2>2, InvalidDrops
  <2> QED BY <1>1, <1>2, <2>1, <2>3, BecomeHolds DEF IInv
<1>5. CASE Valid(t)
  <2>0. cold \in BOOLEAN
    OBVIOUS
  <2>1. Become(s, bs, Append(tail, t))
    BY <1>3, <1>5 DEF Admit, Body
  <2> HIDE DEF cold
  <2>2. SocketOK(s, token) /\ Serving(s, bodies, tail, token)
    BY <1>5, <2>0, ColdOK
  <2>3. c \in Body /\ c.phase = "waiting" /\ BodyOK(c)
    BY <1>3, <2>0 DEF Body, BodyOK, KindSet, Phases
  <2> HIDE DEF s, c, b
  <2>4. Serving(s, bs, tail, token)
    BY <2>2, <2>3, ServingGoesOn DEF Delivered
  <2>5. TailOK(bs, Append(tail, t))
    <3>1. t \in DOMAIN bs /\ bs[t].phase \in Delivered
      BY <2>3 DEF Delivered
    <3> HIDE DEF bs
    <3> QED BY <1>3, <2>4, <3>1, TailPushes DEF Serving
  <2>6. Fits(s, bs, Append(tail, t), token)
    BY <2>2, <2>4, <2>5 DEF Fits, Serving
  <2> HIDE DEF bs
  <2> QED BY <1>1, <1>2, <2>1, <2>6, BecomeHolds DEF IInv
<1> QED BY <1>4, <1>5

LEMMA AdmitUnavailableHolds ==
  ASSUME IInv, NEW t \in DOMAIN bodies, AdmitUnavailable(t)
  PROVE  IInv'
<1> DEFINE r == RequestOf(sock, t)
           item == Message(FailedTerminal(r), r.key)
           s == Enqueue(sock, item)
           q == Enqueue(s, Barrier(r))
           c == [bodies[t] EXCEPT !.phase = "failing"]
<1>1. StoreInv /\ SocketInv /\ token \in Nat /\ gen \in Gens /\ SocketOK(sock, token)
      /\ Serving(sock, bodies, tail, token)
  BY DEF IInv, SocketInv, StoreInv
<1>2. StoreInv' /\ token' = token
  BY <1>1, StoreSame DEF AdmitUnavailable
<1>3. bodies[t] \in Body /\ bodies[t].phase = "unavailable" /\ TailOK(DropBody(bodies, t), tail)
  <2>1. bodies[t] \in Body /\ bodies[t].phase = "unavailable"
    BY BodyOf DEF AdmitUnavailable, InPhase
  <2> QED BY <1>1, <2>1, TailKeeps DEF Serving, Delivered
<1>4. CASE ~Valid(t)
  <2>1. Become(sock, DropBody(bodies, t), tail)
    BY <1>4 DEF AdmitUnavailable
  <2>2. Fits(sock, DropBody(bodies, t), tail, token)
    BY <1>3, <1>4, InvalidDrops
  <2> QED BY <1>1, <1>2, <2>1, <2>2, BecomeHolds DEF IInv
<1>5. CASE Valid(t)
  <2>1. r \in Req /\ r.token = t /\ Active(sock, t)
    BY <1>5, RequestActive
  <2>2. item \in Item /\ Barrier(r) \in Item
    <3>1. FailedTerminal(r) \in Msg /\ r.key \in Int
      BY <1>1, <2>1, TerminalIsMsg DEF Req
    <3> HIDE DEF r
    <3> QED BY <2>1, <3>1, MessageIs, BarrierIs DEF Item
  <2> HIDE DEF item
  <2>3. /\ SocketOK(s, token)
        /\ s.open => s.requests = sock.requests /\ s.queue = Append(sock.queue, item)
    BY <1>1, <2>2, EnqueueOK
  <2>4. s.open => Serving(s, bodies, tail, token)
    BY <1>1, <2>2, <2>3, AppendKeeps
  <2>5. CASE r.kind = "older"
    <3>1. Become(s, [bodies EXCEPT ![t] = c], tail)
      BY <1>3, <1>5, <2>5 DEF AdmitUnavailable, Body, item
    <3>2. BodyOK(c) /\ c.phase = "failing"
      BY <1>3 DEF Body, BodyOK, Phases
    <3> HIDE DEF s, c, r
    <3>3. Fits(s, [bodies EXCEPT ![t] = c], tail, token)
      BY <1>3, <2>3, <2>4, <3>2, ServingGoesOn DEF Fits, Delivered
    <3> DEFINE bs == [bodies EXCEPT ![t] = c]
    <3> HIDE DEF bs
    <3> QED BY <1>1, <1>2, <3>1, <3>3, BecomeHolds DEF IInv, bs
  <2>6. CASE r.kind # "older"
    <3> DEFINE last == IF s.open THEN q ELSE s
    <3>1. Become(last, DropBody(bodies, t), tail)
      BY <1>5, <2>6 DEF AdmitUnavailable, item
    <3>2. /\ SocketOK(q, token)
          /\ q.open => s.open /\ q.requests = s.requests /\ q.queue = Append(s.queue, Barrier(r))
      <4> HIDE DEF s
      <4> QED BY <1>1, <2>2, <2>3, EnqueueOK
    <3> HIDE DEF s, q
    <3>3. q.open => Serving(q, bodies, tail, token) /\ HasBarrier(q.queue, t)
      <4>1. Barrier(r).kind = "barrier" /\ Barrier(r).token = t
        BY <2>1, BarrierIs
      <4> HIDE DEF r
      <4>2. q.open => Serving(q, bodies, tail, token)
        BY <2>2, <2>3, <2>4, <3>2, AppendKeeps
      <4>3. s.queue \in Seq(Item)
        BY <2>3 DEF SocketOK, SocketType
      <4>4. HasBarrier(Append(s.queue, Barrier(r)), t)
        BY <4>1, <4>3, AppendedBarrier
      <4> QED BY <3>2, <4>2, <4>4
    <3>4. Fits(q, DropBody(bodies, t), tail, token)
      BY <1>3, <3>2, <3>3, ServingDrops DEF Fits
    <3>5. Fits(last, DropBody(bodies, t), tail, token)
      BY <2>3, <3>4 DEF Fits
    <3> HIDE DEF last
    <3> QED BY <1>1, <1>2, <3>1, <3>5, BecomeHolds DEF IInv
  <2> QED BY <2>5, <2>6
<1> QED BY <1>4, <1>5

\* The head of the delivery tail, its request gone.
LEMMA GoneHolds ==
  ASSUME IInv, NEW t \in DOMAIN bodies, ~Valid(t), tail # <<>>, t = Head(tail),
         Become(sock, DropBody(bodies, t), Tail(tail)), token' = token
  PROVE  SocketInv'
<1>1. token \in Nat /\ TailOK(bodies, tail)
  BY DEF IInv, SocketInv, Serving
<1>2. TailOK(DropBody(bodies, t), Tail(tail))
  BY <1>1, TailPops
<1>3. Fits(sock, DropBody(bodies, t), Tail(tail), token)
  BY <1>2, InvalidDrops
<1> QED BY <1>1, <1>3, BecomeHolds

\* A body of the delivery tail that goes on, the socket as it was.
LEMMA GoesOnHolds ==
  ASSUME IInv, NEW t \in DOMAIN bodies, NEW c, BodyOK(c), c.phase \in Delivered, c.phase # "closing",
         NEW s, Fits(s, bodies, tail, token), Become(s, [bodies EXCEPT ![t] = c], tail), token' = token
  PROVE  SocketInv'
<1> DEFINE bs == [bodies EXCEPT ![t] = c]
<1>1. token \in Nat
  BY DEF IInv, SocketInv
<1>2. Fits(s, bs, tail, token)
  BY ServingGoesOn DEF Fits
<1> HIDE DEF bs
<1> QED BY <1>1, <1>2, BecomeHolds DEF bs

LEMMA TakeSnapshotHolds ==
  ASSUME IInv, NEW t \in DOMAIN bodies, TakeSnapshot(t)
  PROVE  IInv'
<1> DEFINE b == bodies[t]
           raw    == [gen |-> gen, lo |-> lo, hi |-> hi]
           paging == HasEvents /\ lo > 1 /\ HasFile
                     /\ (b.kind = "older" \/ (b.kind = "cold" /\ b.tailMode))
           cached == persisted # None /\ persisted.gen = gen
           phase == IF paging /\ ~cached THEN "paging" ELSE "loaded"
           file == IF paging /\ cached THEN persisted.n ELSE 0
           c == [b EXCEPT !.raw = raw, !.phase = phase, !.file = file]
<1>1. StoreInv /\ SocketInv /\ token \in Nat
  BY DEF IInv, SocketInv
<1>2. b \in Body /\ tail # <<>> /\ t = Head(tail) /\ token' = token
  BY BodyOf DEF TakeSnapshot, Delivering
<1>3. CASE ~Valid(t)
  <2>1. Become(sock, DropBody(bodies, t), Tail(tail)) /\ UNCHANGED <<sourceVars, history, load, persisted>>
    BY <1>3 DEF TakeSnapshot
  <2> QED BY <1>1, <1>2, <1>3, <2>1, GoneHolds, StoreSame DEF IInv
<1>4. CASE Valid(t)
  <2>1. Become(sock, [bodies EXCEPT ![t] = c], tail)
    BY <1>2, <1>4 DEF TakeSnapshot, Body
  <2>2. raw \in Raw
    BY <1>1 DEF StoreInv, Raw
  <2>3. file \in Nat /\ phase \in {"paging", "loaded"}
    BY <1>1 DEF StoreInv
  <2>4. StoreInv'
    <3>1. /\ UNCHANGED <<sourceVars, history, persisted>>
          /\ load' = IF paging /\ ~cached /\ load = None
                     THEN [gen |-> gen, hydrate |-> FALSE, from |-> history] ELSE load
      BY <1>4 DEF TakeSnapshot
    <3>2. CASE load' = load
      BY <1>1, <3>1, <3>2, StoreSame
    <3>3. CASE load' # load
      <4> DEFINE one == [gen |-> gen, hydrate |-> FALSE, from |-> history]
      <4>1. load' = one /\ HasEvents
        BY <3>1, <3>3
      <4>2. /\ one \in [gen : Gens, hydrate : BOOLEAN, from : 1..history]
            /\ one.gen = gen
        BY <1>1 DEF StoreInv
      <4>3. Past(gen)
        BY <1>1 DEF StoreInv, Past, Gens
      <4> HIDE DEF one
      <4>4. UNCHANGED <<gen, lo, hi, history, persisted>>
        BY <3>1 DEF sourceVars
      <4> QED BY <1>1, <4>1, <4>2, <4>3, <4>4 DEF StoreInv, Past, HasEvents
    <3> QED BY <3>2, <3>3
  <2> HIDE DEF raw, file, phase
  <2>5. BodyOK(c) /\ c.phase \in Delivered /\ c.phase # "closing"
    BY <1>2, <2>2, <2>3 DEF Body, BodyOK, Delivered, Phases
  <2> HIDE DEF c
  <2>6. Fits(sock, bodies, tail, token)
    BY <1>1 DEF SocketInv, Fits
  <2> QED BY <1>2, <2>1, <2>4, <2>5, <2>6, GoesOnHolds DEF IInv
<1> QED BY <1>3, <1>4

LEMMA EntriesIn ==
  ASSUME NEW g, NEW from \in Nat, NEW to \in Int, NEW T,
         \A x \in from..to : [gen |-> g, seq |-> x] \in T
  PROVE  Entries(g, from, to) \in Seq(T)
<1> DEFINE n == to - from + 1
           es == Entries(g, from, to)
<1>1. \A i \in 1..n : [gen |-> g, seq |-> from + i - 1] \in T
  <2>1. \A i \in 1..n : from + i - 1 \in from..to
    OBVIOUS
  <2> QED BY <2>1
<1>2. es = [i \in 1..n |-> [gen |-> g, seq |-> from + i - 1]]
  BY DEF Entries
<1>3. es = [i \in 1..n |-> es[i]] /\ \A i \in 1..n : es[i] \in T
  BY <1>1, <1>2
<1>4. PICK m \in Nat : 1..n = 1..m
  <2>1. CASE n \in Nat
    BY <2>1
  <2>2. CASE n \notin Nat
    <3>1. 1..n = 1..0
      BY <2>2
    <3> QED BY <3>1
  <2> QED BY <2>1, <2>2
<1> HIDE DEF es, n
<1>5. es = [i \in 1..m |-> es[i]] /\ \A i \in 1..m : es[i] \in T
  BY <1>3, <1>4
<1>6. es \in Seq(T)
  BY <1>5
<1> QED BY <1>6 DEF es

LEMMA EntriesTyped ==
  ASSUME NEW g \in Gens, NEW from \in Nat, NEW to \in Int
  PROVE  Entries(g, from, to) \in Seq(Event)
<1>1. \A x \in from..to : [gen |-> g, seq |-> x] \in Event
  BY DEF Event
<1> QED BY <1>1, EntriesIn

LEMMA SubSeqTyped ==
  ASSUME NEW T, NEW s \in Seq(T), NEW m \in Nat \ {0}, NEW n \in Int, n <= Len(s)
  PROVE  SubSeq(s, m, n) \in Seq(T)
<1>1. \A i \in m..n : i \in 1..Len(s)
  OBVIOUS
<1>2. \A i \in m..n : s[i] \in T
  BY <1>1
<1> QED BY <1>2, SubSeqProperties

LEMMA NewestTyped ==
  ASSUME NEW T, NEW s \in Seq(T), NEW n \in Nat
  PROVE  Newest(s, n) \in Seq(T)
<1>1. Max2(1, Len(s) - n + 1) \in Nat \ {0}
  BY DEF Max2
<1> QED BY <1>1, SubSeqTyped DEF Newest

LEMMA BatchesTyped ==
  ASSUME NEW T, NEW es \in Seq(T)
  PROVE  Batches(es) \in Seq(Seq(T))
<1> DEFINE n == (Len(es) + FrameSize - 1) \div FrameSize
           At(i) == SubSeq(es, (i - 1) * FrameSize + 1, Min2(i * FrameSize, Len(es)))
<1>1. FrameSize \in Nat \ {0} /\ Len(es) \in Nat
  BY CoordinatorAssumption
<1>2. n \in Nat
  BY <1>1
<1>3. ASSUME NEW i \in 1..n PROVE At(i) \in Seq(T)
  <2>1. (i - 1) * FrameSize \in Nat /\ i * FrameSize \in Int
    BY <1>1, <1>2
  <2> DEFINE x == (i - 1) * FrameSize + 1
             y == Min2(i * FrameSize, Len(es))
  <2>2. x \in Nat \ {0} /\ y \in Int /\ y <= Len(es)
    BY <1>1, <2>1 DEF Min2
  <2> HIDE DEF x, y
  <2> QED BY <2>2, SubSeqTyped DEF x, y
<1>4. Batches(es) = [i \in 1..n |-> At(i)]
  BY DEF Batches
<1> HIDE DEF At, n
<1> QED BY <1>2, <1>3, <1>4

LEMMA SelectedTyped ==
  ASSUME NEW b \in Body, b.raw \in Raw
  PROVE  Selected(b) \in Seq(Event)
<1>1. /\ b.raw.gen \in Gens /\ b.raw.lo \in Nat /\ b.raw.hi \in Nat /\ b.at \in Nat /\ b.file \in Nat
  BY DEF Body, Raw
<1>2. /\ Min2(b.at - 1, b.file) \in Int /\ Min2(b.at - 1, b.raw.hi) \in Int
      /\ Max2(b.raw.lo, b.at + 1) \in Nat
  BY <1>1 DEF Min2, Max2
<1>3. \A from \in Nat, to \in Int : Entries(b.raw.gen, from, to) \in Seq(Event)
  BY <1>1, EntriesTyped
<1>4. 1 \in Nat /\ b.raw.hi \in Int
  BY <1>1
<1>5. Entries(b.raw.gen, 1, Min2(b.at - 1, b.file)) \in Seq(Event)
  BY <1>2, <1>3, <1>4, Zenon
<1>6. Entries(b.raw.gen, b.raw.lo, Min2(b.at - 1, b.raw.hi)) \in Seq(Event)
  BY <1>1, <1>2, <1>3, Zenon
<1>7. Entries(b.raw.gen, Max2(b.raw.lo, b.at + 1), b.raw.hi) \in Seq(Event)
  BY <1>2, <1>3, <1>4, Zenon
<1>8. Entries(b.raw.gen, b.raw.lo, b.raw.hi) \in Seq(Event)
  BY <1>1, <1>3, <1>4, Zenon
<1> QED BY <1>5, <1>6, <1>7, <1>8 DEF Selected

LEMMA HeldTyped ==
  ASSUME sock.pendingLive \in Seq(Event), NEW b
  PROVE  Held(b) \in Seq(Event) /\ (sock.pendingLive = <<>> => Held(b) = <<>>)
<1> DEFINE S == {e \in Range(sock.pendingLive) : e.seq < b.raw.lo \/ e.seq > b.raw.hi}
           k == Those(sock.pendingLive, S)
<1>1. k \in Seq(Event) /\ Leaves(sock.pendingLive, S, Len(sock.pendingLive), k)
  <2> HIDE DEF S
  <2> QED BY ThoseOf
<1> HIDE DEF k
<1>2. Len(k) <= Len(sock.pendingLive)
  BY <1>1 DEF Leaves
<1>3. sock.pendingLive = <<>> => k = <<>>
  BY <1>1, <1>2
<1> QED BY <1>1, <1>3 DEF Held, k

LEMMA PlanHolds ==
  ASSUME IInv, NEW t \in DOMAIN bodies, Plan(t)
  PROVE  IInv'
<1> DEFINE b == bodies[t]
           found   == Selected(b)
           chosen  == IF b.kind = "delta" \/ (b.kind = "cold" /\ ~b.tailMode) THEN found
                      ELSE Newest(found, WindowFrames * FrameSize)
           newer   == Entries(gen, Max2(lo, (IF b.raw.lo <= b.raw.hi THEN b.raw.hi ELSE 0) + 1), hi)
           catchup == IF b.kind = "older" THEN <<>> ELSE newer
           batches == Batches(chosen \o catchup)
           kept    == IF b.kind = "delta" THEN SubSeq(batches, 1, Min2(WindowFrames, Len(batches)))
                                          ELSE Newest(batches, WindowFrames)
           more    == \/ Len(chosen) < Len(found)
                      \/ b.kind # "delta" /\ Len(kept) < Len(batches)
                      \/ b.kind = "cold" /\ b.file > 0
           left    == Max2(0, sock.queued - (Len(sock.pendingLive) - Len(Held(b))))
           held    == Held(b)
           s == [sock EXCEPT !.pendingLive = held, !.queued = left]
           c == [b EXCEPT !.phase = "sending", !.batches = kept, !.more = more]
<1>1. /\ StoreInv /\ SocketInv /\ token \in Nat /\ gen \in Gens /\ lo \in Nat /\ hi \in Nat
      /\ SocketOK(sock, token) /\ sock \in SocketType /\ Serving(sock, bodies, tail, token)
  BY DEF IInv, SocketInv, StoreInv, SocketOK
<1>2. /\ b \in Body /\ b.phase = "loaded" /\ b.raw \in Raw /\ tail # <<>> /\ t = Head(tail)
      /\ token' = token
  BY BodyOf DEF Plan, Delivering, InPhase, BodyOK
<1>a. StoreInv'
  BY <1>1, StoreSame DEF Plan
<1>3. CASE ~Valid(t)
  <2>1. Become(sock, DropBody(bodies, t), Tail(tail))
    BY <1>3 DEF Plan
  <2> QED BY <1>2, <1>3, <1>a, <2>1, GoneHolds DEF IInv
<1>4. CASE Valid(t)
  <2>1. found \in Seq(Event)
    BY <1>2, SelectedTyped
  <2>2. WindowFrames \in Nat /\ FrameSize \in Nat /\ WindowFrames * FrameSize \in Nat
    BY CoordinatorAssumption
  <2>3. newer \in Seq(Event)
    <3>1. Max2(lo, (IF b.raw.lo <= b.raw.hi THEN b.raw.hi ELSE 0) + 1) \in Nat
      BY <1>1, <1>2 DEF Raw, Max2
    <3> QED BY <1>1, <3>1, EntriesTyped
  <2>4. <<>> \in Seq(Event)
    OBVIOUS
  <2> HIDE DEF found, newer
  <2>5. chosen \in Seq(Event) /\ catchup \in Seq(Event)
    BY <2>1, <2>2, <2>3, <2>4, NewestTyped
  <2> HIDE DEF chosen, catchup
  <2>6. chosen \o catchup \in Seq(Event)
    BY <2>5, ConcatProperties
  <2>7. batches \in Seq(Seq(Event))
    BY <2>6, BatchesTyped
  <2> HIDE DEF batches
  <2>8. kept \in Seq(Seq(Event))
    <3>1. Newest(batches, WindowFrames) \in Seq(Seq(Event))
      BY <2>2, <2>7, NewestTyped
    <3>2. Min2(WindowFrames, Len(batches)) \in Int /\ Min2(WindowFrames, Len(batches)) <= Len(batches)
      BY <2>2, <2>7 DEF Min2
    <3>3. SubSeq(batches, 1, Min2(WindowFrames, Len(batches))) \in Seq(Seq(Event))
      BY <2>7, <3>2, SubSeqTyped
    <3> QED BY <3>1, <3>3
  <2>9. more \in BOOLEAN
    OBVIOUS
  <2>10. c = [b EXCEPT !.phase = "sending", !.batches = kept, !.more = more]
    OBVIOUS
  <2>11. Become(s, [bodies EXCEPT ![t] = c], tail)
    <3>1. Become([sock EXCEPT !.pendingLive = held,
                              !.queued = Max2(0, @ - (Len(sock.pendingLive) - Len(Held(b))))],
                 [bodies EXCEPT ![t].phase = "sending", ![t].batches = kept, ![t].more = more], tail)
      BY <1>4 DEF Plan, batches, chosen, catchup, found, newer
    <3> HIDE DEF kept, more, held
    <3>2. [bodies EXCEPT ![t].phase = "sending", ![t].batches = kept, ![t].more = more]
            = [bodies EXCEPT ![t] = c]
      BY <1>2 DEF Body
    <3>3. [sock EXCEPT !.pendingLive = held,
                       !.queued = Max2(0, @ - (Len(sock.pendingLive) - Len(Held(b))))] = s
      BY <1>1 DEF SocketType
    <3> QED BY <3>1, <3>2, <3>3
  <2>12. /\ sock.pendingLive \in Seq(Event) /\ sock.queued \in Nat
    BY <1>1 DEF SocketType
  <2>13. held \in Seq(Event) /\ (sock.pendingLive = <<>> => held = <<>>)
    BY <2>12, HeldTyped
  <2>14. left \in Nat
    <3>1. Len(sock.pendingLive) \in Nat /\ Len(Held(b)) \in Nat
      BY <2>12, <2>13
    <3> QED BY <2>12, <3>1 DEF Max2
  <2> HIDE DEF kept, more, left, held
  <2>15. c \in Body /\ c.phase = "sending"
    BY <1>2, <2>8, <2>9, <2>10 DEF Body, Phases
  <2> HIDE DEF c
  <2>16. BodyOK(c) /\ c.phase \in Delivered /\ c.phase # "closing"
    BY <2>15 DEF BodyOK, Delivered
  <2>17. /\ s \in SocketType /\ s.requests = sock.requests /\ s.suppressed = sock.suppressed
         /\ s.open = sock.open /\ s.pendingLive = held /\ s.queue = sock.queue
    BY <1>1, <2>13, <2>14 DEF SocketType
  <2> HIDE DEF s
  <2>18. SocketOK(s, token)
    BY <1>1, <2>13, <2>17, SameRequestsOK DEF SocketOK, Suppressing
  <2>19. Serving(s, bodies, tail, token)
    BY <1>1, <2>17, ServingMoves
  <2>20. Fits(s, bodies, tail, token)
    BY <2>18, <2>19 DEF Fits
  <2> QED BY <1>2, <1>a, <2>11, <2>16, <2>20, GoesOnHolds DEF IInv
<1> QED BY <1>3, <1>4

LEMMA EnqueueFits ==
  ASSUME IInv, NEW item \in Item
  PROVE  LET q == Enqueue(sock, item) IN
         /\ Fits(q, bodies, tail, token)
         /\ q.open => q.requests = sock.requests /\ q.queue = Append(sock.queue, item)
<1> DEFINE q == Enqueue(sock, item)
<1>1. gen \in Gens /\ SocketOK(sock, token) /\ Serving(sock, bodies, tail, token)
  BY DEF IInv, SocketInv, StoreInv
<1>2. /\ SocketOK(q, token)
      /\ q.open => q.requests = sock.requests /\ q.queue = Append(sock.queue, item)
  BY <1>1, EnqueueOK
<1> HIDE DEF q
<1>3. q.open => Serving(q, bodies, tail, token)
  BY <1>1, <1>2, AppendKeeps
<1> QED BY <1>2, <1>3 DEF Fits, q

LEMMA CompleteFits ==
  ASSUME IInv, NEW t
  PROVE  LET q == CompleteRequest(sock, t) IN
         Fits(q, bodies, tail, token) /\ (q.open => ~Active(q, t))
<1> DEFINE q == CompleteRequest(sock, t)
<1>1. gen \in Gens /\ SocketOK(sock, token) /\ Serving(sock, bodies, tail, token)
  BY DEF IInv, SocketInv, StoreInv
<1>2. /\ SocketOK(q, token)
      /\ q.open => /\ \A i \in DOMAIN q.requests :
                        q.requests[i].token # t
                        /\ \E j \in DOMAIN sock.requests : q.requests[i] = sock.requests[j]
                   /\ \A u : HasBarrier(sock.queue, u) => HasBarrier(q.queue, u)
  BY <1>1, CompleteOK
<1> HIDE DEF q
<1>3. q.open => Serving(q, bodies, tail, token)
  BY <1>1, <1>2, ServingMoves
<1> QED BY <1>2, <1>3 DEF Fits, Active, q

LEMMA SendNextHolds ==
  ASSUME IInv, NEW t \in DOMAIN bodies, SendNext(t)
  PROVE  IInv'
<1> DEFINE b == bodies[t]
           r == RequestOf(sock, t)
           Said(msg, c) == Become(Enqueue(sock, Message(msg, r.key)), [bodies EXCEPT ![t] = c], tail)
<1>1. /\ StoreInv /\ SocketInv /\ token \in Nat /\ gen \in Gens
      /\ Serving(sock, bodies, tail, token)
  BY DEF IInv, SocketInv, StoreInv
<1>2. /\ b \in Body /\ b.phase = "sending" /\ tail # <<>> /\ t = Head(tail) /\ token' = token
  BY BodyOf DEF SendNext, Delivering, InPhase
<1>a. StoreInv'
  BY <1>1, StoreSame DEF SendNext
<1>3. CASE ~Valid(t)
  <2>1. Become(sock, DropBody(bodies, t), Tail(tail))
    BY <1>3 DEF SendNext
  <2> QED BY <1>2, <1>3, <1>a, <2>1, GoneHolds DEF IInv
<1>b. ASSUME NEW msg \in Msg, NEW c \in Body, c.phase = "sending", Valid(t), Said(msg, c)
      PROVE  SocketInv'
  <2> DEFINE item == Message(msg, r.key)
             q == Enqueue(sock, item)
  <2>1. r.key \in Int
    BY <1>b, RequestActive DEF Req
  <2>2. item \in Item
    <3> HIDE DEF r
    <3> QED BY <2>1, MessageIs DEF Item
  <2>3. Become(q, [bodies EXCEPT ![t] = c], tail)
    BY <1>b
  <2> HIDE DEF item
  <2>4. Fits(q, bodies, tail, token)
    BY <2>2, EnqueueFits
  <2>5. BodyOK(c) /\ c.phase \in Delivered /\ c.phase # "closing"
    BY <1>b DEF BodyOK, Delivered
  <2> HIDE DEF q
  <2> QED BY <1>2, <2>3, <2>4, <2>5, GoesOnHolds
<1>4. CASE Valid(t)
  <2>1. r \in Req /\ r.token = t /\ Active(sock, t)
    BY <1>4, RequestActive
  <2>2. CASE b.reset
    <3> DEFINE c == [b EXCEPT !.reset = FALSE]
    <3>1. Said(Reset(IdOf(r.key)), c)
      BY <1>4, <2>2 DEF SendNext
    <3>2. Reset(IdOf(r.key)) \in Msg
      BY <1>1, <2>1 DEF Reset, IdOf, NoId, Msg, Req
    <3>3. c \in Body /\ c.phase = "sending"
      BY <1>2 DEF Body
    <3> HIDE DEF Said, c
    <3> QED BY <1>4, <1>a, <1>b, <3>1, <3>2, <3>3 DEF IInv
  <2>3. CASE ~b.reset /\ b.batches # <<>>
    <3> DEFINE c == [b EXCEPT !.batches = Tail(@)]
               msg == Frame(r, Head(b.batches), FALSE, b.more, FALSE)
    <3>1. Said(msg, c)
      BY <1>4, <2>3 DEF SendNext
    <3>2. /\ Head(b.batches) \in Seq(Event) /\ Tail(b.batches) \in Seq(Seq(Event)) /\ b.more \in BOOLEAN
      BY <1>2, <2>3, HeadTailProperties DEF Body
    <3>3. msg \in Msg
      <4> HIDE DEF r
      <4> QED BY <1>1, <2>1, <3>2, FrameIs
    <3>4. c \in Body /\ c.phase = "sending"
      BY <1>2, <3>2 DEF Body
    <3> HIDE DEF Said, c, msg
    <3> QED BY <1>4, <1>a, <1>b, <3>1, <3>3, <3>4 DEF IInv
  <2>4. CASE ~b.reset /\ b.batches = <<>> /\ ~b.ended
    <3> DEFINE c == [b EXCEPT !.ended = TRUE]
               msg == Frame(r, <<>>, TRUE, b.more, FALSE)
    <3>1. Said(msg, c)
      BY <1>4, <2>4 DEF SendNext
    <3>2. <<>> \in Seq(Event) /\ b.more \in BOOLEAN
      BY <1>2 DEF Body
    <3>3. msg \in Msg
      <4> HIDE DEF r
      <4> QED BY <1>1, <2>1, <3>2, FrameIs
    <3>4. c \in Body /\ c.phase = "sending"
      BY <1>2 DEF Body
    <3> HIDE DEF Said, c, msg
    <3> QED BY <1>4, <1>a, <1>b, <3>1, <3>3, <3>4 DEF IInv
  <2>5. CASE ~b.reset /\ b.batches = <<>> /\ b.ended
    <3> DEFINE q == IF r.kind = "older" THEN CompleteRequest(sock, t) ELSE Enqueue(sock, Barrier(r))
               c == [b EXCEPT !.phase = "closing"]
               bs == [bodies EXCEPT ![t] = c]
    <3>1. Become(q, bs, tail)
      BY <1>2, <1>4, <2>5 DEF SendNext, Body
    <3>2. BodyOK(c) /\ c.phase = "closing"
      BY <1>2 DEF Body, BodyOK, Phases
    <3>3. Fits(q, bodies, tail, token) /\ (q.open /\ Active(q, t) => HasBarrier(q.queue, t))
      <4>1. CASE r.kind = "older"
        BY <4>1, CompleteFits
      <4>2. CASE r.kind # "older"
        <5>1. Barrier(r) \in Item /\ Barrier(r).kind = "barrier" /\ Barrier(r).token = t
          BY <2>1, BarrierIs
        <5> HIDE DEF r
        <5>2. q = Enqueue(sock, Barrier(r))
          BY <4>2
        <5>3. Fits(q, bodies, tail, token) /\ (q.open => q.queue = Append(sock.queue, Barrier(r)))
          BY <5>1, <5>2, EnqueueFits
        <5>4. sock.queue \in Seq(Item)
          BY <1>1 DEF SocketInv, SocketOK, SocketType
        <5>5. HasBarrier(Append(sock.queue, Barrier(r)), t)
          BY <5>1, <5>4, AppendedBarrier
        <5> HIDE DEF q
        <5> QED BY <5>3, <5>5
      <4> QED BY <4>1, <4>2
    <3> HIDE DEF q, c
    <3>4. Fits(q, bs, tail, token)
      BY <1>2, <3>2, <3>3, ServingGoesOn DEF Fits, Delivered
    <3> HIDE DEF bs
    <3> QED BY <1>1, <1>2, <1>a, <3>1, <3>4, BecomeHolds DEF IInv
  <2> QED BY <2>2, <2>3, <2>4, <2>5
<1> QED BY <1>3, <1>4

LEMMA CloseHolds ==
  ASSUME IInv, NEW t \in DOMAIN bodies, Close(t)
  PROVE  IInv'
<1>1. /\ StoreInv /\ SocketInv /\ token \in Nat /\ SocketOK(sock, token)
      /\ Serving(sock, bodies, tail, token)
  BY DEF IInv, SocketInv
<1>2. StoreInv' /\ token' = token
  BY <1>1, StoreSame DEF Close
<1>3. CASE /\ Delivering({"closing"}) /\ t = Head(tail)
           /\ Become(sock, DropBody(bodies, t), Tail(tail))
  <2>1. bodies[t].phase = "closing" /\ tail # <<>>
    BY <1>3 DEF Delivering, InPhase
  <2>2. Active(sock, t) => HasBarrier(sock.queue, t)
    BY <1>1, <2>1 DEF Serving, Closing
  <2>3. TailOK(DropBody(bodies, t), Tail(tail))
    BY <1>1, <1>3, <2>1, TailPops DEF Serving
  <2>4. Fits(sock, DropBody(bodies, t), Tail(tail), token)
    BY <1>1, <2>2, <2>3, ServingDrops DEF Fits
  <2> QED BY <1>1, <1>2, <1>3, <2>4, BecomeHolds DEF IInv
<1>4. CASE /\ InPhase(t, {"failing"})
           /\ Become(CompleteRequest(sock, t), DropBody(bodies, t), tail)
  <2> DEFINE q == CompleteRequest(sock, t)
  <2>1. Become(q, DropBody(bodies, t), tail) /\ bodies[t].phase = "failing"
    BY <1>4 DEF InPhase
  <2>2. Fits(q, bodies, tail, token) /\ (q.open => ~Active(q, t))
    BY CompleteFits
  <2>3. TailOK(DropBody(bodies, t), tail)
    BY <1>1, <2>1, TailKeeps DEF Serving, Delivered
  <2> HIDE DEF q
  <2>4. Fits(q, DropBody(bodies, t), tail, token)
    BY <2>2, <2>3, ServingDrops DEF Fits
  <2> QED BY <1>1, <1>2, <2>1, <2>4, BecomeHolds DEF IInv
<1> QED BY <1>3, <1>4 DEF Close

LEMMA TailBarriers ==
  ASSUME NEW q \in Seq(Item), q # <<>>
  PROVE  \A u : HasBarrier(q, u) /\ ~(Head(q).kind = "barrier" /\ Head(q).token = u) => HasBarrier(Tail(q), u)
<1> DEFINE rest == Tail(q)
<1>1. /\ Len(q) \in Nat /\ DOMAIN q = 1..Len(q) /\ Head(q) = q[1] /\ DOMAIN rest = 1..(Len(q) - 1)
      /\ \A i \in DOMAIN rest : rest[i] = q[i + 1]
  OBVIOUS
<1> HIDE DEF rest
<1> SUFFICES ASSUME NEW u, HasBarrier(q, u), ~(Head(q).kind = "barrier" /\ Head(q).token = u)
             PROVE  HasBarrier(rest, u)
  BY DEF rest
<1>2. PICK j \in DOMAIN q : q[j].kind = "barrier" /\ q[j].token = u
  BY DEF HasBarrier
<1>3. j # 1
  BY <1>1, <1>2
<1>4. j - 1 \in DOMAIN rest /\ rest[j - 1] = q[j]
  BY <1>1, <1>3
<1> QED BY <1>2, <1>4 DEF HasBarrier

LEMMA DrainTakeHolds ==
  ASSUME IInv, DrainTake
  PROVE  IInv'
<1> DEFINE item == Head(sock.queue)
           rest == Tail(sock.queue)
           s == [sock EXCEPT !.queue = rest]
<1>1. /\ StoreInv /\ SocketInv /\ token \in Nat /\ gen \in Gens /\ SocketOK(sock, token)
      /\ sock \in SocketType /\ sock.queue \in Seq(Item) /\ Serving(sock, bodies, tail, token)
      /\ sock.queued \in Nat
  BY DEF IInv, SocketInv, StoreInv, SocketOK, SocketType
<1>2. StoreInv' /\ token' = token /\ sock.queue # <<>>
  BY <1>1, StoreSame DEF DrainTake, CanTake
<1>3. rest \in Seq(Item) /\ item \in Item
  BY <1>1, <1>2, HeadTailProperties
<1>b. \A u : HasBarrier(sock.queue, u) /\ ~(item.kind = "barrier" /\ item.token = u) => HasBarrier(rest, u)
  BY <1>1, <1>2, TailBarriers
<1>t. /\ \/ item.kind = "barrier" /\ Become(CompleteRequest(s, item.token), bodies, tail)
         \/ /\ item.kind = "message"
            /\ Become([s EXCEPT !.queued = Max2(0, @ - item.count)], bodies, tail)
         \/ /\ item.kind = "message"
            /\ \E n \in {Sent(s, item), [s EXCEPT !.inflight = item]} : Become(n, bodies, tail)
  BY DEF DrainTake
<1> HIDE DEF rest, item
<1>4. /\ s \in SocketType /\ s.requests = sock.requests /\ s.suppressed = sock.suppressed
      /\ s.open = sock.open /\ s.pendingLive = sock.pendingLive /\ s.queue = rest
      /\ s.queued = sock.queued
  BY <1>1, <1>3 DEF SocketType
<1> HIDE DEF s
<1>5. SocketOK(s, token)
  BY <1>1, <1>4, SameRequestsOK DEF SocketOK, Suppressing
<1>6. CASE item.kind = "barrier" /\ Become(CompleteRequest(s, item.token), bodies, tail)
  <2> DEFINE q == CompleteRequest(s, item.token)
  <2>1. /\ SocketOK(q, token)
        /\ q.open => /\ \A i \in DOMAIN q.requests :
                          q.requests[i].token # item.token
                          /\ \E j \in DOMAIN s.requests : q.requests[i] = s.requests[j]
                     /\ \A u : HasBarrier(s.queue, u) => HasBarrier(q.queue, u)
    BY <1>1, <1>5, CompleteOK
  <2>2. Become(q, bodies, tail)
    BY <1>6
  <2> HIDE DEF q
  <2>3. q.open => \A u : Active(q, u) /\ HasBarrier(sock.queue, u) => HasBarrier(q.queue, u)
    BY <1>4, <1>b, <2>1 DEF Active
  <2>4. q.open => Serving(q, bodies, tail, token)
    BY <1>1, <1>4, <2>1, <2>3, ServingMoves
  <2>5. Fits(q, bodies, tail, token)
    BY <2>1, <2>4 DEF Fits
  <2> QED BY <1>1, <1>2, <2>2, <2>5, BecomeHolds DEF IInv
<1>7. CASE item.kind = "message"
  <2>1. item \in MessageItem /\ item.count \in Nat
    BY <1>3, <1>7 DEF Item, MessageItem
  <2>2. ASSUME NEW q, SocketOK(q, token), q.requests = sock.requests, q.queue = rest,
               Become(q, bodies, tail)
        PROVE  IInv'
    <3>1. Serving(q, bodies, tail, token)
      BY <1>1, <1>7, <1>b, <2>2, ServingMoves
    <3>2. Fits(q, bodies, tail, token)
      BY <2>2, <3>1 DEF Fits
    <3> QED BY <1>1, <1>2, <2>2, <3>2, BecomeHolds DEF IInv
  <2>3. CASE Become([s EXCEPT !.queued = Max2(0, @ - item.count)], bodies, tail)
    <3> DEFINE left == Max2(0, s.queued - item.count)
               q == [s EXCEPT !.queued = left]
    <3>1. left \in Nat
      BY <1>1, <1>4, <2>1 DEF Max2
    <3>2. Become(q, bodies, tail)
      BY <1>4, <2>3 DEF SocketType
    <3> HIDE DEF left
    <3>3. /\ q \in SocketType /\ q.requests = s.requests /\ q.suppressed = s.suppressed
          /\ q.open = s.open /\ q.pendingLive = s.pendingLive /\ q.queue = rest
      BY <1>4, <3>1 DEF SocketType
    <3> HIDE DEF q
    <3>4. SocketOK(q, token)
      BY <1>5, <3>3, SameRequestsOK DEF SocketOK, Suppressing
    <3> QED BY <1>4, <2>2, <3>2, <3>3, <3>4
  <2>4. CASE Become(Sent(s, item), bodies, tail)
    <3> DEFINE q == Sent(s, item)
    <3>1. SocketOK(q, token) /\ q.requests = s.requests /\ q.queue = s.queue
      BY <1>5, <2>1, SentOK
    <3>2. Become(q, bodies, tail)
      BY <2>4
    <3> HIDE DEF q
    <3> QED BY <1>4, <2>2, <3>1, <3>2
  <2>5. CASE Become([s EXCEPT !.inflight = item], bodies, tail)
    <3> DEFINE q == [s EXCEPT !.inflight = item]
    <3>1. /\ q \in SocketType /\ q.requests = s.requests /\ q.suppressed = s.suppressed
          /\ q.open = s.open /\ q.pendingLive = s.pendingLive /\ q.queue = rest
      BY <1>4, <2>1 DEF SocketType
    <3>2. Become(q, bodies, tail)
      BY <2>5
    <3> HIDE DEF q
    <3>3. SocketOK(q, token)
      BY <1>5, <3>1, SameRequestsOK DEF SocketOK, Suppressing
    <3> QED BY <1>4, <2>2, <3>1, <3>2, <3>3
  <2> QED BY <1>7, <1>t, <2>3, <2>4, <2>5
<1> QED BY <1>3, <1>6, <1>7, <1>t

-----------------------------------------------------------------------------
(* Tasks keep the invariant. *)

\* What is sent on the socket past the queue changes nothing else.
LEMMA DirectOK ==
  ASSUME NEW s, NEW n, SocketOK(s, n), NEW msgs \in Seq(Msg), NEW q \in Direct(s, msgs)
  PROVE  /\ SocketOK(q, n) /\ q \in SocketType /\ q.open = s.open /\ q.present = s.present
         /\ q.requests = s.requests /\ q.queue = s.queue /\ q.pendingLive = s.pendingLive
<1> DEFINE o == s.out \o msgs
           p == [s EXCEPT !.out = o]
<1>1. s \in SocketType /\ s.out \in Seq(Msg)
  BY DEF SocketOK, SocketType
<1>2. o \in Seq(Msg)
  BY <1>1, ConcatProperties
<1>3. q = p \/ q = s
  BY <1>1 DEF Direct, SocketType
<1> HIDE DEF o
<1>4. /\ p \in SocketType /\ p.requests = s.requests /\ p.suppressed = s.suppressed
      /\ p.open = s.open /\ p.queue = s.queue /\ p.pendingLive = s.pendingLive /\ p.present = s.present
  BY <1>1, <1>2 DEF SocketType
<1> HIDE DEF p
<1>5. SocketOK(p, n)
  BY <1>4, SameRequestsOK DEF SocketOK, Suppressing
<1> QED BY <1>1, <1>3, <1>4, <1>5

\* The socket alone changes, and not its requests nor its queue.
LEMMA SocketMoves ==
  ASSUME SocketInv, SocketOK(sock', token), sock'.requests = sock.requests, sock'.queue = sock.queue,
         UNCHANGED <<bodies, tail, token>>
  PROVE  SocketInv'
<1>1. Serving(sock', bodies, tail, token)
  BY ServingMoves DEF SocketInv
<1> QED BY <1>1 DEF SocketInv

LEMMA DrainSendHolds ==
  ASSUME IInv, DrainSend
  PROVE  IInv'
<1> DEFINE s == Sent(sock, sock.inflight)
           q == [s EXCEPT !.inflight = None]
<1>1. StoreInv /\ SocketInv /\ SocketOK(sock, token) /\ sock.inflight \in MessageItem
  BY DEF IInv, SocketInv, SocketOK, SocketType, DrainSend
<1>2. StoreInv' /\ sock' = q /\ UNCHANGED <<bodies, tail, token>>
  BY <1>1, StoreSame DEF DrainSend
<1>3. /\ SocketOK(s, token) /\ s \in SocketType /\ s.requests = sock.requests /\ s.queue = sock.queue
  BY <1>1, SentOK
<1> HIDE DEF s
<1>4. /\ q \in SocketType /\ q.requests = s.requests /\ q.suppressed = s.suppressed
      /\ q.open = s.open /\ q.queue = s.queue /\ q.pendingLive = s.pendingLive
  BY <1>3 DEF SocketType
<1> HIDE DEF q
<1>5. SocketOK(q, token)
  BY <1>3, <1>4, SameRequestsOK DEF SocketOK, Suppressing
<1> QED BY <1>1, <1>2, <1>3, <1>4, <1>5, SocketMoves DEF IInv

LEMMA StraySendHolds ==
  ASSUME IInv, StraySend
  PROVE  IInv'
<1> DEFINE o == Append(sock.out, Head(sock.stray))
           x == Tail(sock.stray)
           q == [sock EXCEPT !.out = o, !.stray = x]
<1>1. /\ StoreInv /\ SocketInv /\ SocketOK(sock, token) /\ sock \in SocketType
      /\ sock.out \in Seq(Msg) /\ sock.stray \in Seq(Msg) /\ sock.stray # <<>>
  BY DEF IInv, SocketInv, SocketOK, SocketType, StraySend
<1>2. StoreInv' /\ sock' = q /\ UNCHANGED <<bodies, tail, token>>
  BY <1>1, StoreSame DEF StraySend, SocketType
<1>3. o \in Seq(Msg) /\ x \in Seq(Msg)
  BY <1>1, HeadTailProperties
<1> HIDE DEF o, x
<1>4. /\ q \in SocketType /\ q.requests = sock.requests /\ q.suppressed = sock.suppressed
      /\ q.open = sock.open /\ q.queue = sock.queue /\ q.pendingLive = sock.pendingLive
  BY <1>1, <1>3 DEF SocketType
<1> HIDE DEF q
<1>5. SocketOK(q, token)
  BY <1>1, <1>4, SameRequestsOK DEF SocketOK, Suppressing
<1> QED BY <1>1, <1>2, <1>4, <1>5, SocketMoves DEF IInv

\* A socket without state, open or not, serves nothing.
LEMMA NothingServed ==
  ASSUME NEW s, NEW n, s.requests = <<>>
  PROVE  Serving(s, Empty, <<>>, n)
<1>1. BodiesOK(Empty, n) /\ TailOK(Empty, <<>>) /\ Closing(s, Empty)
  BY DEF BodiesOK, TailOK, Closing, Empty
<1>2. Served(s, Empty)
  BY DEF Served
<1> QED BY <1>1, <1>2 DEF Serving

LEMMA UnsubscribeHolds ==
  ASSUME IInv, Unsubscribe
  PROVE  IInv'
<1> DEFINE x == IF sock.inflight = None THEN sock.stray ELSE Append(sock.stray, sock.inflight.msg)
           o == sock.out
           q == [EmptySocket EXCEPT !.out = o, !.stray = x]
<1>1. /\ StoreInv /\ SocketInv /\ token \in Nat /\ sock.out \in Seq(Msg) /\ sock.stray \in Seq(Msg)
      /\ sock.inflight # None => sock.inflight.msg \in Msg
  BY DEF IInv, SocketInv, SocketOK, SocketType, MessageItem
<1>2. StoreInv' /\ sock' = q /\ bodies' = Empty /\ tail' = <<>> /\ token' = token
  BY <1>1, StoreSame DEF Unsubscribe
<1>3. x \in Seq(Msg) /\ o \in Seq(Msg)
  BY <1>1
<1> HIDE DEF x, o
<1>4. q = [open |-> TRUE, present |-> FALSE, queue |-> <<>>, queued |-> 0,
           inflight |-> None, pendingLive |-> <<>>, suppressed |-> FALSE,
           requests |-> <<>>, out |-> o, stray |-> x]
  <2> HIDE DEF q
  <2>1. q = [EmptySocket EXCEPT !.out = o, !.stray = x]
    BY DEF q
  <2> QED BY <2>1 DEF EmptySocket
<1> HIDE DEF q
<1>5. SocketOK(q, token) /\ q.requests = <<>>
  BY <1>1, <1>3, <1>4, EmptySocketOK
<1>6. Serving(q, Empty, <<>>, token)
  BY <1>5, NothingServed
<1> QED BY <1>1, <1>2, <1>5, <1>6 DEF IInv, SocketInv

LEMMA ClosedOK ==
  ASSUME SocketInv
  PROVE  Fits(Closed(sock), bodies, tail, token)
<1> DEFINE o == sock.out
           q == [EmptySocket EXCEPT !.open = FALSE, !.out = o]
<1>1. o \in Seq(Msg) /\ <<>> \in Seq(Msg) /\ Closed(sock) = q
  BY DEF SocketInv, SocketOK, SocketType, Closed
<1> HIDE DEF o
<1>2. q = [open |-> FALSE, present |-> FALSE, queue |-> <<>>, queued |-> 0,
           inflight |-> None, pendingLive |-> <<>>, suppressed |-> FALSE,
           requests |-> <<>>, out |-> o, stray |-> <<>>]
  <2> HIDE DEF q
  <2>1. q = [EmptySocket EXCEPT !.open = FALSE, !.out = o]
    BY DEF q
  <2> QED BY <2>1 DEF EmptySocket
<1> HIDE DEF q
<1>3. SocketOK(q, token)
  BY <1>1, <1>2, EmptySocketOK
<1>4. ~q.open
  BY <1>2
<1> QED BY <1>1, <1>3, <1>4 DEF Fits

LEMMA DisconnectHolds ==
  ASSUME IInv, Disconnect
  PROVE  IInv'
<1>1. StoreInv /\ SocketInv /\ token \in Nat
  BY DEF IInv, SocketInv
<1>2. StoreInv' /\ token' = token /\ Become(Closed(sock), bodies, tail)
  BY <1>1, StoreSame DEF Disconnect
<1> QED BY <1>1, <1>2, ClosedOK, BecomeHolds DEF IInv

LEMMA ConnectHolds ==
  ASSUME IInv, Connect
  PROVE  IInv'
<1>1. StoreInv /\ SocketInv /\ token \in Nat /\ sock.requests = <<>>
  BY DEF IInv, SocketInv, SocketOK, Connect
<1>2. StoreInv' /\ sock' = EmptySocket /\ UNCHANGED <<bodies, tail, token>>
  BY <1>1, StoreSame DEF Connect
<1>3. SocketOK(EmptySocket, token) /\ EmptySocket.requests = <<>>
  <2>1. <<>> \in Seq(Msg)
    OBVIOUS
  <2> QED BY <2>1, EmptySocketOK DEF EmptySocket
<1>4. Serving(EmptySocket, bodies, tail, token)
  <2>1. Served(EmptySocket, bodies) /\ Closing(EmptySocket, bodies)
    BY <1>3 DEF Served, Closing, Active
  <2> QED BY <1>1, <2>1 DEF SocketInv, Serving
<1> QED BY <1>1, <1>2, <1>3, <1>4 DEF IInv, SocketInv

LEMMA ServerRestartHolds ==
  ASSUME IInv, ServerRestart
  PROVE  IInv'
<1>1. StoreInv /\ SocketInv /\ token \in Nat
  BY DEF IInv, SocketInv
<1>2. token' = token /\ Become(Closed(sock), bodies, tail)
  BY DEF ServerRestart
<1>3. StoreInv'
  <2>1. <<gen[1] + 1, 0>> \in Gens
    BY <1>1 DEF StoreInv, Gens
  <2> QED BY <1>1, <2>1 DEF ServerRestart, StoreInv
<1> QED BY <1>1, <1>2, <1>3, ClosedOK, BecomeHolds DEF IInv

LEMMA InsertKeeps ==
  ASSUME StoreInv, Insert, history' \in Nat, history' >= history, UNCHANGED <<load, persisted>>
  PROVE  StoreInv' /\ [gen |-> gen, seq |-> hi + 1] \in Event
<1>1. gen \in Gens /\ hi \in Nat /\ lo \in 1..(hi + 1) /\ history \in Nat \ {0} /\ Keep \in Nat
  BY CoordinatorAssumption DEF StoreInv
<1>2. gen' = gen /\ hi' = hi + 1 /\ lo' \in 1..hi'
  BY <1>1 DEF Insert, Max2
<1>3. HasEvents'
  BY <1>1, <1>2 DEF HasEvents
<1>4. load # None => load' \in [gen : Gens, hydrate : BOOLEAN, from : 1..history']
                     /\ load'.gen = load.gen
  <2>1. load # None => load \in [gen : Gens, hydrate : BOOLEAN, from : 1..history]
    BY DEF StoreInv
  <2>2. \A k \in 1..history : k \in 1..history'
    BY <1>1
  <2> QED BY <2>1, <2>2
<1>5. \A g : Past(g) => Past(g)'
  BY <1>2 DEF Past
<1>6. [gen |-> gen, seq |-> hi + 1] \in Event
  BY <1>1 DEF Event
<1> QED BY <1>1, <1>2, <1>3, <1>4, <1>5, <1>6 DEF StoreInv, Past

LEMMA EventForwardHolds ==
  ASSUME IInv, EventForward
  PROVE  IInv'
<1> DEFINE e == [gen |-> gen, seq |-> hi + 1]
           item == LiveItem(e)
           q == IF ~sock.open \/ ~sock.present \/ replaying THEN sock
                ELSE IF sock.suppressed THEN SuppressLive(sock, e)
                ELSE Enqueue(sock, item)
<1>1. /\ StoreInv /\ SocketInv /\ token \in Nat /\ gen \in Gens /\ SocketOK(sock, token)
      /\ Serving(sock, bodies, tail, token) /\ history \in Nat
  BY DEF IInv, SocketInv, StoreInv
<1>2. Insert /\ UNCHANGED <<load, persisted, token>> /\ history' \in {history, history + 1}
      /\ Become(q, bodies, tail)
  BY DEF EventForward
<1>3. StoreInv' /\ e \in Event
  BY <1>1, <1>2, InsertKeeps
<1>4. item \in Item
  BY <1>3, LiveItemIs
<1> HIDE DEF e, item
<1>5. Fits(sock, bodies, tail, token)
  BY <1>1 DEF Fits
<1>6. Fits(Enqueue(sock, item), bodies, tail, token)
  BY <1>4, EnqueueFits
<1>7. sock.suppressed => Fits(SuppressLive(sock, e), bodies, tail, token)
  <2> SUFFICES ASSUME sock.suppressed PROVE Fits(SuppressLive(sock, e), bodies, tail, token)
    OBVIOUS
  <2> DEFINE p == SuppressLive(sock, e)
  <2>1. SocketOK(p, token) /\ (p.open => p.requests = sock.requests /\ p.queue = sock.queue)
    BY <1>1, <1>3, SuppressOK
  <2> HIDE DEF p
  <2>2. p.open => Serving(p, bodies, tail, token)
    BY <1>1, <2>1, ServingMoves
  <2> QED BY <2>1, <2>2 DEF Fits, p
<1>8. q = sock \/ (sock.suppressed /\ q = SuppressLive(sock, e)) \/ q = Enqueue(sock, item)
  OBVIOUS
<1> HIDE DEF q
<1>9. Fits(q, bodies, tail, token)
  BY <1>5, <1>6, <1>7, <1>8
<1> QED BY <1>1, <1>2, <1>3, <1>9, BecomeHolds DEF IInv

LEMMA SessionRegisterHolds ==
  ASSUME IInv, SessionRegister
  PROVE  IInv'
<1> DEFINE msg == [type |-> "session_state_reset", id |-> NoId, gen |-> gen']
<1>1. /\ StoreInv /\ SocketInv /\ gen \in Gens /\ SocketOK(sock, token)
  BY DEF IInv, SocketInv, StoreInv
<1>2. gen' \in Gens /\ (gen' = <<gen[1], gen[2] + 1>> \/ (gen' = gen /\ hi = 0))
  BY <1>1 DEF SessionRegister, Gens
<1>3. msg \in Msg
  BY <1>2 DEF Msg, NoId
<1>4. StoreInv'
  <2>1. lo' = 1 /\ hi' = 0 /\ UNCHANGED <<history, load, persisted>>
    BY DEF SessionRegister
  <2>2. CASE gen' = <<gen[1], gen[2] + 1>>
    <3>1. \A g : Past(g) => Past(g)' /\ g # gen'
      <4> SUFFICES ASSUME NEW g, Past(g) PROVE Past(g)' /\ g # gen'
        OBVIOUS
      <4>1. g \in Gens /\ g[1] = gen[1] /\ g[2] \in Nat /\ gen[2] \in Nat /\ g[2] <= gen[2]
        BY <1>1 DEF Past, Gens
      <4>2. gen'[1] = gen[1] /\ gen'[2] = gen[2] + 1
        BY <2>2
      <4> QED BY <4>1, <4>2 DEF Past
    <3>2. load' # None => /\ load' \in [gen : Gens, hydrate : BOOLEAN, from : 1..history']
                          /\ Past(load.gen)' /\ load'.gen # gen'
      BY <1>1, <2>1, <3>1 DEF StoreInv
    <3>3. persisted' # None => /\ persisted' \in [gen : Gens, n : Nat]
                               /\ Past(persisted.gen)' /\ persisted'.gen # gen'
      BY <1>1, <2>1, <3>1 DEF StoreInv
    <3>4. hi' \in Nat /\ lo' \in 1..(hi' + 1) /\ history' \in Nat \ {0}
      BY <1>1, <2>1 DEF StoreInv
    <3> QED BY <1>2, <3>2, <3>3, <3>4 DEF StoreInv, Past
  <2>3. CASE gen' = gen /\ hi = 0
    <3>1. lo \in Nat /\ lo \in 1..(hi + 1)
      BY <1>1 DEF StoreInv
    <3>2. lo' = lo /\ hi' = hi
      BY <2>1, <2>3, <3>1
    <3> QED BY <1>1, <2>1, <2>3, <3>2, StoreSame DEF sourceVars
  <2> QED BY <1>2, <2>2, <2>3
<1>5. UNCHANGED <<bodies, tail, token>> /\ (sock' = sock \/ sock' \in Direct(sock, <<msg>>))
  BY DEF SessionRegister
<1>6. SocketOK(sock', token) /\ sock'.requests = sock.requests /\ sock'.queue = sock.queue
  <2>1. <<msg>> \in Seq(Msg)
    BY <1>3
  <2> HIDE DEF msg
  <2> QED BY <1>1, <1>5, <2>1, DirectOK
<1> QED BY <1>1, <1>4, <1>5, <1>6, SocketMoves DEF IInv

\* The worker answers: the bodies that waited for it move on together.
LEMMA LoadDoneHolds ==
  ASSUME IInv, load # None, NEW ok \in BOOLEAN, LoadDone(ok)
  PROVE  IInv'
<1>1. /\ StoreInv /\ SocketInv /\ token \in Nat /\ gen \in Gens /\ hi \in Nat /\ Keep \in Nat
      /\ SocketOK(sock, token) /\ Serving(sock, bodies, tail, token) /\ history \in Nat \ {0}
      /\ load \in [gen : Gens, hydrate : BOOLEAN, from : 1..history]
  BY CoordinatorAssumption DEF IInv, SocketInv, StoreInv
<1> DEFINE Fills == ok /\ load.hydrate /\ ~HasEvents
           Moved(b, n) ==
             CASE b.phase = "hydrating" ->
                     [b EXCEPT !.phase = IF ok THEN "hydrated" ELSE "unavailable"]
                [] b.phase = "paging" ->
                     [b EXCEPT !.phase = "loaded", !.file = IF ok THEN n ELSE 0]
                [] OTHER -> b
<1>2. PICK n \in load.from..history :
        /\ load' = None
        /\ IF Fills THEN Fill(n) ELSE UNCHANGED sourceVars
        /\ persisted' = IF ok THEN [gen |-> IF Fills THEN gen' ELSE load.gen, n |-> n]
                              ELSE persisted
        /\ bodies' = [t \in DOMAIN bodies |-> Moved(bodies[t], n)]
        /\ UNCHANGED <<history, sock, tail, token>>
  BY DEF LoadDone, LoadFills
<1>3. n \in Nat \ {0}
  <2>1. load.from \in 1..history
    BY <1>1
  <2>2. n \in load.from..history
    BY <1>2
  <2> QED BY <1>1, <2>1, <2>2
<1>4. StoreInv'
  <2>1. CASE Fills
    <3>0. gen' = <<gen[1], gen[2] + 1>> /\ hi' = n
          /\ lo' = IF Keep > 0 THEN Max2(1, n + 1 - Keep) ELSE 1
      BY <1>2, <2>1 DEF Fill
    <3>1. lo' \in 1..n
      BY <1>1, <1>3, <3>0 DEF Max2
    <3>2. gen' \in Gens /\ Past(gen)'
      BY <1>1, <3>0 DEF Gens, Past
    <3>3. persisted' = [gen |-> gen', n |-> n]
      BY <1>2, <2>1
    <3>4. HasEvents'
      BY <1>3, <3>0, <3>1 DEF HasEvents
    <3>5. persisted'.gen = gen' /\ persisted' \in [gen : Gens, n : Nat]
      BY <1>3, <3>2, <3>3
    <3>6. load' = None /\ history' = history
      BY <1>2
    <3> QED BY <1>1, <1>3, <3>0, <3>1, <3>2, <3>4, <3>5, <3>6 DEF StoreInv, Past
  <2>2. CASE ~Fills
    <3>1. UNCHANGED <<gen, lo, hi, history>> /\ load' = None
      BY <1>2, <2>2 DEF sourceVars
    <3>2. CASE ok
      <4>1. persisted' = [gen |-> load.gen, n |-> n]
        BY <1>2, <2>2, <3>2
      <4>2. Past(load.gen) /\ (load.gen # gen \/ HasEvents)
        BY <1>1, <2>2, <3>2 DEF StoreInv
      <4> QED BY <1>1, <1>3, <3>1, <4>1, <4>2 DEF StoreInv, Past, HasEvents
    <3>3. CASE ~ok
      <4>1. persisted' = persisted
        BY <1>2, <3>3
      <4> QED BY <1>1, <3>1, <4>1 DEF StoreInv, Past, HasEvents
    <3> QED BY <3>2, <3>3
  <2> QED BY <2>1, <2>2
<1>5. \A b : BodyOK(b) => LET c == Moved(b, n) IN
                          /\ BodyOK(c)
                          /\ b.phase \in Delivered => c.phase \in Delivered
                          /\ c.phase = "closing" => b.phase = "closing"
  <2> SUFFICES ASSUME NEW b, BodyOK(b)
               PROVE  LET c == Moved(b, n) IN
                      /\ BodyOK(c)
                      /\ b.phase \in Delivered => c.phase \in Delivered
                      /\ c.phase = "closing" => b.phase = "closing"
    OBVIOUS
  <2> DEFINE file == IF ok THEN n ELSE 0
             phase == IF ok THEN "hydrated" ELSE "unavailable"
  <2>0. b \in Body /\ (b.phase \in {"paging", "loaded"} => b.raw \in Raw)
    BY DEF BodyOK
  <2>1. CASE b.phase = "hydrating"
    <3> DEFINE c == [b EXCEPT !.phase = phase]
    <3>1. Moved(b, n) = c /\ phase \in {"hydrated", "unavailable"}
      BY <2>1
    <3> HIDE DEF phase, Moved
    <3>2. BodyOK(c) /\ c.phase = phase
      BY <2>0, <3>1 DEF Body, BodyOK, Phases
    <3> HIDE DEF c
    <3> QED BY <2>1, <3>1, <3>2 DEF Delivered
  <2>2. CASE b.phase = "paging"
    <3> DEFINE c == [b EXCEPT !.phase = "loaded", !.file = file]
    <3>1. Moved(b, n) = c /\ file \in Nat
      BY <1>3, <2>2
    <3> HIDE DEF file, Moved
    <3>2. BodyOK(c) /\ c.phase = "loaded"
      BY <2>0, <2>2, <3>1 DEF Body, BodyOK, Phases
    <3> HIDE DEF c
    <3> QED BY <3>1, <3>2 DEF Delivered
  <2>3. CASE b.phase \notin {"hydrating", "paging"}
    BY <2>3
  <2> QED BY <2>1, <2>2, <2>3
<1>6. \A t \in DOMAIN bodies : BodyOK(bodies[t])
  BY <1>1 DEF Serving, BodiesOK, BodyOK
<1>7. DOMAIN bodies' = DOMAIN bodies /\ \A t \in DOMAIN bodies : bodies'[t] = Moved(bodies[t], n)
  BY <1>2
<1> HIDE DEF Moved
<1>8. \A t \in DOMAIN bodies : /\ BodyOK(bodies'[t])
                               /\ bodies[t].phase \in Delivered => bodies'[t].phase \in Delivered
                               /\ bodies'[t].phase = "closing" => bodies[t].phase = "closing"
  BY <1>5, <1>6, <1>7
<1>9. Serving(sock, bodies', tail, token)
  <2>1. BodiesOK(bodies', token)
    BY <1>1, <1>7, <1>8 DEF Serving, BodiesOK, BodyOK
  <2>2. TailOK(bodies', tail)
    BY <1>1, <1>7, <1>8 DEF Serving, TailOK
  <2>3. Served(sock, bodies') /\ Closing(sock, bodies')
    BY <1>1, <1>7, <1>8 DEF Serving, Served, Closing
  <2> QED BY <2>1, <2>2, <2>3 DEF Serving
<1>10. UNCHANGED <<sock, tail, token>>
  BY <1>2
<1> QED BY <1>1, <1>4, <1>9, <1>10 DEF IInv, SocketInv

\* One body more, of a token not given out before.
LEMMA ServingGains ==
  ASSUME NEW n \in Nat, NEW bs, NEW tl, BodiesOK(bs, n), TailOK(bs, tl),
         NEW b, BodyOK(b), b.phase # "closing", NEW cs,
         cs = [u \in DOMAIN bs \cup {n + 1} |-> IF u = n + 1 THEN b ELSE bs[u]],
         NEW q,
         \A i \in DOMAIN q.requests : LET u == q.requests[i].token IN
           u = n + 1 \/ u \in DOMAIN bs \/ HasBarrier(q.queue, u),
         \A u \in DOMAIN bs : bs[u].phase = "closing" /\ Active(q, u) => HasBarrier(q.queue, u)
  PROVE  /\ Serving(q, cs, tl, n + 1)
         /\ b.phase \in Delivered => Serving(q, cs, Append(tl, n + 1), n + 1)
<1> DEFINE t == n + 1
<1>1. /\ t \in Nat /\ t \notin DOMAIN bs /\ DOMAIN cs = DOMAIN bs \cup {t} /\ cs[t] = b
      /\ \A u \in DOMAIN bs : cs[u] = bs[u]
  BY DEF BodiesOK
<1>2. DOMAIN bs \subseteq 1..t /\ t \in 1..t
  BY DEF BodiesOK
<1> HIDE DEF t
<1>3. BodiesOK(cs, t)
  BY <1>1, <1>2 DEF BodiesOK, BodyOK
<1>4. TailOK(cs, tl)
  BY <1>1 DEF TailOK
<1>5. Served(q, cs)
  BY <1>1 DEF Served, t
<1>6. Closing(q, cs)
  BY <1>1 DEF Closing
<1>7. ASSUME b.phase \in Delivered PROVE TailOK(cs, Append(tl, t))
  <2>1. \A i \in DOMAIN tl : tl[i] # t
    BY <1>1 DEF TailOK
  <2> QED BY <1>1, <1>4, <1>7, <2>1, TailPushes
<1> QED BY <1>3, <1>4, <1>5, <1>6, <1>7 DEF Serving, t

\* What a browser may ask for.
Request == [id : Int, kind : KindSet, at : Nat, known : Gens \cup {None}]

LEMMA NewBodyIs ==
  ASSUME NEW kind \in KindSet, NEW at \in Nat, NEW known \in Gens \cup {None}, NEW phase \in Phases,
         phase \notin {"paging", "loaded"}
  PROVE  BodyOK(NewBody(kind, at, known, phase)) /\ NewBody(kind, at, known, phase).phase = phase
<1> DEFINE batches == <<>>
           b == [kind |-> kind, at |-> at, known |-> known, tailMode |-> kind = "cold", phase |-> phase,
                 reset |-> FALSE, raw |-> None, file |-> 0, batches |-> batches, more |-> FALSE,
                 ended |-> FALSE]
<1>1. NewBody(kind, at, known, phase) = b
  BY DEF NewBody
<1>2. batches \in Seq(Seq(Event)) /\ (kind = "cold") \in BOOLEAN
  OBVIOUS
<1> HIDE DEF batches
<1>3. b \in Body /\ b.phase = phase
  BY <1>2 DEF Body
<1> HIDE DEF b
<1> QED BY <1>1, <1>3 DEF BodyOK

LEMMA SubscribeHolds ==
  ASSUME IInv, NEW m \in Request, Subscribe(m)
  PROVE  IInv'
<1> DEFINE t     == token + 1
           r     == [token |-> t, key |-> m.id, kind |-> m.kind]
           same  == {x \in Range(sock.requests) : x.key = m.id}
           prior == Those(sock.requests, same)
           rest  == Those(sock.requests, Range(sock.requests) \ same)
           loads == ~HasEvents /\ HasFile
           phase == IF loads THEN "hydrating" ELSE "hydrated"
           b     == NewBody(m.kind, m.at, m.known, phase)
           requests == Append(rest, r)
           suppressed == sock.suppressed \/ m.kind # "older"
           q     == [sock EXCEPT !.present = TRUE, !.requests = requests, !.suppressed = suppressed]
<1>1. /\ StoreInv /\ SocketInv /\ token \in Nat /\ gen \in Gens /\ history \in Nat \ {0}
      /\ SocketOK(sock, token) /\ sock \in SocketType /\ Serving(sock, bodies, tail, token)
      /\ m.id \in Int /\ m.kind \in KindSet /\ m.at \in Nat /\ m.known \in Gens \cup {None}
  BY DEF IInv, SocketInv, StoreInv, SocketOK, Request
<1>2. /\ sock.open /\ token' = t
      /\ sock' \in Direct([sock EXCEPT !.present = TRUE,
                   !.requests = Append(rest, r), !.suppressed = @ \/ m.kind # "older"], Terminals(prior))
      /\ bodies' = [u \in DOMAIN bodies \cup {t} |-> IF u # t THEN bodies[u] ELSE b]
      /\ tail' = tail
  BY DEF Subscribe
<1>3. StoreInv'
  <2>1. UNCHANGED <<gen, lo, hi, history, persisted>>
    BY DEF Subscribe, sourceVars
  <2>2. load' = IF ~loads THEN load
                ELSE IF load = None THEN [gen |-> gen, hydrate |-> TRUE, from |-> history]
                ELSE [load EXCEPT !.hydrate = TRUE]
    BY DEF Subscribe
  <2>3. CASE load' = load
    BY <1>1, <2>1, <2>3, StoreSame DEF sourceVars
  <2>4. CASE load' # load
    <3> DEFINE one == [gen |-> gen, hydrate |-> TRUE, from |-> history]
               two == [load EXCEPT !.hydrate = TRUE]
    <3>1. load' = one \/ (load # None /\ load' = two)
      BY <2>2, <2>4
    <3>2. one \in [gen : Gens, hydrate : BOOLEAN, from : 1..history] /\ one.gen = gen /\ one.hydrate
      BY <1>1
    <3>3. load # None =>
            /\ two \in [gen : Gens, hydrate : BOOLEAN, from : 1..history]
            /\ two.gen = load.gen /\ two.hydrate /\ Past(load.gen)
      BY <1>1 DEF StoreInv
    <3>4. Past(gen)
      BY <1>1 DEF Past, Gens
    <3> HIDE DEF one, two
    <3>5. /\ load' \in [gen : Gens, hydrate : BOOLEAN, from : 1..history]
          /\ Past(load'.gen) /\ load'.hydrate
      BY <3>1, <3>2, <3>3, <3>4
    <3> QED BY <1>1, <2>1, <3>5 DEF StoreInv, Past, HasEvents
  <2> QED BY <2>3, <2>4
<1> HIDE DEF same, loads
<1>4. /\ rest \in Seq(Req)
      /\ \A i \in DOMAIN rest : rest[i].token <= token
                                /\ \E j \in DOMAIN sock.requests : rest[i] = sock.requests[j]
      /\ \A i, j \in DOMAIN rest : rest[i].token = rest[j].token => i = j
  <2> DEFINE S == Range(sock.requests) \ same
             k == Those(sock.requests, S)
  <2> HIDE DEF S
  <2>1. /\ k \in Seq(Req)
        /\ \A i \in DOMAIN k : k[i] \in S /\ k[i].token <= token
                               /\ \E j \in DOMAIN sock.requests : k[i] = sock.requests[j]
        /\ \A i, j \in DOMAIN k : k[i].token = k[j].token => i = j
    BY <1>1, ThoseRequests
  <2>2. rest = k
    BY DEF S
  <2> HIDE DEF k, rest
  <2> QED BY <2>1, <2>2
<1>5. Terminals(prior) \in Seq(Msg)
  <2>1. prior \in Seq(Req)
    BY <1>1, ThoseRequests
  <2> QED BY <1>1, <2>1, TerminalsAreMsgs
<1> HIDE DEF rest, prior
<1>6. r \in Req /\ r.token = t /\ r.kind = m.kind /\ t \in Nat
  BY <1>1 DEF Req
<1>7. BodyOK(b) /\ b.phase = phase /\ phase \in {"hydrating", "hydrated"}
  BY <1>1, NewBodyIs DEF Phases
<1>8. sock' \in Direct(q, Terminals(prior))
  BY <1>1, <1>2 DEF SocketType
<1> HIDE DEF r, b, phase
<1>9. /\ requests \in Seq(Req) /\ DOMAIN requests = DOMAIN rest \cup {Len(rest) + 1}
      /\ Len(rest) + 1 \notin DOMAIN rest
      /\ \A i \in DOMAIN rest : requests[i] = rest[i]
      /\ requests[Len(rest) + 1] = r
  BY <1>4, <1>6
<1>10. suppressed \in BOOLEAN /\ (sock.suppressed => suppressed) /\ (m.kind # "older" => suppressed)
  OBVIOUS
<1> HIDE DEF requests, suppressed
<1>11. /\ q \in SocketType /\ q.requests = requests /\ q.suppressed = suppressed
       /\ q.open = sock.open /\ q.queue = sock.queue /\ q.pendingLive = sock.pendingLive
  BY <1>1, <1>9, <1>10 DEF SocketType
<1> HIDE DEF q
<1>12. SocketOK(q, t)
  <2>1. OwnTokens(q, t)
    <3>1. \A i \in DOMAIN requests : requests[i].token <= t
      <4>1. \A i \in DOMAIN rest : rest[i].token \in Nat
        <5>1. rest \in Seq(Req)
          BY <1>4
        <5>2. \A i \in DOMAIN rest : rest[i] \in Req
          BY <5>1
        <5> QED BY <5>2 DEF Req
      <4>2. \A i \in DOMAIN rest : rest[i].token <= t
        BY <1>1, <1>4, <4>1
      <4> QED BY <1>6, <1>9, <4>2
    <3>2. \A i \in DOMAIN rest : rest[i].token # t
      BY <1>1, <1>4
    <3>3. \A i, j \in DOMAIN requests : requests[i].token = requests[j].token => i = j
      BY <1>4, <1>6, <1>9, <3>2
    <3> QED BY <1>11, <3>1, <3>3 DEF OwnTokens
  <2>2. Suppressing(q)
    <3>1. requests # <<>>
      BY <1>9
    <3>2. LiveRequests(requests) => LiveRequests(sock.requests) \/ m.kind # "older"
      BY <1>4, <1>6, <1>9 DEF LiveRequests
    <3>3. /\ LiveRequests(sock.requests) => sock.suppressed
          /\ ~sock.suppressed => sock.pendingLive = <<>>
      BY <1>1 DEF SocketOK, Suppressing
    <3> QED BY <1>10, <1>11, <3>1, <3>2, <3>3 DEF Suppressing
  <2> QED BY <1>2, <1>11, <2>1, <2>2 DEF SocketOK
<1>13. /\ SocketOK(sock', t) /\ sock'.requests = requests /\ sock'.queue = sock.queue
  BY <1>5, <1>8, <1>11, <1>12, DirectOK
<1>14. Serving(sock', bodies', tail, t)
  <2>1. \A i \in DOMAIN sock'.requests : LET u == sock'.requests[i].token IN
          u = t \/ u \in DOMAIN bodies \/ HasBarrier(sock'.queue, u)
    <3>1. \A j \in DOMAIN sock.requests : LET u == sock.requests[j].token IN
            u \in DOMAIN bodies \/ HasBarrier(sock.queue, u)
      BY <1>1 DEF Serving, Served
    <3>2. \A i \in DOMAIN rest : LET u == rest[i].token IN
            u \in DOMAIN bodies \/ HasBarrier(sock.queue, u)
      BY <1>4, <3>1
    <3>3. \A i \in DOMAIN requests : LET u == requests[i].token IN
            u = t \/ u \in DOMAIN bodies \/ HasBarrier(sock.queue, u)
      BY <1>6, <1>9, <3>2
    <3> QED BY <1>13, <3>3
  <2>2. \A u \in DOMAIN bodies : u # t
    BY <1>1 DEF Serving, BodiesOK
  <2>3. \A u : Active(sock', u) /\ u # t => Active(sock, u)
    BY <1>4, <1>6, <1>9, <1>13 DEF Active
  <2>4. \A u \in DOMAIN bodies : bodies[u].phase = "closing" /\ Active(sock', u) => HasBarrier(sock'.queue, u)
    BY <1>1, <1>13, <2>2, <2>3 DEF Serving, Closing
  <2>5. bodies' = [u \in DOMAIN bodies \cup {token + 1} |-> IF u = token + 1 THEN b ELSE bodies[u]]
    BY <1>2
  <2>6. /\ BodiesOK(bodies, token) /\ TailOK(bodies, tail) /\ BodyOK(b) /\ b.phase # "closing"
        /\ token \in Nat
    BY <1>1, <1>7 DEF Serving
  <2>7. \A i \in DOMAIN sock'.requests : LET u == sock'.requests[i].token IN
          u = token + 1 \/ u \in DOMAIN bodies \/ HasBarrier(sock'.queue, u)
    BY <2>1
  <2>8. Serving(sock', bodies', tail, token + 1)
    BY <2>4, <2>5, <2>6, <2>7, ServingGains
  <2> QED BY <2>8
<1> QED BY <1>1, <1>2, <1>3, <1>6, <1>13, <1>14 DEF IInv, SocketInv

LEMMA CompleteBridgeReplayHolds ==
  ASSUME IInv, CompleteBridgeReplay
  PROVE  IInv'
<1> DEFINE t == token + 1
           r == [token |-> t, key |-> -t, kind |-> "cold"]
           b == [NewBody("cold", 0, None, "waiting") EXCEPT !.tailMode = FALSE]
           requests == <<r>>
           queued == Len(sock.pendingLive)
           q == [sock EXCEPT !.requests = requests, !.queue = <<>>, !.suppressed = TRUE, !.queued = queued]
<1>1. /\ StoreInv /\ SocketInv /\ token \in Nat /\ gen \in Gens
      /\ SocketOK(sock, token) /\ sock \in SocketType /\ Serving(sock, bodies, tail, token)
  BY DEF IInv, SocketInv, StoreInv, SocketOK
<1>2. StoreInv'
  BY <1>1, StoreSame DEF CompleteBridgeReplay
<1>3. CASE ~sock.open \/ ~sock.present
  <2>1. UNCHANGED <<sock, bodies, tail, token>>
    BY <1>3 DEF CompleteBridgeReplay
  <2> QED BY <1>1, <1>2, <2>1 DEF IInv, SocketInv
<1>4. CASE sock.open /\ sock.present
  <2>1. /\ token' = t /\ sock' \in Direct(q, Terminals(sock.requests))
        /\ bodies' = [u \in DOMAIN bodies \cup {t} |-> IF u = t THEN b ELSE bodies[u]]
        /\ tail' = Append(tail, t)
    BY <1>4 DEF CompleteBridgeReplay
  <2>2. Terminals(sock.requests) \in Seq(Msg)
    BY <1>1, TerminalsAreMsgs DEF SocketType
  <2>3. r \in Req /\ r.token = t /\ r.kind = "cold" /\ t \in Nat
    BY <1>1 DEF Req, KindSet
  <2>4. BodyOK(b) /\ b.phase = "waiting"
    <3> DEFINE a == NewBody("cold", 0, None, "waiting")
    <3>1. BodyOK(a) /\ a.phase = "waiting"
      BY NewBodyIs DEF KindSet, Phases
    <3> HIDE DEF a
    <3>2. BodyOK([a EXCEPT !.tailMode = FALSE]) /\ [a EXCEPT !.tailMode = FALSE].phase = "waiting"
      BY <3>1 DEF BodyOK, Body
    <3> QED BY <3>2 DEF a
  <2> HIDE DEF r, b
  <2>5. requests \in Seq(Req) /\ DOMAIN requests = {1} /\ requests[1] = r /\ requests # <<>>
    BY <2>3
  <2>6. queued \in Nat /\ <<>> \in Seq(Item)
    BY <1>1 DEF SocketType
  <2> HIDE DEF requests, queued
  <2>7. /\ q \in SocketType /\ q.requests = requests /\ q.suppressed = TRUE
        /\ q.open = sock.open /\ q.queue = <<>> /\ q.pendingLive = sock.pendingLive
    BY <1>1, <2>5, <2>6 DEF SocketType
  <2> HIDE DEF q
  <2>8. SocketOK(q, t)
    <3>1. OwnTokens(q, t)
      BY <2>3, <2>5, <2>7 DEF OwnTokens
    <3>2. Suppressing(q)
      BY <2>5, <2>7 DEF Suppressing
    <3> QED BY <1>4, <2>7, <3>1, <3>2 DEF SocketOK
  <2>9. SocketOK(sock', t) /\ sock'.requests = requests
    BY <2>1, <2>2, <2>7, <2>8, DirectOK
  <2>10. Serving(sock', bodies', Append(tail, t), t)
    <3>1. \A i \in DOMAIN sock'.requests : sock'.requests[i].token = t
      BY <2>3, <2>5, <2>9
    <3>2. \A u \in DOMAIN bodies : u # t
      BY <1>1 DEF Serving, BodiesOK
    <3>3. \A u \in DOMAIN bodies : ~Active(sock', u)
      BY <3>1, <3>2 DEF Active
    <3>4. /\ BodiesOK(bodies, token) /\ TailOK(bodies, tail) /\ BodyOK(b) /\ b.phase # "closing"
          /\ token \in Nat /\ b.phase \in Delivered
      BY <1>1, <2>4 DEF Serving, Delivered
    <3>5. bodies' = [u \in DOMAIN bodies \cup {token + 1} |-> IF u = token + 1 THEN b ELSE bodies[u]]
      BY <2>1
    <3>6. \A i \in DOMAIN sock'.requests : LET u == sock'.requests[i].token IN
            u = token + 1 \/ u \in DOMAIN bodies \/ HasBarrier(sock'.queue, u)
      BY <3>1
    <3>7. \A u \in DOMAIN bodies : bodies[u].phase = "closing" /\ Active(sock', u) => HasBarrier(sock'.queue, u)
      BY <3>3
    <3>8. Serving(sock', bodies', Append(tail, token + 1), token + 1)
      BY <3>4, <3>5, <3>6, <3>7, ServingGains
    <3> QED BY <3>8
  <2> QED BY <1>2, <2>1, <2>3, <2>9, <2>10 DEF IInv, SocketInv
<1> QED BY <1>3, <1>4

-----------------------------------------------------------------------------
(* The theorems. *)

LEMMA InitHolds == CoordInit => IInv
<1> SUFFICES ASSUME CoordInit PROVE IInv
  OBVIOUS
<1>1. /\ InitialHistory \in Nat \ {0} /\ Keep \in Nat
  BY CoordinatorAssumption
<1>2. StoreInv
  BY <1>1 DEF CoordInit, StoreInv, Gens, Max2
<1>3. /\ sock = EmptySocket /\ bodies = Empty /\ tail = <<>> /\ token = 0
  BY DEF CoordInit
<1>4. SocketOK(sock, 0) /\ sock.requests = <<>>
  <2>1. <<>> \in Seq(Msg)
    OBVIOUS
  <2> QED BY <1>3, <2>1, EmptySocketOK DEF EmptySocket
<1> QED BY <1>2, <1>3, <1>4, NothingServed DEF IInv, SocketInv

LEMMA BrowserMessagesAre ==
  ASSUME IInv
  PROVE  BrowserMessages \subseteq Request
<1>1. token \in Nat /\ gen \in Gens /\ hi \in Nat
  BY DEF IInv, SocketInv, StoreInv
<1>2. Ids \subseteq Int
  BY <1>1 DEF Ids
<1>3. Kinds \subseteq KindSet /\ <<0, 0>> \in Gens
  BY KindsAssumption DEF Gens
<1> SUFFICES ASSUME NEW m \in BrowserMessages PROVE m \in Request
  OBVIOUS
<1>a. ASSUME NEW I, NEW K, NEW A, NEW G, I \subseteq Int, K \subseteq KindSet, A \subseteq Nat,
             G \subseteq Gens \cup {None}, m \in [id : I, kind : K, at : A, known : G]
      PROVE  m \in Request
  <2>1. m.id \in Int /\ m.kind \in KindSet /\ m.at \in Nat /\ m.known \in Gens \cup {None}
    BY <1>a
  <2>2. m = [id |-> m.id, kind |-> m.kind, at |-> m.at, known |-> m.known]
    BY <1>a
  <2> QED BY <2>1, <2>2 DEF Request
<1>4. CASE \E kind \in Kinds \ {"cold"} :
             m \in [id : Ids, kind : {kind}, at : 1..(hi + 1), known : {gen, <<0, 0>>}]
  <2>1. PICK kind \in Kinds : m \in [id : Ids, kind : {kind}, at : 1..(hi + 1), known : {gen, <<0, 0>>}]
    BY <1>4
  <2>2. 1..(hi + 1) \subseteq Nat /\ {kind} \subseteq KindSet /\ {gen, <<0, 0>>} \subseteq Gens
    BY <1>1, <1>3
  <2>3. {gen, <<0, 0>>} \subseteq Gens \cup {None}
    BY <2>2
  <2> QED BY <1>2, <1>a, <2>1, <2>2, <2>3
<1>5. CASE m \in [id : Ids, kind : Kinds \cap {"cold"}, at : {0}, known : {None, gen}]
  <2>1. Kinds \cap {"cold"} \subseteq KindSet /\ {0} \subseteq Nat /\ {None, gen} \subseteq Gens \cup {None}
    BY <1>1, <1>3
  <2> QED BY <1>2, <1>5, <1>a, <2>1
<1> DEFINE Older(kind) == [id : Ids, kind : {kind}, at : 1..(hi + 1), known : {gen, <<0, 0>>}]
<1>6. m \in UNION {Older(kind) : kind \in Kinds \ {"cold"}}
      \/ m \in [id : Ids, kind : Kinds \cap {"cold"}, at : {0}, known : {None, gen}]
  BY Zenon DEF BrowserMessages
<1>7. ASSUME m \in UNION {Older(kind) : kind \in Kinds \ {"cold"}}
      PROVE  \E kind \in Kinds \ {"cold"} : m \in Older(kind)
  <2> HIDE DEF Older
  <2> QED BY <1>7
<1> QED BY <1>4, <1>5, <1>6, <1>7

LEMMA MicrotaskHolds ==
  ASSUME IInv, Microtask
  PROVE  IInv'
<1>1. CASE \E t \in DOMAIN bodies : Admit(t) \/ AdmitUnavailable(t) \/ TakeSnapshot(t)
                                    \/ Plan(t) \/ SendNext(t) \/ Close(t)
  BY <1>1, AdmitHolds, AdmitUnavailableHolds, TakeSnapshotHolds, PlanHolds, SendNextHolds, CloseHolds
<1>2. CASE DrainTake
  BY <1>2, DrainTakeHolds
<1> QED BY <1>1, <1>2 DEF Microtask

LEMMA NextHolds == IInv /\ [CoordNext]_serverVars => IInv'
<1> SUFFICES ASSUME IInv, [CoordNext]_serverVars PROVE IInv'
  OBVIOUS
<1>1. CASE Microtask
  BY <1>1, MicrotaskHolds
<1>2. CASE DrainSend
  BY <1>2, DrainSendHolds
<1>3. CASE \E m \in BrowserMessages : Subscribe(m)
  BY <1>3, BrowserMessagesAre, SubscribeHolds
<1>4. CASE EventForward
  BY <1>4, EventForwardHolds
<1>5. CASE load # None /\ (LoadDone(TRUE) \/ LoadDone(FALSE))
  BY <1>5, LoadDoneHolds
<1>6. CASE SessionRegister
  BY <1>6, SessionRegisterHolds
<1>7. CASE ReplayComplete \/ SafetyTimeout
  BY <1>7, CompleteBridgeReplayHolds DEF ReplayComplete, SafetyTimeout
<1>8. CASE Unsubscribe \/ StraySend
  BY <1>8, UnsubscribeHolds, StraySendHolds
<1>9. CASE Disconnect \/ Connect
  BY <1>9, DisconnectHolds, ConnectHolds
<1>10. CASE ServerRestart
  BY <1>10, ServerRestartHolds
<1>11. CASE UNCHANGED serverVars
  <2>1. StoreInv' /\ UNCHANGED <<sock, bodies, tail, token>>
    BY <1>11, StoreSame DEF serverVars, coordVars, IInv
  <2> QED BY <2>1 DEF IInv, SocketInv
<1> QED BY <1>1, <1>2, <1>3, <1>4, <1>5, <1>6, <1>7, <1>8, <1>9, <1>10, <1>11 DEF CoordNext, BridgeStep

\* The invariant the others follow from: the socket, its queue and its
\* requests, the bodies that serve them and the loads under way fit together
\* after every step of the coordinator.
THEOREM CoordinatorIsSound == CoordSpec => []IInv
BY InitHolds, NextHolds, PTL DEF CoordSpec

LEMMA SoundIsTyped == IInv => CoordTypeOK
<1> SUFFICES ASSUME IInv PROVE CoordTypeOK
  OBVIOUS
<1>1. /\ gen \in Nat \X Nat /\ hi \in Nat /\ lo \in 1..(hi + 1)
      /\ persisted # None => persisted.gen # gen \/ HasEvents
  BY DEF IInv, StoreInv, Gens
<1>2. /\ sock.open \in BOOLEAN /\ sock.present \in BOOLEAN /\ sock.suppressed \in BOOLEAN
      /\ sock.queued \in Nat
  BY DEF IInv, SocketInv, SocketOK, SocketType
<1>3. DOMAIN bodies \subseteq 1..token /\ \A i \in DOMAIN tail : tail[i] \in DOMAIN bodies
  BY DEF IInv, SocketInv, Serving, BodiesOK, TailOK
<1> QED BY <1>1, <1>2, <1>3 DEF CoordTypeOK

\* The state of the coordinator keeps its shape: the queue's accounting never
\* goes below zero, the delivery tail waits for bodies that exist, and no
\* session file is remembered for a source without events.
THEOREM CoordinatorTyped == CoordSpec => []CoordTypeOK
BY CoordinatorIsSound, SoundIsTyped, PTL

\* Live events are held back exactly as long as a request might be overtaken
\* by them, whatever requests are superseded, retried or cut off.
THEOREM LiveEventsWait == CoordSpec => []SuppressedWhileServing
<1>1. IInv => SuppressedWhileServing
  BY DEF IInv, SocketInv, SocketOK, Suppressing, SuppressedWhileServing
<1> QED BY <1>1, CoordinatorIsSound, PTL

\* No request is abandoned: one that is still open has a body at work on it, or
\* its barrier is in the queue and will complete it.
THEOREM RequestsHaveServers == CoordSpec => []RequestHasServer
<1>1. IInv => RequestHasServer
  BY DEF IInv, SocketInv, Serving, Served, HasBarrier, RequestHasServer
<1> QED BY <1>1, CoordinatorIsSound, PTL

-----------------------------------------------------------------------------
(* What a queue weighs. *)

Sums(f, items, n) ==
  f \in [0..n -> Nat] /\ f[0] = 0 /\ \A k \in 1..n : f[k] = f[k - 1] + Cost(items[k])

LEMMA CostIs == \A item \in Item : Cost(item) \in Nat
BY DEF Item, MessageItem, Cost

LEMMA WeightSums ==
  ASSUME NEW items \in Seq(Item)
  PROVE  Weight(items) \in Nat /\ \E f : Sums(f, items, Len(items)) /\ Weight(items) = f[Len(items)]
<1> DEFINE n == Len(items)
           step == [k \in 1..n |-> [x \in Nat |-> x + Cost(items[k])]]
           Loop(f) == f = [i \in 0..n |-> IF i = 0 THEN 0 ELSE f[i - 1] + Cost(items[i])]
           sum == CHOOSE f : Loop(f)
<1>1. n \in Nat /\ \A k \in 1..n : items[k] \in Item
  OBVIOUS
<1>2. \A k \in 1..n : Cost(items[k]) \in Nat
  BY <1>1, CostIs
<1>3. Weight(items) = sum[n]
  BY DEF Weight
<1>4. \E f : Loop(f)
  <2>1. \A k \in 1..n, x \in Nat : step[k][x] = x + Cost(items[k]) /\ step[k][x] \in Nat
    BY <1>2
  <2> HIDE DEF step, n
  <2>2. Leads(step, n, Nat)
    BY <2>1 DEF Leads
  <2>3. PICK f : Recursion(f, n, Nat, 0, step)
    BY <1>1, <2>2, RecursionExists
  <2>4. f \in [0..n -> Nat] /\ f[0] = 0 /\ \A k \in 1..n : f[k] = step[k][f[k - 1]]
    BY <2>3 DEF Recursion
  <2>5. \A i \in 0..n : i # 0 => i \in 1..n /\ f[i - 1] \in Nat
    BY <1>1, <2>4
  <2>6. \A i \in 0..n : f[i] = IF i = 0 THEN 0 ELSE f[i - 1] + Cost(items[i])
    BY <2>1, <2>4, <2>5
  <2>7. f = [i \in 0..n |-> f[i]]
    BY <2>4
  <2>8. [i \in 0..n |-> f[i]] = [i \in 0..n |-> IF i = 0 THEN 0 ELSE f[i - 1] + Cost(items[i])]
    BY <2>6, Zenon
  <2> QED BY <2>7, <2>8
<1>5. Loop(sum)
  BY <1>4
<1> DEFINE R == {i \in 0..n : sum[i] \in Nat}
<1> HIDE DEF sum, n
<1>6. 0 \in R
  BY <1>1, <1>5
<1>7. ASSUME NEW i \in 0..(n - 1), i \in R PROVE i + 1 \in R
  <2>1. i + 1 \in 0..n /\ i + 1 # 0 /\ (i + 1) - 1 = i /\ i + 1 \in 1..n
    BY <1>1
  <2>2. sum[i + 1] = sum[i] + Cost(items[i + 1])
    BY <1>5, <2>1
  <2> QED BY <1>2, <1>7, <2>1, <2>2
<1>8. \A i \in 0..n : sum[i] \in Nat
  <2>1. 0..n \subseteq R
    <3> HIDE DEF R
    <3> QED BY <1>1, <1>6, <1>7, UpTo
  <2> QED BY <2>1
<1>9. Sums(sum, items, n)
  <2>1. sum \in [0..n -> Nat]
    BY <1>5, <1>8
  <2>2. \A k \in 1..n : k \in 0..n /\ k # 0
    BY <1>1
  <2>3. sum[0] = 0 /\ \A k \in 1..n : sum[k] = sum[k - 1] + Cost(items[k])
    BY <1>1, <1>5, <2>2
  <2> QED BY <2>1, <2>3 DEF Sums
<1> QED BY <1>1, <1>3, <1>8, <1>9 DEF n

Alike(p, q, d, k) == \A i \in 1..k : Cost(p[d + i]) = Cost(q[i]) /\ Cost(q[i]) \in Int

\* Two sums that go on alike differ by what they differ by at first.
AlikeSums(f, p, n, g, q, m, d, c, k) ==
  /\ n \in Nat /\ Sums(f, p, n) /\ m \in Nat /\ Sums(g, q, m)
  /\ d \in Nat /\ c \in Int /\ k \in Nat /\ d + k <= n /\ k <= m
  /\ f[d] = c /\ Alike(p, q, d, k)

LEMMA SumsAlike ==
  ASSUME NEW f, NEW p, NEW n, NEW g, NEW q, NEW m, NEW d, NEW c, NEW k,
         AlikeSums(f, p, n, g, q, m, d, c, k)
  PROVE  f[d + k] = c + g[k]
<1> USE DEF AlikeSums
<1> DEFINE R == {i \in 0..k : f[d + i] = c + g[i]}
<1>1. 0 \in R
  BY DEF Sums
<1>2. ASSUME NEW i \in 0..(k - 1), i \in R PROVE i + 1 \in R
  <2>1. /\ i + 1 \in 1..k /\ i + 1 \in 0..k /\ i + 1 \in 1..m /\ d + (i + 1) \in 1..n
        /\ (i + 1) - 1 = i /\ (d + (i + 1)) - 1 = d + i /\ i \in 0..m /\ d + i \in 0..n
        /\ i + 1 \in 0..m /\ d + (i + 1) \in 0..n
    OBVIOUS
  <2>2. g[i + 1] = g[i] + Cost(q[i + 1])
    BY <2>1 DEF Sums
  <2>3. f[d + (i + 1)] = f[d + i] + Cost(p[d + (i + 1)])
    BY <2>1 DEF Sums
  <2>4. /\ Cost(p[d + (i + 1)]) = Cost(q[i + 1]) /\ Cost(q[i + 1]) \in Int
        /\ f[d + i] = c + g[i]
    BY <1>2, <2>1 DEF Alike
  <2>5. g[i] \in Nat /\ g[i + 1] \in Nat /\ f[d + i] \in Nat /\ f[d + (i + 1)] \in Nat
    <3>1. f \in [0..n -> Nat] /\ g \in [0..m -> Nat]
      BY DEF Sums
    <3> QED BY <2>1, <3>1
  <2>6. f[d + (i + 1)] = c + g[i + 1]
    BY <2>2, <2>3, <2>4, <2>5
  <2> QED BY <2>1, <2>6
<1>3. k \in R
  <2> HIDE DEF R
  <2>1. 0..k \subseteq R
    BY <1>1, <1>2, UpTo
  <2> QED BY <2>1
<1> QED BY <1>3

LEMMA WeightEmpty == Weight(<<>>) = 0
<1>1. <<>> \in Seq(Item) /\ Len(<<>>) = 0
  OBVIOUS
<1>2. PICK f : Sums(f, <<>>, 0) /\ Weight(<<>>) = f[0]
  BY <1>1, WeightSums
<1> QED BY <1>2 DEF Sums

\* What two queues have in common from their first item on weighs the same.
LEMMA SameStart ==
  ASSUME NEW f, NEW p, NEW n \in Nat, Sums(f, p, n), NEW g, NEW q, NEW k \in Nat, Sums(g, q, k),
         k <= n, Alike(p, q, 0, k)
  PROVE  f[k] = g[k]
<1>1. f[0] = 0 /\ 0 + k = k /\ f \in [0..n -> Nat] /\ g[k] \in Nat
  BY DEF Sums
<1>2. 0 \in Nat /\ 0 \in Int /\ 0 + k <= n /\ k <= k
  OBVIOUS
<1>3. AlikeSums(f, p, n, g, q, k, 0, 0, k)
  BY <1>1, <1>2 DEF AlikeSums
<1>4. f[0 + k] = 0 + g[k]
  <2> DEFINE z == 0
  <2>1. AlikeSums(f, p, n, g, q, k, z, z, k)
    BY <1>3
  <2> HIDE DEF z
  <2>2. f[z + k] = z + g[k]
    BY ONLY <2>1, SumsAlike
  <2> QED BY <2>2 DEF z
<1> QED BY <1>1, <1>4

LEMMA WeightAppend ==
  ASSUME NEW q \in Seq(Item), NEW item \in Item
  PROVE  Weight(Append(q, item)) = Weight(q) + Cost(item)
<1> DEFINE p == Append(q, item)
           n == Len(q)
<1>1. /\ p \in Seq(Item) /\ Len(p) = n + 1 /\ n \in Nat /\ p[n + 1] = item
      /\ \A i \in 1..n : p[i] = q[i] /\ q[i] \in Item
  OBVIOUS
<1>2. PICK f : Sums(f, p, n + 1) /\ Weight(p) = f[n + 1]
  BY <1>1, WeightSums
<1>3. PICK g : Sums(g, q, n) /\ Weight(q) = g[n]
  BY <1>1, WeightSums
<1> HIDE DEF p, n
<1>4. Alike(p, q, 0, n)
  BY <1>1, CostIs DEF Alike
<1>5. f[n] = g[n]
  <2>1. n + 1 \in Nat /\ n <= n + 1
    BY <1>1
  <2> QED BY <1>1, <1>2, <1>3, <1>4, <2>1, SameStart
<1>6. f[n + 1] = f[n] + Cost(p[n + 1])
  <2>1. n + 1 \in 1..(n + 1) /\ (n + 1) - 1 = n
    BY <1>1
  <2> QED BY <1>2, <2>1 DEF Sums
<1> QED BY <1>1, <1>2, <1>3, <1>5, <1>6 DEF p

LEMMA WeightTail ==
  ASSUME NEW q \in Seq(Item), q # <<>>
  PROVE  Weight(q) = Cost(Head(q)) + Weight(Tail(q))
<1> DEFINE p == Tail(q)
           m == Len(q) - 1
           c == Cost(Head(q))
<1>1. /\ p \in Seq(Item) /\ Len(p) = m /\ m \in Nat /\ Head(q) = q[1] /\ q[1] \in Item /\ Len(q) = m + 1
      /\ \A i \in 1..m : p[i] = q[1 + i] /\ p[i] \in Item
  <2>1. p \in Seq(Item) /\ Len(p) = m /\ \A i \in 1..Len(p) : p[i] = q[i + 1]
    BY HeadTailProperties
  <2>2. Head(q) = q[1] /\ q[1] \in Item /\ Len(q) \in Nat \ {0}
    OBVIOUS
  <2> HIDE DEF p
  <2>3. \A i \in 1..m : p[i] \in Item
    BY <2>1
  <2> QED BY <2>1, <2>2, <2>3
<1>2. PICK f : Sums(f, q, m + 1) /\ Weight(q) = f[m + 1]
  BY <1>1, WeightSums
<1> HIDE DEF p, m
<1>3. PICK g : Sums(g, p, m) /\ Weight(p) = g[m]
  BY <1>1, WeightSums
<1>4. Alike(q, p, 1, m)
  BY <1>1, CostIs DEF Alike
<1>5. f[1] = c /\ c \in Int
  <2>1. 1 \in 1..(m + 1) /\ f[1] = f[1 - 1] + Cost(q[1])
    BY <1>1, <1>2 DEF Sums
  <2>2. f[0] = 0 /\ Cost(q[1]) \in Nat
    BY <1>1, <1>2, CostIs DEF Sums
  <2> QED BY <1>1, <2>1, <2>2
<1> HIDE DEF c
<1>6. f[1 + m] = c + g[m]
  <2> DEFINE o == 1
             h == m + 1
  <2>1. h \in Nat /\ o + m <= h /\ m <= m /\ o \in Nat /\ o + m = 1 + m
    BY <1>1
  <2>2. Sums(f, q, h) /\ Alike(q, p, o, m) /\ f[o] = c
    BY <1>2, <1>4, <1>5
  <2> HIDE DEF o, h
  <2>3. AlikeSums(f, q, h, g, p, m, o, c, m)
    BY <1>1, <1>3, <1>5, <2>1, <2>2 DEF AlikeSums
  <2>4. f[o + m] = c + g[m]
    BY ONLY <2>3, SumsAlike
  <2> QED BY <2>1, <2>4
<1> QED BY <1>1, <1>2, <1>3, <1>6 DEF p, c

\* Released events weigh one each.
LEMMA WeightReleased ==
  ASSUME NEW q \in Seq(Item), NEW l \in Seq(Item), \A i \in 1..Len(l) : Cost(l[i]) = 1
  PROVE  Weight(q \o l) = Weight(q) + Len(l)
<1> DEFINE p == q \o l
           n == Len(q)
           m == Len(l)
<1>1. /\ p \in Seq(Item) /\ Len(p) = n + m /\ n \in Nat /\ m \in Nat
      /\ \A i \in 1..n : p[i] = q[i] /\ q[i] \in Item
      /\ \A i \in 1..m : p[n + i] = l[i]
  <2>1. /\ p \in Seq(Item) /\ Len(p) = n + m
        /\ \A i \in 1..(n + m) : p[i] = IF i <= n THEN q[i] ELSE l[i - n]
    BY ConcatProperties
  <2>2. n \in Nat /\ m \in Nat /\ \A i \in 1..n : q[i] \in Item
    OBVIOUS
  <2> HIDE DEF p, n, m
  <2>3. \A i \in 1..m : n + i \in 1..(n + m) /\ ~(n + i <= n) /\ (n + i) - n = i
    BY <2>2
  <2>4. \A i \in 1..m : p[n + i] = l[i]
    BY <2>1, <2>3
  <2> QED BY <2>1, <2>2, <2>4
<1>2. PICK f : Sums(f, p, n + m) /\ Weight(p) = f[n + m]
  BY <1>1, WeightSums
<1>3. PICK g : Sums(g, q, n) /\ Weight(q) = g[n]
  BY WeightSums
<1>a. \A i \in 1..m : Cost(l[i]) = 1
  OBVIOUS
<1> HIDE DEF p, n, m
<1>4. f[n] = g[n]
  <2>1. n + m \in Nat /\ n <= n + m
    BY <1>1
  <2>2. Alike(p, q, 0, n)
    BY <1>1, CostIs DEF Alike
  <2> QED BY <1>1, <1>2, <1>3, <2>1, <2>2, SameStart
<1> DEFINE R == {k \in 0..m : f[n + k] = g[n] + k}
<1>5. g[n] \in Nat /\ \A k \in 0..(n + m) : f[k] \in Nat
  BY <1>1, <1>2, <1>3 DEF Sums
<1>6. 0 \in R
  BY <1>1, <1>4, <1>5
<1>7. ASSUME NEW k \in 0..(m - 1), k \in R PROVE k + 1 \in R
  <2>1. /\ k + 1 \in 0..m /\ k + 1 \in 1..m /\ n + (k + 1) \in 1..(n + m)
        /\ (n + (k + 1)) - 1 = n + k
    BY <1>1
  <2>2. f[n + (k + 1)] = f[n + k] + Cost(p[n + (k + 1)])
    BY <1>2, <2>1 DEF Sums
  <2>3. Cost(p[n + (k + 1)]) = 1
    <3>1. p[n + (k + 1)] = l[k + 1]
      BY <1>1, <2>1
    <3> QED BY <1>a, <2>1, <3>1
  <2>4. f[n + k] = g[n] + k
    BY <1>7
  <2> DEFINE t == f[n + (k + 1)]
             u == f[n + k]
             w == g[n]
  <2>5. t = u + 1 /\ u = w + k /\ w \in Nat
    BY <1>5, <2>2, <2>3, <2>4
  <2> HIDE DEF t, u, w
  <2>6. t = w + (k + 1)
    BY <2>5
  <2> USE DEF t, w
  <2> QED BY <2>1, <2>6
<1>8. m \in R
  <2> HIDE DEF R
  <2>1. 0..m \subseteq R
    BY <1>1, <1>6, <1>7, UpTo
  <2> QED BY <1>1, <2>1
<1> QED BY <1>2, <1>3, <1>8 DEF p, n, m

-----------------------------------------------------------------------------
(* The queue's accounting, as long as no bridge registers. *)

InHand(s) == IF s.inflight = None THEN 0 ELSE s.inflight.count
Charged(s) == s.queued = Weight(s.queue) + Len(s.pendingLive) + InHand(s) /\ s.queued <= QueueCap

LEMMA ChargedParts ==
  ASSUME NEW s \in SocketType
  PROVE  /\ s.queued \in Nat /\ s.queue \in Seq(Item) /\ s.pendingLive \in Seq(Event)
         /\ Weight(s.queue) \in Nat /\ Len(s.pendingLive) \in Nat /\ InHand(s) \in Nat
<1>1. /\ s.queued \in Nat /\ s.queue \in Seq(Item) /\ s.pendingLive \in Seq(Event)
      /\ s.inflight \in MessageItem \cup {None}
  BY DEF SocketType
<1>2. Weight(s.queue) \in Nat
  BY <1>1, WeightSums
<1>3. InHand(s) \in Nat
  BY <1>1 DEF InHand, MessageItem
<1> QED BY <1>1, <1>2, <1>3

LEMMA ChargedSame ==
  ASSUME NEW s, Charged(s), NEW q, q.queued = s.queued, q.queue = s.queue,
         q.pendingLive = s.pendingLive, q.inflight = s.inflight
  PROVE  Charged(q)
BY DEF Charged, InHand

LEMMA ChargedEmpty ==
  ASSUME NEW q, q.queued = 0, q.queue = <<>>, q.pendingLive = <<>>, q.inflight = None
  PROVE  Charged(q)
<1>1. Weight(q.queue) = 0 /\ Len(q.pendingLive) = 0 /\ InHand(q) = 0
  BY WeightEmpty DEF InHand
<1> QED BY <1>1, CoordinatorAssumption DEF Charged

LEMMA ChargedOverflow == \A s : Charged(QueueOverflow(s))
<1> SUFFICES ASSUME NEW s PROVE Charged(QueueOverflow(s))
  OBVIOUS
<1> DEFINE o == s.out \o Terminals(s.requests)
           q == [EmptySocket EXCEPT !.open = FALSE, !.out = o]
<1>1. QueueOverflow(s) = q
  BY DEF QueueOverflow
<1> HIDE DEF o
<1>2. q.queued = 0 /\ q.queue = <<>> /\ q.pendingLive = <<>> /\ q.inflight = None
  BY DEF EmptySocket
<1> HIDE DEF q
<1> QED BY <1>1, <1>2, ChargedEmpty

LEMMA ChargedClosed == \A s : Charged(Closed(s))
<1> SUFFICES ASSUME NEW s PROVE Charged(Closed(s))
  OBVIOUS
<1> DEFINE q == Closed(s)
<1>1. q.queued = 0 /\ q.queue = <<>> /\ q.pendingLive = <<>> /\ q.inflight = None
  BY DEF Closed, EmptySocket
<1> HIDE DEF q
<1>2. Charged(q)
  BY <1>1, ChargedEmpty
<1> QED BY <1>2 DEF q

LEMMA ChargedEnqueue ==
  ASSUME NEW s \in SocketType, Charged(s), NEW item \in Item
  PROVE  Charged(Enqueue(s, item))
<1> DEFINE more == s.queued + Cost(item)
           longer == Append(s.queue, item)
           q == [s EXCEPT !.queue = longer, !.queued = more]
<1>1. CASE item.kind = "message" /\ s.queued + item.count > QueueCap
  BY <1>1, ChargedOverflow DEF Enqueue
<1>2. CASE ~(item.kind = "message" /\ s.queued + item.count > QueueCap)
  <2>1. Enqueue(s, item) = q
    BY <1>2 DEF Enqueue, SocketType, Cost
  <2>2. Weight(longer) = Weight(s.queue) + Cost(item) /\ Cost(item) \in Nat
    BY ChargedParts, WeightAppend, CostIs
  <2>3. more <= QueueCap
    <3>1. s.queued \in Nat /\ s.queued <= QueueCap /\ QueueCap \in Nat
      BY ChargedParts, CoordinatorAssumption DEF Charged
    <3>2. CASE item.kind = "message"
      <4>1. ~(s.queued + item.count > QueueCap) /\ item.count \in Nat
        BY <1>2, <3>2 DEF Item, MessageItem
      <4> QED BY <3>1, <3>2, <4>1 DEF Cost
    <3>3. CASE item.kind # "message"
      BY <3>1, <3>3 DEF Cost
    <3> QED BY <3>2, <3>3
  <2> HIDE DEF longer, more
  <2>4. q.queued = more /\ q.queue = longer /\ q.pendingLive = s.pendingLive /\ q.inflight = s.inflight
    BY DEF SocketType
  <2> HIDE DEF q
  <2>5. q.queued = Weight(q.queue) + Len(q.pendingLive) + InHand(q)
    <3>1. InHand(q) = InHand(s)
      BY <2>4 DEF InHand
    <3>2. s.queued = Weight(s.queue) + Len(s.pendingLive) + InHand(s)
      BY DEF Charged
    <3> QED BY <2>2, <2>4, <3>1, <3>2, ChargedParts DEF more
  <2> QED BY <2>1, <2>3, <2>4, <2>5 DEF Charged
<1> QED BY <1>1, <1>2

LEMMA ChargedSuppress ==
  ASSUME NEW s \in SocketType, Charged(s), NEW e \in Event
  PROVE  Charged(SuppressLive(s, e))
<1> DEFINE held == Append(s.pendingLive, e)
           more == s.queued + 1
           q == [s EXCEPT !.pendingLive = held, !.queued = more]
<1>1. SuppressLive(s, e) \in {s, QueueOverflow(s)} \/ (SuppressLive(s, e) = q /\ ~(more > QueueCap))
  BY DEF SuppressLive, SocketType
<1>2. CASE SuppressLive(s, e) = q /\ ~(more > QueueCap)
  <2>1. Len(held) = Len(s.pendingLive) + 1 /\ s.queued \in Nat /\ QueueCap \in Nat
    BY ChargedParts, CoordinatorAssumption
  <2>2. more <= QueueCap
    BY <1>2, <2>1
  <2> HIDE DEF held
  <2>3. /\ q.queued = s.queued + 1 /\ q.queue = s.queue /\ q.pendingLive = held
        /\ q.inflight = s.inflight
    BY DEF SocketType
  <2> HIDE DEF q
  <2>4. q.queued = Weight(q.queue) + Len(q.pendingLive) + InHand(q)
    <3>1. InHand(q) = InHand(s)
      BY <2>3 DEF InHand
    <3>2. s.queued = Weight(s.queue) + Len(s.pendingLive) + InHand(s)
      BY DEF Charged
    <3>3. Weight(s.queue) \in Nat /\ Len(s.pendingLive) \in Nat /\ InHand(s) \in Nat
      BY ChargedParts
    <3>4. Weight(q.queue) = Weight(s.queue) /\ Len(q.pendingLive) = Len(s.pendingLive) + 1
      BY <2>1, <2>3
    <3> QED BY <2>3, <3>1, <3>2, <3>3, <3>4
  <2> QED BY <1>2, <2>2, <2>3, <2>4 DEF Charged
<1> QED BY <1>1, <1>2, ChargedOverflow

\* Released events cost in the queue what they cost while held.
LEMMA ChargedComplete ==
  ASSUME NEW s \in SocketType, Charged(s), NEW t
  PROVE  Charged(CompleteRequest(s, t))
<1> DEFINE rest == Without(s, t)
           live == [i \in DOMAIN s.pendingLive |-> LiveItem(s.pendingLive[i])]
           due == IF s.pendingLive = <<>> THEN s.queued ELSE Max2(s.queued, 1)
           longer == s.queue \o live
           fewer == [s EXCEPT !.requests = rest]
           free == [s EXCEPT !.requests = rest, !.suppressed = FALSE, !.pendingLive = <<>>,
                             !.queue = longer, !.queued = due]
<1>1. \/ CompleteRequest(s, t) \in {s, fewer, QueueOverflow(fewer)}
      \/ CompleteRequest(s, t) = free
  BY DEF CompleteRequest, SocketType
<1>2. Charged(fewer)
  <2> HIDE DEF rest
  <2>1. /\ fewer.queued = s.queued /\ fewer.queue = s.queue
        /\ fewer.pendingLive = s.pendingLive /\ fewer.inflight = s.inflight
    BY DEF SocketType
  <2> HIDE DEF fewer
  <2> QED BY <2>1, ChargedSame
<1>3. /\ s.pendingLive \in Seq(Event) /\ s.queue \in Seq(Item) /\ s.queued \in Nat
      /\ Weight(s.queue) \in Nat /\ InHand(s) \in Nat /\ Len(s.pendingLive) \in Nat
  BY ChargedParts
<1>4. Weight(longer) = Weight(s.queue) + Len(s.pendingLive)
  <2>1. \A i \in DOMAIN s.pendingLive :
          LiveItem(s.pendingLive[i]) \in Item /\ Cost(LiveItem(s.pendingLive[i])) = 1
    <3>1. \A e \in Event : LiveItem(e) \in Item /\ Cost(LiveItem(e)) = 1
      BY LiveItemIs DEF Cost
    <3> QED BY <1>3, <3>1
  <2>2. DOMAIN s.pendingLive = 1..Len(s.pendingLive)
    BY <1>3
  <2>3. live \in Seq(Item) /\ Len(live) = Len(s.pendingLive)
    BY <1>3, <2>1, <2>2
  <2>4. \A i \in 1..Len(live) : Cost(live[i]) = 1
    BY <2>1, <2>2, <2>3
  <2> HIDE DEF live
  <2> QED BY <1>3, <2>3, <2>4, WeightReleased
<1>5. s.queued = Weight(s.queue) + Len(s.pendingLive) + InHand(s) /\ s.queued <= QueueCap
  BY DEF Charged
<1>6. due = s.queued
  <2>1. s.pendingLive # <<>> => Len(s.pendingLive) >= 1
    BY <1>3
  <2> QED BY <1>3, <1>5, <2>1 DEF Max2
<1>7. Charged(free)
  <2> HIDE DEF rest, longer, due
  <2>1. free.queued = due /\ free.queue = longer /\ free.pendingLive = <<>> /\ free.inflight = s.inflight
    BY DEF SocketType
  <2> HIDE DEF free
  <2>2. InHand(free) = InHand(s) /\ Len(free.pendingLive) = 0
    BY <2>1 DEF InHand
  <2> QED BY <1>3, <1>4, <1>5, <1>6, <2>1, <2>2 DEF Charged
<1> HIDE DEF fewer, free
<1> QED BY <1>1, <1>2, <1>7, ChargedOverflow

\* The actions: what each makes of the socket.
LEMMA BecomeCharged ==
  ASSUME NEW s, NEW bs, NEW tl, Become(s, bs, tl), Charged(s)
  PROVE  Charged(sock')
BY DEF Become

LEMMA SockTyped == IInv => sock \in SocketType /\ gen \in Gens /\ token \in Nat /\ hi \in Nat
BY DEF IInv, SocketInv, SocketOK, StoreInv

LEMMA AdmitCharged ==
  ASSUME IInv, Charged(sock), NEW t \in DOMAIN bodies, Admit(t)
  PROVE  Charged(sock')
<1>1. ASSUME NEW rs, NEW sup, NEW bs, NEW tl,
             Become([sock EXCEPT !.requests = rs, !.suppressed = sup], bs, tl)
      PROVE  Charged(sock')
  <2> DEFINE q == [sock EXCEPT !.requests = rs, !.suppressed = sup]
  <2>1. /\ q.queued = sock.queued /\ q.queue = sock.queue
        /\ q.pendingLive = sock.pendingLive /\ q.inflight = sock.inflight
    BY SockTyped DEF SocketType
  <2>2. Become(q, bs, tl)
    BY <1>1
  <2> HIDE DEF q
  <2>3. Charged(q)
    BY <2>1, ChargedSame
  <2> QED BY <2>2, <2>3, BecomeCharged
<1>2. \/ \E rs, sup, bs, tl : Become([sock EXCEPT !.requests = rs, !.suppressed = sup], bs, tl)
      \/ \E bs, tl : Become(sock, bs, tl)
  <2>1. CASE Valid(t)
    <3> DEFINE mismatch   == bodies[t].known # None /\ bodies[t].known # gen
               outOfRange == /\ bodies[t].kind = "delta" /\ HasEvents
                             /\ (bodies[t].at < lo - 1 \/ bodies[t].at > hi)
               cold       == mismatch \/ outOfRange
               asCold     == [i \in DOMAIN sock.requests |->
                                IF cold /\ sock.requests[i].token = t
                                THEN [sock.requests[i] EXCEPT !.kind = "cold"] ELSE sock.requests[i]]
               sup == sock.suppressed \/ cold
               bs == [bodies EXCEPT ![t].phase = "waiting", ![t].reset = cold,
                                    ![t].kind = IF cold THEN "cold" ELSE @]
    <3>1. Become([sock EXCEPT !.requests = asCold, !.suppressed = @ \/ cold], bs, Append(tail, t))
      BY <2>1 DEF Admit
    <3> HIDE DEF cold, asCold, bs
    <3>2. [sock EXCEPT !.requests = asCold, !.suppressed = @ \/ cold]
          = [sock EXCEPT !.requests = asCold, !.suppressed = sup]
      BY SockTyped DEF SocketType
    <3> HIDE DEF sup
    <3>3. Become([sock EXCEPT !.requests = asCold, !.suppressed = sup], bs, Append(tail, t))
      BY <3>1, <3>2
    <3> QED BY <3>3
  <2>2. CASE ~Valid(t)
    BY <2>2 DEF Admit
  <2> QED BY <2>1, <2>2
<1> QED BY <1>1, <1>2, BecomeCharged

LEMMA AdmitUnavailableCharged ==
  ASSUME IInv, Charged(sock), NEW t \in DOMAIN bodies, AdmitUnavailable(t)
  PROVE  Charged(sock')
<1> DEFINE r == RequestOf(sock, t)
           item == Message(FailedTerminal(r), r.key)
           s == Enqueue(sock, item)
           q == Enqueue(s, Barrier(r))
<1>1. CASE ~Valid(t)
  BY <1>1, BecomeCharged DEF AdmitUnavailable
<1>2. CASE Valid(t)
  <2>1. r \in Req
    BY <1>2, RequestActive
  <2>2. item \in Item /\ Barrier(r) \in Item
    <3>1. FailedTerminal(r) \in Msg /\ r.key \in Int
      BY <2>1, SockTyped, TerminalIsMsg DEF Req
    <3> HIDE DEF r
    <3> QED BY <2>1, <3>1, MessageIs, BarrierIs DEF Item
  <2>3. \E bs, tl : Become(s, bs, tl) \/ Become(IF s.open THEN q ELSE s, bs, tl)
    BY <1>2 DEF AdmitUnavailable
  <2> HIDE DEF item, r
  <2>4. Charged(s) /\ s \in SocketType
    BY <2>2, SockTyped, ChargedEnqueue, EnqueueOK DEF IInv, SocketInv, SocketOK
  <2> HIDE DEF s
  <2>5. Charged(q)
    BY <2>2, <2>4, ChargedEnqueue
  <2> HIDE DEF q
  <2>6. PICK bs, tl : Become(s, bs, tl) \/ Become(IF s.open THEN q ELSE s, bs, tl)
    BY <2>3
  <2> QED BY <2>4, <2>5, <2>6, BecomeCharged
<1> QED BY <1>1, <1>2

LEMMA PlanCharged ==
  ASSUME IInv, Charged(sock), NEW t \in DOMAIN bodies, Plan(t)
  PROVE  Charged(sock')
<1> DEFINE b == bodies[t]
           held == Held(b)
           left == Max2(0, sock.queued - (Len(sock.pendingLive) - Len(held)))
           s == [sock EXCEPT !.pendingLive = held, !.queued = left]
<1>1. (\E bs, tl : Become(sock, bs, tl)) \/ \E bs : Become(s, bs, tail)
  <2>1. CASE Valid(t)
    <3>1. \E bs : Become([sock EXCEPT !.pendingLive = Held(b),
              !.queued = Max2(0, @ - (Len(sock.pendingLive) - Len(Held(b))))], bs, tail)
      BY <2>1 DEF Plan
    <3>2. [sock EXCEPT !.pendingLive = Held(b),
              !.queued = Max2(0, @ - (Len(sock.pendingLive) - Len(Held(b))))] = s
      BY SockTyped DEF SocketType
    <3> QED BY <3>1, <3>2
  <2>2. CASE ~Valid(t)
    BY <2>2 DEF Plan
  <2> QED BY <2>1, <2>2
<1>2. sock \in SocketType /\ sock.pendingLive \in Seq(Event)
  BY SockTyped, ChargedParts
<1>3. held \in Seq(Event) /\ Len(held) <= Len(sock.pendingLive)
  <2> DEFINE S == {e \in Range(sock.pendingLive) : e.seq < b.raw.lo \/ e.seq > b.raw.hi}
             k == Those(sock.pendingLive, S)
  <2>1. k \in Seq(Event) /\ Leaves(sock.pendingLive, S, Len(sock.pendingLive), k)
    <3> HIDE DEF S
    <3> QED BY <1>2, ThoseOf
  <2> HIDE DEF k
  <2> QED BY <2>1 DEF Leaves, Held, k
<1> HIDE DEF held
<1>4. /\ sock.queued \in Nat /\ Weight(sock.queue) \in Nat /\ Len(sock.pendingLive) \in Nat
      /\ InHand(sock) \in Nat /\ Len(held) \in Nat
  BY <1>2, <1>3, ChargedParts
<1>5. left = Weight(sock.queue) + Len(held) + InHand(sock) /\ left <= QueueCap
  BY <1>3, <1>4, CoordinatorAssumption DEF Charged, Max2
<1> HIDE DEF left
<1>6. s.queued = left /\ s.queue = sock.queue /\ s.pendingLive = held /\ s.inflight = sock.inflight
  BY <1>2 DEF SocketType
<1> HIDE DEF s
<1>7. Charged(s)
  <2>1. InHand(s) = InHand(sock)
    BY <1>6 DEF InHand
  <2> QED BY <1>5, <1>6, <2>1 DEF Charged
<1> QED BY <1>1, <1>7, BecomeCharged

LEMMA SendNextCharged ==
  ASSUME IInv, Charged(sock), NEW t \in DOMAIN bodies, SendNext(t)
  PROVE  Charged(sock')
<1> DEFINE b == bodies[t]
           r == RequestOf(sock, t)
<1>0. sock \in SocketType /\ gen \in Gens
  BY SockTyped
<1>1. CASE ~Valid(t)
  BY <1>1, BecomeCharged DEF SendNext
<1>2. CASE Valid(t)
  <2>1. r \in Req /\ r.key \in Int
    BY <1>2, RequestActive DEF Req
  <2>2. ASSUME NEW msg \in Msg, NEW bs, Become(Enqueue(sock, Message(msg, r.key)), bs, tail)
        PROVE  Charged(sock')
    <3> DEFINE item == Message(msg, r.key)
    <3>1. item \in Item
      <4> HIDE DEF r
      <4> QED BY <2>1, MessageIs DEF Item
    <3> HIDE DEF item
    <3>2. Charged(Enqueue(sock, item))
      BY <1>0, <3>1, ChargedEnqueue
    <3>3. Become(Enqueue(sock, item), bs, tail)
      BY <2>2 DEF item
    <3> QED BY <3>2, <3>3, BecomeCharged
  <2>3. CASE b.reset
    <3>1. Reset(IdOf(r.key)) \in Msg
      BY <1>0, <2>1 DEF Reset, IdOf, NoId, Msg, Req
    <3>2. \E bs : Become(Enqueue(sock, Message(Reset(IdOf(r.key)), r.key)), bs, tail)
      BY <1>2, <2>3 DEF SendNext
    <3> HIDE DEF r
    <3> QED BY <2>2, <3>1, <3>2
  <2>4. CASE ~b.reset /\ b.batches # <<>>
    <3> DEFINE msg == Frame(r, Head(b.batches), FALSE, b.more, FALSE)
    <3>1. msg \in Msg
      <4>1. b.batches \in Seq(Seq(Event)) /\ b.more \in BOOLEAN
        BY BodyOf DEF Body
      <4>2. Head(b.batches) \in Seq(Event)
        BY <2>4, <4>1
      <4> HIDE DEF b, r
      <4> QED BY <1>0, <2>1, <4>1, <4>2, FrameIs
    <3>2. \E bs : Become(Enqueue(sock, Message(msg, r.key)), bs, tail)
      BY <1>2, <2>4 DEF SendNext
    <3> HIDE DEF r, msg
    <3> QED BY <2>2, <3>1, <3>2
  <2>5. CASE ~b.reset /\ b.batches = <<>> /\ ~b.ended
    <3> DEFINE msg == Frame(r, <<>>, TRUE, b.more, FALSE)
    <3>1. msg \in Msg
      <4>1. <<>> \in Seq(Event) /\ b.more \in BOOLEAN
        BY BodyOf DEF Body
      <4> HIDE DEF b, r
      <4> QED BY <1>0, <2>1, <4>1, FrameIs
    <3>2. \E bs : Become(Enqueue(sock, Message(msg, r.key)), bs, tail)
      BY <1>2, <2>5 DEF SendNext
    <3> HIDE DEF r, msg
    <3> QED BY <2>2, <3>1, <3>2
  <2>6. CASE ~b.reset /\ b.batches = <<>> /\ b.ended
    <3> DEFINE q == IF r.kind = "older" THEN CompleteRequest(sock, t) ELSE Enqueue(sock, Barrier(r))
    <3>1. \E bs : Become(q, bs, tail)
      BY <1>2, <2>6 DEF SendNext
    <3>2. Barrier(r) \in Item
      BY <2>1, BarrierIs
    <3> HIDE DEF r
    <3>3. Charged(q)
      BY <1>0, <3>2, ChargedComplete, ChargedEnqueue
    <3> HIDE DEF q
    <3> QED BY <3>1, <3>3, BecomeCharged
  <2> QED BY <2>3, <2>4, <2>5, <2>6
<1> QED BY <1>1, <1>2

LEMMA DrainTakeCharged ==
  ASSUME IInv, Charged(sock), DrainTake
  PROVE  Charged(sock')
<1> DEFINE item == Head(sock.queue)
           rest == Tail(sock.queue)
           s == [sock EXCEPT !.queue = rest]
<1>1. sock \in SocketType /\ sock.queue \in Seq(Item) /\ sock.queue # <<>> /\ sock.inflight = None
  BY SockTyped DEF SocketType, DrainTake, CanTake
<1>2. rest \in Seq(Item) /\ item \in Item
  BY <1>1, HeadTailProperties
<1>3. Weight(sock.queue) = Cost(item) + Weight(rest) /\ Weight(rest) \in Nat /\ Cost(item) \in Nat
  BY <1>1, <1>2, WeightTail, WeightSums, CostIs
<1>4. \/ item.kind = "barrier" /\ \E bs, tl : Become(CompleteRequest(s, item.token), bs, tl)
      \/ /\ item.kind = "message"
         /\ \E bs, tl : \/ Become([s EXCEPT !.queued = Max2(0, @ - item.count)], bs, tl)
                        \/ Become(Sent(s, item), bs, tl)
                        \/ Become([s EXCEPT !.inflight = item], bs, tl)
  <2>1. \/ item.kind = "barrier" /\ Become(CompleteRequest(s, item.token), bodies, tail)
        \/ /\ item.kind = "message"
           /\ Become([s EXCEPT !.queued = Max2(0, @ - item.count)], bodies, tail)
        \/ /\ item.kind = "message"
           /\ \E n \in {Sent(s, item), [s EXCEPT !.inflight = item]} : Become(n, bodies, tail)
    BY DEF DrainTake
  <2> HIDE DEF rest, item, s
  <2> QED BY <2>1
<1> HIDE DEF rest, item
<1>5. /\ s \in SocketType /\ s.queue = rest /\ s.queued = sock.queued
      /\ s.pendingLive = sock.pendingLive /\ s.inflight = None
  BY <1>1, <1>2 DEF SocketType
<1> HIDE DEF s
<1>6. /\ s.queued = Cost(item) + Weight(s.queue) + Len(s.pendingLive) /\ s.queued <= QueueCap
      /\ s.queued \in Nat /\ Weight(s.queue) \in Nat /\ Len(s.pendingLive) \in Nat /\ QueueCap \in Nat
  <2>1. InHand(sock) = 0
    BY <1>1 DEF InHand
  <2>2. sock.queued \in Nat /\ Len(sock.pendingLive) \in Nat /\ QueueCap \in Nat
    BY <1>1, ChargedParts, CoordinatorAssumption
  <2> QED BY <1>3, <1>5, <2>1, <2>2 DEF Charged
<1>7. CASE item.kind = "barrier" /\ \E bs, tl : Become(CompleteRequest(s, item.token), bs, tl)
  <2>1. Cost(item) = 0 /\ InHand(s) = 0
    BY <1>5, <1>7 DEF Cost, InHand
  <2>2. Charged(s)
    BY <1>6, <2>1 DEF Charged
  <2>3. Charged(CompleteRequest(s, item.token))
    BY <1>5, <2>2, ChargedComplete
  <2> QED BY <1>7, <2>3, BecomeCharged
<1>8. CASE item.kind = "message"
  <2>1. item \in MessageItem /\ Cost(item) = item.count /\ item.count \in Nat /\ item # None
    BY <1>2, <1>8, NoneAssumption DEF Item, MessageItem, Cost
  <2>2. ASSUME NEW q, q.queue = s.queue, q.pendingLive = s.pendingLive, q.inflight = None,
               q.queued = s.queued - item.count
        PROVE  Charged(q)
    <3>1. InHand(q) = 0
      BY <2>2 DEF InHand
    <3> QED BY <1>6, <2>1, <2>2, <3>1 DEF Charged
  <2> DEFINE left == Max2(0, s.queued - item.count)
             dropped == [s EXCEPT !.queued = left]
             held == [s EXCEPT !.inflight = item]
  <2>3. left = s.queued - item.count
    BY <1>6, <2>1 DEF Max2
  <2>4. [s EXCEPT !.queued = Max2(0, @ - item.count)] = dropped
    BY <1>5 DEF SocketType
  <2> HIDE DEF left
  <2>5. Charged(dropped)
    <3>1. /\ dropped.queue = s.queue /\ dropped.pendingLive = s.pendingLive
          /\ dropped.inflight = None /\ dropped.queued = left
      BY <1>5 DEF SocketType
    <3> HIDE DEF dropped
    <3> QED BY <2>2, <2>3, <3>1
  <2>6. Charged(Sent(s, item))
    <3> DEFINE o == Append(s.out, item.msg)
               q == [s EXCEPT !.out = o, !.queued = left]
    <3>1. Sent(s, item) = q
      BY <1>5 DEF Sent, SocketType, left
    <3> HIDE DEF o
    <3>2. /\ q.queue = s.queue /\ q.pendingLive = s.pendingLive /\ q.inflight = None /\ q.queued = left
      BY <1>5 DEF SocketType
    <3> HIDE DEF q
    <3> QED BY <2>2, <2>3, <3>1, <3>2
  <2>7. Charged(held)
    <3>1. /\ held.queue = s.queue /\ held.pendingLive = s.pendingLive
          /\ held.inflight = item /\ held.queued = s.queued
      BY <1>5 DEF SocketType
    <3> HIDE DEF held
    <3>2. InHand(held) = item.count
      BY <2>1, <3>1 DEF InHand
    <3> QED BY <1>6, <2>1, <3>1, <3>2 DEF Charged
  <2>8. \E bs, tl : Become(dropped, bs, tl) \/ Become(Sent(s, item), bs, tl) \/ Become(held, bs, tl)
    <3>1. PICK bs, tl : \/ Become([s EXCEPT !.queued = Max2(0, @ - item.count)], bs, tl)
                        \/ Become(Sent(s, item), bs, tl)
                        \/ Become([s EXCEPT !.inflight = item], bs, tl)
      BY <1>4, <1>8
    <3> QED BY <2>4, <3>1
  <2> HIDE DEF dropped, held
  <2> QED BY <2>5, <2>6, <2>7, <2>8, BecomeCharged
<1> QED BY <1>4, <1>7, <1>8

LEMMA MicrotaskCharged ==
  ASSUME IInv, Charged(sock), Microtask
  PROVE  Charged(sock')
<1>1. CASE \E t \in DOMAIN bodies : TakeSnapshot(t)
  BY <1>1, BecomeCharged DEF TakeSnapshot
<1>2. ASSUME NEW t \in DOMAIN bodies, Close(t) PROVE Charged(sock')
  <2>1. Charged(CompleteRequest(sock, t))
    BY SockTyped, ChargedComplete
  <2> QED BY <1>2, <2>1, BecomeCharged DEF Close
<1> QED BY <1>1, <1>2, AdmitCharged, AdmitUnavailableCharged, PlanCharged, SendNextCharged,
           DrainTakeCharged DEF Microtask

LEMMA DrainSendCharged ==
  ASSUME IInv, Charged(sock), DrainSend
  PROVE  Charged(sock')
<1> DEFINE item == sock.inflight
           o == Append(sock.out, item.msg)
           left == Max2(0, sock.queued - item.count)
           q == [sock EXCEPT !.out = o, !.queued = left, !.inflight = None]
<1>1. sock \in SocketType /\ item \in MessageItem /\ item.count \in Nat /\ InHand(sock) = item.count
  BY SockTyped DEF SocketType, DrainSend, MessageItem, InHand
<1>2. sock' = q
  BY <1>1 DEF DrainSend, Sent, SocketType
<1>3. /\ sock.queued \in Nat /\ Weight(sock.queue) \in Nat /\ Len(sock.pendingLive) \in Nat
      /\ QueueCap \in Nat
  BY <1>1, ChargedParts, CoordinatorAssumption
<1>4. left = Weight(sock.queue) + Len(sock.pendingLive) /\ left <= QueueCap
  BY <1>1, <1>3 DEF Charged, Max2
<1> HIDE DEF o, left
<1>5. q.queued = left /\ q.queue = sock.queue /\ q.pendingLive = sock.pendingLive /\ q.inflight = None
  BY <1>1 DEF SocketType
<1> HIDE DEF q
<1>6. InHand(q) = 0
  BY <1>5 DEF InHand
<1> QED BY <1>2, <1>3, <1>4, <1>5, <1>6 DEF Charged

LEMMA EventForwardCharged ==
  ASSUME IInv, Charged(sock), EventForward
  PROVE  Charged(sock')
<1> DEFINE e == [gen |-> gen, seq |-> hi + 1]
<1>1. sock \in SocketType /\ e \in Event
  BY SockTyped DEF Event
<1>2. \E bs, tl : \/ Become(sock, bs, tl) \/ Become(SuppressLive(sock, e), bs, tl)
                  \/ Become(Enqueue(sock, LiveItem(e)), bs, tl)
  BY DEF EventForward
<1> HIDE DEF e
<1>3. Charged(SuppressLive(sock, e)) /\ Charged(Enqueue(sock, LiveItem(e)))
  BY <1>1, ChargedSuppress, ChargedEnqueue, LiveItemIs
<1> QED BY <1>2, <1>3, BecomeCharged

\* What is sent past the queue is not charged.
LEMMA DirectCharged ==
  ASSUME NEW s \in SocketType, Charged(s), NEW msgs, NEW q \in Direct(s, msgs)
  PROVE  Charged(q)
<1> DEFINE o == s.out \o msgs
           p == [s EXCEPT !.out = o]
<1>1. q = p \/ q = s
  BY DEF Direct, SocketType
<1> HIDE DEF o
<1>2. /\ p.queued = s.queued /\ p.queue = s.queue
      /\ p.pendingLive = s.pendingLive /\ p.inflight = s.inflight
  BY DEF SocketType
<1> HIDE DEF p
<1>3. Charged(p)
  BY <1>2, ChargedSame
<1> QED BY <1>1, <1>3

LEMMA SubscribeCharged ==
  ASSUME IInv, Charged(sock), NEW m, Subscribe(m), sock' \in SocketType
  PROVE  Charged(sock')
<1>1. sock \in SocketType
  BY SockTyped
<1>2. PICK rs, sup, msgs :
        sock' \in Direct([sock EXCEPT !.present = TRUE, !.requests = rs, !.suppressed = sup], msgs)
  BY <1>1 DEF Subscribe, SocketType
<1> DEFINE q == [sock EXCEPT !.present = TRUE, !.requests = rs, !.suppressed = sup]
           o == q.out \o msgs
           p == [q EXCEPT !.out = o]
<1>3. sock' = p \/ sock' = q
  BY <1>2 DEF Direct
<1> HIDE DEF o
<1>4. /\ p.queued = sock.queued /\ p.queue = sock.queue
      /\ p.pendingLive = sock.pendingLive /\ p.inflight = sock.inflight
      /\ q.queued = sock.queued /\ q.queue = sock.queue
      /\ q.pendingLive = sock.pendingLive /\ q.inflight = sock.inflight
  BY <1>1 DEF SocketType
<1> HIDE DEF p, q
<1> QED BY <1>3, <1>4, ChargedSame

LEMMA LeavingCharged ==
  ASSUME Charged(sock), Unsubscribe \/ Disconnect \/ Connect \/ ServerRestart
  PROVE  Charged(sock')
<1>1. CASE Unsubscribe \/ Connect
  <2> DEFINE x == IF sock.inflight = None THEN sock.stray ELSE Append(sock.stray, sock.inflight.msg)
             o == sock.out
             gone == [EmptySocket EXCEPT !.out = o, !.stray = x]
  <2>1. sock' = gone \/ sock' = EmptySocket
    BY <1>1 DEF Unsubscribe, Connect
  <2> HIDE DEF x, o
  <2>2. /\ gone.queued = 0 /\ gone.queue = <<>> /\ gone.pendingLive = <<>> /\ gone.inflight = None
        /\ EmptySocket.queued = 0 /\ EmptySocket.queue = <<>> /\ EmptySocket.pendingLive = <<>>
        /\ EmptySocket.inflight = None
    BY DEF EmptySocket
  <2> HIDE DEF gone
  <2> QED BY <2>1, <2>2, ChargedEmpty
<1>2. CASE Disconnect \/ ServerRestart
  <2>1. \E bs, tl : Become(Closed(sock), bs, tl)
    BY <1>2 DEF Disconnect, ServerRestart
  <2> QED BY <2>1, ChargedClosed, BecomeCharged
<1> QED BY <1>1, <1>2

LEMMA StraySendCharged ==
  ASSUME IInv, Charged(sock), StraySend
  PROVE  Charged(sock')
<1> DEFINE o == Append(sock.out, Head(sock.stray))
           x == Tail(sock.stray)
           q == [sock EXCEPT !.out = o, !.stray = x]
<1>1. sock \in SocketType
  BY SockTyped
<1>2. sock' = q
  BY <1>1 DEF StraySend, SocketType
<1> HIDE DEF o, x
<1>3. /\ q.queued = sock.queued /\ q.queue = sock.queue
      /\ q.pendingLive = sock.pendingLive /\ q.inflight = sock.inflight
  BY <1>1 DEF SocketType
<1> HIDE DEF q
<1> QED BY <1>2, <1>3, ChargedSame

LEMMA NextCharged ==
  ASSUME "register" \notin Incidents, IInv, Charged(sock), [CoordNext]_serverVars
  PROVE  Charged(sock')
<1>1. CASE Microtask
  BY <1>1, MicrotaskCharged
<1>2. CASE DrainSend \/ EventForward \/ StraySend
  BY <1>2, DrainSendCharged, EventForwardCharged, StraySendCharged
<1>3. CASE \E m \in BrowserMessages : Subscribe(m)
  <2>1. sock' \in SocketType
    BY NextHolds, SockTyped DEF IInv, SocketInv, SocketOK
  <2> QED BY <1>3, <2>1, SubscribeCharged
<1>4. CASE load # None /\ (LoadDone(TRUE) \/ LoadDone(FALSE))
  <2>1. sock' = sock
    BY <1>4 DEF LoadDone, LoadFills
  <2> QED BY <2>1
<1>5. CASE Unsubscribe \/ Disconnect \/ Connect \/ ServerRestart
  BY <1>5, LeavingCharged
<1>6. CASE UNCHANGED serverVars
  BY <1>6 DEF serverVars, coordVars
<1> QED BY <1>1, <1>2, <1>3, <1>4, <1>5, <1>6 DEF CoordNext

\* What waits for the browser's socket, the events held back and the item in
\* hand included, never exceeds the cap of the queue, whatever requests are
\* superseded, cut off or released - until a bridge registers, whose replay
\* forgets what is in hand (completeBridgeReplay).
THEOREM BacklogIsBounded ==
  ASSUME "register" \notin Incidents
  PROVE  CoordSpec => []BacklogWithinCap
<1>1. CoordInit => IInv /\ Charged(sock)
  <2> SUFFICES ASSUME CoordInit PROVE Charged(sock)
    BY InitHolds
  <2>1. sock.queued = 0 /\ sock.queue = <<>> /\ sock.pendingLive = <<>> /\ sock.inflight = None
    BY DEF CoordInit, EmptySocket
  <2> QED BY <2>1, ChargedEmpty
<1>2. (IInv /\ Charged(sock)) /\ [CoordNext]_serverVars => (IInv /\ Charged(sock))'
  <2> SUFFICES ASSUME IInv, Charged(sock), [CoordNext]_serverVars PROVE IInv' /\ Charged(sock')
    OBVIOUS
  <2> QED BY NextHolds, NextCharged
<1>3. IInv /\ Charged(sock) => BacklogWithinCap
  BY DEF Charged, BacklogWithinCap, Backlog, InHand
<1> QED BY <1>1, <1>2, <1>3, PTL DEF CoordSpec

-----------------------------------------------------------------------------
(* Terminals, on a connection that lives and to a browser that names every *)
(* request afresh.                                                         *)

\* m is the terminal of the request id; so is item, in the queue.
Concludes(m, id) == IsFrame(m) /\ m.id = id /\ m.last
EndItem(item, id) == item.kind = "message" /\ item.key = id /\ Concludes(item.msg, id)

\* The terminal of id has been sent, is in hand, or waits in the queue.
Told(s, id) == \E i \in DOMAIN s.out : Concludes(s.out[i], id)
Telling(s, id) == s.inflight # None /\ Concludes(s.inflight.msg, id)
OnWay(s, id) == Told(s, id) \/ Telling(s, id) \/ \E k \in DOMAIN s.queue : EndItem(s.queue[k], id)

\* A request is gone only once its terminal is sent, and its barrier, which
\* takes it away, is behind the terminal.
BehindEnd(s, id) ==
  \A j \in DOMAIN s.queue : s.queue[j].kind = "barrier" /\ s.queue[j].token = id =>
    \/ Told(s, id) \/ Telling(s, id)
    \/ \E k \in DOMAIN s.queue : k < j /\ EndItem(s.queue[k], id)
Keyed(s) == \A i \in DOMAIN s.requests : s.requests[i].key = s.requests[i].token /\ s.requests[i].token >= 1
Numbered(s, n) == \A j \in DOMAIN s.queue : s.queue[j].kind = "barrier" => s.queue[j].token \in 1..n
Answered(s, n) ==
  /\ Keyed(s) /\ Numbered(s, n)
  /\ \A id \in 1..n : (Active(s, id) \/ Told(s, id)) /\ BehindEnd(s, id)

\* A body that has nothing more to send has its terminal on the way.
Through(b) == b.phase = "failing" \/ b.ended
BodiesTell(s, bs) == \A t \in DOMAIN bs : Through(bs[t]) => OnWay(s, t)

ToldInv == sock.open => Answered(sock, token) /\ BodiesTell(sock, bodies)

\* q tells what s does.
Tells(s, q) == \A id : OnWay(s, id) => OnWay(q, id)

LEMMA BecomeTells ==
  ASSUME NEW s, NEW bs, NEW tl, Become(s, bs, tl), token' = token,
         s.open => Answered(s, token) /\ BodiesTell(s, bs)
  PROVE  ToldInv'
<1>1. sock' = s /\ (s.open => bodies' = bs)
  BY DEF Become
<1> HIDE DEF Answered, BodiesTell
<1>2. Answered(sock, token)' <=> Answered(sock', token')
  BY DEF Answered, Keyed, Numbered, Active, Told, BehindEnd, Telling
<1>3. BodiesTell(sock, bodies)' <=> BodiesTell(sock', bodies')
  BY DEF BodiesTell, OnWay, Told, Telling
<1> QED BY <1>1, <1>2, <1>3 DEF ToldInv

\* Bodies none of which is through that was not before.
LEMMA BodiesGoOn ==
  ASSUME NEW s, NEW q, NEW bs, NEW cs, BodiesTell(s, bs), Tells(s, q),
         \A t \in DOMAIN cs : Through(cs[t]) =>
           OnWay(q, t) \/ (t \in DOMAIN bs /\ Through(bs[t]))
  PROVE  BodiesTell(q, cs)
BY DEF BodiesTell, Tells

\* A socket with the same messages and the same requests, whatever their kinds.
LEMMA SameMessages ==
  ASSUME NEW s, NEW q, NEW n, Answered(s, n),
         q.out = s.out, q.inflight = s.inflight, q.queue = s.queue,
         DOMAIN q.requests = DOMAIN s.requests,
         \A i \in DOMAIN s.requests : /\ q.requests[i].token = s.requests[i].token
                                      /\ q.requests[i].key = s.requests[i].key
  PROVE  Answered(q, n) /\ Tells(s, q)
<1>1. \A id : /\ Told(q, id) <=> Told(s, id)
              /\ Telling(q, id) <=> Telling(s, id)
              /\ Active(q, id) <=> Active(s, id)
  BY DEF Told, Telling, Active
<1>2. \A id : BehindEnd(s, id) => BehindEnd(q, id)
  BY <1>1 DEF BehindEnd
<1>3. Keyed(q) /\ Numbered(q, n)
  BY DEF Answered, Keyed, Numbered
<1> QED BY <1>1, <1>2, <1>3 DEF Answered, Tells, OnWay

\* What is queued behind the rest; a barrier, once the terminal is on its way.
QueuedBehind(s, item, q, n) ==
  q.open => /\ Answered(q, n) /\ Tells(s, q)
            /\ \A id : EndItem(item, id) => OnWay(q, id)

LEMMA EnqueueTells ==
  ASSUME NEW s \in SocketType, NEW n, Answered(s, n), NEW item \in Item,
         item.kind = "barrier" => OnWay(s, item.token) /\ item.token \in 1..n, NEW q, q = Enqueue(s, item)
  PROVE  QueuedBehind(s, item, q, n)
<1> DEFINE longer == Append(s.queue, item)
           more == s.queued + IF item.kind = "message" THEN item.count ELSE 0
           p == [s EXCEPT !.queue = longer, !.queued = more]
<1>1. CASE q = QueueOverflow(s)
  <2>1. ~q.open
    <3> DEFINE o == s.out \o Terminals(s.requests)
    <3>1. q = [EmptySocket EXCEPT !.open = FALSE, !.out = o]
      BY <1>1 DEF QueueOverflow
    <3> HIDE DEF o
    <3> QED BY <3>1 DEF EmptySocket
  <2> QED BY <2>1 DEF QueuedBehind
<1>2. CASE q # QueueOverflow(s)
  <2>1. q = p
    BY <1>2 DEF Enqueue, SocketType
  <2>2. s.queue \in Seq(Item)
    BY DEF SocketType
  <2>3. /\ Len(s.queue) \in Nat /\ DOMAIN s.queue = 1..Len(s.queue)
        /\ DOMAIN longer = 1..(Len(s.queue) + 1)
        /\ \A i \in 1..Len(s.queue) : longer[i] = s.queue[i]
        /\ longer[Len(s.queue) + 1] = item
    BY <2>2, AppendProperties, LenProperties
  <2>4. \A i \in DOMAIN s.queue : i \in DOMAIN longer /\ longer[i] = s.queue[i] /\ i < Len(s.queue) + 1
    BY <2>3
  <2>5. \A i \in DOMAIN longer : (i \in DOMAIN s.queue /\ longer[i] = s.queue[i])
                                 \/ (i = Len(s.queue) + 1 /\ longer[i] = item)
    BY <2>3
  <2>6. Len(s.queue) + 1 \in DOMAIN longer /\ longer[Len(s.queue) + 1] = item
    BY <2>3
  <2> HIDE DEF longer, more
  <2>7. q.out = s.out /\ q.inflight = s.inflight /\ q.queue = longer /\ q.requests = s.requests
    BY <2>1 DEF SocketType
  <2> HIDE DEF p
  <2>8. \A id : (Told(q, id) <=> Told(s, id)) /\ (Telling(q, id) <=> Telling(s, id))
                /\ (Active(q, id) <=> Active(s, id))
    BY <2>7 DEF Told, Telling, Active
  <2>9. Tells(s, q)
    BY <2>4, <2>7, <2>8 DEF Tells, OnWay
  <2>10. ASSUME NEW id, EndItem(item, id) PROVE OnWay(q, id)
    BY <2>6, <2>7, <2>10 DEF OnWay
  <2>11. ASSUME NEW id, BehindEnd(s, id) PROVE BehindEnd(q, id)
    <3> SUFFICES ASSUME NEW j \in DOMAIN longer, longer[j].kind = "barrier", longer[j].token = id,
                        ~Told(s, id), ~Telling(s, id)
                 PROVE  \E k \in DOMAIN longer : k < j /\ EndItem(longer[k], id)
      BY <2>7, <2>8 DEF BehindEnd
    <3>1. CASE j \in DOMAIN s.queue /\ longer[j] = s.queue[j]
      <4>1. PICK k \in DOMAIN s.queue : k < j /\ EndItem(s.queue[k], id)
        BY <2>11, <3>1 DEF BehindEnd
      <4> QED BY <2>4, <4>1
    <3>2. CASE j = Len(s.queue) + 1 /\ longer[j] = item
      <4>1. OnWay(s, id)
        BY <3>2
      <4>2. PICK k \in DOMAIN s.queue : EndItem(s.queue[k], id)
        BY <4>1 DEF OnWay
      <4> QED BY <2>4, <3>2, <4>2
    <3> QED BY <2>5, <3>1, <3>2
  <2>12. Keyed(q)
    BY <2>7 DEF Answered, Keyed
  <2>13. Numbered(q, n)
    BY <2>5, <2>7 DEF Answered, Numbered
  <2>14. Answered(q, n)
    BY <2>7, <2>8, <2>11, <2>12, <2>13 DEF Answered
  <2> QED BY <2>9, <2>10, <2>14 DEF QueuedBehind
<1> QED BY <1>1, <1>2

\* A request told of its end is completed.
Completed(s, q, n) == q.open => Answered(q, n) /\ Tells(s, q)

LEMMA CompleteTells ==
  ASSUME NEW s, NEW n, SocketOK(s, n), Answered(s, n), NEW t, Active(s, t) => Told(s, t),
         NEW q, q = CompleteRequest(s, t)
  PROVE  Completed(s, q, n)
<1> DEFINE rest == Without(s, t)
           live == [i \in DOMAIN s.pendingLive |-> LiveItem(s.pendingLive[i])]
           due == IF s.pendingLive = <<>> THEN s.queued ELSE Max2(s.queued, 1)
           longer == s.queue \o live
           fewer == [s EXCEPT !.requests = rest]
           free == [s EXCEPT !.requests = rest, !.suppressed = FALSE, !.pendingLive = <<>>,
                             !.queue = longer, !.queued = due]
<1>1. s \in SocketType /\ s.queue \in Seq(Item) /\ s.pendingLive \in Seq(Event) /\ s.requests \in Seq(Req)
  BY DEF SocketOK, SocketType
<1>2. CASE q = s
  BY <1>2 DEF Completed, Tells
<1>3. CASE q = QueueOverflow(fewer)
  <2>1. ~q.open
    <3> DEFINE o == fewer.out \o Terminals(fewer.requests)
    <3>1. q = [EmptySocket EXCEPT !.open = FALSE, !.out = o]
      BY <1>3 DEF QueueOverflow
    <3> HIDE DEF o
    <3> QED BY <3>1 DEF EmptySocket
  <2> QED BY <2>1 DEF Completed
<1>4. CASE Active(s, t) /\ (q = fewer \/ q = free)
  <2>1. /\ \A i \in DOMAIN rest : \E j \in DOMAIN s.requests : rest[i] = s.requests[j]
        /\ \A j \in DOMAIN s.requests : s.requests[j].token # t =>
             \E i \in DOMAIN rest : rest[i] = s.requests[j]
    <3> DEFINE S == {r \in Range(s.requests) : r.token # t}
               k == Those(s.requests, S)
    <3>1. rest = k
      BY DEF Without
    <3>2. \A j \in DOMAIN s.requests : s.requests[j].token # t => s.requests[j] \in S
      BY <1>1 DEF Range
    <3>3. k \in Seq(Req) /\ Leaves(s.requests, S, Len(s.requests), k)
      <4> HIDE DEF S
      <4> QED BY <1>1, ThoseOf
    <3> HIDE DEF S, k
    <3>4. DOMAIN k = 1..Len(k) /\ DOMAIN s.requests = 1..Len(s.requests)
      BY <1>1, <3>3
    <3> HIDE DEF rest
    <3> QED BY <3>1, <3>2, <3>3, <3>4 DEF Leaves
  <2>2. /\ \A i \in DOMAIN s.queue : i \in DOMAIN longer /\ longer[i] = s.queue[i]
        /\ \A i \in DOMAIN longer : longer[i].kind = "barrier" =>
             i \in DOMAIN s.queue /\ longer[i] = s.queue[i]
    <3>1. live \in Seq(Item) /\ \A i \in DOMAIN live : live[i].kind = "message"
      <4>1. \A e \in Event : LiveItem(e) \in Item /\ LiveItem(e).kind = "message"
        BY LiveItemIs
      <4>2. DOMAIN s.pendingLive = 1..Len(s.pendingLive) /\ Len(s.pendingLive) \in Nat
        BY <1>1
      <4>3. \A i \in 1..Len(s.pendingLive) :
              LiveItem(s.pendingLive[i]) \in Item /\ LiveItem(s.pendingLive[i]).kind = "message"
        BY <1>1, <4>1
      <4> HIDE DEF Item
      <4> QED BY <4>2, <4>3
    <3> HIDE DEF live
    <3>2. /\ Len(s.queue) \in Nat /\ Len(live) \in Nat /\ DOMAIN s.queue = 1..Len(s.queue)
          /\ DOMAIN live = 1..Len(live) /\ DOMAIN longer = 1..(Len(s.queue) + Len(live))
          /\ \A i \in 1..(Len(s.queue) + Len(live)) :
               longer[i] = IF i <= Len(s.queue) THEN s.queue[i] ELSE live[i - Len(s.queue)]
      <4>1. longer \in Seq(Item) /\ Len(longer) = Len(s.queue) + Len(live)
        BY <1>1, <3>1, ConcatProperties
      <4>2. /\ Len(s.queue) \in Nat /\ Len(live) \in Nat /\ DOMAIN s.queue = 1..Len(s.queue)
            /\ DOMAIN live = 1..Len(live) /\ DOMAIN longer = 1..Len(longer)
        <5> HIDE DEF longer
        <5> QED BY <1>1, <3>1, <4>1, LenProperties
      <4>3. \A i \in 1..(Len(s.queue) + Len(live)) :
              longer[i] = IF i <= Len(s.queue) THEN s.queue[i] ELSE live[i - Len(s.queue)]
        BY <1>1, <3>1, ConcatProperties
      <4> HIDE DEF longer
      <4> QED BY <4>1, <4>2, <4>3
    <3> HIDE DEF longer
    <3>3. ASSUME NEW i \in DOMAIN longer, ~(i <= Len(s.queue))
          PROVE  longer[i].kind # "barrier"
      <4>1. i - Len(s.queue) \in DOMAIN live /\ longer[i] = live[i - Len(s.queue)]
        BY <3>2, <3>3
      <4> QED BY <3>1, <4>1
    <3> QED BY <3>2, <3>3
  <2> HIDE DEF rest, longer, live, due
  <2>3. /\ q.out = s.out /\ q.inflight = s.inflight /\ q.requests = rest
        /\ q.queue = s.queue \/ q.queue = longer
    BY <1>1, <1>4 DEF SocketType
  <2> HIDE DEF fewer, free
  <2>4. \A id : (Told(q, id) <=> Told(s, id)) /\ (Telling(q, id) <=> Telling(s, id))
                /\ (id # t /\ Active(s, id) => Active(q, id))
    BY <2>1, <2>3 DEF Told, Telling, Active
  <2>5. Tells(s, q)
    BY <2>2, <2>3, <2>4 DEF Tells, OnWay
  <2>6. ASSUME NEW id, BehindEnd(s, id) PROVE BehindEnd(q, id)
    <3> SUFFICES ASSUME NEW j \in DOMAIN q.queue, q.queue[j].kind = "barrier", q.queue[j].token = id,
                        ~Told(s, id), ~Telling(s, id)
                 PROVE  \E k \in DOMAIN q.queue : k < j /\ EndItem(q.queue[k], id)
      BY <2>4 DEF BehindEnd
    <3>1. j \in DOMAIN s.queue /\ q.queue[j] = s.queue[j]
      BY <2>2, <2>3
    <3>2. PICK k \in DOMAIN s.queue : k < j /\ EndItem(s.queue[k], id)
      BY <2>6, <3>1 DEF BehindEnd
    <3> QED BY <2>2, <2>3, <3>2
  <2>7. Keyed(q)
    BY <2>1, <2>3 DEF Answered, Keyed
  <2>8. Numbered(q, n)
    BY <2>2, <2>3 DEF Answered, Numbered
  <2>9. Answered(q, n)
    BY <1>4, <2>4, <2>6, <2>7, <2>8 DEF Answered
  <2> QED BY <2>5, <2>9 DEF Completed
<1> HIDE DEF fewer, free
<1>5. q = s \/ (Active(s, t) /\ (q = fewer \/ q = free \/ q = QueueOverflow(fewer)))
  BY <1>1 DEF CompleteRequest, SocketType, fewer, free
<1> QED BY <1>2, <1>3, <1>4, <1>5

-----------------------------------------------------------------------------
(* The actions. *)

\* A body of bs that is through has been told, in q, or was through before.
StillTelling(q, bs) ==
  \A t \in DOMAIN bs : Through(bs[t]) => OnWay(q, t) \/ (t \in DOMAIN bodies /\ Through(bodies[t]))
Moves(q) == q.open => sock.open /\ Answered(q, token) /\ Tells(sock, q)

LEMMA MoveTells ==
  ASSUME ToldInv, NEW q, Moves(q), NEW bs, q.open => StillTelling(q, bs),
         NEW tl, Become(q, bs, tl), token' = token
  PROVE  ToldInv'
<1>1. q.open => BodiesTell(q, bs)
  BY DEF ToldInv, Moves, StillTelling, BodiesTell, Tells
<1> QED BY <1>1, BecomeTells DEF Moves

LEMMA StayMoves == ToldInv => Moves(sock)
BY DEF ToldInv, Moves, Tells

LEMMA DropTells == \A q, t : StillTelling(q, DropBody(bodies, t))
BY DropBodyIs DEF StillTelling

LEMMA OneTells ==
  ASSUME NEW q, NEW t \in DOMAIN bodies, NEW c, Through(c) => OnWay(q, t) \/ Through(bodies[t])
  PROVE  StillTelling(q, [bodies EXCEPT ![t] = c])
BY DEF StillTelling

\* A body that has gone and its socket as it was.
LEMMA DropTold ==
  ASSUME ToldInv, NEW t, NEW tl, Become(sock, DropBody(bodies, t), tl), token' = token
  PROVE  ToldInv'
BY StayMoves, DropTells, MoveTells

LEMMA AdmitTold ==
  ASSUME IInv, ToldInv, NEW t \in DOMAIN bodies, Admit(t)
  PROVE  ToldInv'
<1>1. CASE Valid(t)
  <2> DEFINE mismatch   == bodies[t].known # None /\ bodies[t].known # gen
             outOfRange == /\ bodies[t].kind = "delta" /\ HasEvents
                           /\ (bodies[t].at < lo - 1 \/ bodies[t].at > hi)
             cold       == mismatch \/ outOfRange
             asCold     == [i \in DOMAIN sock.requests |->
                              IF cold /\ sock.requests[i].token = t
                              THEN [sock.requests[i] EXCEPT !.kind = "cold"] ELSE sock.requests[i]]
             sup == sock.suppressed \/ cold
             kind == IF cold THEN "cold" ELSE bodies[t].kind
             c == [bodies[t] EXCEPT !.phase = "waiting", !.reset = cold, !.kind = kind]
             q == [sock EXCEPT !.requests = asCold, !.suppressed = sup]
  <2>1. Become([sock EXCEPT !.requests = asCold, !.suppressed = @ \/ cold],
               [bodies EXCEPT ![t].phase = "waiting", ![t].reset = cold,
                              ![t].kind = IF cold THEN "cold" ELSE @],
               Append(tail, t)) /\ token' = token
    BY <1>1 DEF Admit
  <2>2. /\ sock \in SocketType /\ sock.open
        /\ \A i \in DOMAIN sock.requests : sock.requests[i] \in Req
    <3>1. sock \in SocketType /\ sock.requests \in Seq(Req)
      BY SockTyped DEF SocketType
    <3> QED BY <1>1, <3>1 DEF Valid
  <2>3. bodies[t] \in Body
    BY BodyOf
  <2>4. DOMAIN asCold = DOMAIN sock.requests
        /\ \A i \in DOMAIN sock.requests : /\ asCold[i].token = sock.requests[i].token
                                           /\ asCold[i].key = sock.requests[i].key
    <3> HIDE DEF cold
    <3> QED BY <2>2 DEF Req
  <2> HIDE DEF cold, asCold
  <2>5. [sock EXCEPT !.requests = asCold, !.suppressed = @ \/ cold] = q
    BY <2>2 DEF SocketType
  <2>6. [bodies EXCEPT ![t].phase = "waiting", ![t].reset = cold,
                              ![t].kind = IF cold THEN "cold" ELSE @] = [bodies EXCEPT ![t] = c]
    BY <2>3 DEF Body
  <2>7. c.phase = "waiting" /\ c.ended = bodies[t].ended
    BY <2>3 DEF Body
  <2>8. /\ q.out = sock.out /\ q.inflight = sock.inflight /\ q.queue = sock.queue
        /\ q.requests = asCold
    BY <2>2 DEF SocketType
  <2> HIDE DEF q, c, kind, sup
  <2>9. Moves(q)
    <3>1. Answered(sock, token)
      BY <2>2 DEF ToldInv
    <3>2. Answered(q, token) /\ Tells(sock, q)
      BY <2>4, <2>8, <3>1, SameMessages
    <3> QED BY <2>2, <3>2 DEF Moves
  <2>10. StillTelling(q, [bodies EXCEPT ![t] = c])
    BY <2>7, OneTells DEF Through
  <2> QED BY <2>1, <2>5, <2>6, <2>9, <2>10, MoveTells
<1>2. CASE ~Valid(t)
  BY <1>2, DropTold DEF Admit
<1> QED BY <1>1, <1>2

LEMMA TakeSnapshotTold ==
  ASSUME IInv, ToldInv, NEW t \in DOMAIN bodies, TakeSnapshot(t)
  PROVE  ToldInv'
<1>1. CASE Valid(t)
  <2>1. PICK raw, phase, file :
          /\ phase \in {"paging", "loaded"} /\ token' = token
          /\ Become(sock, [bodies EXCEPT ![t].raw = raw, ![t].phase = phase, ![t].file = file], tail)
    <3> DEFINE paging == HasEvents /\ lo > 1 /\ HasFile
                /\ (bodies[t].kind = "older" \/ (bodies[t].kind = "cold" /\ bodies[t].tailMode))
               cached == persisted # None /\ persisted.gen = gen
               ph == IF paging /\ ~cached THEN "paging" ELSE "loaded"
               f == IF paging /\ cached THEN persisted.n ELSE 0
    <3>1. /\ Become(sock, [bodies EXCEPT
                     ![t].raw = [gen |-> gen, lo |-> lo, hi |-> hi],
                     ![t].phase = ph, ![t].file = f], tail)
          /\ token' = token
      BY <1>1 DEF TakeSnapshot
    <3>2. ph \in {"paging", "loaded"}
      OBVIOUS
    <3> HIDE DEF ph, f
    <3> QED BY <3>1, <3>2
  <2> DEFINE c == [bodies[t] EXCEPT !.raw = raw, !.phase = phase, !.file = file]
  <2>2. bodies[t] \in Body
    BY BodyOf
  <2>3. [bodies EXCEPT ![t].raw = raw, ![t].phase = phase, ![t].file = file] = [bodies EXCEPT ![t] = c]
    BY <2>2 DEF Body
  <2>4. c.phase # "failing" /\ c.ended = bodies[t].ended
    BY <2>1, <2>2 DEF Body
  <2> HIDE DEF c
  <2>5. StillTelling(sock, [bodies EXCEPT ![t] = c])
    BY <2>4, OneTells DEF Through
  <2> QED BY <2>1, <2>3, <2>5, StayMoves, MoveTells
<1>2. CASE ~Valid(t)
  BY <1>2, DropTold DEF TakeSnapshot
<1> QED BY <1>1, <1>2

LEMMA PlanTold ==
  ASSUME IInv, ToldInv, NEW t \in DOMAIN bodies, Plan(t)
  PROVE  ToldInv'
<1>1. CASE Valid(t)
  <2>1. PICK held, left, kept, more :
          /\ Become([sock EXCEPT !.pendingLive = held, !.queued = left],
                    [bodies EXCEPT ![t].phase = "sending", ![t].batches = kept, ![t].more = more], tail)
          /\ token' = token
    <3> DEFINE held == Held(bodies[t])
               left == Max2(0, sock.queued - (Len(sock.pendingLive) - Len(held)))
    <3>1. [sock EXCEPT !.pendingLive = Held(bodies[t]),
                       !.queued = Max2(0, @ - (Len(sock.pendingLive) - Len(Held(bodies[t]))))]
          = [sock EXCEPT !.pendingLive = held, !.queued = left]
      BY SockTyped DEF SocketType
    <3> DEFINE b == bodies[t]
               found == Selected(b)
               chosen == IF b.kind = "delta" \/ (b.kind = "cold" /\ ~b.tailMode) THEN found
                         ELSE Newest(found, WindowFrames * FrameSize)
               catchup == IF b.kind = "older" THEN <<>>
                          ELSE Entries(gen, Max2(lo, (IF b.raw.lo <= b.raw.hi THEN b.raw.hi ELSE 0) + 1), hi)
               batches == Batches(chosen \o catchup)
               kept == IF b.kind = "delta" THEN SubSeq(batches, 1, Min2(WindowFrames, Len(batches)))
                                           ELSE Newest(batches, WindowFrames)
               more == \/ Len(chosen) < Len(found)
                       \/ b.kind # "delta" /\ Len(kept) < Len(batches)
                       \/ b.kind = "cold" /\ b.file > 0
    <3>2. /\ Become([sock EXCEPT !.pendingLive = Held(bodies[t]),
                       !.queued = Max2(0, @ - (Len(sock.pendingLive) - Len(Held(bodies[t]))))],
                    [bodies EXCEPT ![t].phase = "sending", ![t].batches = kept, ![t].more = more], tail)
          /\ token' = token
      BY <1>1, Zenon DEF Plan
    <3> HIDE DEF held, left, kept, more
    <3> QED BY <3>1, <3>2
  <2> DEFINE q == [sock EXCEPT !.pendingLive = held, !.queued = left]
             c == [bodies[t] EXCEPT !.phase = "sending", !.batches = kept, !.more = more]
  <2>2. bodies[t] \in Body /\ sock \in SocketType /\ sock.open
    BY <1>1, BodyOf, SockTyped DEF Valid
  <2>3. [bodies EXCEPT ![t].phase = "sending", ![t].batches = kept, ![t].more = more]
        = [bodies EXCEPT ![t] = c]
    BY <2>2 DEF Body
  <2>4. c.phase # "failing" /\ c.ended = bodies[t].ended
    BY <2>2 DEF Body
  <2>5. /\ q.out = sock.out /\ q.inflight = sock.inflight /\ q.queue = sock.queue
        /\ q.requests = sock.requests
    BY <2>2 DEF SocketType
  <2>a. Become(q, [bodies EXCEPT ![t] = c], tail)
    BY <2>1, <2>3
  <2> HIDE DEF c, q
  <2>6. Moves(q)
    <3>1. Answered(sock, token)
      BY <2>2 DEF ToldInv
    <3>2. Answered(q, token) /\ Tells(sock, q)
      BY <2>5, <3>1, SameMessages
    <3> QED BY <2>2, <3>2 DEF Moves
  <2>7. StillTelling(q, [bodies EXCEPT ![t] = c])
    BY <2>4, OneTells DEF Through
  <2> QED BY <2>1, <2>a, <2>6, <2>7, MoveTells
<1>2. CASE ~Valid(t)
  BY <1>2, DropTold DEF Plan
<1> QED BY <1>1, <1>2

\* A valid body's request, named by the browser.
LEMMA RequestNamed ==
  ASSUME IInv, ToldInv, NEW t, Valid(t)
  PROVE  LET r == RequestOf(sock, t) IN
         /\ r \in Req /\ r.token = t /\ r.key = t /\ IdOf(r.key) = t /\ t \in 1..token
         /\ sock.open /\ sock \in SocketType /\ Answered(sock, token)
<1> DEFINE r == RequestOf(sock, t)
<1>1. r \in Req /\ r.token = t /\ sock.open /\ \E i \in DOMAIN sock.requests : r = sock.requests[i]
  BY RequestActive
<1>2. PICK i \in DOMAIN sock.requests : r = sock.requests[i]
  BY <1>1
<1> HIDE DEF r
<1>3. Answered(sock, token)
  BY <1>1 DEF ToldInv
<1>4. r.key = r.token /\ r.token >= 1 /\ r.token <= token /\ r.token \in Nat /\ token \in Nat
  BY <1>1, <1>2, <1>3, SockTyped DEF Answered, Keyed, IInv, SocketInv, SocketOK, OwnTokens, Req
<1>5. IdOf(r.key) = t
  BY <1>1, <1>4 DEF IdOf
<1> QED BY <1>1, <1>3, <1>4, <1>5, SockTyped DEF r

LEMMA FinalFrame ==
  ASSUME NEW r, NEW t, IdOf(r.key) = t, NEW more, NEW error
  PROVE  Concludes(Frame(r, <<>>, TRUE, more, error), t)
BY DEF Frame, Concludes, IsFrame

\* What a body queues: typed, and no barrier.
LEMMA QueueTold ==
  ASSUME IInv, ToldInv, NEW t \in DOMAIN bodies, Valid(t), NEW item \in Item,
         item.kind = "barrier" => OnWay(sock, item.token) /\ item.token \in 1..token,
         NEW q, q = Enqueue(sock, item)
  PROVE  Moves(q) /\ (q.open => \A id : EndItem(item, id) => OnWay(q, id))
<1>1. sock.open /\ sock \in SocketType /\ Answered(sock, token)
  BY RequestNamed
<1>2. QueuedBehind(sock, item, q, token)
  BY <1>1, EnqueueTells
<1> QED BY <1>1, <1>2 DEF QueuedBehind, Moves

LEMMA AdmitUnavailableTold ==
  ASSUME IInv, ToldInv, NEW t \in DOMAIN bodies, AdmitUnavailable(t)
  PROVE  ToldInv'
<1> DEFINE r == RequestOf(sock, t)
           item == Message(FailedTerminal(r), r.key)
           s == Enqueue(sock, item)
           q == Enqueue(s, Barrier(r))
<1>1. CASE ~Valid(t)
  BY <1>1, DropTold DEF AdmitUnavailable
<1>2. CASE Valid(t)
  <2>1. /\ r \in Req /\ r.token = t /\ r.key = t /\ IdOf(r.key) = t /\ t \in 1..token
        /\ sock.open /\ sock \in SocketType /\ Answered(sock, token) /\ gen \in Gens
        /\ SocketOK(sock, token)
    BY <1>2, RequestNamed, SockTyped DEF IInv, SocketInv
  <2>2. item \in Item /\ item.kind = "message" /\ EndItem(item, t)
    <3>1. FailedTerminal(r) \in Msg /\ r.key \in Int /\ Concludes(FailedTerminal(r), t)
      BY <2>1, TerminalIsMsg, FinalFrame DEF Req, FailedTerminal
    <3> HIDE DEF r
    <3>2. item \in MessageItem
      BY <3>1, MessageIs
    <3> QED BY <2>1, <3>1, <3>2 DEF Item, MessageItem, EndItem, Message
  <2>3. Barrier(r) \in Item /\ Barrier(r).token = t
    BY <2>1, BarrierIs
  <2>4. /\ token' = token
        /\ \/ Become(s, [bodies EXCEPT ![t].phase = "failing"], tail)
           \/ Become(IF s.open THEN q ELSE s, DropBody(bodies, t), tail)
    BY <1>2 DEF AdmitUnavailable
  <2> HIDE DEF item, r
  <2>5. s \in SocketType
    BY <2>1, <2>2, EnqueueOK DEF SocketOK
  <2>6. Moves(s) /\ (s.open => OnWay(s, t))
    <3> HIDE DEF s
    <3>1. \A w : w = Enqueue(sock, item) => Moves(w) /\ (w.open => \A id : EndItem(item, id) => OnWay(w, id))
      BY <1>2, <2>2, QueueTold
    <3>2. Moves(s) /\ (s.open => \A id : EndItem(item, id) => OnWay(s, id))
      BY <3>1 DEF s
    <3> QED BY <2>2, <3>2
  <2> HIDE DEF s
  <2>7. CASE Become(s, [bodies EXCEPT ![t].phase = "failing"], tail)
    <3> DEFINE c == [bodies[t] EXCEPT !.phase = "failing"]
    <3>1. [bodies EXCEPT ![t].phase = "failing"] = [bodies EXCEPT ![t] = c]
      BY BodyOf DEF Body
    <3> HIDE DEF c
    <3>2. s.open => StillTelling(s, [bodies EXCEPT ![t] = c])
      BY <2>6, OneTells
    <3> QED BY <2>4, <2>6, <2>7, <3>1, <3>2, MoveTells
  <2>8. CASE Become(IF s.open THEN q ELSE s, DropBody(bodies, t), tail)
    <3>1. CASE ~s.open
      BY <2>4, <2>6, <2>8, <3>1, DropTells, MoveTells
    <3>2. CASE s.open
      <4>1. Answered(s, token)
        BY <2>6, <3>2 DEF Moves
      <4>2. QueuedBehind(s, Barrier(r), q, token)
        BY <2>1, <2>3, <2>5, <2>6, <3>2, <4>1, EnqueueTells
      <4>3. Moves(q)
        BY <2>6, <3>2, <4>2 DEF Moves, QueuedBehind, Tells
      <4>4. Become(q, DropBody(bodies, t), tail)
        BY <2>8, <3>2
      <4> HIDE DEF q
      <4> QED BY <2>4, <4>3, <4>4, DropTells, MoveTells
    <3> QED BY <3>1, <3>2
  <2> QED BY <2>4, <2>7, <2>8
<1> QED BY <1>1, <1>2

LEMMA DrainedTold ==
  ASSUME Drained, NEW id, OnWay(sock, id)
  PROVE  Told(sock, id)
BY DEF Drained, OnWay, Telling

\* A body through with a request, older than which nothing is queued.
LEMMA CompleteMoves ==
  ASSUME IInv, ToldInv, sock.open, Drained, NEW t \in DOMAIN bodies, Through(bodies[t]),
         NEW q, q = CompleteRequest(sock, t)
  PROVE  Moves(q)
<1>1. Answered(sock, token) /\ OnWay(sock, t) /\ SocketOK(sock, token)
  BY DEF ToldInv, BodiesTell, IInv, SocketInv
<1>2. Completed(sock, q, token)
  BY <1>1, DrainedTold, CompleteTells
<1> QED BY <1>2 DEF Completed, Moves

LEMMA SendNextTold ==
  ASSUME IInv, ToldInv, NEW t \in DOMAIN bodies, SendNext(t)
  PROVE  ToldInv'
<1> DEFINE b == bodies[t]
           r == RequestOf(sock, t)
<1>1. CASE ~Valid(t)
  BY <1>1, DropTold DEF SendNext
<1>2. CASE Valid(t)
  <2>1. /\ r \in Req /\ r.token = t /\ r.key = t /\ IdOf(r.key) = t /\ t \in 1..token
        /\ sock.open /\ sock \in SocketType /\ Answered(sock, token) /\ gen \in Gens
    BY <1>2, RequestNamed, SockTyped
  <2>2. b \in Body /\ b.batches \in Seq(Seq(Event)) /\ b.more \in BOOLEAN /\ token' = token
    BY BodyOf DEF Body, SendNext
  <2>3. ASSUME NEW msg \in Msg, NEW c, Become(Enqueue(sock, Message(msg, r.key)), [bodies EXCEPT ![t] = c], tail),
               Through(c) => Through(b) \/ Concludes(msg, t)
        PROVE  ToldInv'
    <3> DEFINE item == Message(msg, r.key)
               q == Enqueue(sock, item)
    <3>1. item \in Item /\ item.kind = "message" /\ (Concludes(msg, t) => EndItem(item, t))
      <4> HIDE DEF r
      <4>1. item \in MessageItem
        BY <2>1, MessageIs DEF Req
      <4> QED BY <2>1, <4>1 DEF Item, MessageItem, EndItem, Message
    <3>2. Become(q, [bodies EXCEPT ![t] = c], tail)
      BY <2>3
    <3> HIDE DEF item
    <3>3. \A w : w = Enqueue(sock, item) => Moves(w) /\ (w.open => \A id : EndItem(item, id) => OnWay(w, id))
      BY <1>2, <3>1, QueueTold
    <3>4. Moves(q) /\ (q.open /\ Concludes(msg, t) => OnWay(q, t))
      BY <3>1, <3>3
    <3> HIDE DEF q
    <3>5. q.open => StillTelling(q, [bodies EXCEPT ![t] = c])
      BY <2>3, <3>4, OneTells
    <3> QED BY <2>2, <3>2, <3>4, <3>5, MoveTells
  <2>4. CASE b.reset
    <3> DEFINE c == [b EXCEPT !.reset = FALSE]
    <3>1. Reset(IdOf(r.key)) \in Msg
      BY <2>1 DEF Reset, Msg
    <3>2. Become(Enqueue(sock, Message(Reset(IdOf(r.key)), r.key)), [bodies EXCEPT ![t] = c], tail)
      BY <1>2, <2>4 DEF SendNext
    <3>3. c.phase = b.phase /\ c.ended = b.ended
      BY <2>2 DEF Body
    <3> HIDE DEF r, c, b
    <3> QED BY <2>3, <3>1, <3>2, <3>3 DEF Through
  <2>5. CASE ~b.reset /\ b.batches # <<>>
    <3> DEFINE msg == Frame(r, Head(b.batches), FALSE, b.more, FALSE)
               rest == Tail(b.batches)
               c == [b EXCEPT !.batches = rest]
    <3>1. msg \in Msg
      <4>1. Head(b.batches) \in Seq(Event)
        BY <2>2, <2>5
      <4> HIDE DEF b, r
      <4> QED BY <2>1, <2>2, <4>1, FrameIs
    <3>2. Become(Enqueue(sock, Message(msg, r.key)), [bodies EXCEPT ![t] = [b EXCEPT !.batches = Tail(@)]], tail)
      BY <1>2, <2>5 DEF SendNext
    <3>3. [b EXCEPT !.batches = Tail(@)] = c
      BY <2>2 DEF Body
    <3> HIDE DEF rest
    <3>4. c.phase = b.phase /\ c.ended = b.ended
      BY <2>2 DEF Body
    <3>5. Become(Enqueue(sock, Message(msg, r.key)), [bodies EXCEPT ![t] = c], tail)
      BY <3>2, <3>3
    <3> HIDE DEF r, c, b, msg
    <3> QED BY <2>3, <3>1, <3>4, <3>5 DEF Through
  <2>6. CASE ~b.reset /\ b.batches = <<>> /\ ~b.ended
    <3> DEFINE msg == Frame(r, <<>>, TRUE, b.more, FALSE)
               c == [b EXCEPT !.ended = TRUE]
    <3>1. msg \in Msg /\ Concludes(msg, t)
      <4>1. <<>> \in Seq(Event)
        OBVIOUS
      <4> HIDE DEF b, r
      <4> QED BY <2>1, <2>2, <4>1, FrameIs, FinalFrame
    <3>2. Become(Enqueue(sock, Message(msg, r.key)), [bodies EXCEPT ![t] = c], tail)
      BY <1>2, <2>6 DEF SendNext
    <3> HIDE DEF r, c, b, msg
    <3> QED BY <2>3, <3>1, <3>2
  <2>7. CASE ~b.reset /\ b.batches = <<>> /\ b.ended
    <3> DEFINE c == [b EXCEPT !.phase = "closing"]
               u == CompleteRequest(sock, t)
               v == Enqueue(sock, Barrier(r))
    <3>1. Become(IF r.kind = "older" THEN u ELSE v, [bodies EXCEPT ![t].phase = "closing"], tail)
      BY <1>2, <2>7 DEF SendNext
    <3>2. [bodies EXCEPT ![t].phase = "closing"] = [bodies EXCEPT ![t] = c]
      BY <2>2 DEF Body
    <3>3. Through(b) /\ Drained
      BY <2>7 DEF Through, SendNext
    <3>4. Moves(u)
      <4>1. \A w : w = CompleteRequest(sock, t) => Moves(w)
        BY <2>1, <3>3, CompleteMoves
      <4> QED BY <4>1
    <3>5. Moves(v)
      <4>1. OnWay(sock, t)
        BY <2>1, <3>3 DEF ToldInv, BodiesTell
      <4>2. Barrier(r) \in Item /\ Barrier(r).token = t
        BY <2>1, BarrierIs
      <4> HIDE DEF r
      <4>3. \A w : w = Enqueue(sock, Barrier(r)) => Moves(w)
        BY <1>2, <2>1, <4>1, <4>2, QueueTold
      <4> QED BY <4>3
    <3>6. \A q : StillTelling(q, [bodies EXCEPT ![t] = c])
      BY <3>3, OneTells
    <3> HIDE DEF u, v, c, r
    <3> QED BY <2>2, <3>1, <3>2, <3>4, <3>5, <3>6, MoveTells
  <2> QED BY <2>2, <2>4, <2>5, <2>6, <2>7
<1> QED BY <1>1, <1>2

LEMMA CloseTold ==
  ASSUME IInv, ToldInv, NEW t \in DOMAIN bodies, Close(t)
  PROVE  ToldInv'
<1>1. CASE Become(sock, DropBody(bodies, t), Tail(tail))
  BY <1>1, DropTold DEF Close
<1>2. CASE bodies[t].phase = "failing" /\ Become(CompleteRequest(sock, t), DropBody(bodies, t), tail)
  <2> DEFINE q == CompleteRequest(sock, t)
  <2>1. Through(bodies[t]) /\ Drained /\ token' = token
    BY <1>2 DEF Through, Close
  <2>2. Moves(q)
    <3>1. CASE sock.open
      <4>1. \A w : w = CompleteRequest(sock, t) => Moves(w)
        BY <2>1, <3>1, CompleteMoves
      <4> QED BY <4>1
    <3>2. CASE ~sock.open
      <4>1. SocketOK(sock, token) /\ sock.requests = <<>>
        BY <3>2 DEF IInv, SocketInv, SocketOK
      <4>2. q = sock
        BY <4>1 DEF CompleteRequest, Active
      <4> QED BY <4>2, StayMoves
    <3> QED BY <3>1, <3>2
  <2> HIDE DEF q
  <2> QED BY <1>2, <2>1, <2>2, DropTells, MoveTells DEF q
<1> QED BY <1>1, <1>2 DEF Close, InPhase

\* What the drain takes leaves the rest behind it, a terminal once it is sent
\* or in hand.
LEMMA TakenTells ==
  ASSUME NEW s \in SocketType, NEW n, Answered(s, n), s.queue # <<>>, s.inflight = None,
         NEW q, q.queue = Tail(s.queue), q.requests = s.requests,
         \A id : Told(s, id) => Told(q, id),
         \A id \in 1..n : EndItem(Head(s.queue), id) => Told(q, id) \/ Telling(q, id)
  PROVE  Answered(q, n) /\ \A id \in 1..n : OnWay(s, id) => OnWay(q, id)
<1>1. /\ \A i \in DOMAIN Tail(s.queue) : i \in Nat /\ i + 1 \in DOMAIN s.queue /\ Tail(s.queue)[i] = s.queue[i + 1]
      /\ \A k \in DOMAIN s.queue : \/ k = 1 /\ s.queue[k] = Head(s.queue)
                                   \/ k \in Nat /\ k - 1 \in DOMAIN Tail(s.queue)
                                      /\ Tail(s.queue)[k - 1] = s.queue[k]
  <2> DEFINE u == s.queue
             v == Tail(u)
  <2>1. u \in Seq(Item) /\ u # <<>>
    BY DEF SocketType
  <2>2. /\ v \in Seq(Item) /\ Len(v) = Len(u) - 1 /\ Len(u) \in Nat /\ Len(v) \in Nat
        /\ \A i \in 1..Len(v) : v[i] = u[i + 1]
    <3> HIDE DEF u
    <3> QED BY <2>1, HeadTailProperties, LenProperties
  <2>3. Head(u) = u[1] /\ DOMAIN u = 1..Len(u)
    <3> HIDE DEF u
    <3> QED BY <2>1
  <2>4. DOMAIN v = 1..Len(v)
    <3> HIDE DEF v
    <3> QED BY <2>2
  <2> HIDE DEF u, v
  <2>5. \A i \in DOMAIN v : i \in Nat /\ i + 1 \in DOMAIN u /\ v[i] = u[i + 1]
    BY <2>2, <2>3, <2>4
  <2>6. \A k \in DOMAIN u : \/ k = 1 /\ u[k] = Head(u)
                            \/ k \in Nat /\ k - 1 \in DOMAIN v /\ v[k - 1] = u[k]
    BY <2>2, <2>3, <2>4
  <2> QED BY <2>5, <2>6 DEF u, v
<1> DEFINE rest == Tail(s.queue)
           head == Head(s.queue)
<1> HIDE DEF rest, head
<1>2. /\ \A i \in DOMAIN rest : i \in Nat /\ i + 1 \in DOMAIN s.queue /\ rest[i] = s.queue[i + 1]
      /\ \A k \in DOMAIN s.queue : \/ k = 1 /\ s.queue[k] = head
                                   \/ k \in Nat /\ k - 1 \in DOMAIN rest /\ rest[k - 1] = s.queue[k]
      /\ q.queue = rest
      /\ \A id \in 1..n : EndItem(head, id) => Told(q, id) \/ Telling(q, id)
  BY <1>1 DEF rest, head
<1>3. \A id : ~Telling(s, id)
  BY DEF Telling
<1>4. Keyed(q) /\ Numbered(q, n)
  <2>1. Keyed(q)
    BY DEF Answered, Keyed
  <2>2. Numbered(s, n)
    BY DEF Answered
  <2>3. Numbered(q, n)
    BY <1>2, <2>2, ZenonT(30) DEF Numbered
  <2> QED BY <2>1, <2>3
<1>5. ASSUME NEW id \in 1..n, BehindEnd(s, id) PROVE BehindEnd(q, id)
  <2> SUFFICES ASSUME NEW j \in DOMAIN rest, rest[j].kind = "barrier", rest[j].token = id,
                      ~Told(q, id), ~Telling(q, id)
               PROVE  \E k \in DOMAIN rest : k < j /\ EndItem(rest[k], id)
    BY <1>2 DEF BehindEnd
  <2>1. j \in Nat /\ j + 1 \in DOMAIN s.queue /\ s.queue[j + 1] = rest[j]
    BY <1>2
  <2>2. PICK k \in DOMAIN s.queue : k < j + 1 /\ EndItem(s.queue[k], id)
    BY <1>3, <1>5, <2>1 DEF BehindEnd
  <2>3. k \in Nat /\ k - 1 \in DOMAIN rest /\ rest[k - 1] = s.queue[k]
    BY <1>2, <2>2
  <2>4. k - 1 < j
    BY <2>1, <2>2, <2>3
  <2> QED BY <2>2, <2>3, <2>4
<1>6. \A id \in 1..n : Active(s, id) <=> Active(q, id)
  BY DEF Active
<1>7. Answered(q, n)
  BY <1>4, <1>5, <1>6 DEF Answered
<1>8. ASSUME NEW id \in 1..n, OnWay(s, id) PROVE OnWay(q, id)
  <2>1. CASE Told(s, id)
    BY <2>1 DEF OnWay
  <2>2. CASE \E k \in DOMAIN s.queue : EndItem(s.queue[k], id)
    BY <1>2, <2>2 DEF OnWay
  <2> QED BY <1>3, <1>8, <2>1, <2>2 DEF OnWay
<1> QED BY <1>7, <1>8

LEMMA WithinTells ==
  ASSUME IInv, ToldInv, NEW q, NEW tl, Become(q, bodies, tl), token' = token,
         q.open => /\ sock.open /\ Answered(q, token)
                   /\ \A id \in 1..token : OnWay(sock, id) => OnWay(q, id)
  PROVE  ToldInv'
<1>1. DOMAIN bodies \subseteq 1..token
  BY DEF IInv, SocketInv, Serving, BodiesOK
<1>2. q.open => BodiesTell(q, bodies)
  BY <1>1 DEF ToldInv, BodiesTell
<1> QED BY <1>2, BecomeTells

\* One more message sent.
LEMMA SentTells ==
  ASSUME NEW s \in SocketType, NEW msg \in Msg, NEW q, q.out = Append(s.out, msg)
  PROVE  /\ \A id : Told(s, id) => Told(q, id)
         /\ \A id : Concludes(msg, id) => Told(q, id)
<1> DEFINE n == Len(s.out)
           o == Append(s.out, msg)
<1>1. s.out \in Seq(Msg)
  BY DEF SocketType
<1>2. /\ n \in Nat /\ DOMAIN s.out = 1..n /\ DOMAIN o = 1..(n + 1)
      /\ \A i \in 1..n : o[i] = s.out[i]
      /\ o[n + 1] = msg
  BY <1>1, AppendProperties, LenProperties
<1> HIDE DEF n, o
<1>3. /\ \A i \in DOMAIN s.out : i \in DOMAIN o /\ o[i] = s.out[i]
      /\ n + 1 \in DOMAIN o /\ o[n + 1] = msg
  BY <1>2
<1>4. q.out = o
  BY DEF o
<1> QED BY <1>3, <1>4 DEF Told

LEMMA DrainTakeTold ==
  ASSUME IInv, ToldInv, DrainTake
  PROVE  ToldInv'
<1> DEFINE item == Head(sock.queue)
           rest == Tail(sock.queue)
           s == [sock EXCEPT !.queue = rest]
<1>1. /\ sock \in SocketType /\ sock.queue \in Seq(Item) /\ sock.queue # <<>> /\ sock.inflight = None
      /\ sock.open /\ SocketOK(sock, token) /\ Answered(sock, token) /\ token' = token
  BY SockTyped DEF SocketType, DrainTake, CanTake, IInv, SocketInv, ToldInv
<1>2. rest \in Seq(Item) /\ item \in Item
  BY <1>1, HeadTailProperties
<1>3. \/ item.kind = "barrier" /\ Become(CompleteRequest(s, item.token), bodies, tail)
      \/ /\ item.kind = "message" /\ item.key # NoId /\ ~HasRequest(s, item.key)
         /\ Become([s EXCEPT !.queued = Max2(0, @ - item.count)], bodies, tail)
      \/ /\ item.kind = "message"
         /\ Become(Sent(s, item), bodies, tail) \/ Become([s EXCEPT !.inflight = item], bodies, tail)
  <2>1. \/ item.kind = "barrier" /\ Become(CompleteRequest(s, item.token), bodies, tail)
        \/ /\ item.kind = "message" /\ item.key # NoId /\ ~HasRequest(s, item.key)
           /\ Become([s EXCEPT !.queued = Max2(0, @ - item.count)], bodies, tail)
        \/ /\ item.kind = "message"
           /\ \E n \in {Sent(s, item), [s EXCEPT !.inflight = item]} : Become(n, bodies, tail)
    BY DEF DrainTake
  <2> HIDE DEF rest, item, s
  <2> QED BY <2>1
<1>4. ASSUME NEW q, q.queue = rest, q.requests = sock.requests,
             \A id : Told(sock, id) => Told(q, id),
             \A id \in 1..token : EndItem(item, id) => Told(q, id) \/ Telling(q, id)
      PROVE  Answered(q, token) /\ \A id \in 1..token : OnWay(sock, id) => OnWay(q, id)
  BY <1>1, <1>4, TakenTells
<1>5. item.kind = "barrier" /\ Active(sock, item.token) => Told(sock, item.token)
  <2> SUFFICES ASSUME item.kind = "barrier", Active(sock, item.token) PROVE Told(sock, item.token)
    OBVIOUS
  <2>1. 1 \in DOMAIN sock.queue /\ sock.queue[1] = item /\ \A k \in DOMAIN sock.queue : ~(k < 1)
    <3> HIDE DEF Item
    <3> QED BY <1>1
  <2> HIDE DEF item
  <2>2. item.token \in 1..token
    BY <1>1, <2>1 DEF Answered, Numbered
  <2>3. BehindEnd(sock, item.token)
    BY <1>1, <2>2 DEF Answered
  <2> QED BY <1>1, <2>1, <2>3 DEF BehindEnd, Telling
<1> HIDE DEF rest, item
<1>6. /\ s \in SocketType /\ s.queue = rest /\ s.requests = sock.requests /\ s.out = sock.out
      /\ s.inflight = None /\ s.suppressed = sock.suppressed /\ s.open = sock.open
      /\ s.pendingLive = sock.pendingLive
  BY <1>1, <1>2 DEF SocketType
<1> HIDE DEF s
<1>7. \A id : (Told(s, id) <=> Told(sock, id)) /\ (Active(s, id) <=> Active(sock, id))
  BY <1>6 DEF Told, Active
<1>8. CASE item.kind = "barrier" /\ Become(CompleteRequest(s, item.token), bodies, tail)
  <2>1. \A id : ~EndItem(item, id)
    BY <1>8 DEF EndItem
  <2>2. Answered(s, token) /\ \A id \in 1..token : OnWay(sock, id) => OnWay(s, id)
    BY <1>4, <1>6, <1>7, <2>1
  <2>3. SocketOK(s, token)
    BY <1>1, <1>6, SameRequestsOK DEF SocketOK, Suppressing
  <2>4. \A q : q = CompleteRequest(s, item.token) => Completed(s, q, token)
    BY <1>5, <1>7, <1>8, <2>2, <2>3, CompleteTells
  <2>5. PICK q : q = CompleteRequest(s, item.token)
    OBVIOUS
  <2>6. q.open => Answered(q, token) /\ \A id \in 1..token : OnWay(sock, id) => OnWay(q, id)
    BY <2>2, <2>4, <2>5 DEF Completed, Tells
  <2>7. Become(q, bodies, tail)
    BY <1>8, <2>5
  <2> QED BY <1>1, <2>6, <2>7, WithinTells
<1>9. CASE /\ item.kind = "message" /\ item.key # NoId /\ ~HasRequest(s, item.key)
           /\ Become([s EXCEPT !.queued = Max2(0, @ - item.count)], bodies, tail)
  <2> DEFINE left == Max2(0, s.queued - item.count)
             q == [s EXCEPT !.queued = left]
  <2>1. [s EXCEPT !.queued = Max2(0, @ - item.count)] = q
    BY <1>6 DEF SocketType
  <2> HIDE DEF left
  <2>2. q.queue = rest /\ q.requests = sock.requests /\ q.out = sock.out
    BY <1>6 DEF SocketType
  <2> HIDE DEF q
  <2>3. \A id : Told(sock, id) <=> Told(q, id)
    BY <2>2 DEF Told
  <2>4. ASSUME NEW id \in 1..token, EndItem(item, id) PROVE Told(q, id)
    <3>1. ~Active(sock, id)
      BY <1>1, <1>6, <1>9, <2>4 DEF EndItem, HasRequest, Active, Answered, Keyed
    <3> QED BY <1>1, <2>3, <3>1 DEF Answered
  <2>5. Answered(q, token) /\ \A id \in 1..token : OnWay(sock, id) => OnWay(q, id)
    BY <1>4, <2>2, <2>3, <2>4
  <2>6. Become(q, bodies, tail)
    BY <1>9, <2>1
  <2> QED BY <1>1, <2>5, <2>6, WithinTells
<1>10. CASE item.kind = "message" /\ Become(Sent(s, item), bodies, tail)
  <2> DEFINE left == Max2(0, s.queued - item.count)
             o == Append(s.out, item.msg)
             q == [s EXCEPT !.out = o, !.queued = left]
  <2>1. Sent(s, item) = q
    BY <1>6 DEF SocketType, Sent
  <2>2. item.msg \in Msg
    BY <1>2, <1>10 DEF Item, MessageItem
  <2> HIDE DEF left, o
  <2>3. q.queue = rest /\ q.requests = sock.requests /\ q.out = o
    BY <1>6 DEF SocketType
  <2> HIDE DEF q
  <2>4. /\ \A id : Told(sock, id) => Told(q, id)
        /\ \A id : Concludes(item.msg, id) => Told(q, id)
    BY <1>6, <1>7, <2>2, <2>3, SentTells DEF o
  <2>5. Answered(q, token) /\ \A id \in 1..token : OnWay(sock, id) => OnWay(q, id)
    BY <1>4, <2>3, <2>4 DEF EndItem
  <2>6. Become(q, bodies, tail)
    BY <1>10, <2>1
  <2> QED BY <1>1, <2>5, <2>6, WithinTells
<1>11. CASE item.kind = "message" /\ Become([s EXCEPT !.inflight = item], bodies, tail)
  <2> DEFINE q == [s EXCEPT !.inflight = item]
  <2>1. q.queue = rest /\ q.requests = sock.requests /\ q.out = sock.out /\ q.inflight = item
    BY <1>6 DEF SocketType
  <2>2. item # None
    BY <1>2, <1>11, NoneAssumption DEF Item, MessageItem
  <2>3. Become(q, bodies, tail)
    BY <1>11
  <2> HIDE DEF q
  <2>4. \A id : /\ Told(sock, id) => Told(q, id)
                /\ EndItem(item, id) => Telling(q, id)
    BY <2>1, <2>2 DEF Told, Telling, EndItem
  <2>5. Answered(q, token) /\ \A id \in 1..token : OnWay(sock, id) => OnWay(q, id)
    BY <1>4, <2>1, <2>4
  <2> QED BY <1>1, <2>3, <2>5, WithinTells
<1> QED BY <1>3, <1>8, <1>9, <1>10, <1>11

LEMMA MicrotaskTold ==
  ASSUME IInv, ToldInv, Microtask
  PROVE  ToldInv'
BY AdmitTold, AdmitUnavailableTold, TakeSnapshotTold, PlanTold, SendNextTold, CloseTold, DrainTakeTold
   DEF Microtask

\* A socket with the same requests and queue that has said no less.
LEMMA SaidMore ==
  ASSUME NEW s, NEW q, NEW n, Answered(s, n), q.queue = s.queue, q.requests = s.requests,
         \A id : Told(s, id) => Told(q, id),
         \A id : Telling(s, id) => Told(q, id) \/ Telling(q, id)
  PROVE  Answered(q, n) /\ Tells(s, q)
<1>1. \A id : (Active(q, id) <=> Active(s, id)) /\ (BehindEnd(s, id) => BehindEnd(q, id))
  BY DEF Active, BehindEnd
<1>2. Keyed(q) /\ Numbered(q, n)
  BY DEF Answered, Keyed, Numbered
<1>3. Answered(q, n)
  BY <1>1, <1>2 DEF Answered
<1> QED BY <1>3 DEF Tells, OnWay

LEMMA DrainSendTold ==
  ASSUME IInv, ToldInv, DrainSend
  PROVE  ToldInv'
<1> DEFINE item == sock.inflight
           o == Append(sock.out, item.msg)
           left == Max2(0, sock.queued - item.count)
           q == [sock EXCEPT !.out = o, !.queued = left, !.inflight = None]
<1>1. sock \in SocketType /\ item.msg \in Msg /\ sock.open
  BY SockTyped DEF SocketType, DrainSend, MessageItem
<1>2. sock' = q
  BY <1>1 DEF DrainSend, Sent, SocketType
<1> HIDE DEF o, left, item
<1>3. q.out = o /\ q.queue = sock.queue /\ q.requests = sock.requests /\ q.open
  BY <1>1 DEF SocketType
<1> HIDE DEF q
<1>4. /\ \A id : Told(sock, id) => Told(q, id)
      /\ \A id : Concludes(item.msg, id) => Told(q, id)
  BY <1>1, <1>3, SentTells DEF o
<1>5. Answered(q, token) /\ Tells(sock, q)
  <2>1. Answered(sock, token)
    BY <1>1 DEF ToldInv
  <2>2. \A id : Telling(sock, id) => Told(q, id)
    BY <1>4 DEF Telling, item
  <2> QED BY <1>3, <1>4, <2>1, <2>2, SaidMore
<1>6. Become(q, bodies, tail) /\ token' = token
  BY <1>2, <1>3 DEF Become, DrainSend
<1>7. Moves(q) /\ StillTelling(q, bodies)
  BY <1>1, <1>5 DEF Moves, StillTelling
<1> QED BY <1>6, <1>7, MoveTells

LEMMA EventForwardTold ==
  ASSUME IInv, ToldInv, EventForward
  PROVE  ToldInv'
<1> DEFINE e == [gen |-> gen, seq |-> hi + 1]
<1>1. sock \in SocketType /\ e \in Event /\ token' = token
  BY SockTyped DEF Event, EventForward
<1>2. \/ Become(sock, bodies, tail)
      \/ sock.open /\ Become(SuppressLive(sock, e), bodies, tail)
      \/ sock.open /\ Become(Enqueue(sock, LiveItem(e)), bodies, tail)
  <2>1. CASE ~sock.open \/ ~sock.present \/ replaying
    BY <2>1 DEF EventForward
  <2>2. CASE ~(~sock.open \/ ~sock.present \/ replaying) /\ sock.suppressed
    BY <2>2 DEF EventForward
  <2>3. CASE ~(~sock.open \/ ~sock.present \/ replaying) /\ ~sock.suppressed
    BY <2>3 DEF EventForward
  <2> QED BY <2>1, <2>2, <2>3
<1> HIDE DEF e
<1>3. \A q : StillTelling(q, bodies)
  BY DEF StillTelling
<1>4. ASSUME sock.open PROVE Moves(SuppressLive(sock, e))
  <2> DEFINE held == Append(sock.pendingLive, e)
             more == sock.queued + 1
             longer == [sock EXCEPT !.pendingLive = held, !.queued = more]
             o == sock.out \o Terminals(sock.requests)
             over == [EmptySocket EXCEPT !.open = FALSE, !.out = o]
  <2>1. SuppressLive(sock, e) \in {sock, longer, over}
    BY <1>1 DEF SuppressLive, QueueOverflow, SocketType
  <2> HIDE DEF held, more, o
  <2>2. ~over.open
    BY DEF EmptySocket
  <2>3. /\ longer.out = sock.out /\ longer.inflight = sock.inflight /\ longer.queue = sock.queue
        /\ longer.requests = sock.requests
    BY <1>1 DEF SocketType
  <2> HIDE DEF longer, over
  <2>4. Answered(longer, token) /\ Tells(sock, longer)
    <3>1. Answered(sock, token)
      BY <1>4 DEF ToldInv
    <3> QED BY <2>3, <3>1, SameMessages
  <2> QED BY <1>4, <2>1, <2>2, <2>4, StayMoves DEF Moves
<1>5. ASSUME sock.open PROVE Moves(Enqueue(sock, LiveItem(e)))
  <2>1. Answered(sock, token)
    BY <1>5 DEF ToldInv
  <2>2. LiveItem(e) \in Item /\ LiveItem(e).kind # "barrier"
    BY <1>1, LiveItemIs
  <2>3. \A q : q = Enqueue(sock, LiveItem(e)) => QueuedBehind(sock, LiveItem(e), q, token)
    BY <1>1, <2>1, <2>2, EnqueueTells
  <2> QED BY <1>5, <2>3 DEF QueuedBehind, Moves
<1> QED BY <1>1, <1>2, <1>3, <1>4, <1>5, StayMoves, MoveTells

LEMMA LoadDoneTold ==
  ASSUME IInv, ToldInv, NEW ok \in BOOLEAN, LoadDone(ok)
  PROVE  ToldInv'
<1>1. /\ sock' = sock /\ token' = token /\ DOMAIN bodies' = DOMAIN bodies
      /\ \A t \in DOMAIN bodies :
           \/ bodies'[t] = bodies[t]
           \/ \E phase \in Phases \ {"failing"} : bodies'[t] = [bodies[t] EXCEPT !.phase = phase]
           \/ \E file : bodies'[t] = [bodies[t] EXCEPT !.phase = "loaded", !.file = file]
  BY DEF LoadDone, LoadFills, Phases
<1>2. \A t \in DOMAIN bodies : Through(bodies'[t]) => Through(bodies[t])
  <2> SUFFICES ASSUME NEW t \in DOMAIN bodies PROVE Through(bodies'[t]) => Through(bodies[t])
    OBVIOUS
  <2>1. bodies[t] \in Body
    BY BodyOf
  <2> QED BY <1>1, <2>1 DEF Through, Body
<1> DEFINE bs == bodies'
<1>3. sock.open => Answered(sock, token) /\ BodiesTell(sock, bs)
  BY <1>1, <1>2 DEF ToldInv, BodiesTell
<1>4. PICK tl : tl = tail'
  OBVIOUS
<1> HIDE DEF bs
<1>5. sock.open => Become(sock, bs, tl)
  BY <1>1, <1>4 DEF Become, bs
<1> QED
  <2>1. CASE sock.open
    BY <1>1, <1>3, <1>5, <2>1, BecomeTells
  <2>2. CASE ~sock.open
    BY <1>1, <2>2 DEF ToldInv
  <2> QED BY <2>1, <2>2

LEMMA SubscribeTold ==
  ASSUME "supersede" \notin Incidents, IInv, ToldInv, NEW m \in BrowserMessages, Subscribe(m)
  PROVE  ToldInv'
<1> DEFINE t     == token + 1
           r     == [token |-> t, key |-> m.id, kind |-> m.kind]
           same  == {x \in Range(sock.requests) : x.key = m.id}
           prior == Those(sock.requests, same)
           others == Range(sock.requests) \ same
           rest  == Those(sock.requests, others)
           requests == Append(rest, r)
           loads == ~HasEvents /\ HasFile
           phase == IF loads THEN "hydrating" ELSE "hydrated"
           b     == NewBody(m.kind, m.at, m.known, phase)
           sup   == sock.suppressed \/ m.kind # "older"
           q     == [sock EXCEPT !.present = TRUE, !.requests = requests, !.suppressed = sup]
<1>1. /\ token \in Nat /\ gen \in Gens /\ SocketOK(sock, token) /\ sock \in SocketType
      /\ sock.open /\ Answered(sock, token) /\ BodiesTell(sock, bodies)
      /\ sock.requests \in Seq(Req) /\ DOMAIN bodies \subseteq 1..token /\ sock.out \in Seq(Msg)
  BY DEF IInv, SocketInv, SocketOK, SocketType, StoreInv, Subscribe, ToldInv, Serving, BodiesOK
<1>2. m.id = t /\ m.kind \in KindSet
  <2>1. m \in Request
    BY BrowserMessagesAre
  <2>2. Ids = {t}
    BY DEF Ids
  <2>3. m.id \in Ids
    <3> DEFINE Older(kind) == [id : Ids, kind : {kind}, at : 1..(hi + 1), known : {gen, <<0, 0>>}]
    <3>1. \/ m \in UNION {Older(kind) : kind \in Kinds \ {"cold"}}
          \/ m \in [id : Ids, kind : Kinds \cap {"cold"}, at : {0}, known : {None, gen}]
      BY Zenon DEF BrowserMessages
    <3>2. \A kind : \A x \in Older(kind) : x.id \in Ids
      OBVIOUS
    <3>3. \A x \in [id : Ids, kind : Kinds \cap {"cold"}, at : {0}, known : {None, gen}] : x.id \in Ids
      OBVIOUS
    <3> HIDE DEF Older
    <3> QED BY <3>1, <3>2, <3>3
  <2> QED BY <2>1, <2>2, <2>3 DEF Request
<1>3. /\ token' = t
      /\ sock' \in Direct([sock EXCEPT !.present = TRUE,
                   !.requests = Append(rest, r), !.suppressed = @ \/ m.kind # "older"], Terminals(prior))
      /\ bodies' = [u \in DOMAIN bodies \cup {t} |-> IF u # t THEN bodies[u] ELSE b]
  BY DEF Subscribe
<1>4. [sock EXCEPT !.present = TRUE,
         !.requests = Append(rest, r), !.suppressed = @ \/ m.kind # "older"] = q
  BY <1>1 DEF SocketType
<1>5. /\ rest \in Seq(Req)
      /\ \A i \in DOMAIN rest : \E j \in DOMAIN sock.requests : rest[i] = sock.requests[j]
      /\ \A j \in DOMAIN sock.requests : \E i \in DOMAIN rest : rest[i] = sock.requests[j]
  <2>1. rest \in Seq(Req) /\ Leaves(sock.requests, others, Len(sock.requests), rest)
    <3> HIDE DEF others
    <3> QED BY <1>1, ThoseOf
  <2>2. \A j \in DOMAIN sock.requests : sock.requests[j] \in others
    <3>1. \A j \in DOMAIN sock.requests : sock.requests[j].key # t
      BY <1>1 DEF Answered, Keyed, SocketOK, OwnTokens
    <3> QED BY <1>2, <3>1 DEF Range
  <2> HIDE DEF others, rest
  <2>3. DOMAIN rest = 1..Len(rest) /\ DOMAIN sock.requests = 1..Len(sock.requests)
    BY <1>1, <2>1
  <2> QED BY <2>1, <2>2, <2>3 DEF Leaves
<1>6. Terminals(prior) \in Seq(Msg)
  <2>1. prior \in Seq(Req)
    <3> HIDE DEF same
    <3> QED BY <1>1, ThoseOf
  <2> HIDE DEF prior
  <2> QED BY <1>1, <2>1, TerminalsAreMsgs
<1>7. r \in Req /\ r.token = t /\ r.key = t
  BY <1>1, <1>2 DEF Req
<1> HIDE DEF prior, rest, r
<1>8. /\ \A i \in DOMAIN requests : \/ requests[i] = r
                                    \/ \E j \in DOMAIN sock.requests : requests[i] = sock.requests[j]
      /\ \A j \in DOMAIN sock.requests : \E i \in DOMAIN requests : requests[i] = sock.requests[j]
      /\ \E i \in DOMAIN requests : requests[i] = r
  <2>1. /\ Len(rest) \in Nat /\ DOMAIN rest = 1..Len(rest)
        /\ DOMAIN requests = 1..(Len(rest) + 1)
        /\ \A i \in 1..Len(rest) : requests[i] = rest[i]
        /\ requests[Len(rest) + 1] = r
    BY <1>5, <1>7, AppendProperties, LenProperties
  <2> HIDE DEF requests
  <2>2. \A i \in DOMAIN requests : i \in DOMAIN rest \/ i = Len(rest) + 1
    BY <2>1
  <2>3. \A i \in DOMAIN rest : i \in DOMAIN requests
    BY <2>1
  <2> QED BY <1>5, <2>1, <2>2, <2>3
<1> HIDE DEF requests, sup, b
<1>9. /\ q.out = sock.out /\ q.inflight = sock.inflight /\ q.queue = sock.queue
      /\ q.requests = requests /\ q.open
  BY <1>1 DEF SocketType
<1> DEFINE o == sock.out \o Terminals(prior)
           w == [q EXCEPT !.out = o]
<1>10. sock' = q \/ sock' = w
  BY <1>3, <1>4, <1>9 DEF Direct
<1> HIDE DEF q, o
<1>11. /\ sock'.inflight = sock.inflight /\ sock'.queue = sock.queue /\ sock'.requests = requests
       /\ sock'.open /\ (sock'.out = sock.out \/ sock'.out = o)
  <2>1. /\ w.inflight = sock.inflight /\ w.queue = sock.queue /\ w.requests = requests
        /\ w.open /\ w.out = o
    <3>1. DOMAIN q = DOMAIN sock
      BY DEF q
    <3>2. "out" \in DOMAIN sock
      BY <1>1 DEF SocketType
    <3> QED BY <1>9, <3>1, <3>2
  <2> HIDE DEF w
  <2> QED BY <1>9, <1>10, <2>1
<1>12. PICK p : p = sock'
  OBVIOUS
<1>13. \A i \in DOMAIN sock.out : i \in DOMAIN o /\ o[i] = sock.out[i]
  <2>1. PICK x \in Seq(Msg) : x = Terminals(prior)
    BY <1>6
  <2>2. o = sock.out \o x
    BY <2>1 DEF o
  <2> QED BY <1>1, <2>2, ConcatProperties, LenProperties
<1>14. \A id : /\ Told(sock, id) => Told(p, id)
               /\ Telling(sock, id) <=> Telling(p, id)
               /\ Active(sock, id) => Active(p, id)
               /\ OnWay(sock, id) => OnWay(p, id)
  <2>1. \A id : Told(sock, id) => Told(p, id)
    BY <1>11, <1>12, <1>13 DEF Told
  <2>2. \A id : (Telling(sock, id) <=> Telling(p, id)) /\ (Active(sock, id) => Active(p, id))
    BY <1>8, <1>11, <1>12 DEF Telling, Active
  <2> QED BY <1>11, <1>12, <2>1, <2>2 DEF OnWay
<1>15. Answered(p, t)
  <2>1. Keyed(p)
    BY <1>1, <1>7, <1>8, <1>11, <1>12 DEF Answered, Keyed
  <2>2. Numbered(sock, token)
    BY <1>1 DEF Answered
  <2>3. Numbered(p, t)
    BY <1>1, <1>11, <1>12, <2>2 DEF Numbered
  <2>4. ASSUME NEW id \in 1..token PROVE (Active(p, id) \/ Told(p, id)) /\ BehindEnd(p, id)
    <3>1. (Active(sock, id) \/ Told(sock, id)) /\ BehindEnd(sock, id)
      BY <1>1 DEF Answered
    <3>2. BehindEnd(p, id)
      BY <1>11, <1>12, <1>14, <3>1 DEF BehindEnd
    <3> QED BY <1>14, <3>1, <3>2
  <2>5. Active(p, t) /\ BehindEnd(p, t)
    <3>1. Active(p, t)
      BY <1>7, <1>8, <1>11, <1>12 DEF Active
    <3>2. BehindEnd(p, t)
      BY <1>1, <1>11, <1>12, <2>2 DEF BehindEnd, Numbered
    <3> QED BY <3>1, <3>2
  <2>6. \A id \in 1..t : id \in 1..token \/ id = t
    BY <1>1
  <2> HIDE DEF t
  <2> QED BY <2>1, <2>3, <2>4, <2>5, <2>6 DEF Answered
<1>16. \A u \in DOMAIN bodies' : Through(bodies'[u]) => u \in DOMAIN bodies /\ Through(bodies[u])
  <2>1. ~Through(b)
    BY DEF b, Through, NewBody
  <2> QED BY <1>3, <2>1
<1>17. PICK cs : cs = bodies'
  OBVIOUS
<1>18. BodiesTell(p, cs)
  BY <1>1, <1>14, <1>16, <1>17 DEF BodiesTell
<1>19. Answered(sock', token') /\ BodiesTell(sock', bodies')
  BY <1>3, <1>12, <1>15, <1>17, <1>18
<1> HIDE DEF Answered, BodiesTell
<1>20. Answered(sock, token)' <=> Answered(sock', token')
  BY DEF Answered, Keyed, Numbered, Active, Told, BehindEnd, Telling
<1>21. BodiesTell(sock, bodies)' <=> BodiesTell(sock', bodies')
  BY DEF BodiesTell, OnWay, Told, Telling
<1> QED BY <1>19, <1>20, <1>21 DEF ToldInv

LEMMA SameTold ==
  ASSUME ToldInv, UNCHANGED <<sock, bodies, token>>
  PROVE  ToldInv'
BY DEF ToldInv, Answered, BodiesTell, Keyed, Numbered, Active, BehindEnd, OnWay, Told, Telling

\* What makes a browser miss or misread a terminal: names used again or given by
\* the server, and connections and states that go with what was sent on them.
Upsets == {"supersede", "register", "unsubscribe", "disconnect", "restart"}

LEMMA NextTold ==
  ASSUME Incidents \cap Upsets = {}, IInv, ToldInv, [CoordNext]_serverVars
  PROVE  ToldInv'
<1>1. /\ "supersede" \notin Incidents /\ "register" \notin Incidents /\ "unsubscribe" \notin Incidents
      /\ "disconnect" \notin Incidents /\ "restart" \notin Incidents
  BY DEF Upsets
<1>2. CASE CoordNext
  <2>1. \/ Microtask \/ DrainSend \/ EventForward
        \/ \E m \in BrowserMessages : Subscribe(m)
        \/ \E ok \in BOOLEAN : LoadDone(ok)
    BY <1>1, <1>2 DEF CoordNext
  <2> QED BY <1>1, <2>1, MicrotaskTold, DrainSendTold, EventForwardTold, SubscribeTold, LoadDoneTold
<1>3. CASE UNCHANGED serverVars
  BY <1>3, SameTold DEF serverVars, coordVars
<1> QED BY <1>2, <1>3

\* A browser whose request is no longer served has been sent its terminal, from
\* a body that had come to its end or given up, ahead of the barrier that takes
\* the request away (deliverRequestBody, drain) - on a connection that lives,
\* to a browser that names each request afresh and hears of no other bridge.
\* Loads may fail and messages past the queue may be lost.
THEOREM RequestsAreTold ==
  ASSUME Incidents \cap Upsets = {}
  PROVE  CoordSpec => []EveryRequestTold
<1>1. CoordInit => IInv /\ ToldInv
  <2> SUFFICES ASSUME CoordInit PROVE ToldInv
    BY InitHolds
  <2>1. sock.queue = <<>> /\ sock.requests = <<>> /\ token = 0 /\ DOMAIN bodies = {}
    BY DEF CoordInit, EmptySocket, Empty
  <2>2. 1..token = {}
    BY <2>1
  <2> QED BY <2>1, <2>2 DEF ToldInv, Answered, BodiesTell, Keyed, Numbered
<1>2. (IInv /\ ToldInv) /\ [CoordNext]_serverVars => (IInv /\ ToldInv)'
  <2> SUFFICES ASSUME IInv, ToldInv, [CoordNext]_serverVars PROVE IInv' /\ ToldInv'
    OBVIOUS
  <2> QED BY NextHolds, NextTold
<1>3. IInv /\ ToldInv => EveryRequestTold
  <2> SUFFICES ASSUME ToldInv, sock.open, NEW id \in 1..token
               PROVE  HasRequest(sock, id) \/ Told(sock, id)
    BY DEF EveryRequestTold, Out, Told, Concludes
  <2>1. Keyed(sock) /\ (Active(sock, id) \/ Told(sock, id))
    BY DEF ToldInv, Answered
  <2> QED BY <2>1 DEF Keyed, Active, HasRequest
<1> QED BY <1>1, <1>2, <1>3, PTL DEF CoordSpec
=============================================================================
