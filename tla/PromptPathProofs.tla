--------------------------- MODULE PromptPathProofs ---------------------------
(***************************************************************************)
(* The bus gives every prompt at most one answer, alone and at the end of  *)
(* its way over the link, the server and the browsers: whatever is lost,   *)
(* sent twice or restarted there, a step of the path is a step of the bus  *)
(* or leaves the bus alone.                                                *)
(*                                                                         *)
(* And what the browsers show agrees with the bus once nothing is under    *)
(* way.  The inductive invariant says, for every prompt, where the message *)
(* is that a server or a tab still lacks; it rests on the order of the     *)
(* link: a registration comes first, and a request is followed by the end  *)
(* of its tool.                                                            *)
(***************************************************************************)
EXTENDS PromptPath, SequenceTheorems, FiniteSetTheorems, TLAPS

-----------------------------------------------------------------------------
(* The bus alone. *)

\* The inductive invariant: a dialog's prompt waits, so closing the dialog is
\* all a settled prompt asks of the terminal.
BusInv == BusTypeOK /\ DialogOnlyWhileWaiting

\* What respond and cancel do.
LEMMA SettleKeepsBus ==
  ASSUME BusInv, NEW p \in Prompts, NEW source \in Settlers, Settle(p, source)
  PROVE  /\ BusInv'
         /\ \A q \in Prompts : Settled(q) => outcome'[q] = outcome[q]
<1>1. /\ outcome[p] = "waiting"
      /\ outcome' = [outcome EXCEPT ![p] = source]
      /\ dialogs' = dialogs \ {p}
  BY DEF Settle
<1>2. /\ outcome \in [Prompts -> {"new", "waiting"} \cup Settlers]
      /\ dialogs \subseteq Prompts
      /\ \A q \in dialogs : outcome[q] = "waiting"
  BY DEF BusInv, BusTypeOK, DialogOnlyWhileWaiting
<1>3. \A q \in Prompts \ {p} : outcome'[q] = outcome[q]
  BY <1>1, <1>2
<1>4. BusTypeOK'
  BY <1>1, <1>2 DEF BusTypeOK
<1>5. DialogOnlyWhileWaiting'
  BY <1>1, <1>2, <1>3 DEF DialogOnlyWhileWaiting
<1>6. ~Settled(p)
  BY <1>1 DEF Settled, Settlers
<1> QED BY <1>3, <1>4, <1>5, <1>6 DEF BusInv

LEMMA UnchangedKeepsBus ==
  ASSUME BusInv, UNCHANGED busVars
  PROVE  /\ BusInv'
         /\ \A q \in Prompts : Settled(q) => outcome'[q] = outcome[q]
BY DEF BusInv, BusTypeOK, DialogOnlyWhileWaiting, busVars

LEMMA AskKeepsBus ==
  ASSUME BusInv, NEW p \in Prompts, Ask(p)
  PROVE  /\ BusInv'
         /\ \A q \in Prompts : Settled(q) => outcome'[q] = outcome[q]
<1>1. /\ outcome[p] = "new"
      /\ outcome' = [outcome EXCEPT ![p] = "waiting"]
      /\ dialogs' \subseteq dialogs \cup {p}
  BY DEF Ask
<1>2. /\ outcome \in [Prompts -> {"new", "waiting"} \cup Settlers]
      /\ dialogs \subseteq Prompts
      /\ \A q \in dialogs : outcome[q] = "waiting"
  BY DEF BusInv, BusTypeOK, DialogOnlyWhileWaiting
<1>3. outcome'[p] = "waiting" /\ \A q \in Prompts \ {p} : outcome'[q] = outcome[q]
  BY <1>1, <1>2
<1>4. BusTypeOK'
  BY <1>1, <1>2 DEF BusTypeOK
<1>5. DialogOnlyWhileWaiting'
  BY <1>1, <1>2, <1>3 DEF DialogOnlyWhileWaiting
<1>6. ~Settled(p)
  BY <1>1 DEF Settled, Settlers
<1> QED BY <1>3, <1>4, <1>5, <1>6 DEF BusInv

\* One step per operation of the bus.
LEMMA BusNextKeepsBus ==
  ASSUME BusInv, [BusNext]_busVars
  PROVE  /\ BusInv'
         /\ \A q \in Prompts : Settled(q) => outcome'[q] = outcome[q]
<1>1. ASSUME NEW p \in Prompts, Ask(p)
      PROVE  BusInv' /\ \A q \in Prompts : Settled(q) => outcome'[q] = outcome[q]
  BY <1>1, AskKeepsBus
<1>2. ASSUME NEW p \in Prompts, AnswerInTerminal(p) \/ Settle(p, "dashboard") \/ Cancel(p)
      PROVE  BusInv' /\ \A q \in Prompts : Settled(q) => outcome'[q] = outcome[q]
  <2>1. PICK source \in Settlers : Settle(p, source)
    BY <1>2 DEF AnswerInTerminal, Cancel, Settlers
  <2> QED BY <2>1, SettleKeepsBus
<1>3. ASSUME NEW p \in Prompts, LeaveTerminal(p)
      PROVE  BusInv' /\ \A q \in Prompts : Settled(q) => outcome'[q] = outcome[q]
  BY <1>3 DEF LeaveTerminal, BusInv, BusTypeOK, DialogOnlyWhileWaiting
<1>4. CASE UNCHANGED busVars
  BY <1>4, UnchangedKeepsBus
<1> QED BY <1>1, <1>2, <1>3, <1>4 DEF BusNext, AnswerFromDashboard

LEMMA BusInitInvariant == BusInit => BusInv
BY DEF BusInit, BusInv, BusTypeOK, DialogOnlyWhileWaiting

\* For any prompts and with or without a terminal, the bus keeps its type.
THEOREM BusTypeCorrect == BusSpec => []BusTypeOK
<1>1. BusInv /\ [BusNext]_busVars => BusInv'
  BY BusNextKeepsBus
<1>2. BusInv => BusTypeOK
  BY DEF BusInv
<1> QED BY <1>1, <1>2, BusInitInvariant, PTL DEF BusSpec

\* No terminal dialog outlives its prompt.
THEOREM DialogsAreOfWaitingPrompts == BusSpec => []DialogOnlyWhileWaiting
<1>1. BusInv /\ [BusNext]_busVars => BusInv'
  BY BusNextKeepsBus
<1>2. BusInv => DialogOnlyWhileWaiting
  BY DEF BusInv
<1> QED BY <1>1, <1>2, BusInitInvariant, PTL DEF BusSpec

\* The first response wins, for ever.
THEOREM FirstResponseWins == BusSpec => FirstAnswerStands
<1>1. BusInv /\ [BusNext]_busVars => BusInv'
  BY BusNextKeepsBus
<1>2. BusInv /\ [BusNext]_busVars
        => [\A p \in Prompts : Settled(p) => outcome'[p] = outcome[p]]_busVars
  BY BusNextKeepsBus
<1> QED BY <1>1, <1>2, BusInitInvariant, PTL DEF BusSpec, FirstAnswerStands

-----------------------------------------------------------------------------
(* The bus at the end of the path. *)

\* A response that names no prompt of the bus is of no effect.
LEMMA UnknownAnswerIsIgnored ==
  ASSUME BusTypeOK, NEW p, p \notin Prompts, AnswerFromDashboard(p)
  PROVE  UNCHANGED busVars
<1>1. CASE Settle(p, "dashboard")
  <2>1. /\ outcome' = [outcome EXCEPT ![p] = "dashboard"]
        /\ dialogs' = dialogs \ {p}
    BY <1>1 DEF Settle
  <2>2. dialogs \subseteq Prompts /\ DOMAIN outcome = Prompts
    BY DEF BusTypeOK
  <2>3. outcome' = outcome
    BY <2>1, <2>2 DEF BusTypeOK
  <2>4. dialogs' = dialogs
    BY <2>1, <2>2
  <2> QED BY <2>3, <2>4 DEF busVars
<1> QED BY <1>1 DEF AnswerFromDashboard

\* Every step of the bridge, of the server, of a browser or of the network is
\* one of the bus or leaves the bus alone.
LEMMA PathStepIsBusStep == BusTypeOK /\ [PathNext]_pathVars => [BusNext]_busVars
<1> SUFFICES ASSUME BusTypeOK, [PathNext]_pathVars PROVE [BusNext]_busVars
  OBVIOUS
<1>1. CASE FromBridge
  BY <1>1 DEF FromBridge, SessionRegister, ReplayComplete, PromptRequest, PromptDismiss,
              PromptResponseAck, ToolExecutionEnd, BridgeReplayEnds, busVars
<1>2. CASE SafetyTimeout \/ Unregister \/ LoseLink \/ NoticeLoss \/ Reconnect \/ RestartServer
  BY <1>2 DEF SafetyTimeout, BridgeReplayEnds, Unregister, LoseLink, NoticeLoss, Reconnect,
              RestartServer, busVars
<1>3. CASE ReceiveAnswer
  <2>1. AnswerFromDashboard(Head(link.down))
    BY <1>3 DEF ReceiveAnswer
  <2>2. CASE Head(link.down) \in Prompts
    BY <2>1, <2>2 DEF BusNext
  <2>3. CASE Head(link.down) \notin Prompts
    BY <2>1, <2>3, UnknownAnswerIsIgnored
  <2> QED BY <2>2, <2>3
<1>4. ASSUME NEW p \in Prompts,
             RetryAnswer(p) \/ GiveUpAnswer(p) \/ EndTool(p)
      PROVE  [BusNext]_busVars
  BY <1>4 DEF RetryAnswer, GiveUpAnswer, EndTool, busVars
<1>5. ASSUME NEW p \in Prompts,
             AskPrompt(p) \/ AnswerPrompt(p) \/ LeavePrompt(p) \/ CancelPrompt(p)
      PROVE  [BusNext]_busVars
  BY <1>5 DEF AskPrompt, AnswerPrompt, LeavePrompt, CancelPrompt, BusNext
<1>6. ASSUME NEW t \in Tabs,
             \/ QueueAnswer(t) \/ ServeSubscription(t) \/ ServeOrphan(t)
             \/ Subscribe(t) \/ LoseTab(t) \/ ReloadTab(t)
      PROVE  [BusNext]_busVars
  BY <1>6 DEF QueueAnswer, ServeSubscription, ServeOrphan, Subscribe, LoseTab, ReloadTab, busVars
<1>7. ASSUME NEW t \in Tabs, NEW p \in Prompts, AnswerInTab(t, p)
      PROVE  [BusNext]_busVars
  BY <1>7 DEF AnswerInTab, busVars
<1>8. CASE UNCHANGED pathVars
  BY <1>8 DEF pathVars, busVars
<1> QED BY <1>1, <1>2, <1>3, <1>4, <1>5, <1>6, <1>7, <1>8 DEF PathNext

\* The bus keeps its specification whatever happens on the way to it.
THEOREM PathImplementsBus == PathSpec => BusSpec
<1>1. PathInit => BusInit
  BY DEF PathInit
<1>2. BusInv /\ [PathNext]_pathVars => BusInv' /\ [BusNext]_busVars
  BY PathStepIsBusStep, BusNextKeepsBus DEF BusInv
<1> QED BY <1>1, <1>2, BusInitInvariant, PTL DEF PathSpec, BusSpec

\* A tool gets one answer, for any number of tabs, faults, copies of an answer
\* under way and messages in the buffer.
THEOREM PathFirstResponseWins == PathSpec => FirstAnswerStands
BY PathImplementsBus, FirstResponseWins

\* No dialog outlives its prompt, whoever answers it and from where.
THEOREM PathDialogsAreOfWaitingPrompts == PathSpec => []DialogOnlyWhileWaiting
BY PathImplementsBus, DialogsAreOfWaitingPrompts

-----------------------------------------------------------------------------
(* The states of the path. *)

OfPrompt == {"request", "dismiss", "ack", "end"}
Msgs == [type : {"register", "complete"}, prompt : {None}] \cup [type : OfPrompt, prompt : Prompts]
LinkType == [sock : {"open", "dead", "none"}, buffer : Seq(Msgs), up : Seq(Msgs), down : Seq(Prompts)]
ServerType ==
  [tracked : SUBSET Prompts, queued : SUBSET Prompts, ends : (SUBSET Prompts) \cup {None},
   replaying : BOOLEAN]
TabType ==
  [sync : {"off", "wanted", "orphaned", "live", "behind"}, stale : BOOLEAN,
   card : [Prompts -> {"none", "pending", "resolved", "dismissed"}],
   ends : SUBSET Prompts, out : Seq(Prompts), missed : SUBSET Prompts, doubt : SUBSET Prompts]
PathTyped ==
  /\ server \in ServerType /\ tabs \in [Tabs -> TabType]
  /\ ended \subseteq Prompts /\ abandoned \subseteq Prompts

On(s, type, p) == \E i \in DOMAIN s : s[i] = Message(type, p)
Holds(s, p) == \E i \in DOMAIN s : s[i] = p
Completes(s) == \E i \in DOMAIN s : s[i].type = "complete"

\* The end of p is to come, after whatever completes a replay.
LastEnd(s, i, p) ==
  /\ s[i] = Message("end", p)
  /\ \A k \in DOMAIN s : s[k].type = "complete" => k < i

\* A request for one of S is followed by its end.
Follows(s, S) ==
  \A p \in S, i \in DOMAIN s : s[i] = Message("request", p) =>
    \E j \in DOMAIN s : j > i /\ LastEnd(s, j, p)

\* The end of p is to come, after what completes a replay if one goes on.
EndComes(s, replaying, p) ==
  \E j \in DOMAIN s :
    /\ s[j] = Message("end", p)
    /\ replaying => \E k \in DOMAIN s : k < j /\ s[k].type = "complete"

\* A link, once the tools of S have ended: nothing is under way on a socket
\* that is gone, nothing waits for one that looks open, and a registration comes
\* first of all that is sent, its replay's completion after it.
LinkOK(l, S) ==
  /\ l \in LinkType
  /\ l.sock # "open" => l.up = <<>> /\ l.down = <<>>
  /\ l.sock # "none" => l.buffer = <<>>
  /\ \A i \in DOMAIN l.up : l.up[i].type = "register" => i = 1
  /\ \A i \in DOMAIN l.buffer : l.buffer[i].type \in OfPrompt
  /\ Follows(l.up, S) /\ Follows(l.buffer, S)

Registering(l) == l.up # <<>> /\ l.up[1].type = "register"
\* A registration is still to come, or under way.
Awaited(l) == l.sock # "open" \/ Registering(l)

ServerInv ==
  /\ server.ends = None => Awaited(link)
  /\ Registering(link) => Completes(link.up)
  /\ server.replaying /\ link.sock = "open" => Completes(link.up)
  /\ \A t \in Tabs : tabs[t].sync = "orphaned" => server.replaying

\* What link and server know of a prompt.
PromptOK(p) ==
  /\ outcome[p] = "new" =>
       /\ p \notin server.tracked /\ p \notin server.queued /\ ~Holds(link.down, p)
       /\ ~On(link.up, "request", p) /\ ~On(link.buffer, "request", p)
  /\ ~Settled(p) =>
       /\ p \notin ended /\ (server.ends # None => p \notin server.ends)
       /\ \A type \in {"dismiss", "ack", "end"} : ~On(link.up, type, p) /\ ~On(link.buffer, type, p)
  /\ outcome[p] = "waiting" =>
       /\ Registering(link) => On(link.up, "request", p)
       /\ \/ link.sock # "open" \/ On(link.up, "request", p)
          \/ p \in abandoned \/ p \in server.tracked \/ p \in server.queued
  /\ p \in ended =>
       /\ Registering(link) => On(link.up, "end", p)
       /\ server.ends # None /\ p \notin server.ends => Awaited(link) \/ On(link.up, "end", p)

\* What a tab knows of it: nothing before it is asked, nothing of an end before
\* it is settled, and its card while it waits, if it was sent; and an end it has
\* not heard of is still to come, unless its subscription asks for it.
Unheard(tab, p) == outcome[p] = "new" => tab.card[p] = "none" /\ ~Holds(tab.out, p)
Undismissed(tab, p) == ~Settled(p) => p \notin tab.ends /\ tab.card[p] # "dismissed"
Shown(tab, p) ==
  outcome[p] = "waiting" /\ tab.sync \in {"live", "behind", "orphaned"} =>
    \/ link.sock # "open" \/ On(link.up, "request", p)
    \/ p \in abandoned \/ p \in server.queued
    \/ tab.card[p] \in {"pending", "resolved"} \/ p \in tab.missed
EndTold(tab, p) ==
  p \in ended /\ tab.sync \in {"live", "behind", "orphaned"} /\ tab.card[p] = "pending" =>
    p \in tab.doubt \/ Awaited(link) \/ EndComes(link.up, server.replaying, p)
TabOK(tab, p) == Unheard(tab, p) /\ Undismissed(tab, p) /\ Shown(tab, p) /\ EndTold(tab, p)

PromptsOK == \A p \in Prompts : PromptOK(p)
TabsOK == \A p \in Prompts, t \in Tabs : TabOK(tabs[t], p)

IInv == BusInv /\ PathTyped /\ LinkOK(link, ended) /\ ServerInv /\ PromptsOK /\ TabsOK

-----------------------------------------------------------------------------
(* Messages and sequences of them. *)

LEMMA MessagesAre ==
  ASSUME NEW p \in Prompts, NEW type \in OfPrompt
  PROVE  /\ Message(type, p) \in Msgs
         /\ Message(type, p).type = type /\ Message(type, p).prompt = p
BY DEF Message, Msgs

LEMMA DifferentMessages ==
  ASSUME NEW p, NEW q, NEW a, NEW b, Message(a, p) = Message(b, q)
  PROVE  a = b /\ p = q
<1>1. Message(a, p).type = a /\ Message(a, p).prompt = p
  BY DEF Message
<1>2. Message(b, q).type = b /\ Message(b, q).prompt = q
  BY DEF Message
<1> QED BY <1>1, <1>2

LEMMA MsgNames ==
  ASSUME NEW m \in Msgs, m.type \in OfPrompt
  PROVE  m.prompt \in Prompts /\ m = Message(m.type, m.prompt)
<1>1. m \in [type : OfPrompt, prompt : Prompts]
  BY DEF Msgs, OfPrompt
<1> QED BY <1>1 DEF Message

LEMMA OnTail ==
  ASSUME NEW T, NEW s \in Seq(T), s # <<>>, NEW type, NEW p
  PROVE  /\ On(Tail(s), type, p) => On(s, type, p)
         /\ On(s, type, p) => Head(s) = Message(type, p) \/ On(Tail(s), type, p)
<1>1. /\ Tail(s) \in Seq(T) /\ Len(Tail(s)) = Len(s) - 1 /\ Len(s) \in Nat /\ Head(s) = s[1]
      /\ \A i \in 1..Len(Tail(s)) : Tail(s)[i] = s[i + 1]
      /\ DOMAIN s = 1..Len(s) /\ DOMAIN Tail(s) = 1..(Len(s) - 1)
  BY HeadTailProperties, LenProperties
<1>2. ASSUME NEW i \in DOMAIN Tail(s) PROVE i + 1 \in DOMAIN s /\ Tail(s)[i] = s[i + 1]
  BY <1>1
<1>3. ASSUME NEW i \in DOMAIN s, i # 1 PROVE i - 1 \in DOMAIN Tail(s) /\ s[i] = Tail(s)[i - 1]
  <2>1. i - 1 \in 1..(Len(s) - 1) /\ (i - 1) + 1 = i
    BY <1>1, <1>3
  <2>2. Tail(s)[i - 1] = s[(i - 1) + 1]
    BY <1>1, <2>1
  <2> QED BY <1>1, <2>1, <2>2
<1> HIDE DEF Message
<1> QED BY <1>1, <1>2, <1>3, ZenonT(30) DEF On

LEMMA SecondPart ==
  ASSUME NEW a \in Nat, NEW b \in Nat, NEW i \in 1..(a + b), ~(i <= a)
  PROVE  i - a \in 1..b
OBVIOUS

LEMMA OnCat ==
  ASSUME NEW T, NEW s \in Seq(T), NEW u \in Seq(T), NEW type, NEW p
  PROVE  On(s \o u, type, p) <=> On(s, type, p) \/ On(u, type, p)
<1>1. /\ s \o u \in Seq(T) /\ Len(s \o u) = Len(s) + Len(u) /\ Len(s) \in Nat /\ Len(u) \in Nat
      /\ \A i \in 1..(Len(s) + Len(u)) : (s \o u)[i] = IF i <= Len(s) THEN s[i] ELSE u[i - Len(s)]
      /\ DOMAIN s = 1..Len(s) /\ DOMAIN u = 1..Len(u) /\ DOMAIN (s \o u) = 1..(Len(s) + Len(u))
  BY ConcatProperties, LenProperties
<1>2. ASSUME NEW i \in DOMAIN s PROVE i \in DOMAIN (s \o u) /\ (s \o u)[i] = s[i]
  BY <1>1
<1>3. ASSUME NEW i \in DOMAIN u PROVE Len(s) + i \in DOMAIN (s \o u) /\ (s \o u)[Len(s) + i] = u[i]
  BY <1>1
<1>4. ASSUME NEW i \in DOMAIN (s \o u)
      PROVE  \/ i \in DOMAIN s /\ (s \o u)[i] = s[i]
             \/ i - Len(s) \in DOMAIN u /\ (s \o u)[i] = u[i - Len(s)]
  <2>1. i \in 1..(Len(s) + Len(u)) /\ Len(s) \in Nat /\ Len(u) \in Nat
    BY <1>1
  <2>2. (s \o u)[i] = IF i <= Len(s) THEN s[i] ELSE u[i - Len(s)]
    BY <1>1, <2>1
  <2>3. CASE i <= Len(s)
    BY <1>1, <2>1, <2>2, <2>3
  <2>4. CASE ~(i <= Len(s))
    BY <1>1, <2>1, <2>2, <2>4, SecondPart
  <2> QED BY <2>3, <2>4
<1> HIDE <1>1
<1> QED BY <1>2, <1>3, <1>4 DEF On

LEMMA OnOne ==
  ASSUME NEW m, NEW type, NEW p
  PROVE  On(<<m>>, type, p) <=> m = Message(type, p)
BY DEF On

LEMMA OnNone ==
  ASSUME NEW type, NEW p PROVE ~On(<<>>, type, p)
BY DEF On

\* SetToSeq lists the set.
LEMMA SetAsSeq ==
  ASSUME NEW S, IsFiniteSet(S)
  PROVE  SetToSeq(S) \in Seq(S) /\ \A x \in S : \E i \in DOMAIN SetToSeq(S) : SetToSeq(S)[i] = x
<1> DEFINE n == Cardinality(S)
<1>1. n \in Nat /\ Bijection(1..n, S) # {}
  BY FS_CardinalityType DEF ExistsBijection
<1>2. PICK b \in [1..n -> S] : IsInjective(b)
  BY <1>1 DEF Bijection, Injection
<1>3. SetToSeq(S) \in [1..n -> S] /\ IsInjective(SetToSeq(S))
  BY <1>2 DEF SetToSeq
<1>4. SetToSeq(S) \in Injection(1..n, S)
  BY <1>3 DEF Injection
<1>5. IsFiniteSet(1..n) /\ Cardinality(1..n) = n
  <2>1. 1 \in Int /\ n \in Int
    BY <1>1
  <2>2. IsFiniteSet(1..n) /\ Cardinality(1..n) = IF 1 > n THEN 0 ELSE n - 1 + 1
    BY <2>1, FS_Interval
  <2> HIDE DEF n
  <2> QED BY <1>1, <2>2
<1>6. SetToSeq(S) \in Surjection(1..n, S)
  BY <1>4, <1>5, FS_Injection
<1>7. SetToSeq(S) \in Seq(S)
  BY <1>1, <1>3
<1> HIDE DEF n
<1> QED BY <1>3, <1>6, <1>7 DEF Surjection

LEMMA MessagesOf ==
  ASSUME NEW S \in SUBSET Prompts, NEW type \in OfPrompt
  PROVE  /\ Messages(type, S) \in Seq(Msgs)
         /\ \A i \in DOMAIN Messages(type, S) : Messages(type, S)[i].type = type
         /\ \A kind, p : On(Messages(type, S), kind, p) <=> kind = type /\ p \in S
<1> DEFINE M == {Message(type, p) : p \in S}
<1>1. M \subseteq Msgs /\ \A m \in M : m.type = type
  BY MessagesAre
<1>2. IsFiniteSet(M)
  <2> DEFINE f == [p \in S |-> Message(type, p)]
  <2>1. f \in Surjection(S, M)
    BY DEF Surjection
  <2>2. IsFiniteSet(S)
    BY PathAssumption, FS_Subset
  <2> HIDE DEF f, M
  <2> QED BY <2>1, <2>2, FS_Surjection
<1> DEFINE s == SetToSeq(M)
<1>3. s \in Seq(M) /\ \A x \in M : \E i \in DOMAIN s : s[i] = x
  <2> HIDE DEF M
  <2> QED BY <1>2, SetAsSeq
<1>4. s = Messages(type, S)
  BY DEF Messages
<1>5. s \in Seq(Msgs)
  <2> HIDE DEF M, s
  <2> QED BY <1>1, <1>3, SeqMonotonic
<1>6. \A i \in DOMAIN s : s[i] \in M
  <2> HIDE DEF M, s
  <2> QED BY <1>3
<1>7. ASSUME NEW kind, NEW p, On(s, kind, p) PROVE kind = type /\ p \in S
  <2>1. PICK i \in DOMAIN s : s[i] = Message(kind, p)
    BY <1>7 DEF On
  <2>2. PICK q \in S : s[i] = Message(type, q)
    BY <1>6
  <2>3. kind = type /\ p = q
    BY <2>1, <2>2, DifferentMessages
  <2> QED BY <2>3
<1>8. ASSUME NEW p \in S PROVE On(s, type, p)
  <2>1. Message(type, p) \in M
    OBVIOUS
  <2> HIDE DEF M, s
  <2> QED BY <2>1, <1>3 DEF On
<1>9. \A i \in DOMAIN s : s[i].type = type
  <2> HIDE DEF M, s
  <2> QED BY <1>1, <1>6
<1> HIDE DEF M, s
<1>10. \A kind, p : On(s, kind, p) <=> kind = type /\ p \in S
  BY <1>7, <1>8
<1> QED BY <1>4, <1>5, <1>9, <1>10

-----------------------------------------------------------------------------
(* What may follow a request. *)

LEMMA FollowsTail ==
  ASSUME NEW T, NEW s \in Seq(T), s # <<>>, NEW S, Follows(s, S)
  PROVE  /\ Follows(Tail(s), S)
         /\ \A p \in S : Head(s) = Message("request", p) =>
              \E j \in DOMAIN Tail(s) : LastEnd(Tail(s), j, p)
<1>1. /\ Tail(s) \in Seq(T) /\ Len(Tail(s)) = Len(s) - 1 /\ Len(s) \in Nat /\ Head(s) = s[1]
      /\ \A i \in 1..Len(Tail(s)) : Tail(s)[i] = s[i + 1]
      /\ DOMAIN s = 1..Len(s) /\ DOMAIN Tail(s) = 1..(Len(s) - 1)
  BY HeadTailProperties, LenProperties
<1>2. ASSUME NEW i \in DOMAIN Tail(s)
      PROVE  i + 1 \in DOMAIN s /\ Tail(s)[i] = s[i + 1] /\ i \in Int
  BY <1>1
<1>3. ASSUME NEW i \in DOMAIN s, i # 1
      PROVE  i - 1 \in DOMAIN Tail(s) /\ s[i] = Tail(s)[i - 1] /\ i \in Int
  <2>1. i - 1 \in 1..(Len(s) - 1) /\ (i - 1) + 1 = i /\ i \in Int
    BY <1>1, <1>3
  <2>2. Tail(s)[i - 1] = s[(i - 1) + 1]
    BY <1>1, <2>1
  <2> QED BY <1>1, <2>1, <2>2
<1>6. ASSUME NEW p, NEW j \in DOMAIN s, j # 1, LastEnd(s, j, p)
      PROVE  j - 1 \in DOMAIN Tail(s) /\ LastEnd(Tail(s), j - 1, p)
  <2>1. j - 1 \in DOMAIN Tail(s) /\ Tail(s)[j - 1] = Message("end", p) /\ j \in Int
    BY <1>3, <1>6 DEF LastEnd
  <2>2. ASSUME NEW k \in DOMAIN Tail(s), Tail(s)[k].type = "complete" PROVE k < j - 1
    <3>1. k + 1 < j
      BY <1>2, <1>6, <2>2 DEF LastEnd
    <3> QED BY <1>2, <2>1, <3>1
  <2> QED BY <2>1, <2>2 DEF LastEnd
<1>4. ASSUME NEW p \in S, NEW i \in DOMAIN Tail(s), Tail(s)[i] = Message("request", p)
      PROVE  \E j \in DOMAIN Tail(s) : j > i /\ LastEnd(Tail(s), j, p)
  <2>1. PICK j \in DOMAIN s : j > i + 1 /\ LastEnd(s, j, p)
    BY <1>2, <1>4 DEF Follows
  <2>2. j # 1 /\ j \in Int
    BY <1>1, <1>2, <2>1
  <2>3. j - 1 \in DOMAIN Tail(s) /\ LastEnd(Tail(s), j - 1, p)
    BY <1>6, <2>1, <2>2
  <2>4. j - 1 > i
    BY <1>2, <2>1, <2>2
  <2> QED BY <2>3, <2>4
<1>5. ASSUME NEW p \in S, Head(s) = Message("request", p)
      PROVE  \E j \in DOMAIN Tail(s) : LastEnd(Tail(s), j, p)
  <2>1. 1 \in DOMAIN s
    BY <1>1, EmptySeq
  <2>2. PICK j \in DOMAIN s : j > 1 /\ LastEnd(s, j, p)
    BY <1>1, <1>5, <2>1 DEF Follows
  <2>3. j # 1
    BY <2>2
  <2> QED BY <1>6, <2>2, <2>3
<1> QED BY <1>4, <1>5 DEF Follows

\* An end that is to come is the head, or still to come; so is a completion.
LEMMA EndComesTail ==
  ASSUME NEW T, NEW s \in Seq(T), s # <<>>
  PROVE  /\ Completes(s) => Head(s).type = "complete" \/ Completes(Tail(s))
         /\ \A p : On(s, "end", p) => Head(s) = Message("end", p) \/ EndComes(Tail(s), FALSE, p)
         /\ \A p : EndComes(s, TRUE, p) => \/ Head(s).type = "complete" /\ EndComes(Tail(s), FALSE, p)
                                           \/ EndComes(Tail(s), TRUE, p)
<1>1. /\ Tail(s) \in Seq(T) /\ Len(Tail(s)) = Len(s) - 1 /\ Len(s) \in Nat /\ Head(s) = s[1]
      /\ \A i \in 1..Len(Tail(s)) : Tail(s)[i] = s[i + 1]
      /\ DOMAIN s = 1..Len(s) /\ DOMAIN Tail(s) = 1..(Len(s) - 1)
  BY HeadTailProperties, LenProperties
<1>2. ASSUME NEW i \in DOMAIN s, i # 1
      PROVE  i - 1 \in DOMAIN Tail(s) /\ s[i] = Tail(s)[i - 1] /\ i \in Int
  <2>1. i - 1 \in 1..(Len(s) - 1) /\ (i - 1) + 1 = i /\ i \in Int
    BY <1>1, <1>2
  <2>2. Tail(s)[i - 1] = s[(i - 1) + 1]
    BY <1>1, <2>1
  <2> QED BY <1>1, <2>1, <2>2
<1>3. Completes(s) => Head(s).type = "complete" \/ Completes(Tail(s))
  BY <1>1, <1>2 DEF Completes
<1>4. ASSUME NEW p, On(s, "end", p)
      PROVE  Head(s) = Message("end", p) \/ EndComes(Tail(s), FALSE, p)
  BY <1>1, <1>2, <1>4 DEF On, EndComes
<1>5. ASSUME NEW p, EndComes(s, TRUE, p)
      PROVE  \/ Head(s).type = "complete" /\ EndComes(Tail(s), FALSE, p)
             \/ EndComes(Tail(s), TRUE, p)
  <2>1. PICK j \in DOMAIN s, k \in DOMAIN s :
          s[j] = Message("end", p) /\ k < j /\ s[k].type = "complete"
    BY <1>5 DEF EndComes
  <2>2. j \in Int /\ k \in Int /\ k >= 1 /\ j # 1
    BY <1>1, <2>1
  <2>3. j - 1 \in DOMAIN Tail(s) /\ Tail(s)[j - 1] = Message("end", p)
    BY <1>2, <2>1, <2>2
  <2>4. CASE k = 1
    BY <1>1, <2>1, <2>3, <2>4 DEF EndComes
  <2>5. CASE k # 1
    <3>1. k - 1 \in DOMAIN Tail(s) /\ Tail(s)[k - 1].type = "complete" /\ k - 1 < j - 1
      BY <1>2, <2>1, <2>2, <2>5
    <3> QED BY <2>3, <3>1 DEF EndComes
  <2> QED BY <2>4, <2>5
<1> QED BY <1>3, <1>4, <1>5

\* u ends the tools of R, and completes no replay.
LEMMA FollowsCat ==
  ASSUME NEW T, NEW s \in Seq(T), NEW u \in Seq(T), NEW S, NEW R, Follows(s, S), Follows(u, R),
         S \subseteq R, \A p \in R \ S : On(u, "end", p), ~Completes(u)
  PROVE  Follows(s \o u, R)
<1>1. /\ s \o u \in Seq(T) /\ Len(s \o u) = Len(s) + Len(u) /\ Len(s) \in Nat /\ Len(u) \in Nat
      /\ \A i \in 1..(Len(s) + Len(u)) : (s \o u)[i] = IF i <= Len(s) THEN s[i] ELSE u[i - Len(s)]
      /\ DOMAIN s = 1..Len(s) /\ DOMAIN u = 1..Len(u) /\ DOMAIN (s \o u) = 1..(Len(s) + Len(u))
  BY ConcatProperties, LenProperties
<1>2. ASSUME NEW i \in DOMAIN s PROVE i \in DOMAIN (s \o u) /\ (s \o u)[i] = s[i]
  BY <1>1
<1>3. ASSUME NEW i \in DOMAIN u PROVE Len(s) + i \in DOMAIN (s \o u) /\ (s \o u)[Len(s) + i] = u[i]
  BY <1>1
<1>7. ASSUME NEW k \in DOMAIN (s \o u), (s \o u)[k].type = "complete"
      PROVE  k \in DOMAIN s /\ s[k].type = "complete"
  <2>1. k \in 1..(Len(s) + Len(u))
    BY <1>1
  <2>2. CASE k <= Len(s)
    BY <1>1, <1>7, <2>1, <2>2
  <2>3. CASE ~(k <= Len(s))
    <3>1. k - Len(s) \in DOMAIN u
      BY <1>1, <2>1, <2>3, SecondPart
    <3>2. u[k - Len(s)].type = "complete"
      BY <1>1, <1>7, <2>1, <2>3
    <3> QED BY <3>1, <3>2 DEF Completes
  <2> QED BY <2>2, <2>3
<1>8. ASSUME NEW p, NEW j \in DOMAIN s, LastEnd(s, j, p) PROVE LastEnd(s \o u, j, p)
  BY <1>2, <1>7, <1>8 DEF LastEnd
<1>9. ASSUME NEW p, NEW j \in DOMAIN u, u[j] = Message("end", p) PROVE LastEnd(s \o u, Len(s) + j, p)
  <2>1. ASSUME NEW k \in DOMAIN s PROVE k < Len(s) + j
    BY <1>1
  <2> QED BY <1>3, <1>7, <1>9, <2>1 DEF LastEnd
<1> SUFFICES ASSUME NEW p \in R, NEW i \in DOMAIN (s \o u), (s \o u)[i] = Message("request", p)
             PROVE  \E j \in DOMAIN (s \o u) : j > i /\ LastEnd(s \o u, j, p)
  BY DEF Follows
<1>4. i \in 1..(Len(s) + Len(u))
  BY <1>1
<1>5. CASE i <= Len(s)
  <2>1. i \in DOMAIN s /\ s[i] = Message("request", p)
    BY <1>1, <1>4, <1>5, <1>2
  <2>2. CASE p \in S
    <3>1. PICK j \in DOMAIN s : j > i /\ LastEnd(s, j, p)
      BY <2>1, <2>2 DEF Follows
    <3> QED BY <3>1, <1>2, <1>8
  <2>3. CASE p \notin S
    <3>1. PICK j \in DOMAIN u : u[j] = Message("end", p)
      BY <2>3 DEF On
    <3>2. Len(s) + j > i
      BY <1>1, <1>5, <1>4
    <3> QED BY <3>1, <3>2, <1>3, <1>9
  <2> QED BY <2>2, <2>3
<1>6. CASE ~(i <= Len(s))
  <2>1. i - Len(s) \in DOMAIN u
    BY <1>1, <1>4, <1>6, SecondPart
  <2>2. u[i - Len(s)] = Message("request", p)
    BY <1>1, <1>4, <1>6
  <2>3. PICK j \in DOMAIN u : j > i - Len(s) /\ u[j] = Message("end", p)
    BY <2>1, <2>2 DEF Follows, LastEnd
  <2>4. Len(s) + j > i
    BY <1>1, <1>4, <2>3
  <2> QED BY <2>3, <2>4, <1>3, <1>9
<1> QED BY <1>5, <1>6

\* What was to come still is when more is sent, and an end that is sent is to
\* come after what completes a replay.
LEMMA EndComesCat ==
  ASSUME NEW T, NEW s \in Seq(T), NEW u \in Seq(T)
  PROVE  /\ Completes(s) \/ Completes(u) => Completes(s \o u)
         /\ \A r, p : EndComes(s, r, p) => EndComes(s \o u, r, p)
         /\ \A r, p : On(u, "end", p) /\ (r => Completes(s)) => EndComes(s \o u, r, p)
<1>1. /\ s \o u \in Seq(T) /\ Len(s \o u) = Len(s) + Len(u) /\ Len(s) \in Nat /\ Len(u) \in Nat
      /\ \A i \in 1..(Len(s) + Len(u)) : (s \o u)[i] = IF i <= Len(s) THEN s[i] ELSE u[i - Len(s)]
      /\ DOMAIN s = 1..Len(s) /\ DOMAIN u = 1..Len(u) /\ DOMAIN (s \o u) = 1..(Len(s) + Len(u))
  BY ConcatProperties, LenProperties
<1>2. ASSUME NEW i \in DOMAIN s PROVE i \in DOMAIN (s \o u) /\ (s \o u)[i] = s[i]
  BY <1>1
<1>3. ASSUME NEW i \in DOMAIN u PROVE Len(s) + i \in DOMAIN (s \o u) /\ (s \o u)[Len(s) + i] = u[i]
  BY <1>1
<1>4. ASSUME NEW i \in DOMAIN s, NEW j \in DOMAIN u PROVE i < Len(s) + j
  BY <1>1
<1> HIDE <1>1
<1>5. Completes(s) \/ Completes(u) => Completes(s \o u)
  BY <1>2, <1>3 DEF Completes
<1>6. ASSUME NEW r, NEW p, EndComes(s, r, p) PROVE EndComes(s \o u, r, p)
  BY <1>2, <1>6 DEF EndComes
<1>7. ASSUME NEW r, NEW p, On(u, "end", p), r => Completes(s) PROVE EndComes(s \o u, r, p)
  BY <1>2, <1>3, <1>4, <1>7 DEF EndComes, Completes, On
<1> QED BY <1>5, <1>6, <1>7

LEMMA RingKeeps ==
  ASSUME NEW T, NEW s \in Seq(T)
  PROVE  /\ Link!Ring(s) \in Seq(T)
         /\ \A type, p : On(Link!Ring(s), type, p) => On(s, type, p)
         /\ \A i \in DOMAIN Link!Ring(s) : \E j \in DOMAIN s : Link!Ring(s)[i] = s[j]
         /\ \A S : Follows(s, S) => Follows(Link!Ring(s), S)
<1>1. CASE ~(Len(s) > BufferCap)
  BY <1>1 DEF Link!Ring
<1>2. CASE Len(s) > BufferCap
  <2> DEFINE r == SubSeq(s, Len(s) - BufferCap + 1, Len(s))
             d == Len(s) - BufferCap
  <2>1. Link!Ring(s) = r
    BY <1>2 DEF Link!Ring
  <2>2. Len(s) \in Nat /\ BufferCap \in Nat /\ DOMAIN s = 1..Len(s) /\ d \in Nat
    BY <1>2, PathAssumption, LenProperties
  <2>3. /\ r \in Seq(T) /\ DOMAIN r = 1..BufferCap
        /\ \A i \in 1..BufferCap : r[i] = s[d + i]
    <3>1. d + 1 \in Int /\ Len(s) \in Int /\ d + 1 = Len(s) - BufferCap + 1
      BY <2>2
    <3>2. \A i \in (d + 1)..Len(s) : s[i] \in T
      BY <2>2, ElementOfSeq
    <3>3. /\ SubSeq(s, d + 1, Len(s)) \in Seq(T)
          /\ Len(SubSeq(s, d + 1, Len(s))) = IF d + 1 <= Len(s) THEN Len(s) - (d + 1) + 1 ELSE 0
          /\ \A i \in 1..(Len(s) - (d + 1) + 1) : SubSeq(s, d + 1, Len(s))[i] = s[d + 1 + i - 1]
      <4> HIDE DEF d
      <4> QED BY <3>1, <3>2, SubSeqProperties
    <3>4. Len(s) - (d + 1) + 1 = BufferCap /\ (d + 1 <= Len(s) \/ BufferCap = 0)
      BY <2>2
    <3>5. \A i \in 1..BufferCap : d + 1 + i - 1 = d + i
      BY <2>2
    <3>6. Len(SubSeq(s, d + 1, Len(s))) = BufferCap
      BY <3>3, <3>4, <2>2
    <3>7. DOMAIN SubSeq(s, d + 1, Len(s)) = 1..BufferCap
      BY <3>3, <3>6, LenProperties
    <3>8. r = SubSeq(s, d + 1, Len(s))
      BY <3>1
    <3> HIDE DEF r, d
    <3> QED BY <3>3, <3>4, <3>5, <3>7, <3>8
  <2>4. ASSUME NEW i \in DOMAIN r PROVE d + i \in DOMAIN s /\ r[i] = s[d + i] /\ i \in Int
    BY <2>2, <2>3
  <2>5. ASSUME NEW S, Follows(s, S) PROVE Follows(r, S)
    <3> SUFFICES ASSUME NEW p \in S, NEW i \in DOMAIN r, r[i] = Message("request", p)
                 PROVE  \E j \in DOMAIN r : j > i /\ LastEnd(r, j, p)
      BY DEF Follows
    <3>1. PICK j \in DOMAIN s : j > d + i /\ LastEnd(s, j, p)
      BY <2>4, <2>5 DEF Follows
    <3>2. j - d \in 1..BufferCap /\ j - d > i /\ d + (j - d) = j /\ j \in Int
      BY <2>2, <2>3, <3>1
    <3>3. j - d \in DOMAIN r /\ r[j - d] = s[j]
      BY <2>3, <3>2
    <3>4. ASSUME NEW k \in DOMAIN r, r[k].type = "complete" PROVE k < j - d
      <4>1. d + k < j
        BY <2>4, <3>1, <3>4 DEF LastEnd
      <4> QED BY <2>2, <2>4, <3>2, <4>1
    <3> QED BY <3>1, <3>2, <3>3, <3>4 DEF LastEnd
  <2> HIDE DEF r, d
  <2>6. \A type, p : On(r, type, p) => On(s, type, p)
    BY <2>4 DEF On
  <2> QED BY <2>1, <2>3, <2>4, <2>5, <2>6
<1> QED BY <1>1, <1>2

-----------------------------------------------------------------------------
(* The operators of the link. *)

\* The link l has lost its head to the server, and is k.
TakenFrom(l, k, S) ==
  /\ LinkOK(k, S) /\ l.sock = "open" /\ k.sock = "open"
  /\ k.buffer = l.buffer /\ k.down = l.down
  /\ Head(l.up) \in Msgs
  /\ ~Registering(k) /\ (Registering(l) <=> Head(l.up).type = "register")
  /\ \A type, p : On(k.up, type, p) => On(l.up, type, p)
  /\ \A type, p : On(l.up, type, p) => Head(l.up) = Message(type, p) \/ On(k.up, type, p)
  /\ \A p \in S : Head(l.up) = Message("request", p) =>
       \E j \in DOMAIN k.up : LastEnd(k.up, j, p)
  /\ Completes(l.up) => Head(l.up).type = "complete" \/ Completes(k.up)
  /\ \A p : On(l.up, "end", p) => Head(l.up) = Message("end", p) \/ EndComes(k.up, FALSE, p)
  /\ \A p : EndComes(l.up, TRUE, p) => \/ Head(l.up).type = "complete" /\ EndComes(k.up, FALSE, p)
                                       \/ EndComes(k.up, TRUE, p)

LEMMA NextMessage ==
  ASSUME NEW l, NEW S, LinkOK(l, S), l.up # <<>>, NEW k, k = [l EXCEPT !.up = Tail(@)]
  PROVE  TakenFrom(l, k, S)
<1>1. l \in LinkType /\ l.up \in Seq(Msgs) /\ l.sock = "open" /\ l.buffer = <<>>
  BY DEF LinkOK, LinkType
<1>2. /\ Head(l.up) \in Msgs /\ Tail(l.up) \in Seq(Msgs) /\ Len(Tail(l.up)) = Len(l.up) - 1
      /\ Len(l.up) \in Nat /\ Head(l.up) = l.up[1]
      /\ \A i \in 1..Len(Tail(l.up)) : Tail(l.up)[i] = l.up[i + 1]
      /\ DOMAIN l.up = 1..Len(l.up) /\ DOMAIN Tail(l.up) = 1..(Len(l.up) - 1)
  BY <1>1, HeadTailProperties, LenProperties
<1>3. k \in LinkType /\ k.up = Tail(l.up) /\ k.sock = "open" /\ k.buffer = l.buffer /\ k.down = l.down
  BY <1>1, <1>2 DEF LinkType
<1>4. \A i \in DOMAIN k.up : k.up[i].type # "register"
  <2>1. ASSUME NEW i \in DOMAIN k.up PROVE k.up[i] = l.up[i + 1] /\ i + 1 \in DOMAIN l.up /\ i + 1 # 1
    BY <1>2, <1>3
  <2> QED BY <2>1 DEF LinkOK
<1>5. /\ Follows(k.up, S)
      /\ \A p \in S : Head(l.up) = Message("request", p) =>
           \E j \in DOMAIN k.up : LastEnd(k.up, j, p)
  BY <1>1, <1>3, FollowsTail DEF LinkOK
<1>10. /\ Completes(l.up) => Head(l.up).type = "complete" \/ Completes(k.up)
       /\ \A p : On(l.up, "end", p) => Head(l.up) = Message("end", p) \/ EndComes(k.up, FALSE, p)
       /\ \A p : EndComes(l.up, TRUE, p) => \/ Head(l.up).type = "complete" /\ EndComes(k.up, FALSE, p)
                                            \/ EndComes(k.up, TRUE, p)
  BY <1>1, <1>3, EndComesTail
<1>6. /\ \A type, p : On(k.up, type, p) => On(l.up, type, p)
      /\ \A type, p : On(l.up, type, p) => Head(l.up) = Message(type, p) \/ On(k.up, type, p)
  BY <1>1, <1>3, OnTail
<1>7. LinkOK(k, S)
  BY <1>3, <1>4, <1>5 DEF LinkOK
<1>8. ~Registering(k)
  <2>1. k.up # <<>> => 1 \in DOMAIN k.up
    BY <1>3, <1>2, EmptySeq
  <2> QED BY <2>1, <1>4 DEF Registering
<1>9. Registering(l) <=> Head(l.up).type = "register"
  BY <1>2 DEF Registering
<1> QED BY <1>1, <1>2, <1>3, <1>5, <1>6, <1>7, <1>8, <1>9, <1>10 DEF TakenFrom

\* The bridge has sent u on l, which is then k, and the tools of R have ended.
SentWith(l, u, k, R) ==
  /\ LinkOK(k, R) /\ k.sock = l.sock /\ k.down = l.down
  /\ Registering(k) <=> Registering(l)
  /\ Completes(l.up) => Completes(k.up)
  /\ \A r, p : EndComes(l.up, r, p) => EndComes(k.up, r, p)
  /\ \A r, p : l.sock = "open" /\ On(u, "end", p) /\ (r => Completes(l.up)) => EndComes(k.up, r, p)
  /\ \A type, p : On(k.up, type, p) <=> On(l.up, type, p) \/ (l.sock = "open" /\ On(u, type, p))
  /\ \A type, p : On(k.buffer, type, p) => On(l.buffer, type, p) \/ On(u, type, p)

LEMMA SendsMessages ==
  ASSUME NEW l, NEW S, LinkOK(l, S), NEW u \in Seq(Msgs), \A i \in DOMAIN u : u[i].type \in OfPrompt,
         NEW R, Follows(u, R), S \subseteq R, \A p \in R \ S : On(u, "end", p),
         NEW k, k = Link!Sent(l, u)
  PROVE  SentWith(l, u, k, R)
<1>1. l \in LinkType /\ l.up \in Seq(Msgs) /\ l.buffer \in Seq(Msgs)
  BY DEF LinkOK, LinkType
<1>5. ~Completes(u)
  BY DEF Completes, OfPrompt
<1>2. CASE l.sock = "open"
  <2>1. k = [l EXCEPT !.up = @ \o u]
    BY <1>2 DEF Link!Sent
  <2>2. /\ l.up \o u \in Seq(Msgs) /\ Len(l.up \o u) = Len(l.up) + Len(u)
        /\ Len(l.up) \in Nat /\ Len(u) \in Nat
        /\ \A i \in 1..(Len(l.up) + Len(u)) :
             (l.up \o u)[i] = IF i <= Len(l.up) THEN l.up[i] ELSE u[i - Len(l.up)]
        /\ DOMAIN l.up = 1..Len(l.up) /\ DOMAIN u = 1..Len(u)
        /\ DOMAIN (l.up \o u) = 1..(Len(l.up) + Len(u))
    BY <1>1, ConcatProperties, LenProperties
  <2>3. k \in LinkType /\ k.up = l.up \o u /\ k.sock = "open" /\ k.buffer = l.buffer /\ k.down = l.down
    BY <1>1, <1>2, <2>1, <2>2 DEF LinkType
  <2>4. ASSUME NEW i \in DOMAIN k.up, k.up[i].type = "register"
        PROVE  i \in DOMAIN l.up /\ l.up[i].type = "register" /\ i = 1
    <3>1. i \in 1..(Len(l.up) + Len(u))
      BY <2>2, <2>3
    <3>2. CASE i <= Len(l.up)
      <4>1. i \in DOMAIN l.up /\ l.up[i] = k.up[i]
        BY <2>2, <2>3, <3>1, <3>2
      <4> QED BY <4>1, <2>4 DEF LinkOK
    <3>3. CASE ~(i <= Len(l.up))
      <4>1. i - Len(l.up) \in DOMAIN u
        BY <2>2, <3>1, <3>3, SecondPart
      <4>2. k.up[i] = u[i - Len(l.up)]
        BY <2>2, <2>3, <3>1, <3>3
      <4> QED BY <4>1, <4>2, <2>4 DEF OfPrompt
    <3> QED BY <3>2, <3>3
  <2>5. Follows(k.up, R)
    <3>1. Follows(l.up, S)
      BY DEF LinkOK
    <3>2. Follows(l.up \o u, R)
      BY <1>1, <1>5, <3>1, FollowsCat
    <3> QED BY <2>3, <3>2
  <2>6. l.buffer = <<>>
    BY <1>2 DEF LinkOK
  <2>7. LinkOK(k, R)
    <3>1. DOMAIN <<>> = {}
      OBVIOUS
    <3>2. Follows(k.buffer, R)
      BY <2>3, <2>6, <3>1 DEF Follows
    <3> QED BY <2>3, <2>4, <2>5, <2>6, <3>1, <3>2 DEF LinkOK
  <2>8. Registering(k) <=> Registering(l)
    <3>1. Registering(l) => 1 \in DOMAIN l.up
      BY <1>1, <2>2, EmptySeq DEF Registering
    <3>2. ASSUME 1 \in DOMAIN l.up PROVE 1 \in DOMAIN k.up /\ k.up[1] = l.up[1] /\ k.up # <<>>
      BY <2>2, <2>3, <3>2
    <3>3. Registering(k) => 1 \in DOMAIN k.up
      BY <2>2, <2>3, EmptySeq DEF Registering
    <3>4. Registering(k) => 1 \in DOMAIN l.up
      BY <2>4, <3>3 DEF Registering
    <3>5. l.up # <<>> <=> 1 \in DOMAIN l.up
      BY <1>1, <2>2, EmptySeq
    <3> QED BY <3>1, <3>2, <3>4, <3>5 DEF Registering
  <2>9. \A type, p : On(k.up, type, p) <=> On(l.up, type, p) \/ On(u, type, p)
    BY <1>1, <2>3, OnCat
  <2>10. /\ Completes(l.up) => Completes(k.up)
         /\ \A r, p : EndComes(l.up, r, p) => EndComes(k.up, r, p)
         /\ \A r, p : On(u, "end", p) /\ (r => Completes(l.up)) => EndComes(k.up, r, p)
    BY <1>1, <2>3, EndComesCat
  <2> QED BY <1>2, <2>3, <2>7, <2>8, <2>9, <2>10 DEF SentWith
<1>3. CASE l.sock = "dead"
  <2>1. k = l
    BY <1>3 DEF Link!Sent
  <2>2. l.up = <<>> /\ l.buffer = <<>>
    BY <1>3 DEF LinkOK
  <2>3. Follows(l.up, R) /\ Follows(l.buffer, R)
    BY <2>2 DEF Follows
  <2>4. LinkOK(k, R)
    BY <2>1, <2>3 DEF LinkOK
  <2> QED BY <1>3, <2>1, <2>4 DEF SentWith
<1>4. CASE l.sock = "none"
  <2> DEFINE b == l.buffer \o u
  <2>1. k = [l EXCEPT !.buffer = Link!Ring(b)]
    BY <1>4 DEF Link!Sent
  <2>2. /\ b \in Seq(Msgs) /\ Len(b) = Len(l.buffer) + Len(u)
        /\ Len(l.buffer) \in Nat /\ Len(u) \in Nat
        /\ \A i \in 1..(Len(l.buffer) + Len(u)) :
             b[i] = IF i <= Len(l.buffer) THEN l.buffer[i] ELSE u[i - Len(l.buffer)]
        /\ DOMAIN l.buffer = 1..Len(l.buffer) /\ DOMAIN u = 1..Len(u)
        /\ DOMAIN b = 1..(Len(l.buffer) + Len(u))
    BY <1>1, ConcatProperties, LenProperties
  <2>3. \A i \in DOMAIN b : b[i].type \in OfPrompt
    <3> SUFFICES ASSUME NEW i \in DOMAIN b PROVE b[i].type \in OfPrompt
      OBVIOUS
    <3>1. i \in 1..(Len(l.buffer) + Len(u))
      BY <2>2
    <3>2. CASE i <= Len(l.buffer)
      <4>1. i \in DOMAIN l.buffer /\ b[i] = l.buffer[i]
        BY <2>2, <3>1, <3>2
      <4> QED BY <4>1 DEF LinkOK
    <3>3. CASE ~(i <= Len(l.buffer))
      <4>1. i - Len(l.buffer) \in DOMAIN u
        BY <2>2, <3>1, <3>3, SecondPart
      <4>2. b[i] = u[i - Len(l.buffer)]
        BY <2>2, <3>1, <3>3
      <4> QED BY <4>1, <4>2
    <3> QED BY <3>2, <3>3
  <2>4. Follows(b, R)
    <3>1. Follows(l.buffer, S)
      BY DEF LinkOK
    <3> QED BY <1>1, <1>5, <3>1, FollowsCat
  <2>5. \A type, p : On(b, type, p) <=> On(l.buffer, type, p) \/ On(u, type, p)
    BY <1>1, OnCat
  <2> HIDE DEF b
  <2>6. /\ Link!Ring(b) \in Seq(Msgs)
        /\ \A type, p : On(Link!Ring(b), type, p) => On(b, type, p)
        /\ \A i \in DOMAIN Link!Ring(b) : \E j \in DOMAIN b : Link!Ring(b)[i] = b[j]
        /\ Follows(Link!Ring(b), R)
    BY <2>2, <2>4, RingKeeps
  <2>7. k \in LinkType /\ k.up = l.up /\ k.sock = "none" /\ k.buffer = Link!Ring(b) /\ k.down = l.down
    BY <1>1, <1>4, <2>1, <2>6 DEF LinkType
  <2>8. l.up = <<>> /\ l.down = <<>>
    BY <1>4 DEF LinkOK
  <2>9. Follows(<<>>, R) /\ DOMAIN <<>> = {}
    BY DEF Follows
  <2>10. \A i \in DOMAIN k.buffer : k.buffer[i].type \in OfPrompt
    BY <2>3, <2>6, <2>7
  <2>11. LinkOK(k, R)
    BY <2>6, <2>7, <2>8, <2>9, <2>10 DEF LinkOK
  <2>12. Registering(k) <=> Registering(l)
    BY <2>7 DEF Registering
  <2>13. \A type, p : On(k.buffer, type, p) => On(l.buffer, type, p) \/ On(u, type, p)
    BY <2>5, <2>6, <2>7
  <2> QED BY <1>4, <2>7, <2>11, <2>12, <2>13 DEF SentWith
<1> QED BY <1>1, <1>2, <1>3, <1>4 DEF LinkType, SentWith

LEMMA NoRequestToFollow ==
  ASSUME NEW u, NEW S, \A p \in S : ~On(u, "request", p)
  PROVE  Follows(u, S)
BY DEF Follows, On

\* l is lost, and is k.
LostAs(l, k, S) ==
  /\ LinkOK(k, S) /\ k.sock = "dead" /\ k.up = <<>> /\ k.down = <<>> /\ k.buffer = <<>>
  /\ ~Registering(k)

LEMMA LosesMessages ==
  ASSUME NEW l, NEW S, LinkOK(l, S), l.sock = "open", NEW k, k = Link!Lost(l)
  PROVE  LostAs(l, k, S)
<1>1. l \in LinkType /\ l.buffer = <<>> /\ k = [l EXCEPT !.sock = "dead", !.up = <<>>, !.down = <<>>]
  BY DEF LinkOK, Link!Lost
<1>2. <<>> \in Seq(Msgs) /\ <<>> \in Seq(Prompts)
  OBVIOUS
<1>3. k \in LinkType /\ k.sock = "dead" /\ k.up = <<>> /\ k.down = <<>> /\ k.buffer = <<>>
  BY <1>1, <1>2 DEF LinkType
<1>4. Follows(<<>>, S) /\ DOMAIN <<>> = {}
  BY DEF Follows
<1> QED BY <1>3, <1>4 DEF LinkOK, Registering, LostAs

\* The bridge notices the loss of l.
NoticedAs(l, k, S) ==
  /\ LinkOK(k, S) /\ k.sock = "none" /\ k.up = l.up /\ k.down = l.down /\ k.buffer = l.buffer
  /\ ~Registering(k)

LEMMA NoticesLoss ==
  ASSUME NEW l, NEW S, LinkOK(l, S), l.sock = "dead", NEW k, k = Link!Closed(l)
  PROVE  NoticedAs(l, k, S)
<1>1. l \in LinkType /\ k = [l EXCEPT !.sock = "none"]
  BY DEF LinkOK, Link!Closed
<1>2. k \in LinkType /\ k.sock = "none" /\ k.up = l.up /\ k.down = l.down /\ k.buffer = l.buffer
  BY <1>1 DEF LinkType
<1>3. l.up = <<>> /\ l.down = <<>> /\ l.buffer = <<>>
  BY DEF LinkOK
<1>4. Follows(<<>>, S) /\ DOMAIN <<>> = {}
  BY DEF Follows
<1> QED BY <1>2, <1>3, <1>4 DEF LinkOK, Registering, NoticedAs

\* u is what onReconnect sends, of ended tools E and waiting prompts W.
ReplayedAs(u, E, W) ==
  /\ u \in Seq(Msgs) /\ u # <<>> /\ u[1].type = "register"
  /\ \A i \in DOMAIN u : u[i].type = "register" => i = 1
  /\ Completes(u)
  /\ \A p : \A type \in OfPrompt : On(u, type, p) <=> (type = "end" /\ p \in E)
                                                   \/ (type = "request" /\ p \in W)

LEMMA ReplayedMessages ==
  ASSUME NEW E \in SUBSET Prompts, NEW W \in SUBSET Prompts,
         NEW u, u = <<Message("register", None)>> \o Messages("end", E)
                    \o Messages("request", W) \o <<Message("complete", None)>>
  PROVE  ReplayedAs(u, E, W)
<1> DEFINE r == Message("register", None)
           c == Message("complete", None)
           a == Messages("end", E)
           b == Messages("request", W)
<1>1. r \in Msgs /\ c \in Msgs /\ r.type = "register" /\ c.type = "complete"
  BY DEF Message, Msgs
<1>2. /\ a \in Seq(Msgs) /\ \A i \in DOMAIN a : a[i].type = "end"
      /\ \A kind, p : On(a, kind, p) <=> kind = "end" /\ p \in E
  BY MessagesOf DEF OfPrompt
<1>3. /\ b \in Seq(Msgs) /\ \A i \in DOMAIN b : b[i].type = "request"
      /\ \A kind, p : On(b, kind, p) <=> kind = "request" /\ p \in W
  BY MessagesOf DEF OfPrompt
<1>4. \A p : \A type \in OfPrompt : r # Message(type, p) /\ c # Message(type, p)
  BY <1>1 DEF Message, OfPrompt
<1>5. u = ((<<r>> \o a) \o b) \o <<c>>
  OBVIOUS
<1> HIDE DEF r, c, a, b
<1>6. <<r>> \in Seq(Msgs) /\ <<c>> \in Seq(Msgs)
  BY <1>1
<1>7. <<r>> \o a \in Seq(Msgs) /\ (<<r>> \o a) \o b \in Seq(Msgs) /\ u \in Seq(Msgs)
  <2>1. <<r>> \o a \in Seq(Msgs)
    BY <1>2, <1>6, ConcatProperties
  <2>2. (<<r>> \o a) \o b \in Seq(Msgs)
    BY <1>3, <2>1, ConcatProperties
  <2>3. ((<<r>> \o a) \o b) \o <<c>> \in Seq(Msgs)
    BY <1>6, <2>2, ConcatProperties
  <2> QED BY <1>5, <2>1, <2>2, <2>3
<1>8. ASSUME NEW type \in OfPrompt, NEW p
      PROVE  On(u, type, p) <=> (type = "end" /\ p \in E) \/ (type = "request" /\ p \in W)
  <2>1. ~On(<<r>>, type, p) /\ ~On(<<c>>, type, p)
    BY <1>4, OnOne
  <2>2. On(<<r>> \o a, type, p) <=> On(<<r>>, type, p) \/ On(a, type, p)
    BY <1>2, <1>6, OnCat
  <2>3. On((<<r>> \o a) \o b, type, p) <=> On(<<r>> \o a, type, p) \/ On(b, type, p)
    BY <1>3, <1>7, OnCat
  <2>4. On(u, type, p) <=> On((<<r>> \o a) \o b, type, p) \/ On(<<c>>, type, p)
    <3> DEFINE w == (<<r>> \o a) \o b
    <3>1. u = w \o <<c>> /\ w \in Seq(Msgs)
      BY <1>5, <1>7
    <3> HIDE DEF w
    <3>2. On(w \o <<c>>, type, p) <=> On(w, type, p) \/ On(<<c>>, type, p)
      BY <1>6, <3>1, OnCat
    <3>3. On(u, type, p) <=> On(w, type, p) \/ On(<<c>>, type, p)
      BY <3>1, <3>2
    <3> QED BY <3>3 DEF w
  <2> QED BY <1>2, <1>3, <2>1, <2>2, <2>3, <2>4
<1>9. u # <<>> /\ u[1] = r /\ \A i \in DOMAIN u : i # 1 => u[i].type # "register"
  <2> DEFINE v == (a \o b) \o <<c>>
  <2>1. a \o b \in Seq(Msgs) /\ v \in Seq(Msgs)
    BY <1>2, <1>3, <1>6, ConcatProperties
  <2>2. u = <<r>> \o v
    <3>1. (<<r>> \o a) \o b = <<r>> \o (a \o b)
      BY <1>2, <1>3, <1>6, ConcatAssociative
    <3>2. (<<r>> \o (a \o b)) \o <<c>> = <<r>> \o v
      BY <1>6, <2>1, ConcatAssociative
    <3> HIDE DEF v
    <3> QED BY <1>5, <3>1, <3>2
  <2>3. \A i \in DOMAIN v : v[i].type # "register"
    <3> SUFFICES ASSUME NEW i \in DOMAIN v PROVE v[i].type # "register"
      OBVIOUS
    <3>1. /\ Len(a) \in Nat /\ Len(b) \in Nat /\ DOMAIN a = 1..Len(a) /\ DOMAIN b = 1..Len(b)
          /\ Len(a \o b) = Len(a) + Len(b) /\ DOMAIN (a \o b) = 1..(Len(a) + Len(b))
          /\ \A j \in 1..(Len(a) + Len(b)) : (a \o b)[j] = IF j <= Len(a) THEN a[j] ELSE b[j - Len(a)]
      BY <1>2, <1>3, <2>1, ConcatProperties, LenProperties
    <3>2. /\ DOMAIN v = 1..(Len(a \o b) + 1)
          /\ \A j \in 1..(Len(a \o b) + 1) :
               v[j] = IF j <= Len(a \o b) THEN (a \o b)[j] ELSE <<c>>[j - Len(a \o b)]
      <4>1. /\ Len(v) = Len(a \o b) + Len(<<c>>) /\ Len(<<c>>) = 1
            /\ \A j \in 1..(Len(a \o b) + Len(<<c>>)) :
                 v[j] = IF j <= Len(a \o b) THEN (a \o b)[j] ELSE <<c>>[j - Len(a \o b)]
        BY <1>6, <2>1, ConcatProperties
      <4>2. DOMAIN v = 1..Len(v)
        BY <2>1, LenProperties
      <4> HIDE DEF v
      <4> QED BY <4>1, <4>2
    <3> HIDE DEF v
    <3>3. i \in 1..(Len(a) + Len(b) + 1)
      BY <3>1, <3>2
    <3>4. CASE i <= Len(a)
      <4>1. i \in DOMAIN a /\ v[i] = a[i]
        BY <3>1, <3>2, <3>3, <3>4
      <4> QED BY <4>1, <1>2
    <3>5. CASE ~(i <= Len(a)) /\ i <= Len(a) + Len(b)
      <4>1. i \in 1..(Len(a) + Len(b)) /\ v[i] = b[i - Len(a)]
        BY <3>1, <3>2, <3>3, <3>5
      <4>2. i - Len(a) \in DOMAIN b
        BY <3>1, <3>5, <4>1, SecondPart
      <4> QED BY <4>1, <4>2, <1>3
    <3>6. CASE ~(i <= Len(a) + Len(b))
      <4>1. i = Len(a \o b) + 1 /\ ~(i <= Len(a \o b)) /\ i - Len(a \o b) = 1
        BY <3>1, <3>3, <3>6
      <4>2. v[i] = <<c>>[1]
        BY <3>2, <4>1, <3>1, <3>3
      <4> QED BY <4>2, <1>1
    <3> QED BY <3>4, <3>5, <3>6
  <2> HIDE DEF v
  <2>4. /\ Len(u) = 1 + Len(v) /\ Len(v) \in Nat /\ DOMAIN u = 1..(1 + Len(v)) /\ DOMAIN v = 1..Len(v)
        /\ \A i \in 1..(1 + Len(v)) : u[i] = IF i <= 1 THEN <<r>>[i] ELSE v[i - 1]
    <3>1. /\ Len(<<r>>) = 1 /\ Len(u) = Len(<<r>>) + Len(v)
          /\ \A i \in 1..(Len(<<r>>) + Len(v)) :
               u[i] = IF i <= Len(<<r>>) THEN <<r>>[i] ELSE v[i - Len(<<r>>)]
      BY <1>6, <2>1, <2>2, ConcatProperties
    <3>2. Len(v) \in Nat /\ DOMAIN v = 1..Len(v) /\ DOMAIN u = 1..Len(u)
      BY <1>7, <2>1, LenProperties
    <3> QED BY <3>1, <3>2
  <2>5. u[1] = r /\ u # <<>>
    <3>1. 1 \in 1..(1 + Len(v)) /\ <<r>>[1] = r
      BY <2>4
    <3> QED BY <2>4, <3>1, EmptySeq
  <2>6. ASSUME NEW i \in DOMAIN u, i # 1 PROVE u[i].type # "register"
    <3>1. i \in 1..(1 + Len(v)) /\ ~(i <= 1) /\ i - 1 \in 1..Len(v)
      BY <2>4, <2>6
    <3>2. u[i] = v[i - 1]
      BY <2>4, <3>1
    <3> QED BY <2>3, <2>4, <3>1, <3>2
  <2> QED BY <2>5, <2>6
<1>10. Completes(u)
  <2>1. Completes(<<c>>)
    BY <1>1 DEF Completes
  <2> DEFINE w == (<<r>> \o a) \o b
  <2>2. u = w \o <<c>> /\ w \in Seq(Msgs)
    BY <1>5, <1>7
  <2> HIDE DEF w
  <2> QED BY <1>6, <2>1, <2>2, EndComesCat
<1> QED BY <1>1, <1>7, <1>8, <1>9, <1>10 DEF ReplayedAs

\* A new socket, on which the bridge has sent u and what it had kept.
OpenedWith(l, u, k, S) ==
  /\ LinkOK(k, S) /\ k.sock = "open" /\ k.down = l.down /\ k.buffer = <<>> /\ Registering(k)
  /\ Completes(k.up)
  /\ \A type, p : On(k.up, type, p) <=> On(u, type, p) \/ On(l.buffer, type, p)

LEMMA OpensSocket ==
  ASSUME NEW l, NEW S, LinkOK(l, S), l.sock = "none",
         NEW u \in Seq(Msgs), u # <<>>, u[1].type = "register",
         \A i \in DOMAIN u : u[i].type = "register" => i = 1,
         \A p \in S : ~On(u, "request", p), Completes(u),
         NEW k, k = Link!Opened(l, u)
  PROVE  OpenedWith(l, u, k, S)
<1> DEFINE b == l.buffer
<1>1. l \in LinkType /\ b \in Seq(Msgs) /\ \A i \in DOMAIN b : b[i].type \in OfPrompt
  BY DEF LinkOK, LinkType
<1>2. Follows(b, S) /\ Follows(u, S)
  BY NoRequestToFollow DEF LinkOK
<1>3. k = [l EXCEPT !.sock = "open", !.buffer = <<>>, !.up = u \o b]
  BY DEF Link!Opened
<1> HIDE DEF b
<1>4. /\ u \o b \in Seq(Msgs) /\ Len(u) \in Nat /\ Len(b) \in Nat
      /\ \A i \in 1..(Len(u) + Len(b)) : (u \o b)[i] = IF i <= Len(u) THEN u[i] ELSE b[i - Len(u)]
      /\ DOMAIN u = 1..Len(u) /\ DOMAIN b = 1..Len(b) /\ DOMAIN (u \o b) = 1..(Len(u) + Len(b))
  BY <1>1, ConcatProperties, LenProperties
<1>5. <<>> \in Seq(Msgs)
  OBVIOUS
<1>6. k \in LinkType /\ k.sock = "open" /\ k.down = l.down /\ k.buffer = <<>> /\ k.up = u \o b
  BY <1>1, <1>3, <1>4, <1>5 DEF LinkType
<1>14. ~Completes(b)
  BY <1>1 DEF Completes, OfPrompt
<1>7. Follows(u \o b, S)
  BY <1>1, <1>2, <1>14, FollowsCat
<1>15. Completes(u \o b)
  BY <1>1, EndComesCat
<1>8. 1 \in DOMAIN u /\ 1 \in DOMAIN (u \o b) /\ (u \o b)[1] = u[1]
  <2>1. Len(u) >= 1
    BY <1>4, EmptySeq
  <2> QED BY <1>4, <2>1
<1>9. Registering(k)
  <2>1. u \o b # <<>>
    BY <1>8
  <2> QED BY <1>6, <1>8, <2>1 DEF Registering
<1>10. ASSUME NEW i \in DOMAIN (u \o b), (u \o b)[i].type = "register" PROVE i = 1
  <2>1. i \in 1..(Len(u) + Len(b))
    BY <1>4
  <2>2. CASE i <= Len(u)
    BY <1>4, <1>10, <2>1, <2>2
  <2>3. CASE ~(i <= Len(u))
    <3>1. i - Len(u) \in DOMAIN b /\ (u \o b)[i] = b[i - Len(u)]
      BY <1>4, <2>1, <2>3, SecondPart
    <3> QED BY <1>1, <1>10, <3>1 DEF OfPrompt
  <2> QED BY <2>2, <2>3
<1>11. Follows(<<>>, S) /\ DOMAIN <<>> = {}
  BY DEF Follows
<1>12. LinkOK(k, S)
  BY <1>6, <1>7, <1>10, <1>11 DEF LinkOK
<1>13. \A type, p : On(u \o b, type, p) <=> On(u, type, p) \/ On(b, type, p)
  BY <1>1, OnCat
<1> QED BY <1>6, <1>9, <1>12, <1>13, <1>15 DEF b, OpenedWith

LEMMA HoldsTail ==
  ASSUME NEW s \in Seq(Prompts), s # <<>>
  PROVE  /\ Tail(s) \in Seq(Prompts) /\ Head(s) \in Prompts /\ Holds(s, Head(s))
         /\ \A p : Holds(Tail(s), p) => Holds(s, p)
<1>1. /\ Tail(s) \in Seq(Prompts) /\ Len(Tail(s)) = Len(s) - 1 /\ Len(s) \in Nat /\ Head(s) = s[1]
      /\ \A i \in 1..Len(Tail(s)) : Tail(s)[i] = s[i + 1]
      /\ DOMAIN s = 1..Len(s) /\ DOMAIN Tail(s) = 1..(Len(s) - 1) /\ Head(s) \in Prompts
  BY HeadTailProperties, LenProperties
<1>2. ASSUME NEW i \in DOMAIN Tail(s) PROVE i + 1 \in DOMAIN s /\ Tail(s)[i] = s[i + 1]
  BY <1>1
<1>3. 1 \in DOMAIN s
  BY <1>1, EmptySeq
<1> QED BY <1>1, <1>2, <1>3 DEF Holds

LEMMA HoldsAppend ==
  ASSUME NEW s \in Seq(Prompts), NEW q \in Prompts
  PROVE  /\ Append(s, q) \in Seq(Prompts)
         /\ \A p : Holds(Append(s, q), p) => Holds(s, p) \/ p = q
<1>1. /\ Append(s, q) \in Seq(Prompts) /\ Len(Append(s, q)) = Len(s) + 1 /\ Len(s) \in Nat
      /\ DOMAIN s = 1..Len(s) /\ DOMAIN Append(s, q) = 1..(Len(s) + 1)
      /\ \A i \in 1..Len(s) : Append(s, q)[i] = s[i]
      /\ Append(s, q)[Len(s) + 1] = q
  BY AppendProperties, LenProperties
<1>2. ASSUME NEW i \in DOMAIN Append(s, q)
      PROVE  (i \in DOMAIN s /\ Append(s, q)[i] = s[i]) \/ Append(s, q)[i] = q
  BY <1>1
<1> QED BY <1>1, <1>2 DEF Holds

\* The bridge takes an answer.
TakenDown(l, k, S) ==
  /\ LinkOK(k, S) /\ l.sock = "open" /\ k.sock = "open"
  /\ k.up = l.up /\ k.buffer = l.buffer /\ (Registering(k) <=> Registering(l))
  /\ Head(l.down) \in Prompts /\ Holds(l.down, Head(l.down))
  /\ \A p : Holds(k.down, p) => Holds(l.down, p)

LEMMA ReceivesDown ==
  ASSUME NEW l, NEW S, LinkOK(l, S), l.down # <<>>, NEW k, k = [l EXCEPT !.down = Tail(@)]
  PROVE  TakenDown(l, k, S)
<1>1. l \in LinkType /\ l.down \in Seq(Prompts) /\ l.sock = "open"
  BY DEF LinkOK, LinkType
<1>2. /\ Tail(l.down) \in Seq(Prompts) /\ Head(l.down) \in Prompts /\ Holds(l.down, Head(l.down))
      /\ \A p : Holds(Tail(l.down), p) => Holds(l.down, p)
  BY <1>1, HoldsTail
<1>3. k \in LinkType /\ k.sock = "open" /\ k.up = l.up /\ k.buffer = l.buffer /\ k.down = Tail(l.down)
  BY <1>1, <1>2 DEF LinkType
<1>4. LinkOK(k, S)
  BY <1>3 DEF LinkOK
<1>5. Registering(k) <=> Registering(l)
  BY <1>3 DEF Registering
<1> QED BY <1>1, <1>2, <1>3, <1>4, <1>5 DEF TakenDown

\* The server forwards an answer.
SentDown(l, q, k, S) ==
  /\ LinkOK(k, S) /\ k.sock = "open"
  /\ k.up = l.up /\ k.buffer = l.buffer /\ (Registering(k) <=> Registering(l))
  /\ \A p : Holds(k.down, p) => Holds(l.down, p) \/ p = q

LEMMA ForwardsDown ==
  ASSUME NEW l, NEW S, LinkOK(l, S), l.sock = "open", NEW q \in Prompts,
         NEW k, k = [l EXCEPT !.down = Append(@, q)]
  PROVE  SentDown(l, q, k, S)
<1>1. l \in LinkType /\ l.down \in Seq(Prompts)
  BY DEF LinkOK, LinkType
<1>2. /\ Append(l.down, q) \in Seq(Prompts)
      /\ \A p : Holds(Append(l.down, q), p) => Holds(l.down, p) \/ p = q
  BY <1>1, HoldsAppend
<1>3. k \in LinkType /\ k.sock = "open" /\ k.up = l.up /\ k.buffer = l.buffer
      /\ k.down = Append(l.down, q)
  BY <1>1, <1>2 DEF LinkType
<1>4. LinkOK(k, S)
  BY <1>3 DEF LinkOK
<1>5. Registering(k) <=> Registering(l)
  BY <1>3 DEF Registering
<1> QED BY <1>2, <1>3, <1>4, <1>5 DEF SentDown

-----------------------------------------------------------------------------
(* The cards of a tab. *)

SameTab(tab, new) ==
  new.sync = tab.sync /\ new.stale = tab.stale /\ new.ends = tab.ends /\ new.out = tab.out
  /\ new.doubt = tab.doubt

LEMMA ShowsCards ==
  ASSUME NEW tab \in TabType, NEW S, NEW new, new = Shows(tab, S)
  PROVE  /\ new \in TabType /\ SameTab(tab, new) /\ new.missed = tab.missed \ S
         /\ \A p \in Prompts : new.card[p] = IF p \in S \ tab.ends /\ tab.card[p] = "none"
                                             THEN "pending" ELSE tab.card[p]
BY DEF Shows, TabType, SameTab

LEMMA DismissesCards ==
  ASSUME NEW tab \in TabType, NEW S, NEW new, new = Dismisses(tab, S)
  PROVE  /\ new \in TabType /\ SameTab(tab, new) /\ new.missed = tab.missed
         /\ \A p \in Prompts : new.card[p] = IF p \in S /\ tab.card[p] = "pending"
                                             THEN "dismissed" ELSE tab.card[p]
BY DEF Dismisses, TabType, SameTab

LEMMA MissesCards ==
  ASSUME NEW tab \in TabType, NEW S \in SUBSET Prompts, NEW new, new = Misses(tab, S)
  PROVE  /\ new \in TabType /\ SameTab(tab, new) /\ new.card = tab.card
         /\ new.missed = tab.missed \cup {p \in S : tab.card[p] = "none"}
BY DEF Misses, TabType, SameTab

\* The prompts that wait are sent, but for those that are lost.
LEMMA ReplaysCards ==
  ASSUME NEW tab \in TabType, NEW lost, server \in ServerType, NEW new, new = Replays(tab, lost)
  PROVE  /\ new \in TabType /\ SameTab(tab, new)
         /\ \A p \in Prompts :
              /\ new.card[p] \in {tab.card[p], "pending"}
              /\ new.card[p] = tab.card[p] \/ p \in (server.tracked \ server.queued) \ tab.ends
              /\ p \in server.tracked \ server.queued /\ p \notin tab.ends
                   => new.card[p] # "none" \/ p \in new.missed
              /\ p \in tab.missed => p \in new.missed \/ new.card[p] # "none" \/ p \in tab.ends
              /\ tab.card[p] # "none" => new.card[p] = tab.card[p]
<1> DEFINE W == server.tracked \ server.queued
           shown == Shows(tab, W \ lost)
<1>1. W \in SUBSET Prompts /\ W \cap lost \in SUBSET Prompts
  BY DEF ServerType
<1>2. /\ shown \in TabType /\ SameTab(tab, shown) /\ shown.missed = tab.missed \ (W \ lost)
      /\ \A p \in Prompts : shown.card[p] = IF p \in (W \ lost) \ tab.ends /\ tab.card[p] = "none"
                                            THEN "pending" ELSE tab.card[p]
  <2> HIDE DEF W
  <2> QED BY ShowsCards
<1>3. new = Misses(shown, W \cap lost)
  BY DEF Replays
<1> HIDE DEF W, shown
<1>4. /\ new \in TabType /\ SameTab(shown, new) /\ new.card = shown.card
      /\ new.missed = shown.missed \cup {p \in W \cap lost : shown.card[p] = "none"}
  BY <1>1, <1>2, <1>3, MissesCards
<1>5. SameTab(tab, new)
  BY <1>2, <1>4 DEF SameTab
<1> QED BY <1>2, <1>4, <1>5 DEF W

LEMMA DoubtsCards ==
  ASSUME NEW tab \in TabType, NEW new, new = Doubts(tab)
  PROVE  /\ new \in TabType
         /\ new.sync = tab.sync /\ new.stale = tab.stale /\ new.ends = tab.ends /\ new.out = tab.out
         /\ new.card = tab.card /\ new.missed = tab.missed
         /\ \A p \in Prompts : new.card[p] = "pending" => p \in new.doubt
BY DEF Doubts, TabType

LEMMA EndsCards ==
  ASSUME NEW tab \in TabType, NEW S \in SUBSET Prompts, NEW new, new = Ends(tab, S)
  PROVE  /\ new \in TabType
         /\ new.sync = tab.sync /\ new.stale = tab.stale /\ new.out = tab.out
         /\ new.ends = tab.ends \cup S /\ new.doubt = tab.doubt \ S /\ new.missed = tab.missed
         /\ \A p \in Prompts : new.card[p] = IF p \in S /\ tab.card[p] = "pending"
                                             THEN "dismissed" ELSE tab.card[p]
<1> DEFINE d == Dismisses(tab, S)
<1>1. /\ d \in TabType /\ SameTab(tab, d) /\ d.missed = tab.missed
      /\ \A p \in Prompts : d.card[p] = IF p \in S /\ tab.card[p] = "pending"
                                        THEN "dismissed" ELSE tab.card[p]
  BY DismissesCards
<1>2. new = [d EXCEPT !.ends = @ \cup S, !.doubt = @ \ S]
  BY DEF Ends
<1> HIDE DEF d
<1>3. d \in TabType
  BY <1>1
<1>4. /\ new.sync = d.sync /\ new.stale = d.stale /\ new.out = d.out /\ new.card = d.card
      /\ new.missed = d.missed /\ new.ends = d.ends \cup S /\ new.doubt = d.doubt \ S
  BY <1>2, <1>3 DEF TabType
<1>5. /\ d.ends \cup S \in SUBSET Prompts /\ d.doubt \ S \in SUBSET Prompts
  BY <1>3 DEF TabType
<1>6. new \in TabType
  BY <1>2, <1>3, <1>5 DEF TabType
<1> QED BY <1>1, <1>4, <1>6 DEF SameTab

LEMMA ResetsCards ==
  ASSUME NEW tab \in TabType, NEW new, new = Resets(tab)
  PROVE  /\ new \in TabType /\ new.missed = tab.missed
         /\ new.sync = tab.sync /\ new.out = tab.out /\ new.ends = {}
         /\ \A p \in Prompts : new.card[p] = "none"
BY DEF Resets, NoCards, TabType

-----------------------------------------------------------------------------
(* One lemma per step. *)

\* What a step that leaves the bus alone keeps.
LEMMA BusKept ==
  ASSUME BusInv, UNCHANGED busVars
  PROVE  /\ BusInv' /\ outcome' = outcome
         /\ \A p : Settled(p)' <=> Settled(p)
BY UnchangedKeepsBus DEF busVars, Settled

LEMMA Outcomes ==
  ASSUME BusInv, NEW p \in Prompts
  PROVE  /\ outcome[p] \in {"new", "waiting"} \cup Settlers
         /\ Settled(p) <=> outcome[p] # "new" /\ outcome[p] # "waiting"
BY DEF BusInv, BusTypeOK, Settled, Settlers

\* The server takes a message of the bridge.
LEMMA TakesNext ==
  ASSUME IInv, NEW type, NextUp(type)
  PROVE  TakenFrom(link, link', ended) /\ Head(link.up).type = type
<1>1. LinkOK(link, ended) /\ link.up # <<>> /\ Head(link.up).type = type
      /\ link' = [link EXCEPT !.up = Tail(@)]
  BY DEF IInv, NextUp
<1> QED BY ONLY <1>1, NextMessage

LEMMA Takes ==
  ASSUME IInv, NEW type, NextUp(type)
  PROVE  /\ LinkOK(link', ended) /\ link.sock = "open" /\ link'.sock = "open"
         /\ link'.buffer = link.buffer /\ link'.down = link.down
         /\ Head(link.up) \in Msgs /\ Head(link.up).type = type
         /\ type \in OfPrompt => Incoming \in Prompts /\ Head(link.up) = Message(type, Incoming)
         /\ ~Registering(link') /\ (Registering(link) <=> type = "register")
         /\ \A ty, p : On(link'.up, ty, p) => On(link.up, ty, p)
         /\ \A ty, p : On(link.up, ty, p) => Head(link.up) = Message(ty, p) \/ On(link'.up, ty, p)
         /\ \A p \in ended : Head(link.up) = Message("request", p) =>
              \E j \in DOMAIN link'.up : LastEnd(link'.up, j, p)
         /\ Completes(link.up) => type = "complete" \/ Completes(link'.up)
         /\ \A p : On(link.up, "end", p) =>
              Head(link.up) = Message("end", p) \/ EndComes(link'.up, FALSE, p)
         /\ \A p : EndComes(link.up, TRUE, p) =>
              (type = "complete" /\ EndComes(link'.up, FALSE, p)) \/ EndComes(link'.up, TRUE, p)
         /\ type \in OfPrompt => On(link.up, type, Incoming)
<1>1. LinkOK(link, ended) /\ link.up # <<>> /\ Head(link.up).type = type
      /\ link' = [link EXCEPT !.up = Tail(@)]
  BY DEF IInv, NextUp
<1>2. /\ LinkOK(link', ended) /\ link.sock = "open" /\ link'.sock = "open"
      /\ link'.buffer = link.buffer /\ link'.down = link.down
      /\ Head(link.up) \in Msgs
      /\ ~Registering(link') /\ (Registering(link) <=> Head(link.up).type = "register")
      /\ \A ty, p : On(link'.up, ty, p) => On(link.up, ty, p)
      /\ \A ty, p : On(link.up, ty, p) => Head(link.up) = Message(ty, p) \/ On(link'.up, ty, p)
      /\ \A p \in ended : Head(link.up) = Message("request", p) =>
           \E j \in DOMAIN link'.up : LastEnd(link'.up, j, p)
      /\ Completes(link.up) => Head(link.up).type = "complete" \/ Completes(link'.up)
      /\ \A p : On(link.up, "end", p) =>
           Head(link.up) = Message("end", p) \/ EndComes(link'.up, FALSE, p)
      /\ \A p : EndComes(link.up, TRUE, p) =>
           \/ Head(link.up).type = "complete" /\ EndComes(link'.up, FALSE, p)
           \/ EndComes(link'.up, TRUE, p)
  <2>1. TakenFrom(link, link', ended)
    BY TakesNext
  <2> QED BY <1>1, <2>1 DEF TakenFrom
<1>3. type \in OfPrompt => Incoming \in Prompts /\ Head(link.up) = Message(type, Incoming)
  BY <1>1, <1>2, MsgNames DEF Incoming
<1>4. ASSUME type \in OfPrompt PROVE On(link.up, type, Incoming)
  <2>1. link.up \in Seq(Msgs)
    BY <1>1 DEF LinkOK, LinkType
  <2>2. 1 \in DOMAIN link.up /\ Head(link.up) = link.up[1]
    BY <1>1, <2>1, HeadTailProperties, LenProperties, EmptySeq
  <2> QED BY <1>3, <1>4, <2>2 DEF On
<1> QED BY <1>1, <1>2, <1>3, <1>4

\* A message that neither registers nor completes leaves what is to come.
LEMMA EndStaysToCome ==
  ASSUME IInv, NEW type \in OfPrompt, NextUp(type), NEW p,
         EndComes(link.up, server.replaying, p),
         server.replaying \/ Head(link.up) # Message("end", p)
  PROVE  EndComes(link'.up, server.replaying, p)
<1>1. server.replaying \in BOOLEAN
  BY DEF IInv, PathTyped, ServerType
<1>2. CASE server.replaying = TRUE
  <2>1. EndComes(link.up, TRUE, p) /\ type # "complete"
    BY <1>2 DEF OfPrompt
  <2>2. EndComes(link'.up, TRUE, p)
    <3>1. TakenFrom(link, link', ended) /\ Head(link.up).type = type
      BY TakesNext
    <3> QED BY <2>1, <3>1 DEF TakenFrom
  <2> QED BY <1>2, <2>2
<1>3. CASE server.replaying = FALSE
  <2>1. On(link.up, "end", p)
    BY DEF EndComes, On
  <2>2. EndComes(link'.up, FALSE, p)
    BY <1>3, <2>1, Takes
  <2> QED BY <1>3, <2>2
<1> QED BY <1>1, <1>2, <1>3

LEMMA SourceResetCards ==
  ASSUME NEW tab \in TabType, NEW new, tab.sync # "off"
  PROVE  /\ new = SourceReset(tab) =>
              /\ new \in TabType /\ new.out = tab.out /\ new.ends = {}
              /\ new.sync \in {"live", "orphaned"} /\ \A p \in Prompts : new.card[p] = "none"
         /\ new = SourceResetMissed(tab) =>
              /\ new \in TabType /\ new.out = tab.out /\ new.ends = tab.ends /\ new.card = tab.card
              /\ \A p \in Prompts : new.card[p] = "pending" => p \in new.doubt
<1>1. ASSUME new = SourceReset(tab)
      PROVE  /\ new \in TabType /\ new.out = tab.out /\ new.ends = {}
             /\ new.sync \in {"live", "orphaned"} /\ \A p \in Prompts : new.card[p] = "none"
  <2> DEFINE r == Resets(tab)
  <2>1. r \in TabType /\ r.out = tab.out /\ r.ends = {} /\ \A p \in Prompts : r.card[p] = "none"
    BY ResetsCards
  <2>2. new = [r EXCEPT !.sync = CASE @ \in {"wanted", "orphaned"} -> "orphaned"
                                   [] OTHER -> "live"]
    BY <1>1 DEF SourceReset
  <2> HIDE DEF r
  <2> QED BY <2>1, <2>2 DEF TabType
<1>2. ASSUME new = SourceResetMissed(tab)
      PROVE  /\ new \in TabType /\ new.out = tab.out /\ new.ends = tab.ends /\ new.card = tab.card
             /\ \A p \in Prompts : new.card[p] = "pending" => p \in new.doubt
  <2> DEFINE d == Doubts(tab)
  <2>1. /\ d \in TabType
        /\ d.sync = tab.sync /\ d.stale = tab.stale /\ d.ends = tab.ends /\ d.out = tab.out
        /\ d.card = tab.card /\ d.missed = tab.missed
        /\ \A p \in Prompts : d.card[p] = "pending" => p \in d.doubt
    BY DoubtsCards
  <2>2. new = [d EXCEPT !.sync = IF @ = "live" THEN "behind" ELSE @, !.stale = TRUE]
    BY <1>2 DEF SourceResetMissed
  <2> HIDE DEF d
  <2> QED BY <2>1, <2>2 DEF TabType
<1> QED BY <1>1, <1>2

LEMMA SessionRegisterKeeps == IInv /\ SessionRegister => IInv'
<1> SUFFICES ASSUME IInv, SessionRegister PROVE IInv'
  OBVIOUS
<1>1. NextUp("register") /\ UNCHANGED <<busVars, ended>> /\ abandoned' = {}
  BY DEF SessionRegister
<1>2. /\ LinkOK(link', ended) /\ link'.sock = "open"
      /\ link'.buffer = link.buffer /\ link'.down = link.down
      /\ Head(link.up).type = "register" /\ Registering(link) /\ ~Registering(link')
      /\ \A ty, p : On(link'.up, ty, p) => On(link.up, ty, p)
      /\ \A ty, p : On(link.up, ty, p) => Head(link.up) = Message(ty, p) \/ On(link'.up, ty, p)
      /\ Completes(link.up) => Completes(link'.up)
  BY <1>1, Takes
<1>3. ASSUME NEW type \in OfPrompt, NEW p, On(link.up, type, p) PROVE On(link'.up, type, p)
  <2>1. Head(link.up) # Message(type, p)
    BY <1>2 DEF Message, OfPrompt
  <2> QED BY <1>2, <1>3, <2>1
<1>4. BusInv' /\ outcome' = outcome /\ \A p : Settled(p)' <=> Settled(p)
  BY <1>1, BusKept DEF IInv
<1>5. server \in ServerType /\ tabs \in [Tabs -> TabType] /\ ended \subseteq Prompts
  BY DEF IInv, PathTyped
<1>6. /\ server' \in ServerType /\ server'.tracked = server.tracked /\ server'.queued = server.queued
      /\ server'.ends = {} /\ server'.ends # None /\ server'.replaying
  BY <1>5, PathAssumption DEF SessionRegister, ServerType
<1>7. ASSUME NEW t \in Tabs
      PROVE  /\ tabs'[t] \in TabType /\ tabs'[t].out = tabs[t].out
             /\ \/ /\ tabs'[t].card = tabs[t].card /\ tabs'[t].ends = tabs[t].ends
                   /\ \/ tabs'[t].sync = "off"
                      \/ \A p \in Prompts : tabs'[t].card[p] = "pending" => p \in tabs'[t].doubt
                \/ /\ tabs'[t].ends = {}
                   /\ \A p \in Prompts : tabs'[t].card[p] = "none"
  <2>1. tabs[t] \in TabType
    BY <1>5
  <2>2. \/ Online(t) /\ tabs'[t] = SourceResetMissed(tabs[t])
        \/ Online(t) /\ tabs'[t] = SourceReset(tabs[t])
        \/ ~Online(t) /\ tabs'[t] = [tabs[t] EXCEPT !.stale = TRUE]
    BY DEF SessionRegister, Drops
  <2>3. CASE Online(t) /\ tabs'[t] \in {SourceResetMissed(tabs[t]), SourceReset(tabs[t])}
    <3>1. tabs[t].sync # "off"
      BY <2>3 DEF Online
    <3> QED BY <2>1, <2>3, <3>1, SourceResetCards
  <2>4. CASE ~Online(t) /\ tabs'[t] = [tabs[t] EXCEPT !.stale = TRUE]
    BY <2>1, <2>4 DEF TabType, Online
  <2> QED BY <2>2, <2>3, <2>4
<1>8. PathTyped'
  <2>1. DOMAIN tabs' = Tabs /\ tabs' = [t \in Tabs |-> tabs'[t]]
    BY DEF SessionRegister
  <2> QED BY <1>1, <1>5, <1>6, <1>7, <2>1 DEF PathTyped
<1>9. ServerInv'
  <2>1. Completes(link'.up)
    BY <1>2 DEF IInv, ServerInv
  <2> QED BY <1>2, <1>6, <2>1 DEF ServerInv
<1>10. ASSUME NEW p \in Prompts PROVE PromptOK(p)'
  <2>1. PromptOK(p)
    BY DEF IInv, PromptsOK
  <2> QED BY <1>1, <1>2, <1>3, <1>4, <1>6, <2>1 DEF PromptOK, OfPrompt, Awaited
<1>11. ASSUME NEW p \in Prompts, NEW t \in Tabs PROVE TabOK(tabs[t], p)'
  <2>1. PromptOK(p) /\ TabOK(tabs[t], p)
    BY DEF IInv, PromptsOK, TabsOK
  <2>2. outcome[p] = "waiting" => On(link'.up, "request", p)
    BY <1>2, <1>3, <2>1 DEF PromptOK, OfPrompt
  <2> QED BY <1>1, <1>2, <1>4, <1>7, <2>1, <2>2 DEF TabOK, Unheard, Undismissed, Shown, EndTold
<1> QED BY <1>1, <1>2, <1>4, <1>8, <1>9, <1>10, <1>11 DEF IInv, PromptsOK, TabsOK

LEMMA ReplayCompleteKeeps == IInv /\ (ReplayComplete \/ SafetyTimeout) => IInv'
<1> SUFFICES ASSUME IInv, ReplayComplete \/ SafetyTimeout PROVE IInv'
  OBVIOUS
<1>1. /\ UNCHANGED <<busVars, ended, abandoned, faults>>
      /\ server' = [server EXCEPT !.replaying = FALSE]
      /\ tabs' = [t \in Tabs |-> [tabs[t] EXCEPT !.sync = IF @ = "orphaned" THEN "live" ELSE @]]
  BY DEF ReplayComplete, SafetyTimeout, BridgeReplayEnds
<1>9. /\ tabs' \in [Tabs -> TabType]
      /\ \A t \in Tabs :
           /\ tabs'[t].sync = IF tabs[t].sync = "orphaned" THEN "live" ELSE tabs[t].sync
           /\ tabs'[t].card = tabs[t].card /\ tabs'[t].ends = tabs[t].ends
           /\ tabs'[t].out = tabs[t].out /\ tabs'[t].missed = tabs[t].missed
           /\ tabs'[t].doubt = tabs[t].doubt
  <2>1. \A t \in Tabs : tabs[t] \in TabType
    BY DEF IInv, PathTyped
  <2>2. ASSUME NEW t \in Tabs
        PROVE  /\ tabs'[t] \in TabType
               /\ tabs'[t].sync = IF tabs[t].sync = "orphaned" THEN "live" ELSE tabs[t].sync
               /\ tabs'[t].card = tabs[t].card /\ tabs'[t].ends = tabs[t].ends
               /\ tabs'[t].out = tabs[t].out /\ tabs'[t].missed = tabs[t].missed
               /\ tabs'[t].doubt = tabs[t].doubt
    BY <1>1, <2>1 DEF TabType
  <2>3. DOMAIN tabs' = Tabs /\ tabs' = [t \in Tabs |-> tabs'[t]]
    BY <1>1
  <2> QED BY <2>2, <2>3
<1>2. /\ LinkOK(link', ended) /\ link'.sock = link.sock
      /\ link'.buffer = link.buffer /\ link'.down = link.down
      /\ Registering(link') <=> Registering(link)
      /\ Registering(link) => Completes(link'.up)
      /\ \A type \in OfPrompt : \A p : On(link'.up, type, p) <=> On(link.up, type, p)
  <2>1. CASE ReplayComplete
    <3>1. NextUp("complete")
      BY <2>1 DEF ReplayComplete
    <3>2. /\ LinkOK(link', ended) /\ link'.sock = "open" /\ link.sock = "open"
          /\ link'.buffer = link.buffer /\ link'.down = link.down
          /\ Head(link.up).type = "complete" /\ ~Registering(link) /\ ~Registering(link')
          /\ \A ty, p : On(link'.up, ty, p) => On(link.up, ty, p)
          /\ \A ty, p : On(link.up, ty, p) => Head(link.up) = Message(ty, p) \/ On(link'.up, ty, p)
      <4>1. TakenFrom(link, link', ended) /\ Head(link.up).type = "complete"
        BY <3>1, TakesNext
      <4> QED BY <4>1 DEF TakenFrom
    <3>3. ASSUME NEW type \in OfPrompt, NEW p PROVE Head(link.up) # Message(type, p)
      BY <3>2 DEF Message, OfPrompt
    <3> QED BY <3>2, <3>3
  <2>2. CASE SafetyTimeout
    BY <2>2 DEF SafetyTimeout, IInv, ServerInv
  <2> QED BY <2>1, <2>2
<1>3. BusInv' /\ outcome' = outcome /\ \A p : Settled(p)' <=> Settled(p)
  BY <1>1, BusKept DEF IInv
<1>4. /\ server' \in ServerType /\ server'.tracked = server.tracked /\ server'.queued = server.queued
      /\ server'.ends = server.ends /\ ~server'.replaying
  BY <1>1 DEF ServerType, IInv, PathTyped
<1>5. PathTyped'
  BY <1>1, <1>4, <1>9 DEF IInv, PathTyped
<1>6. ServerInv'
  <2>1. \A t \in Tabs : tabs'[t].sync # "orphaned"
    BY <1>9
  <2> QED BY <1>1, <1>2, <1>4, <2>1 DEF IInv, ServerInv, Awaited
<1>7. ASSUME NEW p \in Prompts PROVE PromptOK(p)'
  <2>1. PromptOK(p)
    BY DEF IInv, PromptsOK
  <2> QED BY <1>1, <1>2, <1>3, <1>4, <2>1 DEF PromptOK, OfPrompt, Awaited
<1>8. ASSUME NEW p \in Prompts, NEW t \in Tabs PROVE TabOK(tabs[t], p)'
  <2>1. TabOK(tabs[t], p)
    BY DEF IInv, TabsOK
  <2>2. Unheard(tabs[t], p)' /\ Undismissed(tabs[t], p)'
    BY <1>3, <1>9, <2>1 DEF TabOK, Unheard, Undismissed
  <2>3. Shown(tabs[t], p)'
    BY <1>1, <1>2, <1>3, <1>4, <1>9, <2>1 DEF TabOK, Shown, OfPrompt
  <2>4. EndComes(link.up, server.replaying, p) => EndComes(link'.up, server'.replaying, p)
    <3>1. EndComes(link.up, server.replaying, p) => On(link'.up, "end", p)
      BY <1>2 DEF EndComes, On, OfPrompt
    <3> QED BY <1>4, <3>1 DEF EndComes, On
  <2>5. EndTold(tabs[t], p)'
    BY <1>1, <1>2, <1>9, <2>1, <2>4 DEF TabOK, EndTold, Awaited
  <2> QED BY <2>2, <2>3, <2>5 DEF TabOK
<1> QED BY <1>1, <1>2, <1>3, <1>5, <1>6, <1>7, <1>8 DEF IInv, PromptsOK, TabsOK

LEMMA PromptRequestKeeps == IInv /\ PromptRequest => IInv'
<1> SUFFICES ASSUME IInv, PromptRequest PROVE IInv'
  OBVIOUS
<1> DEFINE q == Incoming
           S == {q} \ server.queued
<1>1. NextUp("request") /\ UNCHANGED <<busVars, ended, abandoned>>
  BY DEF PromptRequest
<1>2. /\ LinkOK(link', ended) /\ link.sock = "open" /\ link'.sock = "open"
      /\ link'.buffer = link.buffer /\ link'.down = link.down
      /\ q \in Prompts /\ Head(link.up) = Message("request", q)
      /\ ~Registering(link) /\ ~Registering(link')
      /\ \A ty, p : On(link'.up, ty, p) => On(link.up, ty, p)
      /\ \A ty, p : On(link.up, ty, p) => Head(link.up) = Message(ty, p) \/ On(link'.up, ty, p)
      /\ \A p \in ended : Head(link.up) = Message("request", p) =>
           \E j \in DOMAIN link'.up : LastEnd(link'.up, j, p)
      /\ Completes(link.up) => Completes(link'.up)
      /\ On(link.up, "request", q)
  <2>1. TakenFrom(link, link', ended) /\ Head(link.up).type = "request"
    BY <1>1, TakesNext
  <2>2. q \in Prompts /\ Head(link.up) = Message("request", q) /\ On(link.up, "request", q)
    BY <1>1, Takes DEF OfPrompt
  <2> QED BY <2>1, <2>2 DEF TakenFrom
<1>3. \A ty, p : ty # "request" \/ p # q => (On(link.up, ty, p) => On(link'.up, ty, p))
  BY <1>2, DifferentMessages
<1>13. Completes(link'.up) \/ ~server.replaying
  BY <1>2 DEF IInv, ServerInv
<1>14. q \in ended => EndComes(link'.up, server.replaying, q)
  <2>1. SUFFICES ASSUME q \in ended PROVE EndComes(link'.up, server.replaying, q)
    OBVIOUS
  <2>2. PICK j \in DOMAIN link'.up : LastEnd(link'.up, j, q)
    BY <1>2, <2>1
  <2> HIDE DEF q
  <2> QED BY <1>13, <2>2 DEF LastEnd, EndComes, Completes
<1>15. ASSUME NEW p, EndComes(link.up, server.replaying, p)
       PROVE  EndComes(link'.up, server.replaying, p)
  <2>1. Head(link.up) # Message("end", p)
    BY <1>2, DifferentMessages
  <2> HIDE DEF q
  <2> QED BY <1>1, <1>15, <2>1, EndStaysToCome DEF OfPrompt
<1>4. BusInv' /\ outcome' = outcome /\ \A p : Settled(p)' <=> Settled(p)
  BY <1>1, BusKept DEF IInv
<1>5. server \in ServerType /\ tabs \in [Tabs -> TabType] /\ ended \subseteq Prompts
  BY DEF IInv, PathTyped
<1>6. /\ server' \in ServerType /\ server'.tracked = server.tracked \cup S
      /\ server'.queued = server.queued
      /\ server'.ends = server.ends /\ server'.replaying = server.replaying
  BY <1>2, <1>5 DEF PromptRequest, ServerType
<1>7. ASSUME NEW t \in Tabs
      PROVE  /\ tabs'[t] \in TabType /\ SameTab(tabs[t], tabs'[t])
             /\ \A p \in Prompts :
                  /\ \/ tabs'[t].card[p] = tabs[t].card[p]
                     \/ /\ p \in S \ tabs[t].ends
                        /\ tabs[t].card[p] = "none" /\ tabs'[t].card[p] = "pending"
                  /\ p \notin S => (p \in tabs[t].missed => p \in tabs'[t].missed)
                  /\ p \in S \ tabs[t].ends /\ tabs[t].sync # "off"
                       => tabs'[t].card[p] # "none" \/ p \in tabs'[t].missed
  <2>1. tabs[t] \in TabType
    BY <1>5
  <2>4. S \in SUBSET Prompts
    BY <1>2
  <2>5. \/ Online(t) /\ tabs'[t] = Misses(tabs[t], S)
        \/ Online(t) /\ tabs'[t] = Shows(tabs[t], S)
        \/ ~Online(t) /\ tabs'[t] = tabs[t]
    BY DEF PromptRequest, Drops
  <2> HIDE DEF S
  <2>2. CASE tabs'[t] = Shows(tabs[t], S)
    <3>1. /\ tabs'[t] \in TabType /\ SameTab(tabs[t], tabs'[t]) /\ tabs'[t].missed = tabs[t].missed \ S
          /\ \A p \in Prompts : tabs'[t].card[p] = IF p \in S \ tabs[t].ends /\ tabs[t].card[p] = "none"
                                                   THEN "pending" ELSE tabs[t].card[p]
      BY <2>1, <2>2, ShowsCards
    <3> QED BY <3>1
  <2>3. CASE tabs'[t] = Misses(tabs[t], S)
    <3>1. /\ tabs'[t] \in TabType /\ SameTab(tabs[t], tabs'[t]) /\ tabs'[t].card = tabs[t].card
          /\ tabs'[t].missed = tabs[t].missed \cup {p \in S : tabs[t].card[p] = "none"}
      BY <2>1, <2>3, <2>4, MissesCards
    <3> QED BY <3>1
  <2>6. CASE ~Online(t) /\ tabs'[t] = tabs[t]
    BY <2>1, <2>6 DEF Online, SameTab
  <2> QED BY <2>2, <2>3, <2>5, <2>6
<1>8. PathTyped'
  <2>1. DOMAIN tabs' = Tabs /\ tabs' = [t \in Tabs |-> tabs'[t]]
    BY DEF PromptRequest
  <2> QED BY <1>1, <1>6, <1>7, <2>1 DEF PathTyped, IInv
<1>9. ServerInv'
  BY <1>2, <1>6, <1>7, <1>13 DEF ServerInv, IInv, SameTab, Awaited
<1>10. outcome[q] # "new"
  BY <1>2 DEF IInv, PromptsOK, PromptOK
<1>11. ASSUME NEW p \in Prompts PROVE PromptOK(p)'
  <2>1. PromptOK(p)
    BY DEF IInv, PromptsOK
  <2>2. p # q => p \notin S
    OBVIOUS
  <2>3. q \in S \/ q \in server.queued
    OBVIOUS
  <2> HIDE DEF q, S
  <2> QED BY <1>1, <1>2, <1>3, <1>4, <1>6, <1>10, <2>1, <2>2, <2>3 DEF PromptOK, Awaited
<1>12. ASSUME NEW p \in Prompts, NEW t \in Tabs PROVE TabOK(tabs[t], p)'
  <2>1. TabOK(tabs[t], p) /\ tabs[t] \in TabType
    BY <1>5 DEF IInv, TabsOK
  <2>2. p # q => p \notin S
    OBVIOUS
  <2>3. q \in S \/ q \in server.queued
    OBVIOUS
  <2>4. tabs[t].card[p] \in {"none", "pending", "resolved", "dismissed"}
    BY <2>1 DEF TabType
  <2>6. outcome[p] = "waiting" => ~Settled(p)
    BY DEF Settled, Settlers
  <2>7. tabs'[t].card[p] \in {"none", "pending", "resolved", "dismissed"}
    BY <1>7 DEF TabType
  <2> HIDE DEF q, S
  <2>8. Unheard(tabs[t], p)' /\ Undismissed(tabs[t], p)'
    BY <1>4, <1>7, <1>10, <2>1, <2>2 DEF TabOK, Unheard, Undismissed, SameTab
  <2>9. Shown(tabs[t], p)'
    <3>1. SUFFICES ASSUME outcome[p] = "waiting", tabs[t].sync \in {"live", "behind", "orphaned"},
                          ~On(link'.up, "request", p), p \notin abandoned, p \notin server.queued
                   PROVE  tabs'[t].card[p] \in {"pending", "resolved"} \/ p \in tabs'[t].missed
      BY <1>1, <1>4, <1>6, <1>7 DEF Shown, SameTab
    <3>2. p \notin tabs[t].ends /\ tabs[t].card[p] # "dismissed"
      BY <2>1, <2>6, <3>1 DEF TabOK, Undismissed
    <3>3. CASE p \in S
      BY <1>7, <2>7, <3>1, <3>2, <3>3
    <3>4. CASE p \notin S
      <4>1. ~On(link.up, "request", p)
        BY <1>3, <2>3, <3>1, <3>4
      <4>2. tabs[t].card[p] \in {"pending", "resolved"} \/ p \in tabs[t].missed
        BY <1>2, <2>1, <3>1, <4>1 DEF TabOK, Shown
      <4> QED BY <1>7, <3>4, <4>2
    <3> QED BY <3>3, <3>4
  <2>10. EndTold(tabs[t], p)'
    <3>1. SUFFICES ASSUME p \in ended, tabs[t].sync \in {"live", "behind", "orphaned"},
                          tabs'[t].card[p] = "pending", p \notin tabs[t].doubt
                   PROVE  EndComes(link'.up, server.replaying, p)
      BY <1>1, <1>6, <1>7 DEF EndTold, SameTab
    <3>2. CASE p \in S
      BY <1>14, <2>2, <3>1, <3>2
    <3>3. CASE p \notin S
      BY <1>2, <1>7, <1>15, <2>1, <3>1, <3>3 DEF TabOK, EndTold, Awaited
    <3> QED BY <3>2, <3>3
  <2> QED BY <2>8, <2>9, <2>10 DEF TabOK
<1> QED BY <1>1, <1>2, <1>4, <1>8, <1>9, <1>11, <1>12 DEF IInv, PromptsOK, TabsOK

\* A message that says its prompt is over is of a settled one.
LEMMA TakesOver ==
  ASSUME IInv, NEW type \in {"dismiss", "ack", "end"}, NextUp(type)
  PROVE  /\ LinkOK(link', ended) /\ link.sock = "open" /\ link'.sock = "open"
         /\ link'.buffer = link.buffer /\ link'.down = link.down
         /\ Incoming \in Prompts /\ Settled(Incoming)
         /\ ~Registering(link) /\ ~Registering(link')
         /\ \A ty, p : On(link'.up, ty, p) => On(link.up, ty, p)
         /\ \A ty, p : ty # type \/ p # Incoming => (On(link.up, ty, p) => On(link'.up, ty, p))
         /\ server.ends # None /\ (server.replaying => Completes(link'.up))
         /\ \A p : EndComes(link.up, server.replaying, p) /\ (type # "end" \/ p # Incoming \/ server.replaying)
                     => EndComes(link'.up, server.replaying, p)
<1>1. /\ LinkOK(link', ended) /\ link.sock = "open" /\ link'.sock = "open"
      /\ link'.buffer = link.buffer /\ link'.down = link.down
      /\ Incoming \in Prompts /\ Head(link.up) = Message(type, Incoming)
      /\ ~Registering(link) /\ ~Registering(link')
      /\ \A ty, p : On(link'.up, ty, p) => On(link.up, ty, p)
      /\ \A ty, p : On(link.up, ty, p) => Head(link.up) = Message(ty, p) \/ On(link'.up, ty, p)
      /\ Completes(link.up) => Completes(link'.up)
      /\ On(link.up, type, Incoming)
  BY Takes DEF OfPrompt
<1>5. server.replaying => Completes(link'.up)
  BY <1>1 DEF IInv, ServerInv
<1>6. ASSUME NEW p, EndComes(link.up, server.replaying, p),
             type # "end" \/ p # Incoming \/ server.replaying
      PROVE  EndComes(link'.up, server.replaying, p)
  <2>1. server.replaying \/ Head(link.up) # Message("end", p)
    BY <1>1, <1>6, DifferentMessages
  <2> QED BY <1>6, <2>1, EndStaysToCome DEF OfPrompt
<1>2. \A ty, p : ty # type \/ p # Incoming => (On(link.up, ty, p) => On(link'.up, ty, p))
  BY <1>1, DifferentMessages
<1>3. Settled(Incoming)
  BY <1>1 DEF IInv, PromptsOK, PromptOK
<1>4. server.ends # None
  BY <1>1 DEF IInv, ServerInv, Awaited
<1> QED BY <1>1, <1>2, <1>3, <1>4, <1>5, <1>6

LEMMA PromptDismissKeeps == IInv /\ (PromptDismiss \/ PromptResponseAck) => IInv'
<1> SUFFICES ASSUME IInv, PromptDismiss \/ PromptResponseAck PROVE IInv'
  OBVIOUS
<1> DEFINE q == Incoming
<1>1. PICK type \in {"dismiss", "ack"} :
        NextUp(type) /\ (type = "dismiss" => PromptDismiss) /\ (type = "ack" => PromptResponseAck)
  BY DEF PromptDismiss, PromptResponseAck
<1>2. UNCHANGED <<busVars, ended, abandoned>> /\ server' = Cleared({q})
  BY DEF PromptDismiss, PromptResponseAck
<1>3. /\ LinkOK(link', ended) /\ link.sock = "open" /\ link'.sock = "open"
      /\ link'.buffer = link.buffer /\ link'.down = link.down
      /\ q \in Prompts /\ Settled(q)
      /\ ~Registering(link) /\ ~Registering(link')
      /\ \A ty, p : On(link'.up, ty, p) => On(link.up, ty, p)
      /\ \A ty, p : ty # type \/ p # q => (On(link.up, ty, p) => On(link'.up, ty, p))
      /\ server.ends # None /\ type \in {"dismiss", "ack"} /\ (server.replaying => Completes(link'.up))
      /\ \A p : EndComes(link.up, server.replaying, p) => EndComes(link'.up, server.replaying, p)
  BY <1>1, TakesOver
<1>4. BusInv' /\ outcome' = outcome /\ \A p : Settled(p)' <=> Settled(p)
  BY <1>2, BusKept DEF IInv
<1>5. server \in ServerType /\ tabs \in [Tabs -> TabType] /\ ended \subseteq Prompts
  BY DEF IInv, PathTyped
<1>6. /\ server' \in ServerType /\ server'.tracked = server.tracked \ {q}
      /\ server'.queued = server.queued \ {q}
      /\ server'.ends = server.ends /\ server'.replaying = server.replaying
  BY <1>2, <1>5 DEF Cleared, ServerType
<1>7. ASSUME NEW t \in Tabs
      PROVE  /\ tabs'[t] \in TabType /\ SameTab(tabs[t], tabs'[t]) /\ tabs'[t].missed = tabs[t].missed
             /\ \A p \in Prompts :
                  \/ tabs'[t].card[p] = tabs[t].card[p]
                  \/ p = q /\ tabs[t].card[p] = "pending" /\ tabs'[t].card[p] = "dismissed"
  <2>1. tabs[t] \in TabType
    BY <1>5
  <2>2. tabs'[t] = tabs[t] \/ tabs'[t] = Dismisses(tabs[t], {q})
    BY <1>1 DEF PromptDismiss, PromptResponseAck
  <2>3. CASE tabs'[t] = Dismisses(tabs[t], {q})
    <3>1. /\ tabs'[t] \in TabType /\ SameTab(tabs[t], tabs'[t]) /\ tabs'[t].missed = tabs[t].missed
          /\ \A p \in Prompts : tabs'[t].card[p] = IF p \in {q} /\ tabs[t].card[p] = "pending"
                                                   THEN "dismissed" ELSE tabs[t].card[p]
      BY <2>1, <2>3, DismissesCards
    <3> QED BY <3>1
  <2>4. CASE tabs'[t] = tabs[t]
    BY <2>1, <2>4 DEF SameTab
  <2> QED BY <2>2, <2>3, <2>4
<1>8. PathTyped'
  <2>1. DOMAIN tabs' = Tabs /\ tabs' = [t \in Tabs |-> tabs'[t]]
    BY <1>5 DEF PromptDismiss, PromptResponseAck
  <2> QED BY <1>2, <1>6, <1>7, <2>1 DEF PathTyped, IInv
<1>9. ServerInv'
  BY <1>3, <1>6, <1>7 DEF ServerInv, IInv, SameTab, Awaited
<1>10. outcome[q] # "new" /\ outcome[q] # "waiting"
  BY <1>3 DEF Settled, Settlers
<1> HIDE DEF q
<1>11. ASSUME NEW p \in Prompts PROVE PromptOK(p)'
  <2>1. PromptOK(p)
    BY DEF IInv, PromptsOK
  <2> QED BY <1>2, <1>3, <1>4, <1>6, <1>10, <2>1 DEF PromptOK, Awaited
<1>12. ASSUME NEW p \in Prompts, NEW t \in Tabs PROVE TabOK(tabs[t], p)'
  <2>1. TabOK(tabs[t], p)
    BY <1>5 DEF IInv, TabsOK
  <2>2. outcome[p] = "waiting" => p # q
    BY <1>10
  <2>4. On(link.up, "request", p) => On(link'.up, "request", p)
    BY <1>3
  <2>6. Unheard(tabs[t], p)' /\ Undismissed(tabs[t], p)'
    BY <1>3, <1>4, <1>7, <1>10, <2>1 DEF TabOK, SameTab, Unheard, Undismissed
  <2>7. Shown(tabs[t], p)'
    BY <1>2, <1>3, <1>4, <1>6, <1>7, <1>10, <2>1, <2>2, <2>4 DEF TabOK, SameTab, Shown
  <2>8. EndTold(tabs[t], p)'
    BY <1>2, <1>3, <1>6, <1>7, <2>1 DEF TabOK, Awaited, SameTab, EndTold
  <2> QED BY <2>6, <2>7, <2>8 DEF TabOK
<1> QED BY <1>2, <1>3, <1>4, <1>8, <1>9, <1>11, <1>12 DEF IInv, PromptsOK, TabsOK

LEMMA ToolExecutionEndKeeps == IInv /\ ToolExecutionEnd => IInv'
<1> SUFFICES ASSUME IInv, ToolExecutionEnd PROVE IInv'
  OBVIOUS
<1> DEFINE q == Incoming
           Kept == [server EXCEPT !.ends = @ \cup {q}]
<1>1. NextUp("end") /\ UNCHANGED <<busVars, ended, abandoned>>
  BY DEF ToolExecutionEnd
<1>2. /\ server.replaying => server' = Kept /\ UNCHANGED tabs
      /\ ~server.replaying =>
           /\ server' = IF q \in server.tracked
                        THEN [Kept EXCEPT !.tracked = @ \ {q}, !.queued = @ \ {q}] ELSE Kept
           /\ DOMAIN tabs' = Tabs /\ tabs' = [t \in Tabs |-> tabs'[t]]
           /\ \A t \in Tabs : \E gap \in BOOLEAN :
                tabs'[t] \in {TakesEnd(tabs[t], q, gap), Dismisses(TakesEnd(tabs[t], q, gap), {q})}
  <2>1. CASE server.replaying
    BY <2>1 DEF ToolExecutionEnd
  <2>2. CASE ~server.replaying
    <3>1. PICK gaps \in SUBSET Tabs, deaf \in SUBSET Tabs :
            tabs' = [t \in Tabs |->
                        LET told == TakesEnd(tabs[t], q, t \in gaps)
                        IN  IF Online(t) /\ q \in server.tracked /\ t \notin deaf
                            THEN Dismisses(told, {q}) ELSE told]
      BY <2>2 DEF ToolExecutionEnd
    <3>2. ASSUME NEW t \in Tabs
          PROVE  \E gap \in BOOLEAN :
                   tabs'[t] \in {TakesEnd(tabs[t], q, gap), Dismisses(TakesEnd(tabs[t], q, gap), {q})}
      <4>1. tabs'[t] \in {TakesEnd(tabs[t], q, t \in gaps),
                          Dismisses(TakesEnd(tabs[t], q, t \in gaps), {q})}
        BY <3>1
      <4>2. (t \in gaps) \in BOOLEAN
        OBVIOUS
      <4> QED BY <4>1, <4>2
    <3>3. server' = IF q \in server.tracked
                    THEN [Kept EXCEPT !.tracked = @ \ {q}, !.queued = @ \ {q}] ELSE Kept
      BY <2>2 DEF ToolExecutionEnd
    <3> QED BY <2>2, <3>1, <3>2, <3>3
  <2> QED BY <2>1, <2>2
<1>3. /\ LinkOK(link', ended) /\ link.sock = "open" /\ link'.sock = "open"
      /\ link'.buffer = link.buffer /\ link'.down = link.down
      /\ q \in Prompts /\ Settled(q)
      /\ ~Registering(link) /\ ~Registering(link')
      /\ \A ty, p : On(link'.up, ty, p) => On(link.up, ty, p)
      /\ \A ty, p : ty # "end" \/ p # q => (On(link.up, ty, p) => On(link'.up, ty, p))
      /\ server.ends # None /\ (server.replaying => Completes(link'.up))
      /\ \A p : EndComes(link.up, server.replaying, p) /\ (p # q \/ server.replaying)
                  => EndComes(link'.up, server.replaying, p)
  BY <1>1, TakesOver
<1>4. BusInv' /\ outcome' = outcome /\ \A p : Settled(p)' <=> Settled(p)
  BY <1>1, BusKept DEF IInv
<1>5. server \in ServerType /\ tabs \in [Tabs -> TabType] /\ ended \subseteq Prompts
  BY DEF IInv, PathTyped
<1>6. /\ server' \in ServerType /\ server'.ends = server.ends \cup {q} /\ server'.ends # None
      /\ server'.replaying = server.replaying
      /\ server'.tracked \subseteq server.tracked /\ server.tracked \subseteq server'.tracked \cup {q}
      /\ server'.queued \subseteq server.queued /\ server.queued \subseteq server'.queued \cup {q}
  <2>1. server.ends \in SUBSET Prompts
    <3>1. server.ends \in (SUBSET Prompts) \cup {None}
      BY <1>5 DEF ServerType
    <3> QED BY <1>3, <3>1
  <2>2. server.ends \cup {q} \in SUBSET Prompts
    BY <1>3, <2>1
  <2>3. /\ Kept \in ServerType /\ Kept.ends = server.ends \cup {q} /\ Kept.replaying = server.replaying
        /\ Kept.tracked = server.tracked /\ Kept.queued = server.queued
    BY <1>5, <2>2 DEF ServerType
  <2>4. server.ends \cup {q} # None
    BY <2>2, PathAssumption
  <2> HIDE DEF Kept, q
  <2>5. CASE server' = Kept
    BY <2>3, <2>4, <2>5
  <2>6. CASE server' = [Kept EXCEPT !.tracked = @ \ {q}, !.queued = @ \ {q}]
    BY <2>3, <2>4, <2>6 DEF ServerType
  <2> QED BY <1>2, <1>5, <2>5, <2>6 DEF ServerType
<1>7. ASSUME NEW t \in Tabs
      PROVE  /\ tabs'[t] \in TabType /\ tabs'[t].out = tabs[t].out
             /\ tabs'[t].ends \subseteq tabs[t].ends \cup {q}
             /\ \/ tabs'[t].sync = tabs[t].sync
                \/ tabs'[t].sync = "wanted" /\ tabs[t].sync = "behind"
             /\ tabs'[t].missed = tabs[t].missed
             /\ ~server.replaying /\ tabs'[t].sync \in {"live", "behind"} => tabs'[t].card[q] # "pending"
             /\ \A p \in Prompts \ {q} : /\ tabs'[t].card[p] = tabs[t].card[p]
                                         /\ p \in tabs[t].doubt => p \in tabs'[t].doubt
             /\ server.replaying => tabs'[t] = tabs[t]
  <2>1. tabs[t] \in TabType
    BY <1>5
  <2>2. CASE server.replaying
    BY <1>2, <2>1, <2>2 DEF IInv, ServerInv
  <2>3. CASE ~server.replaying
    <3>5. PICK gap \in BOOLEAN :
            tabs'[t] \in {TakesEnd(tabs[t], q, gap), Dismisses(TakesEnd(tabs[t], q, gap), {q})}
      BY <1>2, <2>3
    <3> DEFINE new == TakesEnd(tabs[t], q, gap)
    <3>1. /\ new \in TabType /\ new.out = tabs[t].out /\ new.ends \subseteq tabs[t].ends \cup {q}
          /\ new.sync = tabs[t].sync \/ (new.sync = "wanted" /\ tabs[t].sync = "behind")
          /\ new.missed = tabs[t].missed
          /\ new.sync \in {"live", "behind"} => new.card[q] # "pending"
          /\ \A p \in Prompts \ {q} : /\ new.card[p] = tabs[t].card[p]
                                      /\ p \in tabs[t].doubt => p \in new.doubt
      <4>1. CASE tabs[t].sync \in {"live", "behind"} /\ ~(tabs[t].sync = "behind" /\ gap)
        <5> DEFINE e == Ends(tabs[t], {q})
        <5>1. /\ e \in TabType
              /\ e.sync = tabs[t].sync /\ e.stale = tabs[t].stale /\ e.out = tabs[t].out
              /\ e.ends = tabs[t].ends \cup {q} /\ e.doubt = tabs[t].doubt \ {q}
              /\ e.missed = tabs[t].missed
              /\ \A p \in Prompts : e.card[p] = IF p \in {q} /\ tabs[t].card[p] = "pending"
                                                THEN "dismissed" ELSE tabs[t].card[p]
          BY <1>3, <2>1, EndsCards
        <5>2. new = e
          BY <4>1 DEF TakesEnd
        <5> HIDE DEF e, new, q
        <5> QED BY <1>3, <4>1, <5>1, <5>2
      <4>2. CASE tabs[t].sync = "behind" /\ gap
        <5>1. new = [tabs[t] EXCEPT !.sync = "wanted"]
          BY <4>2 DEF TakesEnd
        <5> HIDE DEF new
        <5> QED BY <2>1, <4>2, <5>1 DEF TabType
      <4>3. CASE tabs[t].sync \notin {"live", "behind"}
        <5>1. new = tabs[t]
          BY <4>3 DEF TakesEnd
        <5> HIDE DEF new
        <5> QED BY <2>1, <4>3, <5>1
      <4> QED BY <4>1, <4>2, <4>3
    <3>2. tabs'[t] \in {new, Dismisses(new, {q})}
      BY <3>5
    <3> HIDE DEF new
    <3>3. CASE tabs'[t] = new
      BY <2>3, <3>1, <3>3
    <3>4. CASE tabs'[t] = Dismisses(new, {q})
      <4>1. /\ tabs'[t] \in TabType /\ SameTab(new, tabs'[t]) /\ tabs'[t].missed = new.missed
            /\ \A p \in Prompts : tabs'[t].card[p] = IF p \in {q} /\ new.card[p] = "pending"
                                                     THEN "dismissed" ELSE new.card[p]
        BY <3>1, <3>4, DismissesCards
      <4> HIDE DEF q
      <4> QED BY <1>3, <2>3, <3>1, <4>1 DEF SameTab
    <3> QED BY <3>2, <3>3, <3>4
  <2> QED BY <2>2, <2>3
<1>8. PathTyped'
  <2>1. DOMAIN tabs' = Tabs /\ tabs' = [t \in Tabs |-> tabs'[t]]
    BY <1>2, <1>5
  <2> QED BY <1>1, <1>6, <1>7, <2>1 DEF PathTyped, IInv
<1>9. ServerInv'
  BY <1>3, <1>6, <1>7 DEF ServerInv, IInv
<1>10. outcome[q] # "new" /\ outcome[q] # "waiting"
  BY <1>3 DEF Settled, Settlers
<1> HIDE DEF q, Kept
<1>11. ASSUME NEW p \in Prompts PROVE PromptOK(p)'
  <2>1. PromptOK(p)
    BY DEF IInv, PromptsOK
  <2> QED BY <1>1, <1>3, <1>4, <1>6, <1>10, <2>1 DEF PromptOK, Awaited
<1>12. ASSUME NEW p \in Prompts, NEW t \in Tabs PROVE TabOK(tabs[t], p)'
  <2>1. TabOK(tabs[t], p)
    BY <1>5 DEF IInv, TabsOK
  <2>2. Unheard(tabs[t], p)' /\ Undismissed(tabs[t], p)'
    BY <1>3, <1>4, <1>7, <1>10, <2>1 DEF TabOK, Unheard, Undismissed
  <2>3. Shown(tabs[t], p)'
    BY <1>1, <1>3, <1>4, <1>6, <1>7, <1>10, <2>1 DEF TabOK, Shown
  <2>4. EndTold(tabs[t], p)'
    <3>1. SUFFICES ASSUME p \in ended, tabs'[t].sync \in {"live", "behind", "orphaned"},
                          tabs'[t].card[p] = "pending", p \notin tabs'[t].doubt
                   PROVE  EndComes(link'.up, server.replaying, p)
      BY <1>1, <1>6 DEF EndTold
    <3>2. tabs'[t].sync = tabs[t].sync
      BY <1>7, <3>1
    <3>3. CASE server.replaying
      BY <1>3, <1>7, <2>1, <3>1, <3>2, <3>3 DEF TabOK, EndTold, Awaited
    <3>4. CASE ~server.replaying
      <4>1. tabs[t].sync # "orphaned"
        BY <3>4 DEF IInv, ServerInv
      <4>2. p # q
        BY <1>7, <3>1, <3>2, <3>4, <4>1
      <4> QED BY <1>3, <1>7, <2>1, <3>1, <3>2, <4>2 DEF TabOK, EndTold, Awaited
    <3> QED BY <3>3, <3>4
  <2> QED BY <2>2, <2>3, <2>4 DEF TabOK
<1> QED BY <1>1, <1>3, <1>4, <1>8, <1>9, <1>11, <1>12 DEF IInv, PromptsOK, TabsOK

-----------------------------------------------------------------------------
(* Steps of a tab. *)

\* Only the tab t changes, to new.
LEMMA TabStep ==
  ASSUME IInv, UNCHANGED <<busVars, ended, link, server, abandoned>>,
         NEW t \in Tabs, NEW new \in TabType, tabs' = [tabs EXCEPT ![t] = new],
         new.sync = "orphaned" => server.replaying,
         \A p \in Prompts : TabOK(new, p)
  PROVE  IInv'
<1>1. BusInv' /\ outcome' = outcome /\ \A p : Settled(p)' <=> Settled(p)
  BY BusKept DEF IInv
<1>2. tabs' \in [Tabs -> TabType] /\ tabs'[t] = new /\ \A u \in Tabs : u # t => tabs'[u] = tabs[u]
  BY DEF IInv, PathTyped
<1>3. PathTyped' /\ LinkOK(link, ended)'
  BY <1>1, <1>2 DEF IInv, PathTyped
<1>4. ServerInv'
  BY <1>2 DEF IInv, ServerInv
<1>5. PromptsOK'
  BY <1>1 DEF IInv, PromptsOK, PromptOK
<1>6. ASSUME NEW p \in Prompts, NEW u \in Tabs PROVE TabOK(tabs[u], p)'
  <2>1. TabOK(tabs'[u], p)
    BY <1>2 DEF IInv, TabsOK
  <2> QED BY <1>1, <2>1 DEF TabOK, Unheard, Undismissed, Shown, EndTold
<1> QED BY <1>1, <1>3, <1>4, <1>5, <1>6 DEF IInv, TabsOK

LEMMA AnswerInTabKeeps ==
  ASSUME IInv, NEW t \in Tabs, NEW p \in Prompts, AnswerInTab(t, p)
  PROVE  IInv'
<1> DEFINE new == [tabs[t] EXCEPT !.card[p] = "resolved",
                                  !.out = IF Online(t) THEN Append(@, p) ELSE @]
<1>1. /\ UNCHANGED <<busVars, ended, link, server, abandoned>>
      /\ tabs[t].card[p] = "pending" /\ tabs \in [Tabs -> TabType] /\ tabs[t] \in TabType
  BY DEF AnswerInTab, IInv, PathTyped
<1>2. tabs' = [tabs EXCEPT ![t] = new]
  BY <1>1 DEF AnswerInTab
<1>3. /\ Append(tabs[t].out, p) \in Seq(Prompts)
      /\ \A q : Holds(Append(tabs[t].out, p), q) => Holds(tabs[t].out, q) \/ q = p
  BY <1>1, HoldsAppend DEF TabType
<1>4. /\ new \in TabType /\ new.sync = tabs[t].sync /\ new.ends = tabs[t].ends
      /\ new.missed = tabs[t].missed /\ new.doubt = tabs[t].doubt
      /\ new.card = [tabs[t].card EXCEPT ![p] = "resolved"]
      /\ \A q : Holds(new.out, q) => Holds(tabs[t].out, q) \/ q = p
  BY <1>1, <1>3 DEF TabType
<1>5. /\ new.card[p] = "resolved" /\ \A q \in Prompts : q # p => new.card[q] = tabs[t].card[q]
  BY <1>1, <1>4 DEF TabType
<1>6. new.sync = "orphaned" => server.replaying
  BY <1>4 DEF IInv, ServerInv
<1> HIDE DEF new
<1>7. ASSUME NEW q \in Prompts PROVE TabOK(new, q)
  <2>1. TabOK(tabs[t], q) /\ TabOK(tabs[t], p)
    BY DEF IInv, TabsOK
  <2>2. Unheard(new, q)
    BY <1>1, <1>4, <1>5, <2>1 DEF TabOK, Unheard
  <2>3. Undismissed(new, q) /\ Shown(new, q)
    BY <1>4, <1>5, <2>1 DEF TabOK, Undismissed, Shown
  <2>4. EndTold(new, q)
    BY <1>4, <1>5, <2>1 DEF TabOK, EndTold
  <2> QED BY <2>2, <2>3, <2>4 DEF TabOK
<1> QED BY <1>1, <1>2, <1>4, <1>6, <1>7, TabStep

LEMMA SubscribeKeeps ==
  ASSUME IInv, NEW t \in Tabs, Subscribe(t) \/ LoseTab(t) \/ ReloadTab(t)
  PROVE  IInv'
<1>1. /\ UNCHANGED <<busVars, ended, link, server, abandoned>>
      /\ tabs \in [Tabs -> TabType] /\ tabs[t] \in TabType
  BY DEF Subscribe, LoseTab, ReloadTab, IInv, PathTyped
<1>2. ASSUME NEW p \in Prompts PROVE TabOK(tabs[t], p)
  BY DEF IInv, TabsOK
<1>3. ~Holds(<<>>, None) /\ <<>> \in Seq(Prompts) /\ \A p : ~Holds(<<>>, p)
  BY DEF Holds
<1>4. CASE Subscribe(t)
  <2> DEFINE new == [tabs[t] EXCEPT !.sync = "wanted"]
  <2>1. tabs' = [tabs EXCEPT ![t] = new] /\ new \in TabType
    BY <1>1, <1>4 DEF Subscribe, TabType
  <2>2. new.sync = "wanted" /\ new.ends = tabs[t].ends /\ new.card = tabs[t].card /\ new.out = tabs[t].out
    BY <1>1 DEF TabType
  <2> HIDE DEF new
  <2>3. \A p \in Prompts : TabOK(new, p)
    BY <1>2, <2>2 DEF TabOK, Unheard, Undismissed, Shown, EndTold
  <2> QED BY <1>1, <2>1, <2>2, <2>3, TabStep
<1>5. CASE LoseTab(t)
  <2> DEFINE new == [tabs[t] EXCEPT !.sync = "off", !.out = <<>>]
  <2>1. tabs' = [tabs EXCEPT ![t] = new] /\ new \in TabType
    BY <1>1, <1>3, <1>5 DEF LoseTab, TabType
  <2>2. new.sync = "off" /\ new.ends = tabs[t].ends /\ new.card = tabs[t].card /\ new.out = <<>>
    BY <1>1 DEF TabType
  <2> HIDE DEF new
  <2>3. \A p \in Prompts : TabOK(new, p)
    BY <1>2, <1>3, <2>2 DEF TabOK, Unheard, Undismissed, Shown, EndTold
  <2> QED BY <1>1, <2>1, <2>2, <2>3, TabStep
<1>6. CASE ReloadTab(t)
  <2>1. tabs' = [tabs EXCEPT ![t] = NewTab] /\ NewTab \in TabType
    BY <1>3, <1>6 DEF ReloadTab, NewTab, NoCards, TabType
  <2>2. NewTab.sync = "off" /\ NewTab.ends = {} /\ NewTab.out = <<>>
        /\ \A p \in Prompts : NewTab.card[p] = "none"
    BY DEF NewTab, NoCards
  <2>3. \A p \in Prompts : TabOK(NewTab, p)
    BY <1>3, <2>2 DEF TabOK, Unheard, Undismissed, Shown, EndTold
  <2> QED BY <1>1, <2>1, <2>2, <2>3, TabStep
<1> QED BY <1>4, <1>5, <1>6

\* A tab that a subscription is served to: its events, then the prompts.
LEMMA ServedCards ==
  ASSUME IInv, NEW t \in Tabs, NEW served \in SUBSET Prompts, NEW lost,
         \A p \in Prompts : ~Settled(p) => p \notin served,
         NEW fresh, fresh \in {tabs[t], Resets(tabs[t])},
         NEW given, given = Replays(Ends(fresh, served), lost)
  PROVE  /\ given \in TabType
         /\ \A p \in Prompts :
              /\ Unheard(given, p) /\ Undismissed(given, p)
              /\ p \in served => given.card[p] # "pending"
              /\ outcome[p] = "waiting" /\ p \in server.tracked \ server.queued =>
                   given.card[p] \in {"pending", "resolved"} \/ p \in given.missed
<1> DEFINE told == Ends(fresh, served)
<1>1. tabs[t] \in TabType /\ server \in ServerType
  BY DEF IInv, PathTyped
<1>2. /\ fresh \in TabType /\ fresh.out = tabs[t].out
      /\ fresh.ends = {} \/ fresh.ends = tabs[t].ends
      /\ \A p \in Prompts : fresh.card[p] = "none" \/ fresh.card[p] = tabs[t].card[p]
  BY <1>1, ResetsCards
<1>3. /\ told \in TabType /\ told.out = tabs[t].out /\ told.ends = fresh.ends \cup served
      /\ \A p \in Prompts : told.card[p] = IF p \in served /\ fresh.card[p] = "pending"
                                           THEN "dismissed" ELSE fresh.card[p]
  BY <1>2, EndsCards
<1> HIDE DEF told
<1>4. /\ given \in TabType /\ SameTab(told, given)
      /\ \A p \in Prompts :
           /\ given.card[p] \in {told.card[p], "pending"}
           /\ given.card[p] = told.card[p] \/ p \in (server.tracked \ server.queued) \ told.ends
           /\ p \in server.tracked \ server.queued /\ p \notin told.ends
                => given.card[p] # "none" \/ p \in given.missed
  BY <1>1, <1>3, ReplaysCards DEF told
<1>5. ASSUME NEW p \in Prompts
      PROVE  /\ Unheard(given, p) /\ Undismissed(given, p)
             /\ p \in served => given.card[p] # "pending"
             /\ outcome[p] = "waiting" /\ p \in server.tracked \ server.queued =>
                  given.card[p] \in {"pending", "resolved"} \/ p \in given.missed
  <2>1. Unheard(tabs[t], p) /\ Undismissed(tabs[t], p) /\ PromptOK(p)
    BY DEF IInv, PromptsOK, TabsOK, TabOK
  <2>2. (outcome[p] = "new" \/ outcome[p] = "waiting") => ~Settled(p)
    BY DEF Settled, Settlers
  <2>3. Undismissed(given, p)
    BY <1>2, <1>3, <1>4, <2>1 DEF Undismissed, SameTab
  <2>4. Unheard(given, p)
    BY <1>2, <1>3, <1>4, <2>1, <2>2 DEF Unheard, PromptOK, SameTab
  <2>5. p \in served => given.card[p] # "pending"
    BY <1>3, <1>4
  <2>6. given.card[p] \in {"none", "pending", "resolved", "dismissed"}
    BY <1>4 DEF TabType
  <2>7. outcome[p] = "waiting" => p \notin told.ends
    BY <1>4, <2>2, <2>3 DEF Undismissed, SameTab
  <2> QED BY <1>4, <2>2, <2>3, <2>4, <2>5, <2>6, <2>7 DEF Undismissed
<1> QED BY <1>4, <1>5

LEMMA ServeSubscriptionKeeps ==
  ASSUME IInv, NEW t \in Tabs, ServeSubscription(t)
  PROVE  IInv'
<1> DEFINE fresh == IF tabs[t].stale THEN Resets(tabs[t]) ELSE tabs[t]
           New(served, stored, lost) ==
             LET given == Replays(Ends(fresh, served), lost)
             IN  IF served = stored /\ ~server.replaying THEN [given EXCEPT !.sync = "live"]
                 ELSE [Doubts(given) EXCEPT !.sync = "behind"]
<1>1. UNCHANGED <<busVars, ended, link, abandoned>> /\ tabs[t].sync = "wanted"
  BY DEF ServeSubscription
<1>2. \E stored \in StoredEnds, served \in SUBSET Prompts, lost \in SUBSET Prompts :
        /\ served \subseteq stored /\ server' = [server EXCEPT !.ends = stored]
        /\ tabs' = [tabs EXCEPT ![t] = New(served, stored, lost)]
  BY Zenon DEF ServeSubscription
<1>22. PICK stored \in StoredEnds, served \in SUBSET Prompts, lost \in SUBSET Prompts :
        /\ served \subseteq stored /\ server' = [server EXCEPT !.ends = stored]
        /\ tabs' = [tabs EXCEPT ![t] = New(served, stored, lost)]
  BY <1>2
<1> DEFINE given == Replays(Ends(fresh, served), lost)
           new == New(served, stored, lost)
<1>3. /\ tabs \in [Tabs -> TabType] /\ server \in ServerType /\ ended \subseteq Prompts
  BY DEF IInv, PathTyped
<1>4. /\ stored \in SUBSET Prompts /\ stored # None
      /\ \/ stored = ended
         \/ server.ends # None /\ stored = server.ends
      /\ ~server.replaying /\ server.ends # None => stored = server.ends
  <2>1. server.ends \in (SUBSET Prompts) \cup {None}
    BY <1>3 DEF ServerType
  <2>2. \/ stored = ended
        \/ server.ends # None /\ stored = server.ends
    BY DEF StoredEnds
  <2>3. ~server.replaying /\ server.ends # None => stored = server.ends
    BY DEF StoredEnds
  <2> QED BY <1>3, <2>1, <2>2, <2>3, PathAssumption
<1>5. \A p \in Prompts : ~Settled(p) => p \notin stored
  BY <1>4 DEF IInv, PromptsOK, PromptOK
<1>6. /\ given \in TabType
      /\ \A p \in Prompts :
           /\ Unheard(given, p) /\ Undismissed(given, p)
           /\ p \in served => given.card[p] # "pending"
           /\ outcome[p] = "waiting" /\ p \in server.tracked \ server.queued =>
                given.card[p] \in {"pending", "resolved"} \/ p \in given.missed
  <2>1. fresh \in {tabs[t], Resets(tabs[t])} /\ \A p \in Prompts : ~Settled(p) => p \notin served
    BY <1>22, <1>5
  <2> HIDE DEF fresh
  <2> QED BY <2>1, ServedCards
<1>7. /\ new \in TabType /\ new.sync \in {"live", "behind"}
      /\ new.ends = given.ends /\ new.out = given.out
      /\ new.card = given.card /\ new.missed = given.missed
      /\ \/ served = stored /\ ~server.replaying
         \/ \A p \in Prompts : new.card[p] = "pending" => p \in new.doubt
  <2>1. new = IF served = stored /\ ~server.replaying THEN [given EXCEPT !.sync = "live"]
              ELSE [Doubts(given) EXCEPT !.sync = "behind"]
    OBVIOUS
  <2> HIDE DEF given, new
  <2>2. /\ Doubts(given) \in TabType
        /\ Doubts(given).ends = given.ends /\ Doubts(given).out = given.out
        /\ Doubts(given).card = given.card /\ Doubts(given).missed = given.missed
        /\ \A p \in Prompts : Doubts(given).card[p] = "pending" => p \in Doubts(given).doubt
    BY <1>6, DoubtsCards
  <2>3. CASE served = stored /\ ~server.replaying
    BY <1>6, <2>1, <2>3 DEF TabType
  <2>4. CASE ~(served = stored /\ ~server.replaying)
    <3> DEFINE d == Doubts(given)
    <3>1. new = [d EXCEPT !.sync = "behind"]
      BY <2>1, <2>4
    <3> HIDE DEF d
    <3>2. /\ d \in TabType /\ d.ends = given.ends /\ d.out = given.out
          /\ d.card = given.card /\ d.missed = given.missed
          /\ \A p \in Prompts : d.card[p] = "pending" => p \in d.doubt
      BY <2>2 DEF d
    <3> QED BY <3>1, <3>2 DEF TabType
  <2> QED BY <2>3, <2>4
<1>8. BusInv' /\ outcome' = outcome /\ \A p : Settled(p)' <=> Settled(p)
  BY <1>1, BusKept DEF IInv
<1>9. /\ server' \in ServerType /\ server'.tracked = server.tracked /\ server'.queued = server.queued
      /\ server'.ends = stored /\ server'.replaying = server.replaying
  BY <1>22, <1>3, <1>4 DEF ServerType
<1>10. tabs' \in [Tabs -> TabType] /\ tabs'[t] = new /\ \A u \in Tabs : u # t => tabs'[u] = tabs[u]
  <2>1. tabs' = [tabs EXCEPT ![t] = new]
    BY <1>22
  <2> HIDE DEF new
  <2> QED BY <1>3, <1>7, <2>1
<1> HIDE DEF fresh, given, new, New
<1>11. PathTyped' /\ LinkOK(link, ended)'
  BY <1>1, <1>8, <1>9, <1>10 DEF IInv, PathTyped
<1>12. ServerInv'
  BY <1>1, <1>4, <1>7, <1>9, <1>10 DEF IInv, ServerInv
<1>13. ASSUME NEW p \in Prompts PROVE PromptOK(p)'
  <2>1. PromptOK(p)
    BY DEF IInv, PromptsOK
  <2> QED BY <1>1, <1>4, <1>5, <1>8, <1>9, <2>1 DEF PromptOK
<1>14. ASSUME NEW p \in Prompts PROVE TabOK(new, p)
  <2>1. PromptOK(p)
    BY DEF IInv, PromptsOK
  <2>2. Unheard(new, p) /\ Undismissed(new, p)
    BY <1>6, <1>7 DEF Unheard, Undismissed
  <2>3. Shown(new, p)
    <3>1. SUFFICES ASSUME outcome[p] = "waiting", link.sock = "open", ~On(link.up, "request", p),
                          p \notin abandoned, p \notin server.queued
                   PROVE  new.card[p] \in {"pending", "resolved"} \/ p \in new.missed
      BY DEF Shown
    <3>2. p \in server.tracked
      BY <2>1, <3>1 DEF PromptOK
    <3> QED BY <1>6, <1>7, <3>1, <3>2
  <2>4. EndTold(new, p)
    <3>1. SUFFICES ASSUME p \in ended, new.card[p] = "pending", p \notin new.doubt, ~Awaited(link)
                   PROVE  EndComes(link.up, server.replaying, p)
      BY DEF EndTold
    <3>2. served = stored /\ ~server.replaying
      BY <1>7, <3>1
    <3>3. p \notin stored
      BY <1>6, <1>7, <3>1, <3>2
    <3>4. server.ends # None /\ p \notin server.ends
      BY <1>4, <3>1, <3>2, <3>3
    <3>5. On(link.up, "end", p)
      BY <2>1, <3>1, <3>4 DEF PromptOK
    <3> QED BY <3>2, <3>5 DEF EndComes, On
  <2> QED BY <2>2, <2>3, <2>4 DEF TabOK
<1>15. ASSUME NEW p \in Prompts, NEW u \in Tabs PROVE TabOK(tabs[u], p)'
  <2>1. TabOK(tabs'[u], p)
    BY <1>10, <1>14 DEF IInv, TabsOK
  <2> QED BY <1>1, <1>8, <1>9, <2>1 DEF TabOK, Unheard, Undismissed, Shown, EndTold
<1> QED BY <1>1, <1>8, <1>11, <1>12, <1>13, <1>15 DEF IInv, PromptsOK, TabsOK

LEMMA ServeOrphanKeeps ==
  ASSUME IInv, NEW t \in Tabs, ServeOrphan(t)
  PROVE  IInv'
<1>1. /\ UNCHANGED <<busVars, ended, link, server, abandoned>> /\ tabs[t].sync = "orphaned"
      /\ tabs[t] \in TabType /\ server \in ServerType
  BY DEF ServeOrphan, IInv, PathTyped
<1>2. PICK lost \in SUBSET Prompts :
        tabs' = [tabs EXCEPT ![t] = [Doubts(Replays(tabs[t], lost)) EXCEPT !.sync = "live"]]
  BY DEF ServeOrphan
<1> DEFINE given == Replays(tabs[t], lost)
           d == Doubts(given)
           new == [d EXCEPT !.sync = "live"]
<1>3. /\ given \in TabType /\ SameTab(tabs[t], given)
      /\ \A p \in Prompts :
           /\ given.card[p] \in {tabs[t].card[p], "pending"}
           /\ given.card[p] = tabs[t].card[p] \/ p \in (server.tracked \ server.queued) \ tabs[t].ends
           /\ p \in tabs[t].missed => p \in given.missed \/ given.card[p] # "none" \/ p \in tabs[t].ends
           /\ tabs[t].card[p] # "none" => given.card[p] = tabs[t].card[p]
  BY <1>1, ReplaysCards
<1> HIDE DEF given
<1>4. /\ d \in TabType /\ d.ends = given.ends /\ d.out = given.out
      /\ d.card = given.card /\ d.missed = given.missed
      /\ \A p \in Prompts : d.card[p] = "pending" => p \in d.doubt
  BY <1>3, DoubtsCards
<1> HIDE DEF d
<1>5. /\ new \in TabType /\ new.sync = "live" /\ new.ends = tabs[t].ends /\ new.out = tabs[t].out
      /\ new.card = given.card /\ new.missed = given.missed
      /\ \A p \in Prompts : new.card[p] = "pending" => p \in new.doubt
  BY <1>3, <1>4 DEF TabType, SameTab
<1>6. tabs' = [tabs EXCEPT ![t] = new]
  BY <1>2 DEF d, given
<1> HIDE DEF new
<1>7. ASSUME NEW p \in Prompts PROVE TabOK(new, p)
  <2>1. PromptOK(p) /\ TabOK(tabs[t], p)
    BY DEF IInv, PromptsOK, TabsOK
  <2>2. outcome[p] = "waiting" => ~Settled(p)
    BY DEF Settled, Settlers
  <2>3. Undismissed(new, p)
    BY <1>3, <1>5, <2>1 DEF TabOK, Undismissed
  <2>4. Unheard(new, p)
    BY <1>3, <1>5, <2>1 DEF TabOK, Unheard, PromptOK
  <2>5. given.card[p] \in {"none", "pending", "resolved", "dismissed"}
    BY <1>3 DEF TabType
  <2>6. Shown(new, p)
    BY <1>1, <1>3, <1>5, <2>1, <2>2, <2>3, <2>5 DEF TabOK, Shown, Undismissed
  <2>7. EndTold(new, p)
    BY <1>5 DEF EndTold
  <2> QED BY <2>3, <2>4, <2>6, <2>7 DEF TabOK
<1>8. new.sync = "orphaned" => server.replaying
  BY <1>5
<1> QED BY <1>1, <1>5, <1>6, <1>7, <1>8, TabStep

-----------------------------------------------------------------------------
(* Answers on their way. *)

LEMMA QueueAnswerKeeps ==
  ASSUME IInv, NEW t \in Tabs, QueueAnswer(t)
  PROVE  IInv'
<1> DEFINE q == Head(tabs[t].out)
<1>1. /\ UNCHANGED <<busVars, ended, abandoned, faults>> /\ tabs[t].out # <<>>
      /\ tabs' = [tabs EXCEPT ![t].out = Tail(@)]
  BY DEF QueueAnswer
<1>2. \/ UNCHANGED <<server, link>>
      \/ server' = [server EXCEPT !.queued = @ \cup {q}] /\ link' = Forwarded(link, q)
  BY DEF QueueAnswer
<1>3. /\ tabs \in [Tabs -> TabType] /\ tabs[t] \in TabType /\ server \in ServerType
      /\ LinkOK(link, ended)
  BY DEF IInv, PathTyped
<1>4. /\ Tail(tabs[t].out) \in Seq(Prompts) /\ q \in Prompts /\ Holds(tabs[t].out, q)
      /\ \A p : Holds(Tail(tabs[t].out), p) => Holds(tabs[t].out, p)
  BY <1>1, <1>3, HoldsTail DEF TabType
<1> HIDE DEF q
<1>5. BusInv' /\ outcome' = outcome /\ \A p : Settled(p)' <=> Settled(p)
  BY <1>1, BusKept DEF IInv
<1>6. /\ server' \in ServerType /\ server'.tracked = server.tracked
      /\ server.queued \subseteq server'.queued /\ server'.queued \subseteq server.queued \cup {q}
      /\ server'.ends = server.ends /\ server'.replaying = server.replaying
  BY <1>2, <1>3, <1>4 DEF ServerType
<1>7. /\ LinkOK(link', ended) /\ link'.sock = link.sock /\ link'.up = link.up
      /\ link'.buffer = link.buffer /\ (Registering(link') <=> Registering(link))
      /\ \A p : Holds(link'.down, p) => Holds(link.down, p) \/ p = q
  <2>1. CASE link' = link
    BY <1>3, <2>1
  <2>2. CASE link' = Forwarded(link, q) /\ Bound
    <3>1. link' = [link EXCEPT !.down = Append(@, q)] /\ link.sock = "open"
      BY <2>2 DEF Forwarded, Bound
    <3>2. SentDown(link, q, link', ended)
      BY ONLY <1>3, <1>4, <3>1, ForwardsDown
    <3> QED BY <3>1, <3>2 DEF SentDown
  <2>3. CASE link' = Forwarded(link, q) /\ ~Bound
    BY <1>3, <2>3 DEF Forwarded
  <2> QED BY <1>2, <2>1, <2>2, <2>3
<1>8. /\ tabs' \in [Tabs -> TabType]
      /\ \A u \in Tabs : /\ tabs'[u].sync = tabs[u].sync /\ tabs'[u].card = tabs[u].card
                         /\ tabs'[u].ends = tabs[u].ends
                         /\ \A p : Holds(tabs'[u].out, p) => Holds(tabs[u].out, p)
  <2> DEFINE new == [tabs[t] EXCEPT !.out = Tail(@)]
  <2>1. tabs' = [tabs EXCEPT ![t] = new]
    BY <1>1, <1>3
  <2>2. /\ new \in TabType /\ new.sync = tabs[t].sync /\ new.card = tabs[t].card
        /\ new.ends = tabs[t].ends /\ new.out = Tail(tabs[t].out)
    BY <1>3, <1>4 DEF TabType
  <2> HIDE DEF new
  <2> QED BY <1>3, <1>4, <2>1, <2>2
<1>9. PathTyped'
  BY <1>1, <1>6, <1>8 DEF IInv, PathTyped
<1>10. ServerInv'
  BY <1>6, <1>7, <1>8 DEF IInv, ServerInv, Awaited
<1>11. outcome[q] # "new"
  BY <1>4 DEF IInv, TabsOK, TabOK, Unheard
<1>12. ASSUME NEW p \in Prompts PROVE PromptOK(p)'
  <2>1. PromptOK(p)
    BY DEF IInv, PromptsOK
  <2> QED BY <1>1, <1>5, <1>6, <1>7, <1>11, <2>1 DEF PromptOK, Awaited
<1>13. ASSUME NEW p \in Prompts, NEW u \in Tabs PROVE TabOK(tabs[u], p)'
  <2>1. TabOK(tabs[u], p)
    BY DEF IInv, TabsOK
  <2> QED BY <1>1, <1>5, <1>6, <1>7, <1>8, <2>1
          DEF TabOK, Unheard, Undismissed, Shown, EndTold, Awaited
<1> QED BY <1>1, <1>5, <1>7, <1>9, <1>10, <1>12, <1>13 DEF IInv, PromptsOK, TabsOK

LEMMA RetryAnswerKeeps ==
  ASSUME IInv, NEW q \in Prompts, RetryAnswer(q)
  PROVE  IInv'
<1>1. /\ UNCHANGED <<busVars, ended, server, tabs, abandoned, faults>> /\ q \in server.queued
      /\ link' = [link EXCEPT !.down = Append(@, q)] /\ link.sock = "open"
      /\ LinkOK(link, ended)
  BY DEF RetryAnswer, Forwarded, Bound, IInv
<1>2. SentDown(link, q, link', ended)
  BY ONLY <1>1, q \in Prompts, ForwardsDown
<1>3. BusInv' /\ outcome' = outcome /\ \A p : Settled(p)' <=> Settled(p)
  BY <1>1, BusKept DEF IInv
<1>4. PathTyped' /\ ServerInv'
  BY <1>1, <1>2 DEF IInv, PathTyped, ServerInv, Awaited, SentDown
<1>5. ASSUME NEW p \in Prompts PROVE PromptOK(p)'
  <2>1. PromptOK(p)
    BY DEF IInv, PromptsOK
  <2> QED BY <1>1, <1>2, <1>3, <2>1 DEF PromptOK, Awaited, SentDown
<1>6. ASSUME NEW p \in Prompts, NEW u \in Tabs PROVE TabOK(tabs[u], p)'
  <2>1. TabOK(tabs[u], p)
    BY DEF IInv, TabsOK
  <2> QED BY <1>1, <1>2, <1>3, <2>1
          DEF TabOK, Unheard, Undismissed, Shown, EndTold, Awaited, SentDown
<1> QED BY <1>1, <1>2, <1>3, <1>4, <1>5, <1>6 DEF IInv, PromptsOK, TabsOK, SentDown

LEMMA GiveUpAnswerKeeps ==
  ASSUME IInv, (\E q \in Prompts : GiveUpAnswer(q)) \/ Unregister
  PROVE  IInv'
<1>1. UNCHANGED <<busVars, ended, link, tabs, faults>>
  BY DEF GiveUpAnswer, Unregister
<1>2. /\ server' \in ServerType /\ server'.tracked = server.tracked
      /\ server'.queued \subseteq server.queued
      /\ server'.ends = server.ends /\ server'.replaying = server.replaying
      /\ abandoned \subseteq abandoned' /\ abandoned' \subseteq Prompts
      /\ \A p \in server.queued : p \in server'.queued \/ p \in abandoned' \/ ~Bound
  BY DEF GiveUpAnswer, Unregister, IInv, PathTyped, ServerType
<1>3. BusInv' /\ outcome' = outcome /\ \A p : Settled(p)' <=> Settled(p)
  BY <1>1, BusKept DEF IInv
<1>4. PathTyped' /\ ServerInv' /\ LinkOK(link, ended)'
  BY <1>1, <1>2, <1>3 DEF IInv, PathTyped, ServerInv, Awaited
<1>5. ASSUME NEW p \in Prompts, outcome[p] = "waiting", ~Bound
      PROVE  link.sock # "open" \/ On(link.up, "request", p)
  <2>1. SUFFICES ASSUME link.sock = "open" PROVE On(link.up, "request", p)
    OBVIOUS
  <2>2. LinkOK(link, ended) /\ link.up \in Seq(Msgs)
    BY DEF IInv, LinkOK, LinkType
  <2>3. PICK i \in DOMAIN link.up : link.up[i].type = "register"
    BY <1>5, <2>1 DEF Bound
  <2>4. i = 1 /\ link.up # <<>>
    BY <2>2, <2>3 DEF LinkOK
  <2>5. Registering(link)
    BY <2>3, <2>4 DEF Registering
  <2> QED BY <1>5, <2>5 DEF IInv, PromptsOK, PromptOK
<1>6. ASSUME NEW p \in Prompts PROVE PromptOK(p)'
  <2>1. PromptOK(p)
    BY DEF IInv, PromptsOK
  <2> QED BY <1>1, <1>2, <1>3, <1>5, <2>1 DEF PromptOK
<1>7. ASSUME NEW p \in Prompts, NEW u \in Tabs PROVE TabOK(tabs[u], p)'
  <2>1. TabOK(tabs[u], p)
    BY DEF IInv, TabsOK
  <2> QED BY <1>1, <1>2, <1>3, <1>5, <2>1
          DEF TabOK, Unheard, Undismissed, Shown, EndTold
<1> QED BY <1>3, <1>4, <1>6, <1>7 DEF IInv, PromptsOK, TabsOK

-----------------------------------------------------------------------------
(* Steps of the bridge. *)

\* The messages the bridge sends of a prompt, one or two at a time.
LEMMA OneMessage ==
  ASSUME NEW p \in Prompts, NEW type \in OfPrompt, NEW u, u = <<Message(type, p)>>
  PROVE  /\ u \in Seq(Msgs) /\ \A i \in DOMAIN u : u[i].type \in OfPrompt
         /\ \A ty, q : On(u, ty, q) <=> ty = type /\ q = p
<1>1. Message(type, p) \in Msgs /\ Message(type, p).type = type
  BY MessagesAre
<1>2. u \in Seq(Msgs) /\ \A i \in DOMAIN u : u[i].type \in OfPrompt
  BY <1>1
<1>3. \A ty, q : On(u, ty, q) <=> ty = type /\ q = p
  BY OnOne, DifferentMessages
<1> QED BY <1>2, <1>3

\* u says that p is settled and that its answer has arrived.
SettlesAndAcks(u, p) ==
  /\ u \in Seq(Msgs) /\ \A i \in DOMAIN u : u[i].type \in OfPrompt
  /\ \A ty, q : On(u, ty, q) <=> ty \in {"dismiss", "ack"} /\ q = p

LEMMA SettleAndAck ==
  ASSUME NEW p \in Prompts, NEW u, u = <<Message("dismiss", p)>> \o <<Message("ack", p)>>
  PROVE  SettlesAndAcks(u, p)
<1> DEFINE d == <<Message("dismiss", p)>>
           a == <<Message("ack", p)>>
<1>1. d \in Seq(Msgs) /\ \A ty, q : On(d, ty, q) <=> ty = "dismiss" /\ q = p
  BY OneMessage DEF OfPrompt
<1>2. a \in Seq(Msgs) /\ \A ty, q : On(a, ty, q) <=> ty = "ack" /\ q = p
  BY OneMessage DEF OfPrompt
<1> DEFINE M == {m \in Msgs : m.type \in OfPrompt}
<1>3. d \in Seq(M) /\ a \in Seq(M)
  <2>1. Message("dismiss", p) \in M /\ Message("ack", p) \in M
    BY MessagesAre DEF OfPrompt
  <2> QED BY <2>1
<1>4. u = d \o a
  OBVIOUS
<1> HIDE DEF d, a, M
<1>5. u \in Seq(M)
  BY <1>3, <1>4, ConcatProperties
<1>6. u \in Seq(Msgs) /\ \A i \in DOMAIN u : u[i].type \in OfPrompt
  <2>1. M \subseteq Msgs /\ \A m \in M : m.type \in OfPrompt
    BY DEF M
  <2>2. u \in Seq(Msgs)
    BY <1>5, <2>1, SeqMonotonic
  <2>3. \A i \in DOMAIN u : u[i] \in M
    BY <1>5
  <2> QED BY <2>1, <2>2, <2>3
<1>7. \A ty, q : On(u, ty, q) <=> On(d, ty, q) \/ On(a, ty, q)
  <2> SUFFICES ASSUME NEW ty, NEW q PROVE On(u, ty, q) <=> On(d, ty, q) \/ On(a, ty, q)
    OBVIOUS
  <2>1. On(d \o a, ty, q) <=> On(d, ty, q) \/ On(a, ty, q)
    BY <1>1, <1>2, OnCat
  <2> QED BY <2>1, <1>4
<1>8. \A ty, q : On(u, ty, q) <=> ty \in {"dismiss", "ack"} /\ q = p
  BY <1>1, <1>2, <1>7
<1> QED BY <1>6, <1>8 DEF SettlesAndAcks

\* The bridge sends u on the link l, which is as link but may have lost an
\* answer, and nothing changes but what concerns p.
SendsOf(p, u, l) ==
  /\ u \in Seq(Msgs) /\ \A i \in DOMAIN u : u[i].type \in OfPrompt
  /\ LinkOK(l, ended) /\ l.sock = link.sock /\ l.up = link.up /\ l.buffer = link.buffer
  /\ Registering(l) <=> Registering(link)
  /\ \A q : Holds(l.down, q) => Holds(link.down, q)
  /\ link' = Link!Sent(l, u) /\ UNCHANGED <<server, tabs, abandoned>>
  /\ \A q \in Prompts : q # p => outcome'[q] = outcome[q]
  /\ \A ty, q : On(u, ty, q) => q = p
  /\ ended \subseteq ended' /\ ended' \subseteq ended \cup {p}
  /\ p \in ended' => Settled(p)'
  /\ p \in ended' \ ended => On(u, "end", p)
  /\ outcome[p] = "new" => outcome'[p] = "new" \/ outcome'[p] = "waiting"
  /\ outcome'[p] = "new" => outcome[p] = "new"
  /\ outcome'[p] = "waiting" /\ outcome[p] # "waiting" =>
       On(u, "request", p) /\ outcome[p] = "new"
  /\ On(u, "request", p) => outcome'[p] = "waiting"
  /\ outcome[p] = "waiting" /\ outcome'[p] # "waiting" => On(u, "dismiss", p) /\ p \notin ended'
  /\ Settled(p) => Settled(p)'
  /\ (\E ty \in {"dismiss", "ack", "end"} : On(u, ty, p)) => Settled(p)'

LEMMA BridgeSends ==
  ASSUME IInv, BusInv', NEW p \in Prompts, NEW u, NEW l, SendsOf(p, u, l)
  PROVE  IInv'
<1> USE DEF SendsOf
<1>1. ended \subseteq ended' /\ \A q \in ended' \ ended : q = p /\ On(u, "end", p)
  OBVIOUS
<1>2. Follows(u, ended')
  <2>1. ASSUME NEW q \in ended', On(u, "request", q) PROVE FALSE
    <3>0. q = p
      BY <2>1
    <3>1. Settled(p)' /\ outcome'[p] = "waiting"
      BY <2>1, <3>0
    <3> QED BY ONLY <3>1 DEF Settled, Settlers
  <2> QED BY <2>1, NoRequestToFollow
<1>3. SentWith(l, u, link', ended')
  <2> DEFINE R == ended'
             S == ended
  <2>1. /\ LinkOK(l, S) /\ u \in Seq(Msgs) /\ \A i \in DOMAIN u : u[i].type \in OfPrompt
        /\ Follows(u, R) /\ S \subseteq R /\ \A q \in R \ S : On(u, "end", q)
        /\ link' = Link!Sent(l, u)
    BY <1>1, <1>2
  <2> HIDE DEF R, S
  <2>2. SentWith(l, u, link', R)
    BY ONLY <2>1, SendsMessages
  <2> QED BY <2>2 DEF R
<1>4. /\ LinkOK(link, ended)' /\ link'.sock = link.sock
      /\ \A q : Holds(link'.down, q) => Holds(link.down, q)
      /\ Registering(link') <=> Registering(link)
      /\ Completes(link.up) => Completes(link'.up)
      /\ \A r, q : EndComes(link.up, r, q) => EndComes(link'.up, r, q)
      /\ \A r, q : link.sock = "open" /\ On(u, "end", q) /\ (r => Completes(link.up))
                    => EndComes(link'.up, r, q)
      /\ \A type, q : On(link'.up, type, q) <=> On(link.up, type, q) \/ (link.sock = "open" /\ On(u, type, q))
      /\ \A type, q : On(link'.buffer, type, q) => On(link.buffer, type, q) \/ On(u, type, q)
  BY <1>3 DEF SentWith
<1>5. Registering(link) => link.sock = "open"
  BY DEF Registering, IInv, LinkOK
<1>6. PathTyped' /\ ServerInv'
  BY <1>4 DEF IInv, PathTyped, ServerInv, Awaited
<1>7. ASSUME NEW q \in Prompts PROVE PromptOK(q)'
  <2>1. PromptOK(q)
    BY DEF IInv, PromptsOK
  <2>2. CASE q # p
    <3>1. /\ outcome'[q] = outcome[q] /\ (Settled(q)' <=> Settled(q)) /\ (q \in ended' <=> q \in ended)
          /\ \A ty : ~On(u, ty, q)
      BY <2>2 DEF Settled
    <3> QED BY <1>4, <2>1, <3>1 DEF PromptOK, Awaited
  <2>3. CASE q = p
    <3>1. outcome'[p] = "new" => ~On(u, "request", p)
      OBVIOUS
    <3>2. (outcome[p] = "waiting" \/ outcome'[p] = "waiting") => p \notin ended /\ p \notin ended'
      BY <2>1, <2>3 DEF Settled, Settlers, PromptOK
    <3>3. ~Settled(p)' => ~Settled(p)
      OBVIOUS
    <3> QED BY <1>4, <1>5, <2>1, <2>3, <3>1, <3>2, <3>3 DEF PromptOK, Awaited
  <2> QED BY <2>2, <2>3
<1>8. ASSUME NEW q \in Prompts, NEW t \in Tabs PROVE TabOK(tabs[t], q)'
  <2>1. TabOK(tabs[t], q)
    BY DEF IInv, TabsOK
  <2>2. CASE q # p
    <3>1. /\ outcome'[q] = outcome[q] /\ (Settled(q)' <=> Settled(q)) /\ (q \in ended' <=> q \in ended)
          /\ \A ty : ~On(u, ty, q)
      BY <2>2 DEF Settled
    <3> QED BY <1>4, <2>1, <3>1
            DEF TabOK, Unheard, Undismissed, Shown, EndTold, Awaited
  <2>3. CASE q = p
    <3>1. Unheard(tabs[t], p)' /\ Undismissed(tabs[t], p)'
      BY <2>1, <2>3 DEF TabOK, Unheard, Undismissed
    <3>2. Shown(tabs[t], p)'
      BY <1>4, <2>1, <2>3 DEF TabOK, Shown
    <3>3. EndTold(tabs[t], p)'
      <4>1. CASE p \in ended
        BY <1>4, <2>1, <2>3, <4>1 DEF TabOK, EndTold, Awaited
      <4>2. CASE p \notin ended
        BY <1>1, <1>4, <4>2 DEF EndTold, Awaited, IInv, ServerInv
      <4> QED BY <4>1, <4>2
    <3> QED BY <2>3, <3>1, <3>2, <3>3 DEF TabOK
  <2> QED BY <2>2, <2>3
<1> QED BY <1>4, <1>6, <1>7, <1>8 DEF IInv, PromptsOK, TabsOK

LEMMA AskPromptKeeps ==
  ASSUME IInv, NEW p \in Prompts, AskPrompt(p)
  PROVE  IInv'
<1> DEFINE u == <<Message("request", p)>>
<1>1. Ask(p) /\ link' = Link!Sent(link, u) /\ UNCHANGED <<ended, server, tabs, abandoned>>
  BY DEF AskPrompt, Send
<1>2. BusInv'
  BY <1>1, AskKeepsBus DEF IInv
<1>3. outcome \in [Prompts -> {"new", "waiting"} \cup Settlers] /\ p \notin ended
  BY <1>1 DEF IInv, BusInv, BusTypeOK, PromptsOK, PromptOK, Ask, Settled, Settlers
<1>4. /\ outcome[p] = "new" /\ outcome'[p] = "waiting" /\ ~Settled(p)
      /\ \A q \in Prompts : q # p => outcome'[q] = outcome[q]
  BY <1>1, <1>3 DEF Ask, Settled, Settlers
<1>5. /\ u \in Seq(Msgs) /\ \A i \in DOMAIN u : u[i].type \in OfPrompt
      /\ \A ty, q : On(u, ty, q) <=> ty = "request" /\ q = p
  BY OneMessage DEF OfPrompt
<1> HIDE DEF u
<1>6. SendsOf(p, u, link)
  BY <1>1, <1>3, <1>4, <1>5 DEF SendsOf, IInv
<1> QED BY ONLY IInv, p \in Prompts, <1>2, <1>6, BridgeSends

\* The terminal's user answers, or the prompt is cancelled.
LEMMA SettlePromptKeeps ==
  ASSUME IInv, NEW p \in Prompts, AnswerPrompt(p) \/ CancelPrompt(p)
  PROVE  IInv'
<1> DEFINE u == <<Message("dismiss", p)>>
<1>1. PICK source \in Settlers : Settle(p, source)
  BY DEF AnswerPrompt, CancelPrompt, AnswerInTerminal, Cancel, Settlers
<1>2. link' = Link!Sent(link, u) /\ UNCHANGED <<ended, server, tabs, abandoned>>
  BY DEF AnswerPrompt, CancelPrompt, Send
<1>3. BusInv'
  BY <1>1, SettleKeepsBus DEF IInv
<1>4. outcome \in [Prompts -> {"new", "waiting"} \cup Settlers] /\ p \notin ended
  BY <1>1 DEF IInv, BusInv, BusTypeOK, PromptsOK, PromptOK, Settle, Settled, Settlers
<1>5. /\ outcome[p] = "waiting" /\ outcome'[p] = source /\ Settled(p)'
      /\ \A q \in Prompts : q # p => outcome'[q] = outcome[q]
  BY <1>1, <1>4 DEF Settle, Settled
<1>6. /\ u \in Seq(Msgs) /\ \A i \in DOMAIN u : u[i].type \in OfPrompt
      /\ \A ty, q : On(u, ty, q) <=> ty = "dismiss" /\ q = p
  BY OneMessage DEF OfPrompt
<1>7. source # "new" /\ source # "waiting"
  BY DEF Settlers
<1> HIDE DEF u
<1>8. SendsOf(p, u, link)
  BY <1>2, <1>4, <1>5, <1>6, <1>7 DEF SendsOf, IInv
<1> QED BY ONLY IInv, p \in Prompts, <1>3, <1>8, BridgeSends

LEMMA EndToolKeeps ==
  ASSUME IInv, NEW p \in Prompts, EndTool(p)
  PROVE  IInv'
<1> DEFINE u == <<Message("end", p)>>
<1>1. /\ UNCHANGED <<busVars, server, tabs, abandoned>> /\ ended' = ended \cup {p}
      /\ link' = Link!Sent(link, u) /\ Settled(p)
  BY DEF EndTool, Send
<1>2. BusInv' /\ outcome' = outcome /\ \A q : Settled(q)' <=> Settled(q)
  BY <1>1, BusKept DEF IInv
<1>3. outcome[p] # "new" /\ outcome[p] # "waiting"
  BY <1>1 DEF Settled, Settlers
<1>4. /\ u \in Seq(Msgs) /\ \A i \in DOMAIN u : u[i].type \in OfPrompt
      /\ \A ty, q : On(u, ty, q) <=> ty = "end" /\ q = p
  BY OneMessage DEF OfPrompt
<1> HIDE DEF u
<1>5. SendsOf(p, u, link)
  BY <1>1, <1>2, <1>3, <1>4 DEF SendsOf, IInv
<1> QED BY ONLY IInv, p \in Prompts, <1>2, <1>5, BridgeSends

LEMMA ReceiveAnswerKeeps ==
  ASSUME IInv, ReceiveAnswer
  PROVE  IInv'
<1>0. PICK p : p = Head(link.down)
  OBVIOUS
<1> DEFINE l == [link EXCEPT !.down = Tail(@)]
           u == IF outcome[p] = "waiting" THEN <<Message("dismiss", p)>> \o <<Message("ack", p)>>
                                          ELSE <<Message("ack", p)>>
<1>1. /\ link.down # <<>> /\ AnswerFromDashboard(p) /\ link' = Link!Sent(l, u)
      /\ UNCHANGED <<ended, server, tabs, abandoned>>
  BY <1>0 DEF ReceiveAnswer
<1>2. TakenDown(link, l, ended)
  <2>1. LinkOK(link, ended) /\ link.down # <<>> /\ l = [link EXCEPT !.down = Tail(@)]
    BY <1>1 DEF IInv
  <2> HIDE DEF l
  <2> QED BY ONLY <2>1, ReceivesDown
<1>3. p \in Prompts /\ Holds(link.down, p)
  BY <1>0, <1>2 DEF TakenDown
<1>4. outcome[p] # "new"
  BY <1>3 DEF IInv, PromptsOK, PromptOK
<1>5. /\ u \in Seq(Msgs) /\ \A i \in DOMAIN u : u[i].type \in OfPrompt
      /\ \A ty, q : On(u, ty, q) <=> q = p /\ (ty = "ack" \/ (ty = "dismiss" /\ outcome[p] = "waiting"))
  <2>1. CASE outcome[p] = "waiting"
    <3>1. u = <<Message("dismiss", p)>> \o <<Message("ack", p)>>
      BY <2>1
    <3> HIDE DEF u
    <3>2. SettlesAndAcks(u, p)
      BY ONLY <1>3, <3>1, SettleAndAck
    <3> QED BY <2>1, <3>2 DEF SettlesAndAcks
  <2>2. CASE outcome[p] # "waiting"
    <3>1. u = <<Message("ack", p)>> /\ "ack" \in OfPrompt
      BY <2>2 DEF OfPrompt
    <3> HIDE DEF u
    <3> QED BY <1>3, <2>2, <3>1, OneMessage
  <2> QED BY <2>1, <2>2
<1> HIDE DEF l, u
<1>6. /\ outcome \in [Prompts -> {"new", "waiting"} \cup Settlers]
      /\ outcome[p] = "waiting" => p \notin ended
  BY <1>3 DEF IInv, BusInv, BusTypeOK, PromptsOK, PromptOK, Settled, Settlers
<1>7. BusInv' /\ (Settled(p) => outcome'[p] = outcome[p])
  <2>1. BusNext
    BY <1>1, <1>3 DEF BusNext
  <2> QED BY <1>3, <2>1, BusNextKeepsBus DEF IInv
<1>8. /\ Settled(p)' /\ outcome'[p] # "new" /\ outcome'[p] # "waiting"
      /\ \A q \in Prompts : q # p => outcome'[q] = outcome[q]
  <2>1. CASE Settle(p, "dashboard")
    <3>1. outcome' = [outcome EXCEPT ![p] = "dashboard"]
      BY <2>1 DEF Settle
    <3> QED BY <1>3, <1>6, <3>1 DEF Settled, Settlers
  <2>2. CASE outcome[p] # "waiting" /\ UNCHANGED busVars
    BY <1>3, <1>4, <1>6, <2>2 DEF Settled, Settlers, busVars
  <2> QED BY <1>1, <2>1, <2>2 DEF AnswerFromDashboard
<1>9. SendsOf(p, u, l)
  <2>1. /\ LinkOK(l, ended) /\ l.sock = link.sock /\ l.up = link.up /\ l.buffer = link.buffer
        /\ (Registering(l) <=> Registering(link)) /\ \A q : Holds(l.down, q) => Holds(link.down, q)
    BY <1>2 DEF TakenDown
  <2> QED BY <1>1, <1>4, <1>5, <1>6, <1>7, <1>8, <2>1 DEF SendsOf
<1> QED BY ONLY IInv, <1>3, <1>7, <1>9, BridgeSends

\* A dialog is left, or nothing changes but the count of faults.
LEMMA LeavePromptKeeps ==
  ASSUME IInv, (\E p \in Prompts : LeavePrompt(p)) \/ UNCHANGED pathVars
  PROVE  IInv'
<1>1. BusInv' /\ outcome' = outcome
  <2>1. [BusNext]_busVars /\ outcome' = outcome
    BY DEF LeavePrompt, LeaveTerminal, BusNext, pathVars, busVars
  <2> QED BY <2>1, BusNextKeepsBus DEF IInv
<1>2. UNCHANGED <<ended, link, server, tabs, abandoned>>
  BY DEF LeavePrompt, pathVars
<1>3. ended' = ended /\ \A p : Settled(p)' <=> Settled(p)
  BY <1>1, <1>2 DEF Settled
<1>4. PathTyped' /\ ServerInv' /\ LinkOK(link, ended)'
  BY <1>2, <1>3 DEF IInv, PathTyped, ServerInv
<1>5. PromptsOK'
  BY <1>1, <1>2, <1>3 DEF IInv, PromptsOK, PromptOK
<1>6. TabsOK'
  <2> SUFFICES ASSUME NEW p \in Prompts, NEW t \in Tabs PROVE TabOK(tabs[t], p)'
    BY DEF TabsOK
  <2>1. TabOK(tabs[t], p)
    BY DEF IInv, TabsOK
  <2> QED BY <1>1, <1>2, <1>3, <2>1 DEF TabOK, Unheard, Undismissed, Shown, EndTold
<1> QED BY <1>1, <1>2, <1>4, <1>5, <1>6 DEF IInv

-----------------------------------------------------------------------------
(* Faults. *)

\* The link breaks, or the bridge notices that it has.
LEMMA BreaksLinkKeeps ==
  ASSUME IInv, LoseLink \/ NoticeLoss
  PROVE  IInv'
<1>1. UNCHANGED <<busVars, ended, server, tabs, abandoned>>
  BY DEF LoseLink, NoticeLoss
<1>2. BusInv' /\ outcome' = outcome /\ \A p : Settled(p)' <=> Settled(p)
  BY <1>1, BusKept DEF IInv
<1>3. LinkOK(link, ended)
  BY DEF IInv
<1>4. /\ LinkOK(link', ended) /\ link'.sock # "open" /\ ~Registering(link')
      /\ link'.up = <<>> /\ link'.down = <<>> /\ link'.buffer = <<>>
  <2>1. CASE LoseLink
    <3>1. link.sock = "open" /\ link' = Link!Lost(link)
      BY <2>1 DEF LoseLink
    <3>2. LostAs(link, link', ended)
      BY ONLY <1>3, <3>1, LosesMessages
    <3> QED BY <3>2 DEF LostAs
  <2>2. CASE NoticeLoss
    <3>1. link.sock = "dead" /\ link' = Link!Closed(link)
      BY <2>2 DEF NoticeLoss
    <3>2. NoticedAs(link, link', ended)
      BY ONLY <1>3, <3>1, NoticesLoss
    <3> QED BY <1>3, <3>1, <3>2 DEF NoticedAs, LinkOK
  <2> QED BY <2>1, <2>2
<1>5. /\ \A type, p : ~On(link'.up, type, p) /\ ~On(link'.buffer, type, p)
      /\ \A p : ~Holds(link'.down, p)
  BY <1>4, OnNone DEF Holds
<1>6. PathTyped' /\ ServerInv'
  BY <1>1, <1>4 DEF IInv, PathTyped, ServerInv, Awaited
<1>7. ASSUME NEW p \in Prompts PROVE PromptOK(p)'
  <2>1. PromptOK(p)
    BY DEF IInv, PromptsOK
  <2> QED BY <1>1, <1>2, <1>4, <1>5, <2>1 DEF PromptOK, Awaited
<1>8. ASSUME NEW p \in Prompts, NEW t \in Tabs PROVE TabOK(tabs[t], p)'
  <2>1. TabOK(tabs[t], p)
    BY DEF IInv, TabsOK
  <2> QED BY <1>1, <1>2, <1>4, <2>1
          DEF TabOK, Unheard, Undismissed, Shown, EndTold, Awaited
<1> QED BY <1>1, <1>2, <1>4, <1>6, <1>7, <1>8 DEF IInv, PromptsOK, TabsOK

LEMMA ReconnectKeeps ==
  ASSUME IInv, Reconnect
  PROVE  IInv'
<1> DEFINE u == ReplayedSession
           W == {p \in Prompts : outcome[p] = "waiting"}
<1>1. /\ link.sock = "none" /\ link' = Link!Opened(link, u)
      /\ UNCHANGED <<busVars, ended, server, tabs, abandoned>>
  BY DEF Reconnect
<1>2. BusInv' /\ outcome' = outcome /\ \A p : Settled(p)' <=> Settled(p)
  BY <1>1, BusKept DEF IInv
<1>3. ReplayedAs(u, ended, W)
  <2>1. ended \in SUBSET Prompts /\ W \in SUBSET Prompts
    BY DEF IInv, PathTyped
  <2>2. u = <<Message("register", None)>> \o Messages("end", ended)
            \o Messages("request", W) \o <<Message("complete", None)>>
    BY DEF ReplayedSession
  <2> HIDE DEF u, W
  <2> QED BY ONLY <2>1, <2>2, ReplayedMessages
<1>4. \A p \in ended : ~On(u, "request", p)
  <2>1. \A p \in ended : p \notin W
    <3>1. ASSUME NEW p \in ended PROVE Settled(p)
      BY DEF IInv, PathTyped, PromptsOK, PromptOK
    <3> QED BY <3>1 DEF Settled, Settlers
  <2> HIDE DEF u, W
  <2> QED BY <1>3, <2>1 DEF OfPrompt, ReplayedAs
<1>5. LinkOK(link, ended)
  BY DEF IInv
<1>6. \A p \in Prompts : p \in W <=> outcome[p] = "waiting"
  OBVIOUS
<1> HIDE DEF u, W
<1>7. OpenedWith(link, u, link', ended)
  <2>1. /\ u \in Seq(Msgs) /\ u # <<>> /\ u[1].type = "register"
        /\ \A i \in DOMAIN u : u[i].type = "register" => i = 1
        /\ Completes(u)
    BY <1>3 DEF ReplayedAs
  <2> QED BY ONLY <1>1, <2>1, <1>4, <1>5, OpensSocket
<1>8. /\ LinkOK(link', ended) /\ link'.sock = "open" /\ link'.down = link.down
      /\ link'.buffer = <<>> /\ Registering(link') /\ Completes(link'.up)
      /\ \A type, p : On(link'.up, type, p) <=> On(u, type, p) \/ On(link.buffer, type, p)
      /\ \A type, p : ~On(link'.buffer, type, p)
  BY <1>7, OnNone DEF OpenedWith
<1>9. PathTyped' /\ ServerInv'
  BY <1>1, <1>8 DEF IInv, PathTyped, ServerInv, Awaited
<1>10. ASSUME NEW p \in Prompts PROVE PromptOK(p)'
  <2>1. PromptOK(p)
    BY DEF IInv, PromptsOK
  <2>2. outcome[p] = "waiting" => On(link'.up, "request", p)
    BY <1>3, <1>6, <1>8 DEF OfPrompt, ReplayedAs
  <2>3. p \in ended => On(link'.up, "end", p)
    BY <1>3, <1>8 DEF OfPrompt, ReplayedAs
  <2>4. ASSUME ~Settled(p), NEW type \in {"dismiss", "ack", "end"} PROVE ~On(link'.up, type, p)
    BY <1>3, <1>8, <2>1, <2>4 DEF OfPrompt, PromptOK, ReplayedAs
  <2>5. outcome[p] = "new" => ~On(link'.up, "request", p)
    BY <1>3, <1>6, <1>8, <2>1 DEF OfPrompt, PromptOK, ReplayedAs
  <2> QED BY <1>1, <1>2, <1>8, <2>1, <2>2, <2>3, <2>4, <2>5 DEF PromptOK
<1>11. ASSUME NEW p \in Prompts, NEW t \in Tabs PROVE TabOK(tabs[t], p)'
  <2>1. TabOK(tabs[t], p)
    BY DEF IInv, TabsOK
  <2>2. outcome[p] = "waiting" => On(link'.up, "request", p)
    BY <1>3, <1>6, <1>8 DEF OfPrompt, ReplayedAs
  <2> QED BY <1>1, <1>2, <1>8, <2>1, <2>2
          DEF TabOK, Unheard, Undismissed, Shown, EndTold, Awaited
<1> QED BY <1>1, <1>2, <1>8, <1>9, <1>10, <1>11 DEF IInv, PromptsOK, TabsOK

LEMMA RestartServerKeeps ==
  ASSUME IInv, RestartServer
  PROVE  IInv'
<1>1. /\ UNCHANGED <<busVars, ended, abandoned>>
      /\ server' = [tracked |-> {}, queued |-> {}, ends |-> None, replaying |-> FALSE]
      /\ link' = IF link.sock = "open" THEN Link!Lost(link) ELSE link
      /\ tabs' = [t \in Tabs |-> [tabs[t] EXCEPT !.sync = "off", !.stale = TRUE, !.out = <<>>]]
  BY DEF RestartServer, NewServer
<1>2. BusInv' /\ outcome' = outcome /\ \A p : Settled(p)' <=> Settled(p)
  BY <1>1, BusKept DEF IInv
<1>3. LinkOK(link, ended)
  BY DEF IInv
<1>4. /\ LinkOK(link', ended) /\ link'.sock # "open" /\ ~Registering(link')
      /\ link'.up = <<>> /\ link'.down = <<>>
      /\ \A type, p : On(link'.buffer, type, p) => On(link.buffer, type, p)
  <2>1. CASE link.sock = "open"
    <3>1. link' = Link!Lost(link)
      BY <1>1, <2>1
    <3>2. LostAs(link, link', ended)
      BY ONLY <1>3, <2>1, <3>1, LosesMessages
    <3> QED BY <3>2, OnNone DEF LostAs
  <2>2. CASE link.sock # "open"
    <3>1. link' = link /\ link.up = <<>> /\ link.down = <<>>
      BY <1>1, <1>3, <2>2 DEF LinkOK
    <3> QED BY <1>3, <2>2, <3>1 DEF Registering
  <2> QED BY <2>1, <2>2
<1>5. /\ \A type, p : ~On(link'.up, type, p)
      /\ \A p : ~Holds(link'.down, p)
  BY <1>4, OnNone DEF Holds
<1>6. server' \in ServerType
  BY <1>1 DEF ServerType
<1>7. /\ tabs' \in [Tabs -> TabType]
      /\ \A t \in Tabs : /\ tabs'[t].sync = "off" /\ tabs'[t].card = tabs[t].card
                         /\ tabs'[t].ends = tabs[t].ends /\ tabs'[t].out = <<>>
  <2> SUFFICES ASSUME NEW t \in Tabs
               PROVE  /\ tabs'[t] \in TabType /\ tabs'[t].sync = "off" /\ tabs'[t].card = tabs[t].card
                      /\ tabs'[t].ends = tabs[t].ends /\ tabs'[t].out = <<>>
    BY <1>1
  <2>1. tabs[t] \in TabType /\ <<>> \in Seq(Prompts)
    BY DEF IInv, PathTyped
  <2>2. tabs'[t] = [tabs[t] EXCEPT !.sync = "off", !.stale = TRUE, !.out = <<>>]
    BY <1>1
  <2> QED BY <2>1, <2>2 DEF TabType
<1>8. PathTyped' /\ ServerInv'
  BY <1>1, <1>4, <1>6, <1>7 DEF IInv, PathTyped, ServerInv, Awaited
<1>9. ASSUME NEW p \in Prompts PROVE PromptOK(p)'
  <2>1. PromptOK(p)
    BY DEF IInv, PromptsOK
  <2> QED BY <1>1, <1>2, <1>4, <1>5, <2>1 DEF PromptOK, Awaited
<1>10. ASSUME NEW p \in Prompts, NEW t \in Tabs PROVE TabOK(tabs[t], p)'
  <2>1. TabOK(tabs[t], p)
    BY DEF IInv, TabsOK
  <2>2. /\ tabs'[t].sync = "off" /\ tabs'[t].card = tabs[t].card
        /\ tabs'[t].ends = tabs[t].ends /\ ~Holds(tabs'[t].out, p)
    BY <1>7 DEF Holds
  <2>3. Unheard(tabs[t], p)' /\ Undismissed(tabs[t], p)'
    BY <1>2, <2>1, <2>2 DEF TabOK, Unheard, Undismissed
  <2>4. Shown(tabs[t], p)' /\ EndTold(tabs[t], p)'
    BY <2>2 DEF Shown, EndTold
  <2> QED BY <2>3, <2>4 DEF TabOK
<1> QED BY <1>1, <1>2, <1>4, <1>8, <1>9, <1>10 DEF IInv, PromptsOK, TabsOK

-----------------------------------------------------------------------------
(* What holds once nothing is under way. *)

\* One case per action.
LEMMA PathStepKeeps == IInv /\ [PathNext]_pathVars => IInv'
<1> SUFFICES ASSUME IInv, [PathNext]_pathVars PROVE IInv'
  OBVIOUS
<1>1. CASE FromBridge
  BY <1>1, SessionRegisterKeeps, ReplayCompleteKeeps, PromptRequestKeeps, PromptDismissKeeps,
     ToolExecutionEndKeeps DEF FromBridge
<1>2. CASE SafetyTimeout
  BY <1>2, ReplayCompleteKeeps
<1>3. CASE Unregister
  BY <1>3, GiveUpAnswerKeeps
<1>4. CASE ReceiveAnswer
  BY <1>4, ReceiveAnswerKeeps
<1>5. CASE LoseLink \/ NoticeLoss
  BY <1>5, BreaksLinkKeeps
<1>6. CASE Reconnect
  BY <1>6, ReconnectKeeps
<1>7. CASE RestartServer
  BY <1>7, RestartServerKeeps
<1>8. ASSUME NEW p \in Prompts, RetryAnswer(p) PROVE IInv'
  BY <1>8, RetryAnswerKeeps
<1>9. ASSUME NEW p \in Prompts, GiveUpAnswer(p) PROVE IInv'
  BY <1>9, GiveUpAnswerKeeps
<1>10. ASSUME NEW p \in Prompts, AskPrompt(p) PROVE IInv'
  BY <1>10, AskPromptKeeps
<1>11. ASSUME NEW p \in Prompts, AnswerPrompt(p) \/ CancelPrompt(p) PROVE IInv'
  BY <1>11, SettlePromptKeeps
<1>12. ASSUME NEW p \in Prompts, LeavePrompt(p) PROVE IInv'
  BY <1>12, LeavePromptKeeps
<1>13. ASSUME NEW p \in Prompts, EndTool(p) PROVE IInv'
  BY <1>13, EndToolKeeps
<1>14. ASSUME NEW t \in Tabs, QueueAnswer(t) PROVE IInv'
  BY <1>14, QueueAnswerKeeps
<1>15. ASSUME NEW t \in Tabs, ServeSubscription(t) PROVE IInv'
  BY <1>15, ServeSubscriptionKeeps
<1>19. ASSUME NEW t \in Tabs, ServeOrphan(t) PROVE IInv'
  BY <1>19, ServeOrphanKeeps
<1>16. ASSUME NEW t \in Tabs, Subscribe(t) \/ LoseTab(t) \/ ReloadTab(t) PROVE IInv'
  BY <1>16, SubscribeKeeps
<1>17. ASSUME NEW t \in Tabs, NEW p \in Prompts, AnswerInTab(t, p) PROVE IInv'
  BY <1>17, AnswerInTabKeeps
<1>18. CASE UNCHANGED pathVars
  BY <1>18, LeavePromptKeeps
<1> QED BY <1>1, <1>2, <1>3, <1>4, <1>5, <1>6, <1>7, <1>8, <1>9, <1>10, <1>11, <1>12, <1>13,
           <1>14, <1>15, <1>16, <1>17, <1>18, <1>19 DEF PathNext

LEMMA PathInitInvariant == PathInit => IInv
<1> SUFFICES ASSUME PathInit PROVE IInv
  OBVIOUS
<1>1. /\ BusInit /\ ended = {} /\ abandoned = {}
      /\ link = [sock |-> "open", buffer |-> <<>>, up |-> <<>>, down |-> <<>>]
      /\ server = [tracked |-> {}, queued |-> {}, ends |-> {}, replaying |-> FALSE]
      /\ tabs = [t \in Tabs |-> NewTab]
  BY DEF PathInit, Link!NewLink, NewServer
<1>2. BusInv /\ \A p \in Prompts : outcome[p] = "new"
  BY <1>1, BusInitInvariant DEF BusInit
<1>3. /\ <<>> \in Seq(Msgs) /\ <<>> \in Seq(Prompts) /\ DOMAIN <<>> = {}
      /\ {} # None
  BY PathAssumption
<1>4. link.up = <<>> /\ link.down = <<>> /\ link.buffer = <<>> /\ link.sock = "open"
  BY <1>1
<1>5. /\ \A type, p : ~On(link.up, type, p) /\ ~On(link.buffer, type, p)
      /\ \A p : ~Holds(link.down, p)
  BY <1>3, <1>4 DEF On, Holds
<1>6. link \in LinkType
  BY <1>1, <1>3 DEF LinkType
<1>7. LinkOK(link, ended)
  BY <1>3, <1>4, <1>6 DEF LinkOK, Follows
<1>8. /\ NewTab \in TabType /\ NewTab.sync = "off" /\ NewTab.ends = {} /\ NewTab.out = <<>>
      /\ \A p \in Prompts : NewTab.card[p] = "none"
  BY <1>3 DEF NewTab, NoCards, TabType
<1>9. PathTyped
  <2>1. server \in ServerType
    BY <1>1 DEF ServerType
  <2> QED BY <1>1, <1>8, <2>1 DEF PathTyped
<1>10. ServerInv
  BY <1>1, <1>3, <1>4, <1>8 DEF ServerInv, Registering
<1>11. PromptsOK
  BY <1>1, <1>2, <1>5 DEF PromptsOK, PromptOK
<1>12. TabsOK
  <2> SUFFICES ASSUME NEW p \in Prompts, NEW t \in Tabs PROVE TabOK(tabs[t], p)
    BY DEF TabsOK
  <2>1. /\ tabs[t].sync = "off" /\ tabs[t].ends = {} /\ tabs[t].card[p] = "none"
        /\ ~Holds(tabs[t].out, p)
    BY <1>1, <1>3, <1>8 DEF Holds
  <2> QED BY <2>1 DEF TabOK, Unheard, Undismissed, Shown, EndTold
<1> QED BY <1>2, <1>7, <1>9, <1>10, <1>11, <1>12 DEF IInv

LEMMA QuietLink ==
  Quiet => /\ ~Awaited(link) /\ \A type, p : ~On(link.up, type, p)
           /\ \A r, p : ~EndComes(link.up, r, p)
<1>1. Quiet => ~Awaited(link) /\ \A type, p : ~On(link.up, type, p)
  BY OnNone DEF Quiet, Awaited, Registering
<1> QED BY <1>1 DEF EndComes, On

LEMMA WaitingIsShown == IInv => WaitingPromptShown
<1> SUFFICES ASSUME IInv, Quiet, NEW p \in Prompts \ abandoned, outcome[p] = "waiting"
             PROVE  /\ p \in server.tracked
                    /\ \A t \in Tabs : Online(t) => \/ tabs[t].card[p] \in {"pending", "resolved"}
                                                    \/ p \in tabs[t].missed
  BY DEF WaitingPromptShown
<1>1. link.sock = "open" /\ server.queued = {} /\ ~On(link.up, "request", p)
  BY QuietLink DEF Quiet
<1>2. p \in server.tracked
  BY <1>1 DEF IInv, PromptsOK, PromptOK
<1>3. ASSUME NEW t \in Tabs, Online(t) PROVE tabs[t].card[p] \in {"pending", "resolved"} \/ p \in tabs[t].missed
  <2>1. tabs[t].sync \in {"live", "behind"}
    BY <1>3 DEF Online, Quiet, IInv, PathTyped, TabType
  <2>2. Shown(tabs[t], p)
    BY DEF IInv, TabsOK, TabOK
  <2> QED BY <1>1, <2>1, <2>2 DEF Shown
<1> QED BY <1>2, <1>3

LEMMA EndedIsDismissed == IInv => NoStaleToolCard
<1> SUFFICES ASSUME IInv, Quiet, NEW p \in ended, NEW t \in Tabs, Online(t),
                    tabs[t].card[p] = "pending"
             PROVE  p \in tabs[t].doubt
  BY DEF NoStaleToolCard
<1>1. p \in Prompts /\ Settled(p)
  BY DEF IInv, PathTyped, PromptsOK, PromptOK
<1>2. tabs[t].sync \in {"live", "behind"}
  BY DEF Online, Quiet, IInv, PathTyped, TabType
<1>3. EndTold(tabs[t], p)
  BY <1>1 DEF IInv, TabsOK, TabOK
<1> QED BY <1>1, <1>2, <1>3, QuietLink DEF EndTold

\* Whatever was lost, sent twice, restarted or reloaded, for any number of
\* prompts and tabs and any room in the bridge's buffer: once nothing is under
\* way, a prompt that waits is kept by the server, and every tab it was not
\* dropped for has its card.
THEOREM WaitingPromptsAreShown == PathSpec => []WaitingPromptShown
BY PathInitInvariant, PathStepKeeps, WaitingIsShown, PTL DEF PathSpec

\* Once nothing is under way, no tab asks for a tool that has ended, not even one
\* that was away when it did: unless it was given only a part of the events after
\* it had shown the card.
THEOREM EndedToolsAskNobody == PathSpec => []NoStaleToolCard
BY PathInitInvariant, PathStepKeeps, EndedIsDismissed, PTL DEF PathSpec
=============================================================================
