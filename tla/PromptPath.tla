------------------------------ MODULE PromptPath ------------------------------
(***************************************************************************)
(* A prompt's way from the agent to the browsers and back: the bus of      *)
(* PromptBus, the link of BridgeConnection, what the server keeps of       *)
(* prompts and answers (event-wiring.ts, browser-gateway.ts), and the      *)
(* cards of each browser tab.                                              *)
(*                                                                         *)
(* What the server sends a tab arrives at once: only the tab's user could  *)
(* act before it does, and that act is one whose answer is still under     *)
(* way.  A tab whose socket is behind is not sent a prompt, a dismissal or *)
(* a reset at all (sendTo); the session's events wait for it instead.      *)
(* Of those events only the ends of the tools that ask are kept;           *)
(* prompt_dismiss and prompt_cancel do the same to everyone.               *)
(***************************************************************************)
EXTENDS PromptBus, FiniteSets, SequencesExt

CONSTANTS
  ToolPrompts,    \* the prompts asked by a tool call; the others float free
  Tabs,           \* the browser tabs that show the session
  None,           \* no prompt, and the stored events of a server without any
  BufferCap,      \* see BridgeConnection
  MaxCopies,      \* copies of one answer under way to the bridge
  MaxFaults,      \* bound on the steps in which something goes wrong
  Faults          \* the faults that happen

ASSUME PathAssumption ==
  /\ ToolPrompts \subseteq Prompts /\ IsFiniteSet(Prompts)
  /\ \A S \in SUBSET Prompts : None # S
  /\ {BufferCap, MaxCopies, MaxFaults} \subseteq Nat

VARIABLES
  ended,      \* tool prompts whose tool call has ended, in the session file
  link,       \* between bridge and server
  server,     \* [tracked, queued, ends : sets of prompts, replaying : BOOLEAN]
  tabs,       \* per tab: [sync, stale, card, ends, out, missed, doubt]
  abandoned,  \* history: answers given up since the bridge last registered
  faults      \* steps in which something went wrong so far

pathVars == <<busVars, ended, link, server, tabs, abandoned, faults>>

Link == INSTANCE BridgeConnection

Message(type, p) == [type |-> type, prompt |-> p]
Messages(type, S) == SetToSeq({Message(type, p) : p \in S})

NoCards == [p \in Prompts |-> "none"]

\* sync: "wanted" while a subscription of the tab waits to be served, "orphaned"
\* when a reset has ended it in the tab alone, "behind" when the tab's next event
\* may not join what it has.  stale: its events are of a source since replaced.
\* missed and doubt are history: the prompts it was not sent, and those whose
\* end it may not have been given.
NewTab == [sync |-> "off", stale |-> FALSE, card |-> NoCards, ends |-> {}, out |-> <<>>,
           missed |-> {}, doubt |-> {}]
NewServer == [tracked |-> {}, queued |-> {}, ends |-> {}, replaying |-> FALSE]

PathInit ==
  /\ BusInit
  /\ ended = {}
  /\ link = Link!NewLink
  /\ server = NewServer
  /\ tabs = [t \in Tabs |-> NewTab]
  /\ abandoned = {}
  /\ faults = 0

(***************************************************************************)
(* The cards of a tab, for a set S of prompts.                             *)
(***************************************************************************)
\* (mutation) the end of the tool is not looked at
ShowsStale(tab, S) ==
  [tab EXCEPT !.card = [p \in Prompts |-> IF p \in S /\ @[p] = "none" THEN "pending" ELSE @[p]],
              !.missed = @ \ S]

\* addInteractiveRequest: no card for an id that has one, or after its tool's end.
Shows(tab, S) ==
  [tab EXCEPT !.card = [p \in Prompts |-> IF p \in S \ tab.ends /\ @[p] = "none"
                                          THEN "pending" ELSE @[p]],
              !.missed = @ \ S]

\* sendTo, over the limit of the socket's buffer: what it is given is dropped.
Misses(tab, S) == [tab EXCEPT !.missed = @ \cup {p \in S : tab.card[p] = "none"}]

\* dismissInteractiveRequest
Dismisses(tab, S) ==
  [tab EXCEPT !.card = [p \in Prompts |-> IF p \in S /\ @[p] = "pending"
                                          THEN "dismissed" ELSE @[p]]]

\* tool_execution_end, live or replayed: the tool's pending card is dismissed.
Ends(tab, S) == [Dismisses(tab, S) EXCEPT !.ends = @ \cup S, !.doubt = @ \ S]

\* session_state_reset
Resets(tab) == [tab EXCEPT !.card = NoCards, !.ends = {}, !.stale = FALSE, !.doubt = {}]

\* A reset of the whole source.  A tab's own pending request ends with it, and
\* nothing subscribes it again; the others take the next event as their first.
SourceReset(tab) == [Resets(tab) EXCEPT !.sync = CASE @ \in {"wanted", "orphaned"} -> "orphaned"
                                                   [] OTHER -> "live"]

\* From here on the ends of what the tab asks may pass it by.
Doubts(tab) == [tab EXCEPT !.doubt = @ \cup {p \in Prompts : tab.card[p] = "pending"}]

\* A reset that is not sent: the tab goes on with what it has.
SourceResetMissed(tab) ==
  [Doubts(tab) EXCEPT !.sync = IF @ = "live" THEN "behind" ELSE @, !.stale = TRUE]

Online(t) == tabs[t].sync # "off"

(***************************************************************************)
(* Faults.  A step in which something goes wrong counts as one.            *)
(***************************************************************************)
Suffers(kinds) ==
  IF kinds = {} THEN UNCHANGED faults
  ELSE kinds \subseteq Faults /\ faults < MaxFaults /\ faults' = faults + 1
Fault(kind) == Suffers({kind})

\* The tabs a message is dropped for.
Drops(deaf) ==
  /\ deaf \subseteq {t \in Tabs : Online(t)}
  /\ Suffers(IF deaf = {} THEN {} ELSE {"drop"})

(***************************************************************************)
(* The server.                                                             *)
(***************************************************************************)
\* The gateway knows a session's socket from the first message it sends, which
\* is its registration.
Bound == link.sock = "open" /\ \A i \in DOMAIN link.up : link.up[i].type # "register"

\* sendToSession, while the rest of the link becomes l.
Forwarded(l, p) == IF Bound THEN [l EXCEPT !.down = Append(@, p)] ELSE l

\* clearPromptRequest, for a set S of prompts.
Cleared(S) == [server EXCEPT !.tracked = @ \ S, !.queued = @ \ S]

\* The events of the store when a subscription is served: a store without any
\* loads the file, which one the bridge still fills may or may not do.
StoredEnds == IF server.ends = None THEN {ended}
              ELSE IF server.ends = {} /\ server.replaying THEN {{}, ended} ELSE {server.ends}

NextUp(type) ==
  /\ link.up # <<>> /\ Head(link.up).type = type
  /\ link' = [link EXCEPT !.up = Tail(@)]

Incoming == Head(link.up).prompt

\* A registration replaces the stored events and resets every subscriber.
SessionRegister ==
  /\ NextUp("register")
  /\ server' = [server EXCEPT !.ends = {}, !.replaying = TRUE]
  /\ \E deaf \in SUBSET Tabs :
       /\ Drops(deaf)
       /\ tabs' = [t \in Tabs |-> IF t \in deaf THEN SourceResetMissed(tabs[t])
                                  ELSE IF Online(t) THEN SourceReset(tabs[t])
                                  ELSE [tabs[t] EXCEPT !.stale = TRUE]]
  /\ abandoned' = {}
  /\ UNCHANGED <<busVars, ended>>

\* completeBridgeReplay: it cancels the requests of the tabs that still have one,
\* and the frames it sends in their place answer no request of a tab.
BridgeReplayEnds ==
  /\ server' = [server EXCEPT !.replaying = FALSE]
  /\ tabs' = [t \in Tabs |-> [tabs[t] EXCEPT !.sync = IF @ = "orphaned" THEN "live" ELSE @]]
  /\ UNCHANGED <<busVars, ended, abandoned, faults>>

\* replay_complete, or the five seconds it has.
ReplayComplete == NextUp("complete") /\ BridgeReplayEnds
SafetyTimeout == server.replaying /\ BridgeReplayEnds /\ UNCHANGED link

\* prompt_request: kept for later subscribers and sent to the present ones,
\* unless an answer to it is queued.
PromptRequest ==
  /\ NextUp("request")
  /\ LET S == {Incoming} \ server.queued IN
       /\ server' = [server EXCEPT !.tracked = @ \cup S]
       /\ \E deaf \in SUBSET Tabs :
            /\ Drops(deaf)
            /\ tabs' = [t \in Tabs |-> IF t \in deaf THEN Misses(tabs[t], S)
                                       ELSE IF Online(t) THEN Shows(tabs[t], S) ELSE tabs[t]]
  /\ UNCHANGED <<busVars, ended, abandoned>>

\* prompt_dismiss and prompt_cancel
PromptDismiss ==
  /\ NextUp("dismiss")
  /\ server' = Cleared({Incoming})
  /\ \E deaf \in SUBSET Tabs :
       /\ Drops(deaf)
       /\ tabs' = [t \in Tabs |-> IF Online(t) /\ t \notin deaf
                                  THEN Dismisses(tabs[t], {Incoming}) ELSE tabs[t]]
  /\ UNCHANGED <<busVars, ended, abandoned>>

PromptResponseAck ==
  /\ NextUp("ack")
  /\ server' = Cleared({Incoming})
  /\ UNCHANGED <<busVars, ended, tabs, abandoned, faults>>

\* A live event for a tab: one that is behind takes it or, when it does not join
\* what the tab has, asks for what is between; a pending request holds it back.
TakesEnd(tab, p, gap) ==
  CASE tab.sync = "behind" /\ gap          -> [tab EXCEPT !.sync = "wanted"]
    [] tab.sync = "behind" /\ ~gap         -> Ends(tab, {p})
    [] tab.sync = "live"                   -> Ends(tab, {p})
    [] OTHER                               -> tab

\* The end of a tool that asks.  Live, it also clears the tool's prompts.
ToolExecutionEnd ==
  /\ NextUp("end")
  /\ LET p == Incoming
         kept == [server EXCEPT !.ends = @ \cup {p}]
     IN  IF server.replaying THEN server' = kept /\ UNCHANGED <<tabs, faults>>
         ELSE /\ server' = IF p \in server.tracked
                           THEN [kept EXCEPT !.tracked = @ \ {p}, !.queued = @ \ {p}] ELSE kept
              /\ \E gaps \in SUBSET Tabs, deaf \in SUBSET Tabs :
                   /\ Drops(deaf)
                   /\ tabs' = [t \in Tabs |->
                        LET told == TakesEnd(tabs[t], p, t \in gaps)
                        IN  IF Online(t) /\ p \in server.tracked /\ t \notin deaf
                            THEN Dismisses(told, {p}) ELSE told]
  /\ UNCHANGED <<busVars, ended, abandoned>>

\* queuePromptResponse: the first answer is queued and forwarded.
QueueAnswer(t) ==
  /\ tabs[t].out # <<>>
  /\ tabs' = [tabs EXCEPT ![t].out = Tail(@)]
  /\ LET p == Head(tabs[t].out) IN
       IF p \in server.queued THEN UNCHANGED <<server, link>>
       ELSE /\ server' = [server EXCEPT !.queued = @ \cup {p}]
            /\ link' = Forwarded(link, p)
  /\ UNCHANGED <<busVars, ended, abandoned, faults>>

\* A queued answer is forwarded again, until it is too old.  MaxCopies bounds
\* what is under way of one answer: its copies and their acknowledgements.
Copies(p) == Len(SelectSeq(link.down, LAMBDA q : q = p))
             + Len(SelectSeq(link.up, LAMBDA m : m = Message("ack", p)))
\* (mutation) the timer fires and nothing is sent
RetryAnswerSilent(p) ==
  p \in server.queued /\ Bound /\ Copies(p) < MaxCopies /\ UNCHANGED pathVars
RetryAnswer(p) ==
  /\ p \in server.queued /\ Bound /\ Copies(p) < MaxCopies
  /\ link' = Forwarded(link, p)
  /\ UNCHANGED <<busVars, ended, server, tabs, abandoned, faults>>
GiveUpAnswer(p) ==
  /\ p \in server.queued
  /\ server' = [server EXCEPT !.queued = @ \ {p}]
  /\ abandoned' = abandoned \cup {p}
  /\ UNCHANGED <<busVars, ended, link, tabs, faults>>

\* The session's heartbeat timed out: onUnregister drops the queued answers.
Unregister ==
  /\ ~Bound
  /\ server' = [server EXCEPT !.queued = {}]
  /\ UNCHANGED <<busVars, ended, link, tabs, abandoned, faults>>

\* The prompts that wait are sent again, but those in lost.
Replays(tab, lost) == Misses(Shows(tab, (server.tracked \ server.queued) \ lost),
                             (server.tracked \ server.queued) \cap lost)

\* A subscription is served: the session's events, as many as the budget of an
\* answer takes, then the prompts that wait.  Of a source the bridge still fills
\* the tab gets what is there, and none of what follows until the fill is over.
ServeSubscription(t) ==
  /\ tabs[t].sync = "wanted"
  /\ \E stored \in StoredEnds, served \in SUBSET Prompts, lost \in SUBSET Prompts :
       LET fresh == IF tabs[t].stale THEN Resets(tabs[t]) ELSE tabs[t]
           given == Replays(Ends(fresh, served), lost)
       IN  /\ served \subseteq stored
           /\ Suffers((IF served = stored THEN {} ELSE {"cut"}) \cup (IF lost = {} THEN {} ELSE {"drop"}))
           /\ server' = [server EXCEPT !.ends = stored]
           /\ tabs' = [tabs EXCEPT ![t] =
                IF served = stored /\ ~server.replaying THEN [given EXCEPT !.sync = "live"]
                ELSE [Doubts(given) EXCEPT !.sync = "behind"]]
  /\ UNCHANGED <<busVars, ended, link, abandoned>>

\* Of one that a reset has ended in the tab, only the prompts are heard.
ServeOrphan(t) ==
  /\ tabs[t].sync = "orphaned"
  /\ \E lost \in SUBSET Prompts :
       /\ Suffers(IF lost = {} THEN {} ELSE {"drop"})
       /\ tabs' = [tabs EXCEPT ![t] = [Doubts(Replays(tabs[t], lost)) EXCEPT !.sync = "live"]]
  /\ UNCHANGED <<busVars, ended, link, server, abandoned>>

(***************************************************************************)
(* The browser's user.                                                     *)
(***************************************************************************)
\* The card is resolved whether or not the socket takes the answer.
AnswerInTab(t, p) ==
  /\ tabs[t].card[p] = "pending"
  /\ tabs' = [tabs EXCEPT ![t].card[p] = "resolved",
                          ![t].out = IF Online(t) THEN Append(@, p) ELSE @]
  /\ UNCHANGED <<busVars, ended, link, server, abandoned, faults>>

\* A tab connects and subscribes; a user's refresh subscribes again.
Subscribe(t) ==
  /\ tabs[t].sync # "wanted"
  /\ tabs' = [tabs EXCEPT ![t].sync = "wanted"]
  /\ UNCHANGED <<busVars, ended, link, server, abandoned, faults>>

(***************************************************************************)
(* The bridge.                                                             *)
(***************************************************************************)
Send(messages) == link' = Link!Sent(link, messages)

AskPrompt(p) ==
  /\ Ask(p) /\ Send(<<Message("request", p)>>)
  /\ UNCHANGED <<ended, server, tabs, abandoned, faults>>
AnswerPrompt(p) ==
  /\ AnswerInTerminal(p) /\ Send(<<Message("dismiss", p)>>)
  /\ UNCHANGED <<ended, server, tabs, abandoned, faults>>
LeavePrompt(p) ==
  /\ LeaveTerminal(p)
  /\ UNCHANGED <<ended, link, server, tabs, abandoned, faults>>
CancelPrompt(p) ==
  /\ Cancel(p) /\ Send(<<Message("dismiss", p)>>)
  /\ UNCHANGED <<ended, server, tabs, abandoned, faults>>

\* prompt_response: every receipt is acknowledged, the late ones too.
ReceiveAnswer ==
  /\ link.down # <<>>
  /\ LET p   == Head(link.down)
         ack == <<Message("ack", p)>>
     IN  /\ AnswerFromDashboard(p)
         /\ link' = Link!Sent([link EXCEPT !.down = Tail(@)],
                              IF outcome[p] = "waiting" THEN <<Message("dismiss", p)>> \o ack ELSE ack)
  /\ UNCHANGED <<ended, server, tabs, abandoned, faults>>

\* The tool goes on with the answer it got, and ends.
EndTool(p) ==
  /\ p \in ToolPrompts \ ended /\ Settled(p)
  /\ ended' = ended \cup {p}
  /\ Send(<<Message("end", p)>>)
  /\ UNCHANGED <<busVars, server, tabs, abandoned, faults>>

(***************************************************************************)
(* Lost connections, restarts and reloads.                                 *)
(***************************************************************************)
LoseLink ==
  /\ link.sock = "open" /\ Fault("link")
  /\ link' = Link!Lost(link)
  /\ UNCHANGED <<busVars, ended, server, tabs, abandoned>>
NoticeLoss ==
  /\ link.sock = "dead"
  /\ link' = Link!Closed(link)
  /\ UNCHANGED <<busVars, ended, server, tabs, abandoned, faults>>

\* (mutation) the prompts that wait are not sent again
ReplayedWithoutPrompts ==
  <<Message("register", None)>> \o Messages("end", ended) \o <<Message("complete", None)>>

\* What onReconnect sends before the buffer is flushed.
ReplayedSession ==
  <<Message("register", None)>> \o Messages("end", ended)
  \o Messages("request", {p \in Prompts : outcome[p] = "waiting"})
  \o <<Message("complete", None)>>

Reconnect ==
  /\ link.sock = "none"
  /\ link' = Link!Opened(link, ReplayedSession)
  /\ UNCHANGED <<busVars, ended, server, tabs, abandoned, faults>>

RestartServer ==
  /\ Fault("restart")
  /\ server' = [NewServer EXCEPT !.ends = None]
  /\ link' = IF link.sock = "open" THEN Link!Lost(link) ELSE link
  /\ tabs' = [t \in Tabs |-> [tabs[t] EXCEPT !.sync = "off", !.stale = TRUE, !.out = <<>>]]
  /\ UNCHANGED <<busVars, ended, abandoned>>

LoseTab(t) ==
  /\ Online(t) /\ Fault("tab")
  /\ tabs' = [tabs EXCEPT ![t].sync = "off", ![t].out = <<>>]
  /\ UNCHANGED <<busVars, ended, link, server, abandoned>>

\* A page reload starts from nothing.
ReloadTab(t) ==
  /\ Fault("reload")
  /\ tabs' = [tabs EXCEPT ![t] = NewTab]
  /\ UNCHANGED <<busVars, ended, link, server, abandoned>>

-----------------------------------------------------------------------------
FromBridge ==
  \/ SessionRegister \/ ReplayComplete
  \/ PromptRequest \/ PromptDismiss \/ PromptResponseAck \/ ToolExecutionEnd

PathNext ==
  \/ FromBridge \/ SafetyTimeout \/ Unregister
  \/ ReceiveAnswer \/ LoseLink \/ NoticeLoss \/ Reconnect \/ RestartServer
  \/ \E p \in Prompts :
       \/ RetryAnswer(p) \/ GiveUpAnswer(p)
       \/ AskPrompt(p) \/ AnswerPrompt(p) \/ LeavePrompt(p) \/ CancelPrompt(p) \/ EndTool(p)
  \/ \E t \in Tabs :
       \/ QueueAnswer(t) \/ ServeSubscription(t) \/ ServeOrphan(t) \/ Subscribe(t)
       \/ LoseTab(t) \/ ReloadTab(t)
       \/ \E p \in Prompts : AnswerInTab(t, p)

PathSpec == PathInit /\ [][PathNext]_pathVars

\* Messages arrive, the bridge notices a loss and connects again, and the
\* server's timers run.
FairPathSpec ==
  /\ PathSpec
  /\ WF_pathVars(FromBridge) /\ WF_pathVars(ReceiveAnswer)
  /\ WF_pathVars(NoticeLoss) /\ WF_pathVars(Reconnect)
  /\ \A p \in Prompts : WF_pathVars(RetryAnswer(p))

-----------------------------------------------------------------------------
\* Nothing is under way, and no subscription waits to be served.
Quiet ==
  /\ link.sock = "open" /\ link.up = <<>> /\ link.down = <<>>
  /\ server.queued = {} /\ ~server.replaying
  /\ \A t \in Tabs : tabs[t].sync \notin {"wanted", "orphaned"} /\ tabs[t].out = <<>>

\* "Interactive dialogs ... survive page refresh and server restart"
\* (README.md:205): once nothing is under way a prompt that waits is kept for
\* every later subscriber, unless the server gave its answer up, and every tab
\* has its card, to be answered unless the tab's user has done so.  Only a tab
\* whose socket was over its limit when the prompt was sent goes without.
WaitingPromptShown ==
  Quiet => \A p \in Prompts \ abandoned : outcome[p] = "waiting" =>
    /\ p \in server.tracked
    /\ \A t \in Tabs : Online(t) => \/ tabs[t].card[p] \in {"pending", "resolved"}
                                    \/ p \in tabs[t].missed

\* Whatever connections were lost, no tab goes on asking for a tool that has
\* ended: what is left is a card the tab was showing when it was not sent a
\* reset, or was served only a part of the session's events.
NoStaleToolCard ==
  Quiet => \A p \in ended, t \in Tabs :
             Online(t) /\ tabs[t].card[p] = "pending" => p \in tabs[t].doubt

\* An answer the server has queued settles the prompt, or the prompt is there to
\* be answered again: it does not stay queued for ever.
AnswerTakesEffect ==
  \A p \in Prompts :
    p \in server.queued ~> \/ Settled(p) \/ p \in abandoned
                           \/ p \in server.tracked \ server.queued
=============================================================================
