--------------------------- MODULE ReplayProtocol ---------------------------
(***************************************************************************)
(* Session replay from end to end: the server of ReplayCoordinator and one *)
(* browser tab of ReplayController over one WebSocket.  Each direction     *)
(* delivers in order: sock.out to the tab, tab.sent to the server.  A lost *)
(* connection loses what is under way to the server, and any suffix of     *)
(* what is under way to the tab.                                           *)
(*                                                                         *)
(* The tab acts when no continuation of the server is ready: continuations *)
(* only append to what it receives, so it could not tell the difference.   *)
(***************************************************************************)
EXTENDS ReplayCoordinator

CONSTANTS
  Unknown, MaxGaps, BaseCap, Unlimited,   \* see ReplayController
  Partial,    \* whether frames may have a partial head
  Acts,       \* what the user does besides opening the session
  MaxActs     \* bound on the user's acts, deadlines and lost connections

VARIABLES
  tab,        \* the browser tab
  acts        \* [done : acts, deadlines and lost connections so far,
              \*  retried : history, whether a cold request was ever retried]

protocolVars == <<serverVars, tab, acts>>

Browser == INSTANCE ReplayController

(***************************************************************************)
(* Between tab and server.                                                 *)
(***************************************************************************)
ServeSubscribe ==
  /\ tab.sent # <<>>
  /\ Subscribe(Head(tab.sent))
  /\ tab' = [tab EXCEPT !.sent = Tail(@)]
  /\ UNCHANGED acts

\* Message m has the tab ask its cold request again.
RetriesCold(m) ==
  m.type = "event_replay" /\ Browser!FailsPending(tab, m) /\ tab.pending.kind = "cold"

Receive ==
  /\ Quiet /\ tab.online /\ sock.out # <<>>
  /\ \E partialHead \in Partial : tab' = Browser!Handle(tab, Head(sock.out), partialHead)
  /\ sock' = [sock EXCEPT !.out = Tail(@)]
  /\ acts' = [acts EXCEPT !.retried = @ \/ RetriesCold(Head(sock.out))]
  /\ UNCHANGED <<sourceVars, history, bridge, load, persisted, bodies, tail, token, replaying>>

(***************************************************************************)
(* The tab.                                                                *)
(***************************************************************************)
TabStep(c) ==
  /\ Quiet
  /\ tab' = c
  /\ UNCHANGED serverVars

\* The user selects the session.
Open == tab.names = 0 /\ TabStep(Browser!Subscribe(tab, FALSE)) /\ UNCHANGED acts

Act == acts.done < MaxActs /\ acts' = [acts EXCEPT !.done = @ + 1]

LoadOlder == /\ "page" \in Acts /\ Browser!CanLoadOlder(tab)
             /\ Act /\ TabStep(Browser!LoadOlder(tab))
Refresh == "refresh" \in Acts /\ tab.names > 0 /\ Act /\ TabStep(Browser!Refresh(tab))
Expand == "expand" \in Acts /\ Act /\ TabStep(Browser!Expand(tab))
Read == "read" \in Acts /\ Act /\ TabStep(Browser!Retain(tab, Unlimited))
ReturnToTail == "read" \in Acts /\ Act /\ TabStep(Browser!Retain(tab, BaseCap))

\* The deadline of the pending request.  A tab that asks for a fresh transport
\* closes the socket itself.
Deadline ==
  /\ "deadline" \in Acts /\ Quiet /\ tab.pending # None
  /\ tab' = Browser!Timeout(tab)
  /\ acts.done < MaxActs
  /\ acts' = [done |-> acts.done + 1, retried |-> acts.retried \/ tab.pending.kind = "cold"]
  /\ IF tab'.online THEN UNCHANGED <<sock, bodies, tail>>
     ELSE Become([Closed(sock) EXCEPT !.out = <<>>], bodies, tail)
  /\ UNCHANGED <<sourceVars, history, bridge, load, persisted, token, replaying>>

LoseConnection == Act /\ Disconnect /\ UNCHANGED tab

\* The tab notices that its socket is closed, then opens another.
NoticeClose == ~sock.open /\ tab.online /\ TabStep(Browser!Offline(tab)) /\ UNCHANGED acts
Reconnect ==
  /\ ~tab.online
  /\ Connect
  /\ tab' = Browser!Reconnected(tab)
  /\ UNCHANGED acts

ProtocolInit == CoordInit /\ tab = Browser!NewTab /\ acts = [done |-> 0, retried |-> FALSE]

ProtocolNext ==
  \/ Open \/ ServeSubscribe \/ Receive
  \/ LoadOlder \/ Refresh \/ Expand \/ Read \/ ReturnToTail \/ Deadline
  \/ "disconnect" \in Incidents /\ LoseConnection
  \/ NoticeClose \/ Reconnect
  \/ /\ \/ Microtask
        \/ DrainSend
        \/ EventForward /\ history' <= MaxHistory
        \/ load # None /\ LoadDone(TRUE)
        \/ "loadError" \in Incidents /\ load # None /\ LoadDone(FALSE)
        \/ "register" \in Incidents /\ BridgeStep
     /\ UNCHANGED <<tab, acts>>

ProtocolSpec == ProtocolInit /\ [][ProtocolNext]_protocolVars

-----------------------------------------------------------------------------
\* Nothing is under way between the tab, the server and the session file.
Idle ==
  /\ tab.names > 0 /\ tab.online /\ sock.open
  /\ tab.sent = <<>> /\ sock.out = <<>> /\ sock.inflight = None
  /\ DOMAIN bodies = {} /\ load = None /\ ~replaying
  /\ Quiet

\* The tab does not wait for an answer that is not coming; only its deadline
\* would end that.
RequestAnswered == Idle => tab.pending = None

\* What the tab shows is one dense run of events: none missing, none twice,
\* none out of order, though ledger and rows are cleared apart, by resets with
\* and without a request's name, conflicts, refreshes and registrations of the
\* bridge.  The retry of a cold request, after its deadline or an error
\* terminal, clears the ledger and not the rows, so that this is said of a tab
\* that has not retried one.
TranscriptDense ==
  ~acts.retried =>
  \A i \in 1..(Len(tab.shown) - 1) : tab.shown[i + 1].seq = tab.shown[i].seq + 1

\* Once nothing is under way the tab shows the newest event, unless it has
\* given up and offers the user a retry, or a registration of the bridge has
\* replaced the source.
Replaced == gen # <<0, 0>>
SettledShowsNewest ==
  Idle /\ tab.pending = None /\ HasEvents /\ ~Replaced /\ tab.ledger.status # "retry"
    => tab.shown # <<>> /\ tab.shown[Len(tab.shown)] = [gen |-> gen, seq |-> hi]
=============================================================================
