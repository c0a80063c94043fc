------------------------------ MODULE PromptBus ------------------------------
(***************************************************************************)
(* The prompts of one agent session (packages/extension/src/prompt-bus.ts, *)
(* with the TUI adapter of bridge.ts).  A prompt is asked once and races   *)
(* its answerers: the terminal dialog, the dashboard, the bus itself when  *)
(* the prompt times out or its tool is aborted.  The first response wins.  *)
(*                                                                         *)
(* The dashboard's adapter claims every prompt with a component, so a      *)
(* terminal dialog that ends without an answer leaves the prompt waiting.  *)
(***************************************************************************)

CONSTANTS
  Prompts,       \* the prompts the agent's tools and commands ask
  HasUI          \* whether the session has a terminal

ASSUME BusAssumption == HasUI \in BOOLEAN

VARIABLES
  outcome,       \* per prompt: not asked, waiting, or who settled it
  dialogs        \* the prompts whose terminal dialog is open

busVars == <<outcome, dialogs>>

Settlers == {"tui", "dashboard", "bus"}

BusInit == outcome = [p \in Prompts |-> "new"] /\ dialogs = {}

Settled(p) == outcome[p] \in Settlers

\* request: every adapter sees the prompt, the terminal's opens its dialog.
Ask(p) ==
  /\ outcome[p] = "new"
  /\ outcome' = [outcome EXCEPT ![p] = "waiting"]
  /\ dialogs' = IF HasUI THEN dialogs \cup {p} ELSE dialogs

\* (mutation) the response does not look whether the prompt still waits
SettleAlways(p, source) ==
  /\ outcome' = [outcome EXCEPT ![p] = source]
  /\ dialogs' = dialogs \ {p}

\* (mutation) the losing dialog is not told
SettleKeepingDialog(p, source) ==
  /\ outcome[p] = "waiting"
  /\ outcome' = [outcome EXCEPT ![p] = source]
  /\ UNCHANGED dialogs

\* respond and cancel: the prompt is no longer pending, and the adapters close
\* what they show of it.
Settle(p, source) ==
  /\ outcome[p] = "waiting"
  /\ outcome' = [outcome EXCEPT ![p] = source]
  /\ dialogs' = dialogs \ {p}

\* The terminal's user answers, or leaves the dialog without an answer.
AnswerInTerminal(p) == p \in dialogs /\ Settle(p, "tui")
LeaveTerminal(p) ==
  /\ p \in dialogs
  /\ dialogs' = dialogs \ {p}
  /\ UNCHANGED outcome

\* A response from the dashboard: of no effect once the prompt is settled.
AnswerFromDashboard(p) ==
  \/ Settle(p, "dashboard")
  \/ outcome[p] # "waiting" /\ UNCHANGED busVars

\* The prompt's timer or its tool's abort signal.
Cancel(p) == Settle(p, "bus")

BusNext ==
  \E p \in Prompts :
    \/ Ask(p) \/ AnswerInTerminal(p) \/ LeaveTerminal(p)
    \/ AnswerFromDashboard(p) \/ Cancel(p)

BusSpec == BusInit /\ [][BusNext]_busVars

-----------------------------------------------------------------------------
\* Every prompt is new, waiting or settled by someone.
BusTypeOK ==
  /\ outcome \in [Prompts -> {"new", "waiting"} \cup Settlers]
  /\ dialogs \subseteq Prompts

\* Whoever wins, the terminal is not left in the dialog of a prompt that no
\* longer waits: its next answer would go to a prompt nobody asks.
DialogOnlyWhileWaiting == \A p \in dialogs : outcome[p] = "waiting"

\* "First response wins" (prompt-bus.ts:220): a late answer, a duplicate sent
\* again by the server or a cancellation never replaces the one the tool got.
FirstAnswerStands ==
  [][\A p \in Prompts : Settled(p) => outcome'[p] = outcome[p]]_busVars
=============================================================================
