-------------------------- MODULE MCAutomationEngine --------------------------
(* Instances of AutomationEngine for TLC. *)
EXTENDS AutomationEngine, TLC

CONSTANTS nightly, review

OneAutomation == {nightly}
TwoAutomations == {nightly, review}
OneSkip == nightly :> "skip"
QueueAndParallel == nightly :> "queue" @@ review :> "parallel"
=============================================================================
