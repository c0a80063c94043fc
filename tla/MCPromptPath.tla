----------------------------- MODULE MCPromptPath -----------------------------
(* Instances of PromptPath for TLC. *)
EXTENDS PromptPath

CONSTANTS ask, t1

AskOnly == {ask}
OneTab == {t1}
=============================================================================
