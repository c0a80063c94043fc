---------------------------- MODULE MCLedgerCalls ----------------------------
(* Instances of LedgerCalls for TLC. *)
EXTENDS LedgerCalls

TwoCaps == {2, 9}
=============================================================================
