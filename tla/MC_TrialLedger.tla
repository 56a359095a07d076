-------------------------- MODULE MC_TrialLedger --------------------------
(* Two processes, one declared configuration. *)
EXTENDS TrialLedger
=============================================================================
