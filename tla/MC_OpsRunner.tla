---------------------------- MODULE MC_OpsRunner ----------------------------
(* Small instances of OpsRunner for TLC. *)
EXTENDS OpsRunner
=============================================================================
