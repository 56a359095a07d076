-------------------------- MODULE MC_FidelityLoop --------------------------
(* Two sleeves, two sessions, a decision each.                             *)
EXTENDS FidelityLoop

Monthly == <<1, 2>>
Book    == {<<0, 0>>, <<2, 1>>, <<0, 2>>, <<-1, -1>>, <<-2, 0>>}
=============================================================================
