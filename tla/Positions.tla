------------------------------ MODULE Positions ------------------------------
(***************************************************************************)
(* The elements of a finite set of naturals in order: how the studies list *)
(* rows by position, entries by rank and trials by the order they started. *)
(***************************************************************************)
EXTENDS Integers, FiniteSets

Sorted(S) == [k \in 1..Cardinality(S) |-> CHOOSE x \in S : Cardinality({y \in S : y < x}) = k - 1]
=============================================================================
