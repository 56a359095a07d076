--------------------------- MODULE MC_GateTrading ---------------------------
(* Small instances of GateTrading for TLC: equity 10, prices 1. *)
EXTENDS GateTrading

Caps == [positionPct |-> 50, grossPct |-> 80, dailyPct |-> 10, rollingPct |-> 20,
         window |-> 1, maxAge |-> 0, maxSkew |-> 0]
CapsOnly == {Caps}

Buy(id, name, q)  == [id |-> id, instrument |-> name, delta |-> q]
Sell(id, name, q) == [id |-> id, instrument |-> name, delta |-> -q]

\* Two buys of A, one of B and one sell of A: one buy of A fits, two reach
\* the cap of 5 on A when nothing was sold; A and B together reach 8.
MixedIntents == {Buy("a1", "A", 2), Buy("a2", "A", 2), Buy("b1", "B", 4), Sell("a3", "A", 2)}

OneOfEach == [name \in Instruments |-> 1]
UnitPrice == [name \in Instruments |-> 1]
==============================================================================
