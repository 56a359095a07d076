---------------------------- MODULE MC_SafetyGate ----------------------------
(* Small instances of SafetyGate for TLC. *)
EXTENDS SafetyGate, TLC

\* Losses are in tenths: 10% of 10 is reached at 9, 20% at 8.
Limits == [positionPct |-> 60, grossPct |-> 90, dailyPct |-> 10, rollingPct |-> 20,
           window |-> 2, maxAge |-> 1, maxSkew |-> 0]
OneConfig == {Limits}

\* An order that adds; those that reduce are GateTrading's.
OneBuy == {[id |-> "o1", instrument |-> "A", delta |-> 2]}

Long1 == {[name \in Instruments |-> 1]}
AtOne == {[name \in Instruments |-> 1]}

AnyObservation == Permutations(ObservationIds)

\* Transfer events: one seen pending, then settled with another; one that
\* contradicts it, or comes from the future of the first day; a malformed one.
Event(t, amount, at, status, ok) ==
  [id |-> t, amount |-> amount, effective |-> at, observed |-> at, status |-> status, ok |-> ok]
GateBatches ==
  {{Event("t1", 3, 1, "pending", TRUE)},
   {Event("t1", 3, 1, "settled", TRUE), Event("t2", -2, 1, "settled", TRUE)},
   {Event("t1", 4, 2, "settled", TRUE)},
   {Event("t2", -2, 1, "settled", FALSE)}}
==============================================================================
