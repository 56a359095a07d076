---------------------------- MODULE OrderPromise ----------------------------
(***************************************************************************)
(* What the submitting loops promise of every client order id, whatever    *)
(* dies or gets lost: the broker hears of an order at most once, and only  *)
(* while the state branch says that it may exist; the branch stops saying  *)
(* so only when the order can trade no more, or was never sent.            *)
(*                                                                         *)
(* The module is the specification that PaperLoop and FidelityLoop         *)
(* implement; it stands for no code of its own.                            *)
(***************************************************************************)
CONSTANT Ids

VARIABLES
  log,    \* log[id]: what the state branch says of the order
  market  \* market[id]: what became of it at the broker

Init ==
  /\ log = [id \in Ids |-> "none"]
  /\ market = [id \in Ids |-> "none"]

\* What the branch may say of id after it said before.
MayBecome(id, before, after) ==
  \/ after = before
  \/ before = "none" /\ after = "open"
  \/ before \in {"none", "open"} /\ after = "ended" /\ market[id] # "live"

\* The branch changes: any number of orders at once.
Publish ==
  /\ log' \in [Ids -> {"none", "open", "ended"}]
  /\ \A id \in Ids : MayBecome(id, log[id], log'[id])
  /\ UNCHANGED market

\* A request for the order leaves for the broker, and may be lost at once.
Place(id) ==
  /\ log[id] = "open"
  /\ market[id] = "none"
  /\ \E m \in {"live", "done"} : market' = [market EXCEPT ![id] = m]
  /\ UNCHANGED log

\* Filled, cancelled, expired, rejected, or lost on the way.
Conclude(id) ==
  /\ market[id] = "live"
  /\ market' = [market EXCEPT ![id] = "done"]
  /\ UNCHANGED log

Next == Publish \/ \E id \in Ids : Place(id) \/ Conclude(id)

Spec == Init /\ [][Next]_<<log, market>>
=============================================================================
