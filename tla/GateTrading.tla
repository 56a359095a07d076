----------------------------- MODULE GateTrading -----------------------------
(***************************************************************************)
(* The gate closed with the two parties around it: trader processes that   *)
(* submit through scripts/order_gateway.py (take a broker snapshot, let    *)
(* the gate decide and reserve, call the broker only on ALLOW, reconcile   *)
(* terminal orders back into the gate), and a broker that fills, partly    *)
(* fills and expires orders on its own.  The calls a trader makes happen   *)
(* between transactions, so everything else may happen between them.       *)
(*                                                                         *)
(* Prices and the account's equity are fixed here: the loss breaker is     *)
(* SafetyGate's subject, reservations and broker state are this module's.  *)
(***************************************************************************)
EXTENDS SafetyGate

CONSTANTS
  StartPosition,    \* broker position per instrument at the start
  Price,            \* price per instrument
  Equity            \* account equity

ASSUME TradingAssumption ==
  /\ IsFiniteSet(Instruments) /\ IsFiniteSet(Intents)
  /\ StartPosition \in [Instruments -> Int]
  /\ Price \in [Instruments -> Nat] /\ Equity \in Int

NoSnapshot == [equity |-> 0]
NoIntent   == [id |-> "none"]
NoOrder    == [state |-> "unknown", instrument |-> "none", left |-> 0]

VARIABLES
  position,         \* broker: confirmed quantity per instrument
  orders,           \* broker: what it knows of each client order id
  taken,            \* taken[p]: the snapshot p is about to decide on
  sending,          \* sending[p]: the intent p was allowed and has not sent yet
  delayed           \* ids of requests that timed out and may still arrive

broker  == <<position, orders>>
traders == <<taken, sending>>
all     == <<vars, broker, traders, delayed>>

\* client.snapshot(...): what the broker says now.
View ==
  [status |-> "OK", at |-> clock, equity |-> Equity, flow |-> 0,
   positions |-> position, prices |-> Price]

Idle(p) == Running(p) /\ taken[p] = NoSnapshot /\ sending[p] = NoIntent

TakeSnapshot(p) ==
  /\ Idle(p)
  /\ taken' = [taken EXCEPT ![p] = View]
  /\ UNCHANGED <<vars, broker, sending, delayed>>

\* submit_order up to the decision; an operator who reduces by hand asks the
\* gate's other entry point, which looks at no kill.
Decide(p, i) ==
  /\ taken[p] # NoSnapshot
  /\ EvaluateOrder(p, taken[p], i) \/ OperatorOverrideReduce(p, taken[p], i)
  /\ taken' = [taken EXCEPT ![p] = NoSnapshot]
  /\ sending' = [sending EXCEPT ![p] = IF pending' # pending THEN i ELSE NoIntent]
  /\ UNCHANGED <<broker, delayed>>

Received(id, name, quantity) ==
  /\ orders[id] = NoOrder
  /\ orders' = [orders EXCEPT
       ![id] = [state |-> "working", instrument |-> name, left |-> quantity]]

\* submit(intent) reaches the broker, whether or not the answer comes back.
Deliver(p) ==
  /\ sending[p] # NoIntent
  /\ Received(sending[p].id, sending[p].instrument, sending[p].delta)
  /\ sending' = [sending EXCEPT ![p] = NoIntent]
  /\ UNCHANGED <<vars, position, taken, delayed>>

\* The call times out before the broker has the request (SubmissionUnknown):
\* the trader cannot tell this from Deliver, and the reservation stays open.
TimeOut(p) ==
  /\ sending[p] # NoIntent
  /\ delayed' = delayed \cup {sending[p].id}
  /\ sending' = [sending EXCEPT ![p] = NoIntent]
  /\ UNCHANGED <<vars, broker, taken>>

\* A delayed request arrives after all, carrying what was reserved for it;
\* one that never arrives is lost.
Arrive(id) ==
  /\ id \in delayed
  /\ Received(id, pending[id].instrument, pending[id].quantity)
  /\ delayed' = delayed \ {id}
  /\ UNCHANGED <<vars, position, traders>>

\* The cutoff passed, the state could not be persisted, or the broker refused
\* the order outright: it was certainly not sent, the reservation is released.
ReleaseUnsent(p) ==
  /\ sending[p] # NoIntent
  /\ RecordOrderOutcome(p, sending[p].id, TRUE)
  /\ sending' = [sending EXCEPT ![p] = NoIntent]
  /\ UNCHANGED <<broker, taken, delayed>>

\* Mutation: an order the broker does not know is taken for one never sent.
ReconcileUnknown(p, id) ==
  /\ Idle(p)
  /\ ~pending[id].terminal
  /\ orders[id].state # "working"
  /\ RecordOrderOutcome(p, id, TRUE)
  /\ UNCHANGED <<broker, traders, delayed>>

\* reconcile_pending: only an order the broker reports terminal is released;
\* one it does not know stays open.
Reconcile(p, id) ==
  /\ Idle(p)
  /\ ~pending[id].terminal
  /\ orders[id].state = "terminal"
  /\ RecordOrderOutcome(p, id, TRUE)
  /\ UNCHANGED <<broker, traders, delayed>>

Crash(p) ==
  /\ Close(p)
  /\ taken' = [taken EXCEPT ![p] = NoSnapshot]
  /\ sending' = [sending EXCEPT ![p] = NoIntent]
  /\ UNCHANGED <<broker, delayed>>

Start(p, c) == Open(p, c) /\ UNCHANGED <<broker, traders, delayed>>

Kill(p) == RequestKill(p) /\ UNCHANGED <<broker, traders, delayed>>

\* The operator attests that the broker's side is clear.
Reenable(p) == ResetKill(p, TRUE) /\ UNCHANGED <<broker, traders, delayed>>

\* The broker fills one unit of a working order; the last one ends it.
Fill(id) ==
  LET o    == orders[id]
      unit == IF o.left > 0 THEN 1 ELSE -1
  IN  /\ o.state = "working"
      /\ position' = [position EXCEPT ![o.instrument] = @ + unit]
      /\ orders' = [orders EXCEPT
           ![id] = [o EXCEPT !.left = @ - unit,
                             !.state = IF o.left = unit THEN "terminal" ELSE "working"]]
      /\ UNCHANGED <<vars, traders, delayed>>

\* Canceled, expired or rejected, possibly after a partial fill.
Expire(id) ==
  /\ orders[id].state = "working"
  /\ orders' = [orders EXCEPT ![id].state = "terminal"]
  /\ UNCHANGED <<vars, position, traders, delayed>>

TradingInit ==
  /\ Init
  /\ position = StartPosition
  /\ orders = [id \in OrderIds |-> NoOrder]
  /\ taken = [p \in Procs |-> NoSnapshot]
  /\ sending = [p \in Procs |-> NoIntent]
  /\ delayed = {}

TradingNext ==
  \/ \E p \in Procs, c \in Configs : Start(p, c)
  \/ \E p \in Procs :
       \/ TakeSnapshot(p) \/ Deliver(p) \/ TimeOut(p) \/ ReleaseUnsent(p)
       \/ Crash(p) \/ Kill(p) \/ Reenable(p)
  \/ \E p \in Procs, i \in Intents : Decide(p, i)
  \/ \E p \in Procs, id \in OrderIds : Reconcile(p, id)
  \/ \E id \in OrderIds : Arrive(id) \/ Fill(id) \/ Expire(id)

TradingSpec == TradingInit /\ [][TradingNext]_all

-----------------------------------------------------------------------------
(***************************************************************************)
(* Properties.                                                             *)
(***************************************************************************)
\* Type invariant of what this module adds.
TradingTypeOK ==
  /\ position \in [Instruments -> Int]
  /\ orders \in [OrderIds -> [state: {"unknown", "working", "terminal"},
                              instrument: Instruments \cup {"none"}, left: Int]]
  /\ \A p \in Procs : /\ sending[p] \in Intents \cup {NoIntent}
                      /\ taken[p] # NoSnapshot => sending[p] = NoIntent
  /\ delayed \subseteq OrderIds

\* Spec 032 REQ-004: an order the broker is working, one a process was allowed
\* and may still send, and one whose request is still on its way, each hold an
\* open reservation, through crashes, timeouts, late arrivals and releases.
WorkingIsReserved ==
  /\ \A id \in OrderIds :
       orders[id].state = "working" => pending[id] # NoRow /\ ~pending[id].terminal
  /\ \A p \in Procs :
       sending[p] # NoIntent => pending[sending[p].id] # NoRow /\ ~pending[sending[p].id].terminal
  /\ \A id \in delayed : pending[id] # NoRow /\ ~pending[id].terminal

\* Buys of an instrument that can still fill at the broker, or still reach it.
Outstanding(name) ==
  SumFunctionOnSet([id \in OrderIds |-> orders[id].left],
    {id \in OrderIds : /\ orders[id].state = "working"
                       /\ orders[id].instrument = name
                       /\ orders[id].left > 0})
  + SumFunctionOnSet([p \in Procs |-> IF sending[p] = NoIntent THEN 0 ELSE sending[p].delta],
      {p \in Procs : /\ sending[p] # NoIntent
                     /\ sending[p].instrument = name
                     /\ sending[p].delta > 0})
  + SumFunctionOnSet([id \in OrderIds |-> pending[id].quantity],
      {id \in delayed : /\ pending[id].instrument = name
                        /\ pending[id].quantity > 0})

Exposure(name) == (position[name] + Outstanding(name)) * Price[name]

\* The position and gross caps hold for the real account, not only for what
\* the gate saw: whatever fills, in any order, the caps are not reached.
\* "Two individually acceptable orders must not jointly cross a limit."
JointExposureCapped ==
  config # NoConfig =>
    /\ \A name \in Instruments :
         Outstanding(name) > 0 => 100 * Exposure(name) < config.positionPct * Equity
    /\ (\E name \in Instruments : Outstanding(name) > 0) =>
         100 * SumFunction([name \in Instruments |-> Exposure(name)]) < config.grossPct * Equity

\* While the kill is latched the account's exposure only shrinks, whatever was
\* decided before it: orders that are still sent or still arrive then (the kill
\* does not stop them) were counted when it came (spec 032: "Durable latch wins").
ExposureShrinksUnderKill ==
  [][killLatched /\ killLatched' =>
       \A name \in Instruments :
         position'[name] + Outstanding(name)' <= position[name] + Outstanding(name)]_all
=============================================================================
