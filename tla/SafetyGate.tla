----------------------------- MODULE SafetyGate -----------------------------
(***************************************************************************)
(* The durable order gateway of scripts/live_safety_gate.py.  Every method *)
(* of SafetyGate runs inside one BEGIN IMMEDIATE transaction on one SQLite *)
(* file, so every method is one atomic action here, whichever process      *)
(* calls it; an exception rolls the transaction back, so a call that       *)
(* raises, like a call that only logs a denial, changes nothing and has no *)
(* step.  The variables are the durable rows, and for every process the    *)
(* configuration its SafetyGate object was constructed with.               *)
(*                                                                         *)
(* Snapshots and intents come from the caller and are arbitrary here; the  *)
(* module GateTrading closes the model with a broker that produces them.   *)
(***************************************************************************)
EXTENDS EquityBreaker, CashFlowJournal

CONSTANTS
  Procs,            \* processes that may open the database
  Configs,          \* configurations an operator may supply
  NoConfig,         \* no configuration: database not initialised, process not running
  Instruments,
  Intents,          \* orders: client id, instrument, signed quantity
  ObservationIds,   \* ids of cash-flow observations
  Batches,          \* batches of transfer events a caller may supply
  BrokerStatuses,   \* account status strings; "OK" is the good one
  Equities,         \* broker-reported equities
  Flows,            \* values of the aggregate external_cash_flow field
  Holdings,         \* position maps a snapshot may carry
  PriceMaps,        \* price maps a snapshot may carry; 0 is a missing price
  Delays,           \* ages a snapshot may have when it is used (negative: clock skew)
  DayLength,        \* instants per trading day
  MaxTime           \* bound: last instant explored

\* _require_fraction in whole percent, _require_int_at_least.
Fraction(x, top)   == x \in 1..top
AtLeast(x, minimum) == x \in Int /\ x >= minimum

\* SafetyConfig: no short, no margin, limits that can be reached, a window with a
\* session in it.  (Percent; an age of 0 instants is less than one instant.)
ValidConfig(c) ==
  /\ Fraction(c.grossPct, 100) /\ Fraction(c.positionPct, c.grossPct)
  /\ Fraction(c.dailyPct, 99) /\ Fraction(c.rollingPct, 99)
  /\ AtLeast(c.window, 1) /\ AtLeast(c.maxAge, 0) /\ AtLeast(c.maxSkew, 0)

\* OrderIntent and SafetyConfig refuse anything else at construction.
ASSUME GateAssumption ==
  /\ \A i \in Intents : i.instrument \in Instruments /\ i.delta \in Int \ {0}
  /\ \A c \in Configs : ValidConfig(c)
  /\ Delays \subseteq Int
  /\ DayLength \in Nat \ {0}
  /\ NoConfig \notin Configs

\* What a snapshot and a transfer event are made of, beyond what the orders need.
ASSUME MoneyAssumption ==
  /\ Equities \subseteq Int /\ Flows \subseteq Int
  /\ IsFiniteSet(Transfers)
  /\ \A batch \in Batches : \A e \in batch : e.amount \in Int

OrderIds == {i.id : i \in Intents}

NoRow == [instrument |-> "none", quantity |-> 0, terminal |-> TRUE]

VARIABLES
  config,           \* kv config_json
  held,             \* held[p]: the _config of p's SafetyGate object
  killLatched, killConfirmed,
  reconHalt,        \* kv reconciliation_halt
  dailyHalt,        \* kv daily_halt_session
  rollingHalt,      \* kv rolling_halt_active
  breaker,          \* the other kv rows of the loss breaker
  quarantine,       \* kv cash_flow_quarantine
  journal,          \* table cash_flow_journal; asOf = 0 while it has no row
  flowSeen,         \* ids in table flow_observations
  pending,          \* table pending_orders
  clock             \* the caller's "now"

kill    == <<killLatched, killConfirmed>>
loss    == <<dailyHalt, rollingHalt, breaker>>
flows   == <<quarantine, journal, flowSeen>>
setting == <<config, held>>
vars    == <<setting, kill, reconHalt, loss, flows, pending, clock>>

Day(t) == (t \div DayLength) + 1

Snapshots ==
  [status: BrokerStatuses, at: {t \in {clock - d : d \in Delays} : t >= 1},
   equity: Equities, flow: Flows, positions: Holdings, prices: PriceMaps]

\* An answer to a broker kill query; answered = FALSE is query None.
KillQueries == [answered: BOOLEAN, ordersTerminal: BOOLEAN, disabled: {"yes", "no", "unknown"}]

-----------------------------------------------------------------------------
\* _check_freshness
Trusted(cfg, s) ==
  /\ s.status = "OK"
  /\ clock - s.at <= cfg.maxAge
  /\ clock - s.at >= -cfg.maxSkew
  /\ s.equity > 0

\* Non-terminal buys of an instrument.  A working sell frees nothing.
ReservedBuys(name) ==
  SumFunctionOnSet([id \in OrderIds |-> pending[id].quantity],
    {id \in OrderIds : /\ ~pending[id].terminal
                       /\ pending[id].instrument = name
                       /\ pending[id].quantity > 0})

\* Mutation: open reservations are left out of the exposure.
WorstCaseUnreserved(s, i, name) ==
  s.positions[name] + (IF name = i.instrument THEN i.delta ELSE 0)

\* _worst_case_exposure: the quantity of an instrument if every buy fills.
WorstCase(s, i, name) ==
  s.positions[name] + ReservedBuys(name) + (IF name = i.instrument THEN i.delta ELSE 0)

Notional(s, i, name) ==
  LET q == WorstCase(s, i, name) IN (IF q >= 0 THEN q ELSE -q) * s.prices[name]

\* Prices present, and both caps unreached: the boundary itself denies.
WithinCaps(cfg, s, i) ==
  LET exposed == {name \in Instruments : WorstCase(s, i, name) # 0}
  IN  /\ \A name \in exposed : s.prices[name] > 0
      /\ 100 * Notional(s, i, i.instrument) < cfg.positionPct * s.equity
      /\ 100 * SumFunctionOnSet([name \in Instruments |-> Notional(s, i, name)], exposed)
           < cfg.grossPct * s.equity

\* The long-only rule looks at the snapshot position and this order alone.
GoesShort(s, i) == s.positions[i.instrument] + i.delta < 0

ReduceOnly(i) == i.delta <= 0

\* The primary key of pending_orders refuses a used id.
Unused(id) == pending[id] = NoRow

\* The INSERT of _reserve_and_allow.
Reserve(i) ==
  [pending EXCEPT ![i.id] =
     [instrument |-> i.instrument, quantity |-> i.delta, terminal |-> FALSE]]

NextBreaker(cfg, s, flow) == Observed(breaker, Day(s.at), s.equity, flow, cfg.window)

\* Mutation: an observation without a breach lifts the daily halt.
RecordEquityAndRecover(cfg, s, flow) ==
  LET b == NextBreaker(cfg, s, flow) IN
  /\ Measurable(b)
  /\ breaker' = b
  /\ dailyHalt' = IF DailyBreach(b, cfg) THEN b.session ELSE NoSession
  /\ rollingHalt' = (rollingHalt \/ RollingBreach(b, cfg))

\* _observe_equity_locked: the series moves, a breach latches its halt.
RecordEquity(cfg, s, flow) ==
  LET b == NextBreaker(cfg, s, flow) IN
  /\ Measurable(b)
  /\ breaker' = b
  /\ dailyHalt' = IF DailyBreach(b, cfg) THEN b.session ELSE dailyHalt
  /\ rollingHalt' = (rollingHalt \/ RollingBreach(b, cfg))

\* Mutation: the halts are read before the observation instead of after it.
AddsPermittedBefore == ~(dailyHalt = breaker.session) /\ ~rollingHalt /\ ~quarantine

\* The checks of _evaluate_order_locked after the observation, which they
\* see: the breaker variables are read at their new values.
AddsPermitted == ~(dailyHalt' = breaker'.session) /\ ~rollingHalt' /\ ~quarantine

\* Mutation: the order is judged by the halts alone.
AdmittedUnderKill(cfg, s, i) ==
  /\ ~reconHalt
  /\ ~GoesShort(s, i)
  /\ ReduceOnly(i) \/ (AddsPermitted /\ WithinCaps(cfg, s, i))
  /\ Unused(i.id)

Admitted(cfg, s, i) ==
  /\ ~killLatched
  /\ ~reconHalt
  /\ ~GoesShort(s, i)
  /\ ReduceOnly(i) \/ (AddsPermitted /\ WithinCaps(cfg, s, i))
  /\ Unused(i.id)

\* An untrusted measurement latches the reconciliation halt.
Distrust ==
  /\ reconHalt' = TRUE
  /\ UNCHANGED <<loss, pending>>

-----------------------------------------------------------------------------
Running(p) == held[p] # NoConfig

\* SafetyGate(path, c): the first process writes the configuration, a later
\* one must bring the same (ConfigMismatchError otherwise).
Open(p, c) ==
  /\ ~Running(p)
  /\ config \in {NoConfig, c}
  /\ config' = c
  /\ held' = [held EXCEPT ![p] = c]
  /\ UNCHANGED <<kill, reconHalt, loss, flows, pending, clock>>

\* The process exits or crashes; an open transaction is rolled back.
Close(p) ==
  /\ Running(p)
  /\ held' = [held EXCEPT ![p] = NoConfig]
  /\ UNCHANGED <<config, kill, reconHalt, loss, flows, pending, clock>>

\* evaluate_order.  A process whose configuration is not the durable one is
\* denied; a nonzero aggregate flow is refused once a journal exists.
EvaluateOrder(p, s, i) ==
  /\ Running(p)
  /\ held[p] = config
  /\ s.flow # 0 => journal.asOf = 0
  /\ \/ /\ ~Trusted(held[p], s)
        /\ Distrust
     \/ /\ Trusted(held[p], s)
        /\ RecordEquity(held[p], s, s.flow)
        /\ pending' = IF Admitted(held[p], s, i) THEN Reserve(i) ELSE pending
        /\ UNCHANGED reconHalt
  /\ UNCHANGED <<setting, kill, flows, clock>>

\* observe_equity: the heartbeat, with no configuration check.
ObserveEquity(p, s) ==
  /\ Running(p)
  /\ \/ /\ ~Trusted(held[p], s)
        /\ Distrust
     \/ /\ Trusted(held[p], s)
        /\ RecordEquity(held[p], s, s.flow)
        /\ UNCHANGED <<reconHalt, pending>>
  /\ UNCHANGED <<setting, kill, flows, clock>>

\* observe_equity_with_flows: journal, observation id and equity boundary
\* commit together.  A known id is replayed (or refused) without a write.
ObserveEquityWithFlows(p, id, s, batch) ==
  /\ Running(p)
  /\ s.flow = 0
  /\ id \notin flowSeen
  /\ \/ /\ ~Trusted(held[p], s)
        /\ Distrust
        /\ UNCHANGED flows
     \/ /\ Trusted(held[p], s)
        /\ ~Refused(journal, s.at)
        /\ journal' = Reconciled(journal, batch, s.at)
        /\ quarantine' = (quarantine \/ Blocks(journal, batch, s.at))
        /\ RecordEquity(held[p], s, NetFlow(journal, batch, s.at))
        /\ flowSeen' = flowSeen \cup {id}
        /\ UNCHANGED <<reconHalt, pending>>
  /\ UNCHANGED <<setting, kill, clock>>

-----------------------------------------------------------------------------
RequestKill(p) ==
  /\ Running(p)
  /\ killLatched' = TRUE
  /\ killConfirmed' = FALSE
  /\ UNCHANGED <<setting, reconHalt, loss, flows, pending, clock>>

\* Only an answered query with every order terminal and entry disabled
\* confirms; any other answer revokes a stored confirmation.
Confirms(q) == q.answered /\ q.ordersTerminal /\ q.disabled = "yes"

\* Mutation: contrary evidence leaves a stored confirmation in place.
ConfirmKillForGood(p, q) ==
  /\ Running(p)
  /\ killLatched
  /\ killConfirmed' = (killConfirmed \/ Confirms(q))
  /\ UNCHANGED <<setting, killLatched, reconHalt, loss, flows, pending, clock>>

ConfirmKill(p, q) ==
  /\ Running(p)
  /\ killLatched
  /\ killConfirmed' = Confirms(q)
  /\ UNCHANGED <<setting, killLatched, reconHalt, loss, flows, pending, clock>>

\* reset_kill; attested is the operator's independent verification.
ResetKill(p, attested) ==
  /\ Running(p)
  /\ killLatched
  /\ killConfirmed \/ attested
  /\ ~reconHalt
  /\ ~rollingHalt
  /\ killLatched' = FALSE
  /\ killConfirmed' = FALSE
  /\ UNCHANGED <<setting, reconHalt, loss, flows, pending, clock>>

\* reset_rolling_halt: the observation is kept even when the reset is
\* refused; an untrusted snapshot is refused without latching anything.
ResetRollingHalt(p, s) ==
  /\ Running(p)
  /\ Trusted(held[p], s)
  /\ LET b == NextBreaker(held[p], s, s.flow) IN
     /\ Measurable(b)
     /\ breaker' = b
     /\ dailyHalt' = IF DailyBreach(b, held[p]) THEN b.session ELSE dailyHalt
     /\ rollingHalt' = \/ RollingBreach(b, held[p])
                       \/ reconHalt /\ rollingHalt
  /\ UNCHANGED <<setting, kill, reconHalt, flows, pending, clock>>

ClearReconciliationHalt(p, s) ==
  /\ Running(p)
  /\ Trusted(held[p], s)
  /\ reconHalt' = FALSE
  /\ UNCHANGED <<setting, kill, loss, flows, pending, clock>>

\* adopt_new_config: durable, and in memory for the caller alone.
AdoptNewConfig(p, c) ==
  /\ Running(p)
  /\ ~killLatched
  /\ ~reconHalt
  /\ ~rollingHalt
  /\ config' = c
  /\ held' = [held EXCEPT ![p] = c]
  /\ UNCHANGED <<kill, reconHalt, loss, flows, pending, clock>>

\* record_order_outcome
RecordOrderOutcome(p, id, terminal) ==
  /\ Running(p)
  /\ pending[id] # NoRow
  /\ pending' = [pending EXCEPT ![id].terminal = terminal]
  /\ UNCHANGED <<setting, kill, reconHalt, loss, flows, clock>>

\* evaluate_operator_override_reduce: no kill or loss check, no observation.
OperatorOverrideReduce(p, s, i) ==
  /\ Running(p)
  /\ ReduceOnly(i)
  /\ held[p] = config
  /\ \/ /\ ~Trusted(held[p], s)
        /\ Distrust
     \/ /\ Trusted(held[p], s)
        /\ ~reconHalt
        /\ ~GoesShort(s, i)
        /\ Unused(i.id)
        /\ pending' = Reserve(i)
        /\ UNCHANGED <<reconHalt, loss>>
  /\ UNCHANGED <<setting, kill, flows, clock>>

Tick ==
  /\ clock < MaxTime
  /\ clock' = clock + 1
  /\ UNCHANGED <<setting, kill, reconHalt, loss, flows, pending>>

-----------------------------------------------------------------------------
Init ==
  /\ config = NoConfig
  /\ held = [p \in Procs |-> NoConfig]
  /\ killLatched = FALSE
  /\ killConfirmed = FALSE
  /\ reconHalt = FALSE
  /\ dailyHalt = NoSession
  /\ rollingHalt = FALSE
  /\ breaker = Unobserved
  /\ quarantine = FALSE
  /\ journal = EmptyJournal
  /\ flowSeen = {}
  /\ pending = [id \in OrderIds |-> NoRow]
  /\ clock = 1

Next ==
  \/ \E p \in Procs, c \in Configs : Open(p, c) \/ AdoptNewConfig(p, c)
  \/ \E p \in Procs : Close(p) \/ RequestKill(p)
  \/ \E p \in Procs, s \in Snapshots, i \in Intents :
       EvaluateOrder(p, s, i) \/ OperatorOverrideReduce(p, s, i)
  \/ \E p \in Procs, s \in Snapshots :
       ObserveEquity(p, s) \/ ResetRollingHalt(p, s) \/ ClearReconciliationHalt(p, s)
  \/ \E p \in Procs, id \in ObservationIds, s \in Snapshots, batch \in Batches :
       ObserveEquityWithFlows(p, id, s, batch)
  \/ \E p \in Procs, q \in KillQueries : ConfirmKill(p, q)
  \/ \E p \in Procs, attested \in BOOLEAN : ResetKill(p, attested)
  \/ \E p \in Procs, id \in OrderIds, terminal \in BOOLEAN : RecordOrderOutcome(p, id, terminal)
  \/ Tick

Spec == Init /\ [][Next]_vars

-----------------------------------------------------------------------------
(***************************************************************************)
(* Properties.                                                             *)
(***************************************************************************)
Rows == [instrument: Instruments \cup {"none"}, quantity: Int, terminal: BOOLEAN]

\* The durable rows other than the breaker's numbers and the journal.
ControlTypeOK ==
  /\ config \in Configs \cup {NoConfig}
  /\ held \in [Procs -> Configs \cup {NoConfig}]
  /\ killLatched \in BOOLEAN /\ killConfirmed \in BOOLEAN
  /\ reconHalt \in BOOLEAN /\ rollingHalt \in BOOLEAN /\ quarantine \in BOOLEAN
  /\ dailyHalt \in Nat
  /\ breaker.session \in Nat
  /\ flowSeen \subseteq ObservationIds
  /\ pending \in [OrderIds -> Rows]
  /\ clock \in Nat

\* Type invariant: every durable row has the shape the schema and
\* _ensure_config give it.
TypeOK ==
  /\ ControlTypeOK
  /\ breaker \in [session: Nat, dayStart: Int, adjusted: Int, raw: Int, high: Int,
                  closes: Seq(Int)]
  /\ journal.blocked \in BOOLEAN
  /\ journal.asOf \in Nat
  /\ journal.entries \in [Transfers -> [amount: Int, effective: Int, applied: BOOLEAN,
                                       status: {"absent", "pending", "settled"}]]

\* The gate's quarantine flag and the journal's blocked latch, written to
\* two tables, agree after every transaction, crash and retry.
QuarantineIsJournals == quarantine <=> journal.blocked

\* The step gave some buy a reservation: the only way an add is allowed.
Added(id) == pending[id] = NoRow /\ pending'[id] # NoRow /\ pending'[id].quantity > 0

\* No add is reserved while a latch is set or becomes set by the very
\* snapshot the order is judged on (evaluate_order observes first).
AddsOnlyWhenClear ==
  [][(\E id \in OrderIds : Added(id)) =>
       /\ ~killLatched /\ ~reconHalt /\ ~quarantine
       /\ ~rollingHalt'
       /\ dailyHalt' # breaker'.session]_vars

\* After a daily breach the halt holds for the rest of the trading day and
\* nothing is added on that day (spec 032, reset behaviour), unless the step
\* takes a snapshot of an earlier day: just after midnight a fresh one may be.
HaltLastsTheDay ==
  [][(/\ dailyHalt = Day(clock)
      /\ Day(clock') = Day(clock)
      /\ breaker'.session = Day(clock))
        => dailyHalt' = dailyHalt /\ ~\E id \in OrderIds : Added(id)]_vars

Magnitude(x) == IF x >= 0 THEN x ELSE -x

\* A fall by at least the limit, measured on the size of the base.
FellTooFar(level, base, pct) == 100 * (base - level) >= pct * Magnitude(base)

\* Whatever step moves the equity series, a loss or a drawdown that reaches
\* the limit of the durable configuration leaves its halt latched: also the
\* heartbeat and a (refused or accepted) reset of the rolling halt.
BreachesLatch ==
  [][breaker' # breaker =>
       /\ FellTooFar(breaker'.adjusted, breaker'.dayStart, config.dailyPct)
            => dailyHalt' = breaker'.session
       /\ FellTooFar(breaker'.adjusted, HighWater(breaker'), config.rollingPct)
            => rollingHalt']_vars

\* Once a journal exists, what separates the adjusted series from the raw
\* equity grows by exactly the transfers the journal acknowledges in the same
\* step: no flow is lost, applied twice or applied without its record.
BoundaryMovesWithJournal ==
  [][breaker.session # NoSession /\ journal'.asOf # 0 =>
       (breaker'.raw - breaker'.adjusted) - (breaker.raw - breaker.adjusted)
         = Applied(journal') - Applied(journal)]_vars

\* A transfer once applied stays applied with the same amount: a later,
\* reordered or repeated event never withdraws or changes it.
AppliedForever ==
  [][\A t \in Transfers : journal.entries[t].applied =>
       /\ journal'.entries[t].applied
       /\ journal'.entries[t].amount = journal.entries[t].amount]_vars

\* A client order id is reserved once for one order, whichever process asks
\* and whatever became of the order: its row is never replaced.
IdsAreNeverReused ==
  [][\A id \in OrderIds : pending[id] # NoRow =>
       /\ pending'[id].instrument = pending[id].instrument
       /\ pending'[id].quantity = pending[id].quantity]_vars
=============================================================================
