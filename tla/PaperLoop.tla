----------------------------- MODULE PaperLoop -----------------------------
(***************************************************************************)
(* exec/paper_loop.py --submit: reconcile, plan, then reserve, persist and *)
(* send each order, by runners that work on checkouts of the ops-state     *)
(* branch (ops/persist_state.sh) and may overlap, die or disappear, and a  *)
(* broker whose answers get lost.  scripts/ops_runtime.py keeps the        *)
(* intents, scripts/paper_targets.py plans, scripts/mode_config.py session  *)
(* the buys, the safety gate keeps the reservations.                       *)
(*                                                                         *)
(* One unit of a ticker costs one dollar: a quantity is its notional.  The *)
(* gate's verdict is free, save that it never admits an id twice.          *)
(***************************************************************************)
EXTENDS Integers, FiniteSetsExt

CONSTANTS
  Runners,
  Tickers,      \* the allocation's sleeves, in the order of their names
  LastSession,  \* bound: sessions explored
  Decisions,    \* the monthly decisions; 0 is none
  DecisionAt,   \* the decision in force in each session
  Target,       \* what a decision wants held of each ticker
  Opening,      \* what is held at the start
  DailyCap,     \* daily_deploy_fraction * bot_budget_usd
  CashLevels,   \* settled cash the account may report
  MaxFaults     \* bound: runners lost, processes killed, calls failed

Sessions == 1..LastSession

ASSUME PaperAssumption ==
  /\ Tickers \subseteq Int /\ IsFiniteSet(Tickers)
  /\ LastSession \in Nat \ {0} /\ MaxFaults \in Nat
  /\ 0 \notin Decisions /\ DecisionAt \in [Sessions -> Decisions]
  /\ Target \in [Decisions -> [Tickers -> Nat]] /\ Opening \in [Tickers -> Nat]
  /\ DailyCap \in Nat /\ CashLevels \subseteq Nat

\* client_order_id: the profile's orders, by session, ticker and side.
Ids == Sessions \X Tickers \X {"buy", "sell"}

NoId == <<0, 0, "none">>

Buys(s) == {id \in Ids : id[1] = s /\ id[3] = "buy"}

Signed(id, n) == IF id[3] = "buy" THEN n ELSE -n

VARIABLES
  saved,    \* the ops-state branch
  work,     \* work[r]: the checkout of runner r
  run,      \* run[r]: where its process is and what it holds in memory
  broker,   \* broker[id]: the broker's record of an order
  held,     \* the account's positions
  session,  \* today
  faults

account == <<broker, held>>
vars    == <<saved, work, run, account, session, faults>>

\* The files the loop writes: the gate's pending_orders, intents.jsonl (the
\* quantity of each), fills.jsonl (the orders it records) and allocation-state.json.
EmptyState ==
  [rows |-> [id \in Ids |-> "none"], intents |-> [id \in Ids |-> 0],
   recorded |-> {}, executed |-> 0]

Idle == [pc |-> "idle", current |-> FALSE, todo |-> {}, wrote |-> FALSE,
         unknown |-> FALSE, orders |-> [t \in Tickers |-> 0], clean |-> FALSE, id |-> NoId,
         sent |-> {}]

At(r, pc) == run[r].pc = pc

Goto(r, pc) == run' = [run EXCEPT ![r].pc = pc]

\* The process is gone, the checkout is still to be pushed.
Over(r) == [Idle EXCEPT !.pc = "end", !.current = run[r].current]

Fault == faults < MaxFaults /\ faults' = faults + 1

\* git push of r's checkout: accepted only where nobody pushed since r's own
\* last state of the branch; the other checkouts are then behind.
Push(r, next) ==
  /\ run[r].current
  /\ saved' = work[r]
  /\ run' = [q \in Runners |->
       IF q = r THEN next
       ELSE [run[q] EXCEPT !.current = @ /\ saved' = saved]]

\* persist(): r goes on as done when it returns, and as failed when the push is
\* refused, fails, or is accepted without r learning it.
Persist(r, done, failed) ==
  \/ Push(r, done) /\ UNCHANGED faults
  \/ ~run[r].current /\ run' = [run EXCEPT ![r] = failed] /\ UNCHANGED <<saved, faults>>
  \/ Fault /\ run' = [run EXCEPT ![r] = failed] /\ UNCHANGED saved
  \/ Fault /\ Push(r, failed)

-----------------------------------------------------------------------------
\* The runner checks the branch out and the loop starts.
Start(r) ==
  /\ At(r, "idle")
  /\ work' = [work EXCEPT ![r] = saved]
  /\ run' = [run EXCEPT ![r] = [Idle EXCEPT
       !.pc = "reconcile", !.current = TRUE,
       !.todo = {id \in Ids : saved.rows[id] = "open"}]]
  /\ UNCHANGED <<saved, account, session, faults>>

\* pending_orders lists by creation: any fixed order.
NextRow(r) == CHOOSE id \in run[r].todo : TRUE

Reconciling(r) == At(r, "reconcile") /\ run[r].todo # {}

\* reconcile_pending: one lookup by client order id.
LookUp(r) ==
  LET id == NextRow(r) IN
  /\ Reconciling(r)
  /\ broker[id].state # "ended"
  /\ run' = [run EXCEPT ![r].todo = @ \ {id},
                        ![r].unknown = @ \/ broker[id].state # "working"]
  /\ UNCHANGED <<saved, work, account, session, faults>>

\* Mutation: a terminal order leaves no fill line.
RecordNoFill(r) ==
  LET id == NextRow(r) IN
  /\ Reconciling(r)
  /\ broker[id].state = "ended"
  /\ run' = [run EXCEPT ![r].pc = "release", ![r].id = id]
  /\ UNCHANGED <<saved, work, account, session, faults>>

\* A terminal order: its fill line is written first ...
RecordFill(r) ==
  LET id == NextRow(r) IN
  /\ Reconciling(r)
  /\ broker[id].state = "ended"
  /\ work' = [work EXCEPT ![r].recorded = @ \cup {id}]
  /\ run' = [run EXCEPT ![r].pc = "release", ![r].id = id]
  /\ UNCHANGED <<saved, account, session, faults>>

\* ... then the reservation is released.
Release(r) ==
  /\ At(r, "release")
  /\ work' = [work EXCEPT ![r].rows[run[r].id] = "ended"]
  /\ run' = [run EXCEPT ![r].pc = "reconcile", ![r].todo = @ \ {run[r].id}, ![r].wrote = TRUE]
  /\ UNCHANGED <<saved, account, session, faults>>

\* Mutation: orders the broker has no record of are only reported.
AddsNoExposureAlways(r) == [run[r] EXCEPT !.pc = "plan"]

\* A reservation the broker has no record of stops the run.
AddsNoExposure(r) == IF run[r].unknown THEN Over(r) ELSE [run[r] EXCEPT !.pc = "plan"]

\* Every reservation looked up.
Reconciled(r) ==
  /\ At(r, "reconcile") /\ run[r].todo = {}
  /\ run' = [run EXCEPT ![r] =
       IF run[r].wrote THEN [run[r] EXCEPT !.pc = "fills"] ELSE AddsNoExposure(r)]
  /\ UNCHANGED <<saved, work, account, session, faults>>

\* Recorded fills are durable before anything is added on top of them.
PersistFills(r) ==
  /\ At(r, "fills")
  /\ Persist(r, [AddsNoExposure(r) EXCEPT !.wrote = FALSE], Over(r))
  /\ UNCHANGED <<work, account, session>>

-----------------------------------------------------------------------------
\* _deployed_today: the buy intents of the session, sent or not.
DeployedToday(copy) ==
  SumFunctionOnSet(copy.intents, Buys(session))

\* bound_buys: buys shrink, in order, to what the cap and the settled cash leave.
Bounded(wanted, spend) ==
  [t \in Tickers |->
     LET before == SumFunctionOnSet(wanted, {u \in Tickers : u < t})
     IN  Min({wanted[t], Max({0, spend - before})})]

\* AllocationPlanner.plan and bound_buys.  A decision executed already wants
\* nothing.  Sells go alone; the buys wait for a run that has none to make.
Plan(r, cash) ==
  LET decision == DecisionAt[session]
      pending  == work[r].executed # decision
      gap      == [t \in Tickers |-> IF pending THEN Target[decision][t] - held[t] ELSE 0]
      sells    == [t \in Tickers |-> Min({gap[t], 0})]
      wanted   == [t \in Tickers |-> Max({gap[t], 0})]
      buys     == Bounded(wanted, Min({DailyCap - DeployedToday(work[r]), cash}))
      selling  == \E t \in Tickers : sells[t] < 0
      deferred == selling /\ \E t \in Tickers : wanted[t] > 0
  IN  /\ At(r, "plan")
      /\ run' = [run EXCEPT ![r].pc = "act",
                            ![r].orders = IF selling THEN sells ELSE buys,
                            ![r].clean = pending /\ ~deferred /\ (selling \/ buys = wanted)]
      /\ UNCHANGED <<saved, work, account, session, faults>>

Quantity(r, id) == Signed(id, run[r].orders[id[2]])

Acting(r) == At(r, "act") /\ \E t \in Tickers : run[r].orders[t] # 0

\* Mutation: a second attempt gets an id of its own.
NextOrderFresh(r) ==
  {id \in Ids :
     /\ id[1] = IF work[r].rows[<<session, id[2], id[3]>>] = "none" THEN session ELSE LastSession
     /\ Quantity(r, id) > 0
     /\ \A t \in Tickers : t < id[2] => run[r].orders[t] = 0}

\* The next order of the plan, in the order of the tickers.
NextOrder(r) ==
  {id \in Ids :
     /\ id[1] = session
     /\ Quantity(r, id) > 0
     /\ \A t \in Tickers : t < id[2] => run[r].orders[t] = 0}

\* r's memory once the order it is at has been dealt with: sent if at all, and
\* the broker's word for it.
Dealt(r, id, sent, submitted) ==
  [run[r] EXCEPT !.pc = "act", !.id = NoId, !.orders[id[2]] = 0, !.clean = @ /\ submitted,
                 !.sent = IF sent THEN @ \cup {id} ELSE @]

\* The gate's primary key: an id is reserved once, whatever became of it.
Unused(copy, id) == copy.rows[id] = "none"

\* submit_order: the gate denies ...
Deny(r, id) ==
  /\ At(r, "act") /\ id \in NextOrder(r)
  /\ run' = [run EXCEPT ![r] = Dealt(r, id, FALSE, FALSE)]
  /\ UNCHANGED <<saved, work, account, session, faults>>

\* ... or admits and reserves.
Reserve(r, id) ==
  /\ At(r, "act") /\ id \in NextOrder(r)
  /\ Unused(work[r], id)
  /\ work' = [work EXCEPT ![r].rows[id] = "open"]
  /\ run' = [run EXCEPT ![r].pc = "record", ![r].id = id]
  /\ UNCHANGED <<saved, account, session, faults>>

\* record_intent.  Only an id reserved before could have another intent.
RecordIntent(r) ==
  LET id == run[r].id IN
  /\ At(r, "record")
  /\ work' = [work EXCEPT ![r].intents[id] = Quantity(r, id)]
  /\ Goto(r, "persist")
  /\ UNCHANGED <<saved, account, session, faults>>

\* _check_submit_deadline, before the intent is recorded and before the send.
CutOff(r) ==
  /\ At(r, "record") \/ At(r, "send")
  /\ work' = [work EXCEPT ![r].rows[run[r].id] = "ended"]
  /\ run' = [run EXCEPT ![r] = Over(r)]
  /\ UNCHANGED <<saved, account, session, faults>>

\* Mutation: the order is sent whether or not the push was accepted.
PersistIntentAnyway(r) ==
  /\ At(r, "persist")
  /\ Persist(r, [run[r] EXCEPT !.pc = "send"], [run[r] EXCEPT !.pc = "send"])
  /\ UNCHANGED <<work, account, session>>

PersistIntent(r) ==
  /\ At(r, "persist")
  /\ Push(r, [run[r] EXCEPT !.pc = "send"])
  /\ UNCHANGED <<work, account, session, faults>>

\* PersistFailed: released as not sent, and so is every order left.
FailToPersistIntent(r) ==
  /\ At(r, "persist")
  /\ work' = [work EXCEPT ![r].rows[run[r].id] = "ended"]
  /\ \/ ~run[r].current /\ run' = [run EXCEPT ![r] = Over(r)] /\ UNCHANGED <<saved, faults>>
     \/ Fault /\ run' = [run EXCEPT ![r] = Over(r)] /\ UNCHANGED saved
     \/ Fault /\ Push(r, Over(r))
  /\ UNCHANGED <<account, session>>

\* submit_market_on_open: the broker's record of the order once it was sent.
Sent(r, id, state) ==
  broker' = [broker EXCEPT ![id] =
    [state |-> state, quantity |-> Quantity(r, id), filled |-> 0]]

\* The broker takes it; an id it has already it refuses.
Accept(r) ==
  LET id == run[r].id IN
  /\ At(r, "send")
  /\ broker[id].state = "none"
  /\ Sent(r, id, "working")
  /\ run' = [run EXCEPT ![r] = Dealt(r, id, TRUE, TRUE)]
  /\ UNCHANGED <<saved, work, held, session, faults>>

\* SubmissionUnknown: the answer is lost, and the request delayed or lost with
\* it, or not.  The reservation stays.
TimeOut(r, arrives) ==
  LET id == run[r].id IN
  /\ At(r, "send")
  /\ Fault
  /\ IF broker[id].state = "none"
       THEN Sent(r, id, arrives) ELSE UNCHANGED broker
  /\ run' = [run EXCEPT ![r] = Dealt(r, id, TRUE, FALSE)]
  /\ UNCHANGED <<saved, work, held, session>>

\* HTTP 4xx: the broker answered and refused, the reservation is released.
Refuse(r) ==
  LET id == run[r].id IN
  /\ At(r, "send")
  /\ work' = [work EXCEPT ![r].rows[id] = "ended"]
  /\ run' = [run EXCEPT ![r] = Dealt(r, id, FALSE, FALSE)]
  /\ UNCHANGED <<saved, account, session, faults>>

\* Every order sent, none shrunk or deferred: planner.complete.
Finish(r) ==
  /\ At(r, "act") /\ ~Acting(r)
  /\ IF run[r].clean
       THEN work' = [work EXCEPT ![r].executed = DecisionAt[session]] /\ Goto(r, "complete")
       ELSE UNCHANGED work /\ run' = [run EXCEPT ![r] = Over(r)]
  /\ UNCHANGED <<saved, account, session, faults>>

\* The state is persisted after complete; a failure is reported only.
PersistDecision(r) ==
  /\ At(r, "complete")
  /\ Persist(r, Over(r), Over(r))
  /\ UNCHANGED <<work, account, session>>

\* The workflow's last step, "Persist state".
PersistState(r) ==
  /\ At(r, "end")
  /\ Persist(r, Idle, Idle)
  /\ work' = [work EXCEPT ![r] = EmptyState]
  /\ UNCHANGED <<account, session>>

\* A broker call fails or the process is killed: the loop ends where it is.
KillProcess(r) ==
  /\ run[r].pc \notin {"idle", "end"}
  /\ Fault
  /\ run' = [run EXCEPT ![r] = Over(r)]
  /\ UNCHANGED <<saved, work, account, session>>

\* The runner disappears with its checkout.
LoseRunner(r) ==
  /\ ~At(r, "idle")
  /\ Fault
  /\ work' = [work EXCEPT ![r] = EmptyState]
  /\ run' = [run EXCEPT ![r] = Idle]
  /\ UNCHANGED <<saved, account, session>>

-----------------------------------------------------------------------------
Arrive(id) ==
  /\ broker[id].state = "delayed"
  /\ broker' = [broker EXCEPT ![id].state = "working"]
  /\ UNCHANGED <<saved, work, run, held, session, faults>>

Vanish(id) ==
  /\ broker[id].state = "delayed"
  /\ broker' = [broker EXCEPT ![id].state = "none"]
  /\ UNCHANGED <<saved, work, run, held, session, faults>>

FillOne(id) ==
  /\ broker[id].state = "working"
  /\ broker' = [broker EXCEPT ![id].filled = @ + 1,
       ![id].state = IF broker[id].filled + 1 = broker[id].quantity THEN "ended" ELSE @]
  /\ held' = [held EXCEPT ![id[2]] = @ + Signed(id, 1)]
  /\ UNCHANGED <<saved, work, run, session, faults>>

\* Cancelled, expired or rejected.
Expire(id) ==
  /\ broker[id].state = "working"
  /\ broker' = [broker EXCEPT ![id].state = "ended"]
  /\ UNCHANGED <<saved, work, run, held, session, faults>>

\* Day orders end with their session, and so do the requests and the runs of a
\* morning: the workflow's jobs have thirty minutes.
NextSession ==
  /\ session < LastSession
  /\ \A r \in Runners : At(r, "idle")
  /\ \A id \in Ids : broker[id].state \in {"none", "ended"}
  /\ session' = session + 1
  /\ UNCHANGED <<saved, work, run, account, faults>>

-----------------------------------------------------------------------------
Init ==
  /\ saved = EmptyState
  /\ work = [r \in Runners |-> EmptyState]
  /\ run = [r \in Runners |-> Idle]
  /\ broker = [id \in Ids |-> [state |-> "none", quantity |-> 0, filled |-> 0]]
  /\ held = Opening
  /\ session = 1
  /\ faults = 0

Prepare(r) ==
  \/ Start(r)
  \/ LookUp(r) \/ RecordFill(r) \/ Release(r) \/ Reconciled(r) \/ PersistFills(r)
  \/ \E cash \in CashLevels : Plan(r, cash)

Act(r) ==
  \/ \E id \in Ids : Deny(r, id) \/ Reserve(r, id)
  \/ RecordIntent(r) \/ CutOff(r)
  \/ PersistIntent(r) \/ FailToPersistIntent(r)
  \/ Accept(r) \/ Refuse(r)
  \/ \E arrives \in {"none", "delayed", "working"} : TimeOut(r, arrives)
  \/ Finish(r) \/ PersistDecision(r) \/ PersistState(r)

Broker(id) == Arrive(id) \/ Vanish(id) \/ FillOne(id) \/ Expire(id)

Next ==
  \/ \E r \in Runners : Prepare(r) \/ Act(r) \/ KillProcess(r) \/ LoseRunner(r)
  \/ \E id \in Ids : Broker(id)
  \/ NextSession

Spec == Init /\ [][Next]_vars

-----------------------------------------------------------------------------
States == [rows : [Ids -> {"none", "open", "ended"}], intents : [Ids -> Nat],
           recorded : SUBSET Ids, executed : Decisions \cup {0}]

Phases == {"idle", "reconcile", "release", "fills", "plan", "act", "record", "persist",
           "send", "complete", "end"}

Processes ==
  [pc : Phases, current : BOOLEAN, todo : SUBSET Ids, wrote : BOOLEAN,
   unknown : BOOLEAN, orders : [Tickers -> Int], clean : BOOLEAN, id : Ids \cup {NoId},
   sent : SUBSET Ids]

Orders == [state : {"none", "delayed", "working", "ended"}, quantity : Nat, filled : Nat]

\* The type invariant of the loop's files, the runners, the broker and the account.
PaperTypeOK ==
  /\ saved \in States
  /\ work \in [Runners -> States]
  /\ run \in [Runners -> Processes]
  /\ broker \in [Ids -> Orders]
  /\ held \in [Tickers -> Nat]
  /\ session \in Sessions
  /\ faults \in 0..MaxFaults

\* Whatever dies, an order that is at the broker or on its way there is on the
\* branch, reserved and with its quantity: a later run reconciles it.
SentIsDurable ==
  \A id \in Ids : broker[id].state \in {"delayed", "working"} =>
    saved.rows[id] = "open" /\ saved.intents[id] = broker[id].quantity

\* The branch never forgets a fill: an order the broker had is released there
\* only together with its fill line.
FillsAreRecorded ==
  \A id \in Ids : broker[id].state = "ended" /\ saved.rows[id] = "ended" =>
    id \in saved.recorded

\* What the broker's orders still may add to the position or take from it.
Unfilled(o) == IF o.state \in {"delayed", "working"} THEN o.quantity - o.filled ELSE 0

\* r sends the order, whatever comes of it.
Sends(r, id) == id \in run'[r].sent \ run[r].sent

\* No order is sent while a request of another run is under way unanswered.
NothingOnTopOfUnknown ==
  [][\A r \in Runners, id \in Ids : Sends(r, id) =>
       \A other \in Ids : broker[other].state = "delayed" => other \in run[r].sent]_vars

\* All the runs of a session together send no more than the daily deploy cap,
\* although those that failed to send or died are counted by their intents only.
WithinDailyCap ==
  \A s \in Sessions :
    SumFunctionOnSet([id \in Ids |-> broker[id].quantity], Buys(s)) <= DailyCap

\* What every order sent in a run, working or not yet arrived, could still do
\* leads no further than the decision's target: nothing is bought or sold twice.
NotPastTarget(id) ==
  LET t    == id[2]
      goal == Target[DecisionAt[session]][t]
      open == SumFunctionOnSet([o \in Ids |-> Signed(o, Unfilled(broker'[o]))], {o \in Ids : o[2] = t})
  IN  IF id[3] = "buy" THEN held[t] + open <= goal ELSE held[t] + open >= goal

\* All runs together, whichever of them died or was overtaken, trade neither more
\* in a day than the cap nor past the decision.
TradesTheDecisionOnce ==
  [][\A r \in Runners, id \in Ids : Sends(r, id) => NotPastTarget(id) /\ WithinDailyCap']_vars

-----------------------------------------------------------------------------
Log(id) == saved.rows[id]

\* An order with a quantity was sent; with no state to show for it, it was lost.
Market(id) ==
  IF broker[id].quantity = 0 THEN "none"
  ELSE IF broker[id].state \in {"delayed", "working"} THEN "live" ELSE "done"

Promise == INSTANCE OrderPromise WITH
  log <- [id \in Ids |-> Log(id)], market <- [id \in Ids |-> Market(id)]

\* The loop implements the promise, whichever of its runners dies or is overtaken:
\* reserved on the branch before it is sent, sent once, released when it can trade
\* no more.
KeepsOrderPromise == Promise!Spec
=============================================================================
