---------------------------- MODULE FidelityLoop ----------------------------
(***************************************************************************)
(* exec/live_loop.py: the armed session at Fidelity, one a day, that       *)
(* reconciles what was sent before, plans, and reserves, records, persists *)
(* and places each order (exec/fidelity_session.py, fidelity_live.py,      *)
(* fidelity_reconcile.py).  The process may be killed, the machine may     *)
(* disappear, any call may fail; market orders fill in parts while the     *)
(* session runs.  The broker knows an order by the confirmation number of  *)
(* its preview, that is by the recorded intent.                            *)
(*                                                                         *)
(* The workflows run one at a time: the concurrency group they share with  *)
(* the paper loop.  Prices, sizes in dollars and the settled cash are in   *)
(* PaperLoop; here a plan is any vector of shares.  That the settled cash  *)
(* (cash-basis.json) bounds the buys is left out.                          *)
(***************************************************************************)
EXTENDS Integers, FiniteSetsExt

CONSTANTS
  Tickers,      \* the allocation's sleeves
  LastSession,  \* bound: sessions explored
  DecisionAt,   \* the monthly decision in force in each session
  Plans,        \* bound: the shares a plan may buy or sell of each sleeve
  MaxFaults     \* bound: failed calls, killed processes, lost machines, foreign trades

Sessions == 1..LastSession

ASSUME FidelityAssumption ==
  /\ IsFiniteSet(Tickers)
  /\ LastSession \in Nat \ {0} /\ Plans \subseteq [Tickers -> Int] /\ MaxFaults \in Nat
  /\ DecisionAt \in [Sessions -> Nat \ {0}]

\* client_order_id: the profile's orders, by session, ticker and side.
Ids == Sessions \X Tickers \X {"buy", "sell"}

NoId == <<0, 0, "none">>

Signed(id, n) == IF id[3] = "buy" THEN n ELSE -n

VARIABLES
  saved,   \* the ops-state branch
  work,    \* the runner's checkout
  run,     \* the process: where it is and what it holds in memory
  broker,  \* broker[id]: the broker's record of an order
  held,    \* the account's positions
  foreign, \* somebody else has traded in the account
  session, \* today
  logins,  \* how often each session logged in
  faults

account == <<broker, held, foreign>>
vars    == <<saved, work, run, account, session, logins, faults>>

\* The state directory: the daily leases, the latch HALTED, the gate's
\* pending_orders, intents.jsonl (the quantity of each), bot-positions.json (the
\* quantity of each order, the orders applied, the positions) and the decision in
\* allocation-state.json.
EmptyState ==
  [leases |-> {}, halted |-> FALSE, rows |-> [id \in Ids |-> "none"],
   intents |-> [id \in Ids |-> 0], book |-> [id \in Ids |-> 0], applied |-> {},
   positions |-> [t \in Tickers |-> 0], executed |-> 0]

Idle == [pc |-> "idle", armed |-> FALSE, todo |-> {}, seen |-> {}, unknown |-> FALSE,
         planned |-> FALSE, orders |-> [t \in Tickers |-> 0], clean |-> FALSE, id |-> NoId]

At(pc) == run.pc = pc

Goto(pc) == run' = [run EXCEPT !.pc = pc]

Over == [Idle EXCEPT !.pc = "end"]

Fault == faults < MaxFaults /\ faults' = faults + 1

\* persist(): the branch becomes the checkout.  The call may fail before or
\* after the push was accepted.
Persist(copy, done, failed) ==
  \/ saved' = copy /\ run' = done /\ UNCHANGED faults
  \/ Fault /\ run' = failed /\ saved' \in {saved, copy}

\* Session.finish(error=True): the latch is written, the session is over.
Halt(copy) ==
  /\ work' = [copy EXCEPT !.halted = TRUE]
  /\ run' = Over

-----------------------------------------------------------------------------
\* acquire_lease: the file of the day is created exclusively, or there already.
AcquireLease(copy) == session \notin copy.leases /\ work' = [copy EXCEPT !.leases = @ \cup {session}]

\* Mutation: a lease of the day found in the state is taken over.
ClaimAny(armed) ==
  /\ At("idle")
  /\ ~saved.halted
  /\ work' = [saved EXCEPT !.leases = @ \cup {session}]
  /\ run' = [Idle EXCEPT !.pc = "claimed", !.armed = armed]
  /\ UNCHANGED <<saved, account, session, logins, faults>>

\* The restored state is checked out; Session() refuses a latched halt and a
\* session some run claimed before.  require_armed decides between orders and
\* previews.
Claim(armed) ==
  /\ At("idle")
  /\ ~saved.halted
  /\ AcquireLease(saved)
  /\ run' = [Idle EXCEPT !.pc = "claimed", !.armed = armed]
  /\ UNCHANGED <<saved, account, session, logins, faults>>

\* "durable daily lease before login, too"
PersistLease ==
  /\ At("claimed")
  /\ \/ saved' = work /\ Goto("login") /\ UNCHANGED <<work, faults>>
     \/ Fault /\ saved' \in {saved, work} /\ Halt(work)
  /\ UNCHANGED <<account, session, logins>>

OpenRows(copy) == {id \in Ids : copy.rows[id] = "open"}

\* session.connect: one login, then the reconciliation.
Login ==
  /\ At("login")
  /\ logins' = [logins EXCEPT ![session] = @ + 1]
  /\ run' = [run EXCEPT !.pc = "rows", !.todo = OpenRows(work)]
  /\ UNCHANGED <<saved, work, account, session, faults>>

-----------------------------------------------------------------------------
\* The broker's own word for a confirmation number, "none" where no order shows.
BrokerStatus(id) ==
  CASE broker[id].state \in {"none", "delayed"} -> "none"
    [] broker[id].state = "working"             -> "working"
    [] OTHER -> IF broker[id].filled = broker[id].quantity THEN "filled" ELSE "cancelled"

\* The intents on file: without one there is no confirmation number to ask by.
Recorded(id) == work.intents[id] # 0

\* order_status: the broker's word for the recorded intent.
Status(id) == IF Recorded(id) THEN BrokerStatus(id) ELSE "none"

\* Any fixed order.
Next1(ids) == CHOOSE id \in ids : TRUE

\* reconcile: an open reservation is released on a terminal status only; one
\* without a known status is reported.
LookUpRow ==
  LET id == Next1(run.todo) IN
  /\ At("rows") /\ run.todo # {}
  /\ work' = IF Status(id) \in {"filled", "cancelled"}
               THEN [work EXCEPT !.rows[id] = "ended"] ELSE work
  /\ run' = [run EXCEPT !.todo = @ \ {id}, !.unknown = @ \/ Status(id) = "none"]
  /\ UNCHANGED <<saved, account, session, logins, faults>>

\* A lookup fails: status_unavailable, blocked like an unknown one.
FailToLookUpRow ==
  /\ At("rows") /\ run.todo # {}
  /\ Fault
  /\ run' = [run EXCEPT !.todo = @ \ {Next1(run.todo)}, !.unknown = TRUE]
  /\ UNCHANGED <<saved, work, account, session, logins>>

\* require_reconciled: one unknown order stops the session.
RowsKnown ==
  /\ At("rows") /\ run.todo = {}
  /\ IF run.unknown
       THEN Halt(work)
       ELSE /\ run' = [run EXCEPT !.pc = "book", !.seen = {}, !.todo =
                         {id \in Ids : work.book[id] # 0 /\ id \notin work.applied}]
            /\ UNCHANGED work
  /\ UNCHANGED <<saved, account, session, logins, faults>>

\* Each order not yet applied is looked up again, by itself.
LookUpOrder ==
  LET id == Next1(run.todo) IN
  /\ At("book") /\ run.todo # {}
  /\ IF Status(id) = "none"
       THEN Halt(work)
       ELSE /\ run' = [run EXCEPT !.todo = @ \ {id},
                         !.seen = IF Status(id) = "working" THEN @ ELSE @ \cup {id}]
            /\ UNCHANGED work
  /\ UNCHANGED <<saved, account, session, logins, faults>>

\* The fill of the orders seen to be filled; a cancelled one adds nothing.
Filled(t) ==
  SumFunctionOnSet([id \in Ids |-> Signed(id, work.book[id])],
    {id \in run.seen : id[2] = t /\ Status(id) = "filled"})

\* Mutation: the positions are written, the applied marks are not.
ApplyUnmarked ==
  /\ At("book") /\ run.todo = {}
  /\ work' = [work EXCEPT !.positions = [t \in Tickers |-> @[t] + Filled(t)]]
  /\ Goto("persist")
  /\ UNCHANGED <<saved, account, session, logins, faults>>

\* The book is written, positions and marks in one file ...
Apply ==
  /\ At("book") /\ run.todo = {}
  /\ work' = [work EXCEPT !.applied = @ \cup run.seen,
                          !.positions = [t \in Tickers |-> @[t] + Filled(t)]]
  /\ Goto("persist")
  /\ UNCHANGED <<saved, account, session, logins, faults>>

\* ... and persisted.
PersistBook ==
  /\ At("persist")
  /\ \/ saved' = work /\ run' = [run EXCEPT !.pc = "check", !.seen = {}]
        /\ UNCHANGED <<work, faults>>
     \/ Fault /\ saved' \in {saved, work} /\ Halt(work)
  /\ UNCHANGED <<account, session, logins>>

\* Mutation: a book that holds what the account holds, or less, will do.
OwnershipAtLeast == \A t \in Tickers : held[t] >= work.positions[t]

\* ownership(): the account holds exactly what the book says.
Ownership == \A t \in Tickers : held[t] = work.positions[t]

\* read_holdings and ownership, once connected and before every order.
Check ==
  /\ At("check")
  /\ IF Ownership
       THEN Goto(IF run.planned THEN "order" ELSE "plan") /\ UNCHANGED work
       ELSE Halt(work)
  /\ UNCHANGED <<saved, account, session, logins, faults>>

\* UnsettledCash, PreviewUnaffordable: no order, no halt.
Refuse ==
  /\ At("plan") \/ (At("check") /\ ~run.planned)
  /\ run' = Over
  /\ UNCHANGED <<saved, work, account, session, logins, faults>>

-----------------------------------------------------------------------------
\* r's memory at the next order of the plan: reconcile again, or done.
NextOrOver(memory) ==
  IF \E t \in Tickers : memory.orders[t] # 0
    THEN [memory EXCEPT !.pc = "rows", !.todo = OpenRows(work'), !.planned = TRUE, !.id = NoId]
    ELSE [memory EXCEPT !.pc = "finish", !.id = NoId]

\* planner.plan on the bot's own lots, cut to the settled cash and the budget:
\* clean when nothing was shrunk or deferred.
Plan(orders, clean) ==
  LET pending == work.executed # DecisionAt[session] IN
  /\ At("plan")
  /\ ~pending => \A t \in Tickers : orders[t] = 0
  /\ \A t \in Tickers : -work.positions[t] <= orders[t]
  /\ UNCHANGED work
  /\ run' = NextOrOver([run EXCEPT !.orders = orders, !.clean = pending /\ clean])
  /\ UNCHANGED <<saved, account, session, logins, faults>>

Quantity(id) == Signed(id, run.orders[id[2]])

NextOrder == Next1({id \in Ids : id[1] = session /\ Quantity(id) > 0})

Dealt(id, submitted) ==
  NextOrOver([run EXCEPT !.orders[id[2]] = 0, !.clean = @ /\ submitted])

\* submit_order: the gate denies, or the id was reserved before.
Deny ==
  /\ At("order")
  /\ UNCHANGED work
  /\ run' = Dealt(NextOrder, FALSE)
  /\ UNCHANGED <<saved, account, session, logins, faults>>

\* The gate admits and reserves.  (A sale of more than the bot holds halts before:
\* never here, as the plan is made on the same positions.)
Reserve ==
  LET id == NextOrder IN
  /\ At("order")
  /\ work.rows[id] = "none"
  /\ work' = [work EXCEPT !.rows[id] = "open"]
  /\ run' = [run EXCEPT !.pc = "send", !.id = id]
  /\ UNCHANGED <<saved, account, session, logins, faults>>

\* Not armed: previewed, and released as PREVIEW_ONLY.
PreviewOnly ==
  /\ At("send") /\ ~run.armed
  /\ work' = [work EXCEPT !.rows[run.id] = "ended"]
  /\ run' = Dealt(run.id, FALSE)
  /\ UNCHANGED <<saved, account, session, logins, faults>>

\* send(): the order enters the book.
EnterOrder ==
  /\ At("send") /\ run.armed
  /\ work' = [work EXCEPT !.book[run.id] = Quantity(run.id)]
  /\ Goto("submit")
  /\ UNCHANGED <<saved, account, session, logins, faults>>

\* live.submit: armed still, previewed, the intent recorded.
RecordIntent ==
  /\ At("submit")
  /\ work' = [work EXCEPT !.intents[run.id] = Quantity(run.id)]
  /\ Goto("durable")
  /\ UNCHANGED <<saved, account, session, logins, faults>>

\* Mutation: the order is placed whether or not its record could be persisted.
PersistIntentAnyway ==
  /\ At("durable")
  /\ Persist(work, [run EXCEPT !.pc = "place"], [run EXCEPT !.pc = "place"])
  /\ UNCHANGED <<work, account, session, logins>>

\* DurableBroker.place: persist first.  A failure is an unknown outcome for
\* submit, which cannot tell that nothing was sent.
PersistIntent ==
  /\ At("durable")
  /\ \/ saved' = work /\ Goto("place") /\ UNCHANGED <<work, faults>>
     \/ Fault /\ saved' \in {saved, work} /\ Halt(work)
  /\ UNCHANGED <<account, session, logins>>

Placed(id, state) ==
  broker' = [broker EXCEPT ![id] =
    [state |-> state, quantity |-> work.intents[id], filled |-> 0]]

Place ==
  /\ At("place")
  /\ Placed(run.id, "working")
  /\ UNCHANGED work
  /\ run' = Dealt(run.id, TRUE)
  /\ UNCHANGED <<saved, held, foreign, session, logins, faults>>

\* Any error once the request is out: SubmissionUnknown, or a challenge.
PlaceUnknown(arrives) ==
  /\ At("place")
  /\ Fault
  /\ Placed(run.id, arrives)
  /\ Halt(work)
  /\ UNCHANGED <<saved, held, foreign, session, logins>>

\* preview_pair of an unarmed run reads the account once more, and refuses it.
PreviewPairRefused == ~run.armed /\ ~Ownership

\* planner.complete when every order of an armed run was submitted; persist().
Finish ==
  LET copy == IF run.armed /\ run.clean
                THEN [work EXCEPT !.executed = DecisionAt[session]] ELSE work
  IN  /\ At("finish")
      /\ \/ saved' = copy /\ work' = copy /\ run' = Over /\ UNCHANGED faults
         \/ Fault /\ saved' \in {saved, copy} /\ Halt(copy)
         \/ PreviewPairRefused /\ Halt(copy) /\ UNCHANGED <<saved, faults>>
      /\ UNCHANGED <<account, session, logins>>

\* Any other call of the session fails: a challenge, a stale balance, a bar
\* missing, the arming expired, a preview refused.
Fail ==
  /\ run.pc \in {"login", "rows", "book", "check", "plan", "order", "send", "submit", "finish"}
  /\ Fault
  /\ Halt(work)
  /\ UNCHANGED <<saved, account, session, logins>>

\* The process is killed; nothing latches.
KillProcess ==
  /\ run.pc \notin {"idle", "end"}
  /\ Fault
  /\ run' = Over
  /\ UNCHANGED <<saved, work, account, session, logins>>

\* The workflow's last step persists whatever the session left.
PersistState ==
  /\ At("end")
  /\ Persist(work, Idle, Idle)
  /\ work' = EmptyState
  /\ UNCHANGED <<account, session, logins>>

\* The runner disappears with its checkout.
LoseRunner ==
  /\ ~At("idle")
  /\ Fault
  /\ work' = EmptyState
  /\ run' = Idle
  /\ UNCHANGED <<saved, account, session, logins>>

-----------------------------------------------------------------------------
\* The delayed request arrives, or never does.
Arrive(id, state) ==
  /\ broker[id].state = "delayed"
  /\ broker' = [broker EXCEPT ![id].state = state]
  /\ UNCHANGED <<saved, work, run, held, foreign, session, logins, faults>>

\* A share changes hands; a cash account sells no share it does not hold.
FillOne(id) ==
  /\ broker[id].state = "working"
  /\ held[id[2]] + Signed(id, 1) >= 0
  /\ broker' = [broker EXCEPT ![id].filled = @ + 1,
       ![id].state = IF broker[id].filled + 1 = broker[id].quantity THEN "ended" ELSE @]
  /\ held' = [held EXCEPT ![id[2]] = @ + Signed(id, 1)]
  /\ UNCHANGED <<saved, work, run, foreign, session, logins, faults>>

\* Cancelled, expired or rejected, after any part of it was filled.
Expire(id) ==
  /\ broker[id].state = "working"
  /\ broker' = [broker EXCEPT ![id].state = "ended"]
  /\ UNCHANGED <<saved, work, run, held, foreign, session, logins, faults>>

\* Somebody else buys or sells in the dedicated account.
ForeignTrade(t, n) ==
  /\ Fault
  /\ held[t] + n >= 0
  /\ held' = [held EXCEPT ![t] = @ + n]
  /\ foreign' = TRUE
  /\ UNCHANGED <<saved, work, run, broker, session, logins>>

\* Camden has reviewed the halt and takes the latch away.
Review ==
  /\ At("idle") /\ saved.halted
  /\ saved' = [saved EXCEPT !.halted = FALSE]
  /\ UNCHANGED <<work, run, account, session, logins, faults>>

\* Day orders end with their day, and so does the session's job.
NextSession ==
  /\ session < LastSession
  /\ At("idle")
  /\ \A id \in Ids : broker[id].state \in {"none", "ended"}
  /\ session' = session + 1
  /\ UNCHANGED <<saved, work, run, account, logins, faults>>

-----------------------------------------------------------------------------
Init ==
  /\ saved = EmptyState /\ work = EmptyState
  /\ run = Idle
  /\ broker = [id \in Ids |-> [state |-> "none", quantity |-> 0, filled |-> 0]]
  /\ held = [t \in Tickers |-> 0] /\ foreign = FALSE
  /\ session = 1
  /\ logins = [s \in Sessions |-> 0]
  /\ faults = 0

Connect ==
  \/ \E armed \in BOOLEAN : Claim(armed)
  \/ PersistLease \/ Login
  \/ LookUpRow \/ FailToLookUpRow \/ RowsKnown \/ LookUpOrder \/ Apply \/ PersistBook
  \/ Check \/ Refuse

Trade ==
  \/ \E orders \in Plans, clean \in BOOLEAN : Plan(orders, clean)
  \/ Deny \/ Reserve \/ PreviewOnly \/ EnterOrder \/ RecordIntent
  \/ PersistIntent \/ Place
  \/ \E arrives \in {"none", "delayed", "working"} : PlaceUnknown(arrives)
  \/ Finish

Environment ==
  \/ Fail \/ KillProcess \/ PersistState \/ LoseRunner
  \/ \E id \in Ids : FillOne(id) \/ Expire(id) \/ \E s \in {"none", "working"} : Arrive(id, s)
  \/ \E t \in Tickers, n \in {-1, 1} : ForeignTrade(t, n)
  \/ Review \/ NextSession

Next == Connect \/ Trade \/ Environment

Spec == Init /\ [][Next]_vars

-----------------------------------------------------------------------------
States ==
  [leases : SUBSET Sessions, halted : BOOLEAN, rows : [Ids -> {"none", "open", "ended"}],
   intents : [Ids -> Nat], book : [Ids -> Nat], applied : SUBSET Ids,
   positions : [Tickers -> Int], executed : Nat]

Phases == {"idle", "claimed", "login", "rows", "book", "persist", "check", "plan", "order",
           "send", "submit", "durable", "place", "finish", "end"}

\* The type invariant of the state directory, the session, the broker and the account.
FidelityTypeOK ==
  /\ saved \in States /\ work \in States
  /\ run \in [pc : Phases, armed : BOOLEAN, todo : SUBSET Ids, seen : SUBSET Ids,
              unknown : BOOLEAN, planned : BOOLEAN, orders : [Tickers -> Int],
              clean : BOOLEAN, id : Ids \cup {NoId}]
  /\ broker \in [Ids -> [state : {"none", "delayed", "working", "ended"},
                         quantity : Nat, filled : Nat]]
  /\ held \in [Tickers -> Nat] /\ foreign \in BOOLEAN
  /\ session \in Sessions /\ logins \in [Sessions -> Nat] /\ faults \in 0..MaxFaults

\* One session logs in once, although its process may be killed and its machine
\* lost before anything else of it is durable (no retry within the day).
OneLoginPerSession == \A s \in Sessions : logins[s] <= 1

FillsInBook(copy, t) ==
  SumFunctionOnSet([id \in Ids |-> Signed(id, broker[id].quantity)],
    {id \in copy.applied : id[2] = t /\ broker[id].filled = broker[id].quantity})

\* Every filled order is in the bot's positions exactly once, on the branch and in
\* the checkout, however often it was reconciled and from whichever state.
BookCountsFillsOnce ==
  \A copy \in {saved} \cup (IF At("idle") THEN {} ELSE {work}), t \in Tickers :
    copy.positions[t] = FillsInBook(copy, t)

\* An order leaves for the broker.
Leaves(id) == broker[id].quantity = 0 /\ broker'[id].quantity > 0

\* An order that was cancelled after a part of it was filled leaves the book short
\* of that part: unless somebody else trades too, nothing is placed after the
\* session has seen the end of it.
PartialFillStopsTrading(id) ==
  \A other \in work.applied : foreign \/ broker[other].filled \in {0, broker[other].quantity}

\* Nothing is placed while the outcome of another order is not known: reserved on
\* the branch, and nothing at the broker to show for it.
UnknownStopsTrading(id) ==
  \A other \in Ids \ {id} :
    saved.rows[other] = "open" => broker[other].state \in {"working", "ended"}

\* No order is placed on top of one whose outcome is unknown, or of one whose fill
\* the bot's book does not show.
NothingFollowsTheUnsettled ==
  [][\A id \in Ids : Leaves(id) => PartialFillStopsTrading(id) /\ UnknownStopsTrading(id)]_vars

-----------------------------------------------------------------------------
\* The branch says that an order may exist once the reservation, the intent and
\* the book all do.
Log(id) ==
  IF saved.rows[id] # "open" THEN saved.rows[id]
  ELSE IF saved.intents[id] # 0 /\ saved.book[id] = saved.intents[id] THEN "open" ELSE "none"

Market(id) ==
  IF broker[id].quantity = 0 THEN "none"
  ELSE IF broker[id].state \in {"delayed", "working"} THEN "live" ELSE "done"

Promise == INSTANCE OrderPromise WITH
  log <- [id \in Ids |-> Log(id)], market <- [id \in Ids |-> Market(id)]

\* The loop implements the promise: durable before placed, placed once, released
\* when it can trade no more.
KeepsOrderPromise == Promise!Spec
=============================================================================
