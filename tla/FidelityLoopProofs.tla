-------------------------- MODULE FidelityLoopProofs --------------------------
(***************************************************************************)
(* What the armed session of FidelityLoop is worth, for any sleeves,       *)
(* plans, sessions and number of faults: it logs in once a session, for    *)
(* its lease is on the branch by then and no push takes a lease off it; it *)
(* keeps the promise of OrderPromise; its book holds every fill exactly    *)
(* once; and nothing is placed on top of an order whose outcome is unknown *)
(* or whose fill the book does not show.                                   *)
(***************************************************************************)
EXTENDS FidelityLoop, SumTheorems

Fields == "leases" \in DOMAIN saved /\ "leases" \in DOMAIN work /\ "pc" \in DOMAIN run

\* The checkout of a session at work has every lease of the branch, its own from
\* Claim on; the branch has it before the login and ever after.
LoginInv ==
  /\ Fields
  /\ session \in Sessions /\ logins \in [Sessions -> Nat]
  /\ ~At("idle") => saved.leases \subseteq work.leases
  /\ run.pc \in {"claimed", "login"} => session \in work.leases /\ logins[session] = 0
  /\ At("login") => session \in saved.leases
  /\ \A s \in Sessions : logins[s] <= 1 /\ (logins[s] = 1 => s \in saved.leases)

\* What most steps have in common: they neither claim nor log in, and a push
\* publishes the leases of the checkout.
Calm ==
  /\ UNCHANGED <<session, logins>>
  /\ Fields'
  /\ saved'.leases = saved.leases \/ (~At("idle") /\ saved'.leases = work.leases)
  /\ run'.pc = "idle" \/ (~At("idle") /\ work'.leases = work.leases)
  /\ run'.pc \notin {"claimed", "login"}

LEMMA CalmKeeps ==
  ASSUME LoginInv, Calm
  PROVE  LoginInv'
BY DEF LoginInv, Calm, At

\* The session of a halted copy is over, its leases are the copy's.
LEMMA HaltEnds ==
  ASSUME NEW copy, "leases" \in DOMAIN copy, Halt(copy)
  PROVE  /\ "leases" \in DOMAIN work' /\ work'.leases = copy.leases
         /\ "pc" \in DOMAIN run' /\ run'.pc = "end"
BY DEF Halt, Over, Idle

\* After an order comes the next one, or the end of the plan.
LEMMA NextOrOverMoves ==
  ASSUME NEW memory, "pc" \in DOMAIN memory
  PROVE  /\ "pc" \in DOMAIN NextOrOver(memory)
         /\ NextOrOver(memory).pc \in {"rows", "finish"}
BY DEF NextOrOver

LEMMA DealtMoves ==
  ASSUME "pc" \in DOMAIN run, NEW id, NEW submitted
  PROVE  /\ "pc" \in DOMAIN Dealt(id, submitted)
         /\ Dealt(id, submitted).pc \in {"rows", "finish"}
<1> DEFINE memory == [run EXCEPT !.orders[id[2]] = 0, !.clean = @ /\ submitted]
<1>1. "pc" \in DOMAIN memory
  OBVIOUS
<1>2. Dealt(id, submitted) = NextOrOver(memory)
  BY DEF Dealt
<1> HIDE DEF memory
<1>3. QED
  BY <1>1, <1>2, NextOrOverMoves

LEMMA InitKeeps == ASSUME Init PROVE LoginInv
<1>1. 1 \in Sessions
  BY FidelityAssumption DEF Sessions
<1>2. QED
  BY <1>1 DEF Init, LoginInv, Fields, EmptyState, Idle, At

LEMMA ClaimKeeps ==
  ASSUME LoginInv, NEW armed \in BOOLEAN, Claim(armed)
  PROVE  LoginInv'
<1>1. /\ work'.leases = saved.leases \cup {session} /\ session \notin saved.leases
      /\ "leases" \in DOMAIN work'
  BY DEF LoginInv, Fields, Claim, AcquireLease
<1>2. "pc" \in DOMAIN run' /\ run'.pc = "claimed"
  BY DEF Claim, Idle
<1>3. logins[session] = 0
  BY <1>1 DEF LoginInv
<1>4. UNCHANGED <<saved, session, logins>>
  BY DEF Claim
<1>5. QED
  BY <1>1, <1>2, <1>3, <1>4 DEF LoginInv, Fields, At

LEMMA PersistLeaseKeeps ==
  ASSUME LoginInv, PersistLease
  PROVE  LoginInv'
<1>1. CASE saved' = work /\ Goto("login") /\ UNCHANGED work
  <2>1. "pc" \in DOMAIN run' /\ run'.pc = "login"
    BY <1>1 DEF LoginInv, Fields, Goto
  <2>2. QED
    BY <1>1, <2>1 DEF LoginInv, Fields, PersistLease, At
<1>2. CASE saved' \in {saved, work} /\ Halt(work)
  BY <1>2, HaltEnds, CalmKeeps DEF LoginInv, Fields, PersistLease, At, Calm
<1>3. QED
  BY <1>1, <1>2 DEF PersistLease

LEMMA LoginKeeps ==
  ASSUME LoginInv, Login
  PROVE  LoginInv'
<1>1. "pc" \in DOMAIN run' /\ run'.pc = "rows"
  BY DEF Login, LoginInv, Fields
<1>2. /\ session \in saved.leases /\ logins[session] = 0
      /\ saved.leases \subseteq work.leases
  BY DEF Login, LoginInv, At
<1>3. UNCHANGED <<saved, work, session>> /\ logins' = [logins EXCEPT ![session] = @ + 1]
  BY DEF Login
<1>4. QED
  BY <1>1, <1>2, <1>3 DEF LoginInv, Fields, At

\* Reconciliation and checks: the leases are only carried along.
LEMMA ReconcileKeeps ==
  ASSUME LoginInv,
         \/ LookUpRow \/ FailToLookUpRow \/ RowsKnown \/ LookUpOrder \/ Apply \/ PersistBook
         \/ Check \/ Refuse
  PROVE  LoginInv'
<1>0. Fields /\ UNCHANGED <<session, logins>> /\ ~At("idle")
  BY DEF LoginInv, LookUpRow, FailToLookUpRow, RowsKnown, LookUpOrder, Apply, PersistBook, Check, Refuse, At
<1>1. CASE LookUpRow
  BY <1>0, <1>1, CalmKeeps DEF Calm, Fields, LookUpRow, At
<1>2. CASE FailToLookUpRow
  BY <1>0, <1>2, CalmKeeps DEF Calm, Fields, FailToLookUpRow, At
<1>3. CASE RowsKnown
  BY <1>0, <1>3, HaltEnds, CalmKeeps DEF Calm, Fields, RowsKnown, At
<1>4. CASE LookUpOrder
  BY <1>0, <1>4, HaltEnds, CalmKeeps DEF Calm, Fields, LookUpOrder, At
<1>5. CASE Apply
  BY <1>0, <1>5, CalmKeeps DEF Calm, Fields, Apply, Goto, At
<1>6. CASE PersistBook
  BY <1>0, <1>6, HaltEnds, CalmKeeps DEF Calm, Fields, PersistBook, At
<1>7. CASE Check
  BY <1>0, <1>7, HaltEnds, CalmKeeps DEF Calm, Fields, Check, Goto, At
<1>8. CASE Refuse
  BY <1>0, <1>8, CalmKeeps DEF Calm, Fields, Refuse, Over, Idle, At
<1>9. QED
  BY <1>1, <1>2, <1>3, <1>4, <1>5, <1>6, <1>7, <1>8

\* Orders: rows, intents and book change, the leases are pushed as they are.
LEMMA TradeKeeps ==
  ASSUME LoginInv, Trade
  PROVE  LoginInv'
<1>0. Fields /\ UNCHANGED <<session, logins>> /\ ~At("idle")
  BY DEF LoginInv, Trade, Plan, Deny, Reserve, PreviewOnly, EnterOrder, RecordIntent, PersistIntent,
         Place, PlaceUnknown, Finish, At
<1>1. ASSUME NEW orders \in Plans, NEW clean \in BOOLEAN, Plan(orders, clean)
      PROVE  LoginInv'
  <2> DEFINE memory == [run EXCEPT !.orders = orders,
                                   !.clean = work.executed # DecisionAt[session] /\ clean]
  <2>1. "pc" \in DOMAIN memory
    BY <1>0 DEF Fields
  <2>2. run' = NextOrOver(memory) /\ UNCHANGED <<saved, work>>
    BY <1>1 DEF Plan
  <2> HIDE DEF memory
  <2>3. QED
    BY <1>0, <2>1, <2>2, NextOrOverMoves, CalmKeeps DEF Calm, Fields
<1>2. CASE Deny
  BY <1>0, <1>2, DealtMoves, CalmKeeps DEF Calm, Fields, Deny
<1>3. CASE Reserve
  BY <1>0, <1>3, CalmKeeps DEF Calm, Fields, Reserve
<1>4. CASE PreviewOnly
  BY <1>0, <1>4, DealtMoves, CalmKeeps DEF Calm, Fields, PreviewOnly
<1>5. CASE EnterOrder
  BY <1>0, <1>5, CalmKeeps DEF Calm, Fields, EnterOrder, Goto
<1>6. CASE RecordIntent
  BY <1>0, <1>6, CalmKeeps DEF Calm, Fields, RecordIntent, Goto
<1>7. CASE PersistIntent
  BY <1>0, <1>7, HaltEnds, CalmKeeps DEF Calm, Fields, PersistIntent, Goto
<1>8. CASE Place
  BY <1>0, <1>8, DealtMoves, CalmKeeps DEF Calm, Fields, Place
<1>9. ASSUME NEW arrives, PlaceUnknown(arrives) PROVE LoginInv'
  BY <1>0, <1>9, HaltEnds, CalmKeeps DEF Calm, Fields, PlaceUnknown
<1>10. CASE Finish
  <2> DEFINE copy == IF run.armed /\ run.clean
                       THEN [work EXCEPT !.executed = DecisionAt[session]] ELSE work
  <2>1. "leases" \in DOMAIN copy /\ copy.leases = work.leases
    BY <1>0 DEF Fields
  <2>2. /\ saved' \in {saved, copy}
        /\ \/ work' = copy /\ run' = Over
           \/ Halt(copy)
    BY <1>10 DEF Finish
  <2> HIDE DEF copy
  <2>3. QED
    BY <1>0, <2>1, <2>2, HaltEnds, CalmKeeps DEF Calm, Fields, Over, Idle
<1>11. QED
  BY <1>1, <1>2, <1>3, <1>4, <1>5, <1>6, <1>7, <1>8, <1>9, <1>10 DEF Trade

\* Faults, the broker, the person who reviews, and the night.
LEMMA EnvironmentKeeps ==
  ASSUME LoginInv, Environment
  PROVE  LoginInv'
<1>0. Fields
  BY DEF LoginInv
<1>1. CASE Fail
  BY <1>0, <1>1, HaltEnds, CalmKeeps DEF Calm, Fields, Fail, At
<1>2. CASE KillProcess
  BY <1>0, <1>2, CalmKeeps DEF Calm, Fields, KillProcess, Over, Idle, At
<1>3. CASE PersistState
  BY <1>0, <1>3, CalmKeeps DEF Calm, Fields, PersistState, Persist, EmptyState, Idle, At
<1>4. CASE LoseRunner
  BY <1>0, <1>4, CalmKeeps DEF Calm, Fields, LoseRunner, EmptyState, Idle, At
<1>5. CASE Review
  BY <1>0, <1>5, CalmKeeps DEF Calm, Fields, Review, At
<1>6. CASE NextSession
  <2>1. session' \in Sessions
    BY <1>6, FidelityAssumption DEF LoginInv, NextSession, Sessions
  <2>2. QED
    BY <1>6, <2>1 DEF LoginInv, Fields, NextSession, At
<1>7. CASE \/ \E id \in Ids : FillOne(id) \/ Expire(id) \/ \E s \in {"none", "working"} : Arrive(id, s)
           \/ \E t \in Tickers, n \in {-1, 1} : ForeignTrade(t, n)
  <2>1. UNCHANGED <<saved, work, run, session, logins>>
    BY <1>7 DEF FillOne, Expire, Arrive, ForeignTrade
  <2>2. QED
    BY <2>1 DEF LoginInv, Fields, At
<1>8. QED
  BY <1>1, <1>2, <1>3, <1>4, <1>5, <1>6, <1>7 DEF Environment

LEMMA StepKeeps ==
  ASSUME LoginInv, [Next]_vars
  PROVE  LoginInv'
<1>1. CASE Connect
  BY <1>1, ClaimKeeps, PersistLeaseKeeps, LoginKeeps, ReconcileKeeps DEF Connect
<1>2. CASE Trade
  BY <1>2, TradeKeeps
<1>3. CASE Environment
  BY <1>3, EnvironmentKeeps
<1>4. CASE UNCHANGED vars
  BY <1>4 DEF vars, LoginInv, Fields, At
<1>5. QED
  BY <1>1, <1>2, <1>3, <1>4 DEF Next

\* One session logs in once (Session, acquire_lease, "no retry within the day"): for
\* any number of faults and however often its process is started.
THEOREM OneLoginCorrect == Spec => []OneLoginPerSession
<1>1. Init => LoginInv
  BY InitKeeps
<1>2. LoginInv /\ [Next]_vars => LoginInv'
  BY StepKeeps
<1>3. LoginInv => OneLoginPerSession
  BY DEF LoginInv, OneLoginPerSession
<1>4. QED
  BY <1>1, <1>2, <1>3, PTL DEF Spec

-----------------------------------------------------------------------------
(* ---- The promise of every order --------------------------------------- *)

\* What the state c says of an order; Log is LogOf(saved, _).
LogOf(c, id) ==
  IF c.rows[id] # "open" THEN c.rows[id]
  ELSE IF c.intents[id] # 0 /\ c.book[id] = c.intents[id] THEN "open" ELSE "none"

\* To publish d over c breaks no promise, and drops no reservation.
Leads(c, d) ==
  \A id \in Ids :
    /\ \/ LogOf(d, id) = LogOf(c, id)
       \/ LogOf(c, id) = "none" /\ LogOf(d, id) = "open"
       \/ LogOf(c, id) \in {"none", "open"} /\ LogOf(d, id) = "ended" /\ Market(id) # "live"
    /\ c.rows[id] # "none" => d.rows[id] # "none"

Same(c, d) == c.rows = d.rows /\ c.intents = d.intents /\ c.book = d.book

Sending == {"send", "submit", "durable", "place"}
Before  == {"claimed", "login", "rows", "book", "persist", "check", "order"}

\* The order the session is at: reserved, never sent, entered and recorded in turn.
AtOrder ==
  /\ run.pc \in Before /\ run.planned => \E t \in Tickers : run.orders[t] # 0
  /\ At("order") => run.planned
  /\ run.pc \in Sending =>
       /\ run.id \in Ids /\ work.rows[run.id] = "open" /\ broker[run.id].quantity = 0
       /\ Quantity(run.id) # 0
  /\ run.pc \in {"send", "submit", "durable"} => saved.rows[run.id] = "none"
  /\ run.pc \in {"submit", "durable", "place"} => work.book[run.id] = Quantity(run.id)
  /\ run.pc \in {"durable", "place"} => work.intents[run.id] = Quantity(run.id)
  /\ At("place") => Same(saved, work)

\* What became of every other open reservation is known once they were looked up.
Shows(id) == broker[id].state \in {"working", "ended"}

Reconciled ==
  /\ At("rows") => \A id \in OpenRows(work) : Shows(id) \/ id \in run.todo \/ run.unknown
  /\ run.pc \in {"book", "persist", "check", "plan", "order"} => \A id \in OpenRows(work) : Shows(id)
  /\ run.pc \in Sending => \A id \in OpenRows(work) \ {run.id} : Shows(id)

IsState(c) ==
  /\ c = [leases |-> c.leases, halted |-> c.halted, rows |-> c.rows, intents |-> c.intents,
          book |-> c.book, applied |-> c.applied, positions |-> c.positions, executed |-> c.executed]
  /\ c.rows \in [Ids -> {"none", "open", "ended"}]
  /\ c.intents = [id \in Ids |-> c.intents[id]] /\ c.book = [id \in Ids |-> c.book[id]]

IsProcess(p) ==
  /\ p = [pc |-> p.pc, armed |-> p.armed, todo |-> p.todo, seen |-> p.seen, unknown |-> p.unknown,
          planned |-> p.planned, orders |-> p.orders, clean |-> p.clean, id |-> p.id]
  /\ p.orders \in [Tickers -> Int] /\ p.unknown \in BOOLEAN /\ p.planned \in BOOLEAN

IsOrder(o) == o = [state |-> o.state, quantity |-> o.quantity, filled |-> o.filled]

Shaped ==
  /\ IsState(saved) /\ IsState(work) /\ IsProcess(run)
  /\ broker = [id \in Ids |-> broker[id]] /\ \A id \in Ids : IsOrder(broker[id])
  /\ session \in Sessions

PromiseInv ==
  /\ Shaped
  /\ \A id \in Ids : broker[id].quantity # 0 => Log(id) # "none"
  /\ ~At("idle") => Leads(saved, work)
  /\ AtOrder /\ Reconciled

PromiseStep == [Promise!Next]_<<[id \in Ids |-> Log(id)], [id \in Ids |-> Market(id)]>>

LEMMA IdleIsShaped ==
  IsState(EmptyState) /\ IsProcess(Idle) /\ Idle.planned = FALSE /\ IsProcess(Over) /\ Over.pc = "end"
<1>1. IsState(EmptyState)
  BY DEF EmptyState, IsState
<1>2. IsProcess(Idle) /\ Idle.planned = FALSE
  BY DEF Idle, IsProcess
<1>3. IsProcess(Over) /\ Over.pc = "end"
  <2> DEFINE p == [Idle EXCEPT !.pc = "end"]
  <2>1. IsProcess(p) /\ p.pc = "end"
    BY <1>2 DEF IsProcess
  <2>2. QED
    BY <2>1 DEF Over
<1>4. QED
  BY <1>1, <1>2, <1>3

\* A step that places nothing.
Move ==
  /\ Shaped' /\ broker' = broker
  /\ Same(saved, saved') \/ (~At("idle") /\ Same(work, saved'))
  /\ \/ At("idle")'
     \/ Same(saved', work')
     \/ ~At("idle") /\ Same(work, work')
     \/ ~At("idle") /\ Same(saved, saved') /\ Leads(saved, work')
  /\ AtOrder' /\ Reconciled'

LEMMA MoveKeeps ==
  ASSUME PromiseInv, Move
  PROVE  PromiseInv' /\ PromiseStep
<1>1. \A c, d, id : Same(c, d) => LogOf(c, id) = LogOf(d, id)
  BY DEF Same, LogOf
<1>2. \A id \in Ids : Log(id) = LogOf(saved, id) /\ Log(id)' = LogOf(saved', id)
  BY DEF Log, LogOf
<1>3. \A id \in Ids : LogOf(saved, id) \in {"none", "open", "ended"} /\ LogOf(saved', id) \in {"none", "open", "ended"}
  BY DEF PromiseInv, Move, Shaped, IsState, LogOf
<1>4. \A id \in Ids : Market(id)' = Market(id)
  BY DEF Market, Move
<1>5. \A id \in Ids :
        \/ LogOf(saved', id) = LogOf(saved, id)
        \/ LogOf(saved, id) = "none" /\ LogOf(saved', id) = "open"
        \/ LogOf(saved, id) \in {"none", "open"} /\ LogOf(saved', id) = "ended" /\ Market(id) # "live"
  BY <1>1 DEF Move, PromiseInv, Leads
<1>6. \A id \in Ids : broker'[id].quantity # 0 => Log(id)' # "none"
  BY <1>2, <1>5 DEF Move, PromiseInv
<1>7. ASSUME ~At("idle")'
      PROVE  Leads(saved, work)'
  <2>1. Leads(saved', work')
    <3>1. CASE Same(saved', work')
      BY <1>1, <3>1 DEF Leads, Same
    <3>2. CASE ~At("idle") /\ Same(work, work')
      <4>1. CASE Same(saved, saved')
        BY <1>1, <3>2, <4>1 DEF PromiseInv, Leads, Same
      <4>2. CASE Same(work, saved')
        <5>1. Same(saved', work')
          BY <3>2, <4>2 DEF Same
        <5>2. QED
          BY <1>1, <5>1 DEF Leads, Same
      <4>3. QED
        BY <4>1, <4>2 DEF Move
    <3>3. CASE Same(saved, saved') /\ Leads(saved, work')
      BY <1>1, <3>3 DEF Leads, Same
    <3>4. QED
      BY <1>7, <3>1, <3>2, <3>3 DEF Move
  <2>2. QED
    BY <1>4, <2>1 DEF Leads, LogOf
<1>8. PromiseInv'
  BY <1>6, <1>7 DEF Move, PromiseInv
<1>9. Promise!Publish
  <2>1. [id \in Ids |-> Market(id)]' = [id \in Ids |-> Market(id)]
    BY <1>4
  <2>2. QED
    BY <1>2, <1>3, <1>5, <2>1 DEF Promise!Publish, Promise!MayBecome
<1>10. QED
  BY <1>8, <1>9 DEF PromiseStep, Promise!Next

\* Where the session neither checks, plans nor sends, nothing is asked of it.
LEMMA AtRest ==
  ASSUME run'.pc \in {"idle", "end", "finish"}
  PROVE  AtOrder' /\ Reconciled'
BY DEF AtOrder, Reconciled, At, Before, Sending

\* The session is over, its checkout at most latched, the branch at most the checkout.
LEMMA OverMoves ==
  ASSUME PromiseInv, ~At("idle"), UNCHANGED <<broker, session>>, run' = Over,
         NEW copy, IsState(copy), Same(work, copy), saved' \in {saved, copy},
         work' = copy \/ work' = [copy EXCEPT !.halted = TRUE]
  PROVE  Move
<1>1. IsState(work') /\ Same(work, work') /\ IsState(saved')
  BY DEF IsState, Same, PromiseInv, Shaped
<1>2. Shaped'
  BY <1>1, IdleIsShaped DEF Shaped, PromiseInv
<1>3. AtOrder' /\ Reconciled'
  BY IdleIsShaped, AtRest
<1>4. Same(saved, saved') \/ Same(work, saved')
  BY DEF Same
<1>5. QED
  BY <1>1, <1>2, <1>3, <1>4 DEF Move

LEMMA HaltMoves ==
  ASSUME PromiseInv, ~At("idle"), UNCHANGED <<broker, session>>, Halt(work), saved' \in {saved, work}
  PROVE  Move
BY OverMoves DEF Halt, PromiseInv, Shaped, Same

\* The session moves on; branch and checkout, as far as orders go, stay.
LEMMA StillMoves ==
  ASSUME PromiseInv, ~At("idle"), UNCHANGED <<broker, session>>, saved' \in {saved, work},
         IsState(work'), Same(work, work'), IsProcess(run'), AtOrder', Reconciled'
  PROVE  Move
<1>1. Shaped'
  BY DEF Shaped, PromiseInv
<1>2. Same(saved, saved') \/ Same(work, saved')
  BY DEF Same
<1>3. QED
  BY <1>1, <1>2 DEF Move

-----------------------------------------------------------------------------
LEMMA ConnectMoves ==
  ASSUME PromiseInv, (\E armed \in BOOLEAN : Claim(armed)) \/ PersistLease \/ Login
  PROVE  Move
<1>0. IsState(saved) /\ IsState(work) /\ IsProcess(run)
  BY DEF PromiseInv, Shaped
<1>1. ASSUME NEW armed \in BOOLEAN, Claim(armed)
      PROVE  Move
  <2> DEFINE p == [Idle EXCEPT !.pc = "claimed", !.armed = armed]
             d == [saved EXCEPT !.leases = @ \cup {session}]
  <2>1. run' = p /\ work' = d /\ UNCHANGED <<saved, broker, session>>
    BY <1>1 DEF Claim, AcquireLease, account
  <2> DEFINE q == [Idle EXCEPT !.pc = "claimed"]
             u == [q EXCEPT !.armed = armed]
  <2>a. IsProcess(q) /\ q.pc = "claimed" /\ q.planned = FALSE
    BY IdleIsShaped DEF IsProcess
  <2>b. p = u
    BY IdleIsShaped DEF IsProcess
  <2> HIDE DEF q, p
  <2>2. IsProcess(p) /\ p.pc = "claimed" /\ p.planned = FALSE
    BY <2>a, <2>b DEF IsProcess
  <2>3. IsState(d) /\ Same(saved, d)
    BY <1>0 DEF IsState, Same
  <2> HIDE DEF p, d
  <2>4. Shaped'
    BY <1>0, <2>1, <2>2, <2>3 DEF Shaped, PromiseInv
  <2>5. AtOrder' /\ Reconciled'
    BY <2>1, <2>2 DEF AtOrder, Reconciled, At, Before, Sending
  <2>6. Same(saved, saved')
    BY <2>1 DEF Same
  <2>7. QED
    BY <2>1, <2>3, <2>4, <2>5, <2>6 DEF Move
<1>2. CASE PersistLease
  <2>0. ~At("idle") /\ UNCHANGED <<broker, session>> /\ At("claimed")
    BY <1>2 DEF PersistLease, At, account
  <2>1. CASE saved' = work /\ Goto("login") /\ UNCHANGED work
    <3> DEFINE p == [run EXCEPT !.pc = "login"]
    <3>1. IsProcess(p) /\ p.pc = "login" /\ p.planned = run.planned /\ p.orders = run.orders
      BY <1>0 DEF IsProcess
    <3>2. run' = p
      BY <2>1 DEF Goto
    <3> HIDE DEF p
    <3>3. AtOrder' /\ Reconciled'
      BY <2>0, <3>1, <3>2 DEF PromiseInv, AtOrder, Reconciled, At, Before, Sending
    <3>4. QED
      BY <1>0, <2>0, <2>1, <3>1, <3>2, <3>3, StillMoves DEF Same
  <2>2. CASE saved' \in {saved, work} /\ Halt(work)
    BY <2>0, <2>2, HaltMoves
  <2>3. QED
    BY <1>2, <2>1, <2>2 DEF PersistLease
<1>3. CASE Login
  <2> DEFINE t == OpenRows(work)
             p == [run EXCEPT !.pc = "rows", !.todo = t]
  <2>1. run' = p /\ At("login") /\ UNCHANGED <<saved, work, broker, session>>
    BY <1>3 DEF Login, account
  <2> HIDE DEF t
  <2> DEFINE q == [run EXCEPT !.pc = "rows"]
             u == [q EXCEPT !.todo = t]
  <2>a. IsProcess(q) /\ q.pc = "rows" /\ q.planned = run.planned /\ q.orders = run.orders
    BY <1>0 DEF IsProcess
  <2>b. p = u
    BY <1>0 DEF IsProcess
  <2> HIDE DEF q, p
  <2>2. IsProcess(p) /\ p.pc = "rows" /\ p.todo = t /\ p.planned = run.planned /\ p.orders = run.orders
    BY <2>a, <2>b DEF IsProcess
  <2> HIDE DEF p
  <2>3. AtOrder'
    BY <2>1, <2>2 DEF PromiseInv, AtOrder, At, Before, Sending
  <2>4. Reconciled'
    BY <2>1, <2>2 DEF Reconciled, At, Sending, t, OpenRows
  <2>5. ~At("idle") /\ saved' \in {saved, work} /\ Same(work, work')
    BY <2>1 DEF At, Same
  <2>6. QED
    BY <1>0, <2>1, <2>2, <2>3, <2>4, <2>5, StillMoves
<1>4. QED
  BY <1>1, <1>2, <1>3

-----------------------------------------------------------------------------
LEMMA LookUpMoves ==
  ASSUME PromiseInv, LookUpRow \/ FailToLookUpRow
  PROVE  Move
<1>0. IsState(saved) /\ IsState(work) /\ IsProcess(run) /\ At("rows") /\ ~At("idle")
  BY DEF PromiseInv, Shaped, LookUpRow, FailToLookUpRow, At
<1>1. PICK id : id = Next1(run.todo)
  OBVIOUS
<1>2. CASE LookUpRow
  <2> DEFINE t == run.todo \ {id}
             u == (run.unknown \/ Status(id) = "none")
             p == [run EXCEPT !.todo = t]
             q == [p EXCEPT !.unknown = u]
             d == [work EXCEPT !.rows[id] = "ended"]
  <2>1. /\ id \in run.todo /\ UNCHANGED <<saved, broker, session>>
        /\ run' = [run EXCEPT !.todo = t, !.unknown = u]
        /\ work' = IF Status(id) \in {"filled", "cancelled"} THEN d ELSE work
    BY <1>1, <1>2 DEF LookUpRow, Next1, account
  <2>2. t \subseteq run.todo /\ \A other \in run.todo : other = id \/ other \in t
    OBVIOUS
  <2>3. u \in BOOLEAN /\ (u = TRUE <=> run.unknown \/ Status(id) = "none")
    BY <1>0 DEF IsProcess
  <2>4. Status(id) \in {"filled", "cancelled"} => Market(id) # "live"
    BY DEF Status, BrokerStatus, Market
  <2>5. Status(id) \in {"none", "filled", "cancelled"} \/ Shows(id)
    BY DEF Status, BrokerStatus, Shows
  <2>6. IsState(d) /\ \A other \in Ids : d.rows[other] = IF other = id THEN "ended" ELSE work.rows[other]
    <3> DEFINE e == [work.rows EXCEPT ![id] = "ended"]
               f == [work EXCEPT !.rows = e]
    <3>1. /\ e \in [Ids -> {"none", "open", "ended"}]
          /\ \A other \in Ids : e[other] = IF other = id THEN "ended" ELSE work.rows[other]
      BY <1>0 DEF IsState
    <3>2. d = f
      OBVIOUS
    <3> HIDE DEF d, e
    <3>3. IsState(f) /\ f.rows = e
      BY <1>0, <3>1 DEF IsState
    <3> HIDE DEF f
    <3>4. QED
      BY <3>1, <3>2, <3>3
  <2>7. Leads(saved, work)
    BY <1>0 DEF PromiseInv
  <2>8. Leads(saved, d) \/ Status(id) \notin {"filled", "cancelled"}
    <3>1. SUFFICES ASSUME Market(id) # "live" PROVE Leads(saved, d)
      BY <2>4
    <3>2. \A other : d.intents[other] = work.intents[other] /\ d.book[other] = work.book[other]
      BY <1>0 DEF IsState
    <3>3. ASSUME NEW other \in Ids, other # id
          PROVE  LogOf(d, other) = LogOf(work, other) /\ d.rows[other] = work.rows[other]
      BY <2>6, <3>2, <3>3 DEF LogOf
    <3>4. id \in Ids => LogOf(d, id) = "ended" /\ d.rows[id] # "none"
      BY <2>6 DEF LogOf
    <3>5. \A other \in Ids : LogOf(saved, other) \in {"none", "open", "ended"}
      BY <1>0 DEF IsState, LogOf
    <3>6. QED
      BY <2>7, <3>1, <3>3, <3>4, <3>5 DEF Leads
  <2> HIDE DEF t, u, d
  <2>9. IsProcess(p) /\ p.todo = t /\ p.pc = run.pc /\ p.planned = run.planned /\ p.orders = run.orders
    BY <1>0 DEF IsProcess
  <2>10. run' = q
    BY <1>0, <2>1 DEF IsProcess
  <2> HIDE DEF p
  <2>11. /\ IsProcess(q) /\ q.todo = t /\ q.unknown = u
         /\ q.pc = "rows" /\ q.planned = run.planned /\ q.orders = run.orders
    BY <1>0, <2>3, <2>9 DEF IsProcess, At
  <2> HIDE DEF q
  <2>12. AtOrder'
    BY <1>0, <2>10, <2>11 DEF PromiseInv, AtOrder, At, Before, Sending
  <2>13. Reconciled'
    <3>1. ASSUME NEW other \in OpenRows(work')
          PROVE  Shows(other) \/ other \in t \/ u
      <4>1. other \in OpenRows(work) /\ (other = id => Status(id) \notin {"filled", "cancelled"})
        BY <2>1, <2>6, <3>1 DEF OpenRows
      <4>2. Shows(other) \/ other \in run.todo \/ run.unknown
        BY <1>0, <4>1 DEF PromiseInv, Reconciled
      <4>3. QED
        BY <2>2, <2>3, <2>5, <4>1, <4>2
    <3>2. run'.pc = "rows" /\ run'.todo = t /\ run'.unknown = u /\ broker' = broker
      BY <2>1, <2>10, <2>11
    <3>3. QED
      BY <3>1, <3>2 DEF Reconciled, At, Sending, OpenRows, Shows
  <2>14. Shaped'
    BY <1>0, <2>1, <2>6, <2>10, <2>11 DEF Shaped, PromiseInv
  <2>15. Same(saved, saved') /\ (Same(work, work') \/ Leads(saved, work'))
    BY <2>1, <2>8 DEF Same
  <2>16. QED
    BY <1>0, <2>1, <2>12, <2>13, <2>14, <2>15 DEF Move
<1>3. CASE FailToLookUpRow
  <2> DEFINE t == run.todo \ {id}
             u == TRUE
             p == [run EXCEPT !.todo = t]
             q == [p EXCEPT !.unknown = u]
  <2>1. UNCHANGED <<saved, work, broker, session>> /\ run' = [run EXCEPT !.todo = t, !.unknown = u]
    BY <1>1, <1>3 DEF FailToLookUpRow, account
  <2>u. u \in BOOLEAN /\ (u = TRUE <=> TRUE)
    OBVIOUS
  <2> HIDE DEF t, u
  <2>2. IsProcess(p) /\ p.pc = run.pc /\ p.planned = run.planned /\ p.orders = run.orders
    BY <1>0 DEF IsProcess
  <2>3. run' = q
    BY <1>0, <2>1 DEF IsProcess
  <2> HIDE DEF p
  <2>a. /\ q.unknown = u /\ q.pc = p.pc /\ q.planned = p.planned /\ q.orders = p.orders
        /\ q = [pc |-> p.pc, armed |-> p.armed, todo |-> p.todo, seen |-> p.seen, unknown |-> u,
                 planned |-> p.planned, orders |-> p.orders, clean |-> p.clean, id |-> p.id]
    BY <2>2 DEF IsProcess
  <2>4. /\ IsProcess(q) /\ q.unknown = u
        /\ q.pc = "rows" /\ q.planned = run.planned /\ q.orders = run.orders
    BY <1>0, <2>u, <2>2, <2>a DEF IsProcess, At
  <2> HIDE DEF q
  <2>5. AtOrder' /\ Reconciled'
    BY <1>0, <2>u, <2>1, <2>3, <2>4 DEF PromiseInv, AtOrder, Reconciled, At, Before, Sending
  <2>6. QED
    BY <1>0, <2>1, <2>3, <2>4, <2>5, StillMoves DEF Same
<1>4. QED
  BY <1>2, <1>3

LEMMA BookMoves ==
  ASSUME PromiseInv, RowsKnown \/ LookUpOrder \/ Apply \/ PersistBook
  PROVE  Move
<1>0. IsState(saved) /\ IsState(work) /\ IsProcess(run) /\ ~At("idle") /\ UNCHANGED <<broker, session>>
  BY DEF PromiseInv, Shaped, RowsKnown, LookUpOrder, Apply, PersistBook, At, account
<1>1. run.planned /\ run.pc \in Before => \E t \in Tickers : run.orders[t] # 0
  BY DEF PromiseInv, AtOrder
<1>2. CASE RowsKnown
  <2>1. saved' = saved /\ At("rows") /\ run.todo = {}
    BY <1>2 DEF RowsKnown
  <2>2. CASE run.unknown
    BY <1>0, <1>2, <2>1, <2>2, HaltMoves DEF RowsKnown
  <2>3. CASE ~run.unknown
    <3> DEFINE t == {id \in Ids : work.book[id] # 0 /\ id \notin work.applied}
               p == [run EXCEPT !.pc = "book"]
               q == [p EXCEPT !.seen = {}]
               r == [q EXCEPT !.todo = t]
    <3>1. work' = work /\ run' = [run EXCEPT !.pc = "book", !.seen = {}, !.todo = t]
      BY <1>2, <2>3 DEF RowsKnown
    <3> HIDE DEF t
    <3>2. IsProcess(p) /\ p.pc = "book" /\ p.planned = run.planned /\ p.orders = run.orders
      BY <1>0 DEF IsProcess
    <3>3. run' = r
      BY <1>0, <3>1 DEF IsProcess
    <3> HIDE DEF p
    <3>4. IsProcess(q) /\ q.pc = "book" /\ q.planned = run.planned /\ q.orders = run.orders
      BY <3>2 DEF IsProcess
    <3> HIDE DEF q
    <3>5. IsProcess(r) /\ r.pc = "book" /\ r.planned = run.planned /\ r.orders = run.orders
      BY <3>4 DEF IsProcess
    <3> HIDE DEF r
    <3>6. AtOrder'
      BY <1>1, <2>1, <3>1, <3>3, <3>5 DEF AtOrder, At, Before, Sending
    <3>7. \A id \in OpenRows(work) : Shows(id)
      BY <2>1, <2>3 DEF PromiseInv, Reconciled
    <3>8. Reconciled'
      BY <1>0, <3>1, <3>3, <3>5, <3>7 DEF Reconciled, At, Sending, OpenRows, Shows
    <3>9. QED
      BY <1>0, <2>1, <3>1, <3>3, <3>5, <3>6, <3>8, StillMoves DEF Same
  <2>4. QED
    BY <2>2, <2>3
<1>3. ASSUME NEW id, LookUpOrder, id = Next1(run.todo)
      PROVE  Move
  <2>1. saved' = saved /\ At("book")
    BY <1>3 DEF LookUpOrder
  <2>2. CASE Status(id) = "none"
    BY <1>0, <1>3, <2>1, <2>2, HaltMoves DEF LookUpOrder
  <2>3. CASE Status(id) # "none"
    <3> DEFINE t == run.todo \ {id}
               s == IF Status(id) = "working" THEN run.seen ELSE run.seen \cup {id}
               p == [run EXCEPT !.todo = t]
               q == [p EXCEPT !.seen = s]
    <3>1. work' = work /\ run' = [run EXCEPT !.todo = t, !.seen = s]
      BY <1>3, <2>3 DEF LookUpOrder
    <3> HIDE DEF t, s
    <3>2. IsProcess(p) /\ p.pc = run.pc /\ p.planned = run.planned /\ p.orders = run.orders
      BY <1>0 DEF IsProcess
    <3>3. run' = q
      BY <1>0, <3>1 DEF IsProcess
    <3> HIDE DEF p
    <3>4. IsProcess(q) /\ q.pc = "book" /\ q.planned = run.planned /\ q.orders = run.orders
      BY <2>1, <3>2 DEF IsProcess, At
    <3> HIDE DEF q
    <3>5. AtOrder'
      BY <1>1, <2>1, <3>1, <3>3, <3>4 DEF AtOrder, At, Before, Sending
    <3>6. \A other \in OpenRows(work) : Shows(other)
      BY <2>1 DEF PromiseInv, Reconciled, At
    <3>7. Reconciled'
      BY <1>0, <3>1, <3>3, <3>4, <3>6 DEF Reconciled, At, Sending, OpenRows, Shows
    <3>8. QED
      BY <1>0, <2>1, <3>1, <3>3, <3>4, <3>5, <3>7, StillMoves DEF Same
  <2>4. QED
    BY <2>2, <2>3
<1>4. CASE Apply
  <2> DEFINE a == work.applied \cup run.seen
             h == [t \in Tickers |-> work.positions[t] + Filled(t)]
             d == [work EXCEPT !.applied = a, !.positions = h]
             e == [work EXCEPT !.applied = a]
             f == [e EXCEPT !.positions = h]
             p == [run EXCEPT !.pc = "persist"]
  <2>1. saved' = saved /\ At("book") /\ work' = d /\ run' = p
    BY <1>4 DEF Apply, Goto
  <2> HIDE DEF a, h
  <2>a. IsState(e) /\ Same(work, e)
    BY <1>0 DEF IsState, Same
  <2>b. d = f
    BY <1>0 DEF IsState
  <2> HIDE DEF d, e
  <2>2. IsState(d) /\ Same(work, d)
    BY <2>a, <2>b DEF IsState, Same
  <2>3. IsProcess(p) /\ p.pc = "persist" /\ p.planned = run.planned /\ p.orders = run.orders
    BY <1>0 DEF IsProcess
  <2> HIDE DEF p
  <2>4. AtOrder'
    BY <1>1, <2>1, <2>3 DEF AtOrder, At, Before, Sending
  <2>5. \A other \in OpenRows(work) : Shows(other)
    BY <2>1 DEF PromiseInv, Reconciled, At
  <2>6. Reconciled'
    BY <1>0, <2>1, <2>2, <2>3, <2>5 DEF Reconciled, At, Sending, OpenRows, Shows, Same
  <2>7. QED
    BY <1>0, <2>1, <2>2, <2>3, <2>4, <2>6, StillMoves
<1>5. CASE PersistBook
  <2>1. At("persist")
    BY <1>5 DEF PersistBook
  <2>2. CASE saved' = work /\ work' = work /\ run' = [run EXCEPT !.pc = "check", !.seen = {}]
    <3> DEFINE p == [run EXCEPT !.pc = "check"]
               q == [p EXCEPT !.seen = {}]
    <3>1. IsProcess(p) /\ p.pc = "check" /\ p.planned = run.planned /\ p.orders = run.orders
      BY <1>0 DEF IsProcess
    <3>2. run' = q
      BY <1>0, <2>2 DEF IsProcess
    <3> HIDE DEF p
    <3>3. IsProcess(q) /\ q.pc = "check" /\ q.planned = run.planned /\ q.orders = run.orders
      BY <3>1 DEF IsProcess
    <3> HIDE DEF q
    <3>4. AtOrder'
      BY <1>1, <2>1, <2>2, <3>2, <3>3 DEF AtOrder, At, Before, Sending
    <3>5. \A other \in OpenRows(work) : Shows(other)
      BY <2>1 DEF PromiseInv, Reconciled, At
    <3>6. Reconciled'
      BY <1>0, <2>2, <3>2, <3>3, <3>5 DEF Reconciled, At, Sending, OpenRows, Shows
    <3>7. QED
      BY <1>0, <2>2, <3>2, <3>3, <3>4, <3>6, StillMoves DEF Same
  <2>3. CASE saved' \in {saved, work} /\ Halt(work)
    BY <1>0, <2>3, HaltMoves
  <2>4. QED
    BY <1>5, <2>2, <2>3 DEF PersistBook
<1>6. QED
  BY <1>2, <1>3, <1>4, <1>5

LEMMA CheckMoves ==
  ASSUME PromiseInv, Check \/ Refuse
  PROVE  Move
<1>0. /\ IsState(saved) /\ IsState(work) /\ IsProcess(run) /\ ~At("idle")
      /\ UNCHANGED <<saved, broker, session>>
  BY DEF PromiseInv, Shaped, Check, Refuse, At, account
<1>1. CASE Refuse
  BY <1>0, <1>1, OverMoves DEF Refuse, Same
<1>2. CASE Check /\ ~Ownership
  BY <1>0, <1>2, HaltMoves DEF Check
<1>3. ASSUME Check, Ownership
      PROVE  Move
  <2>1. PICK pc : pc = IF run.planned THEN "order" ELSE "plan"
    OBVIOUS
  <2> DEFINE p == [run EXCEPT !.pc = pc]
  <2>2. work' = work /\ run' = p /\ At("check")
    BY <1>3, <2>1 DEF Check, Goto
  <2>3. IsProcess(p) /\ p.pc = pc /\ p.planned = run.planned /\ p.orders = run.orders
    BY <1>0 DEF IsProcess
  <2> HIDE DEF p
  <2>4. run.planned => \E t \in Tickers : run.orders[t] # 0
    BY <2>2 DEF PromiseInv, AtOrder, At, Before
  <2>5. AtOrder'
    BY <2>1, <2>2, <2>3, <2>4 DEF AtOrder, At, Before, Sending
  <2>6. \A other \in OpenRows(work) : Shows(other)
    BY <2>2 DEF PromiseInv, Reconciled, At
  <2>7. Reconciled'
    BY <1>0, <2>1, <2>2, <2>3, <2>6 DEF Reconciled, At, Sending, OpenRows, Shows
  <2>8. QED
    BY <1>0, <2>2, <2>3, <2>5, <2>7, StillMoves DEF Same
<1>4. QED
  BY <1>1, <1>2, <1>3

-----------------------------------------------------------------------------
\* On to the next order, by way of a reconciliation, or done.
LEMMA NextTurn ==
  ASSUME NEW m, IsProcess(m), run' = NextOrOver(m)
  PROVE  IsProcess(run') /\ AtOrder' /\ Reconciled'
<1> DEFINE t == OpenRows(work')
           b == TRUE
           n == NoId
<1>b. b \in BOOLEAN /\ (b = TRUE <=> TRUE)
  OBVIOUS
<1>1. CASE \E s \in Tickers : m.orders[s] # 0
  <2>1. run' = [m EXCEPT !.pc = "rows", !.todo = t, !.planned = b, !.id = n]
    BY <1>1 DEF NextOrOver
  <2>2. \A id \in OpenRows(work') : id \in t
    OBVIOUS
  <2> HIDE DEF t, b, n
  <2>3. run' = [pc |-> "rows", armed |-> m.armed, todo |-> t, seen |-> m.seen, unknown |-> m.unknown,
                planned |-> b, orders |-> m.orders, clean |-> m.clean, id |-> n]
    BY <2>1 DEF IsProcess
  <2>4. IsProcess(run') /\ run'.pc = "rows" /\ run'.todo = t /\ run'.orders = m.orders
    BY <1>b, <2>3 DEF IsProcess
  <2>5. AtOrder'
    BY <1>1, <2>4 DEF AtOrder, At, Before, Sending
  <2>6. Reconciled'
    BY <2>2, <2>4 DEF Reconciled, At, Sending, OpenRows
  <2>7. QED
    BY <2>4, <2>5, <2>6
<1>2. CASE ~ \E s \in Tickers : m.orders[s] # 0
  <2>1. run' = [m EXCEPT !.pc = "finish", !.id = n]
    BY <1>2 DEF NextOrOver
  <2> HIDE DEF n
  <2>2. run' = [pc |-> "finish", armed |-> m.armed, todo |-> m.todo, seen |-> m.seen, unknown |-> m.unknown,
                planned |-> m.planned, orders |-> m.orders, clean |-> m.clean, id |-> n]
    BY <2>1 DEF IsProcess
  <2>3. IsProcess(run') /\ run'.pc = "finish"
    BY <2>2 DEF IsProcess
  <2>4. QED
    BY <2>3, AtRest
<1>3. QED
  BY <1>1, <1>2

LEMMA PlanUpdate ==
  ASSUME NEW r, IsProcess(r), NEW o \in [Tickers -> Int], NEW c
  PROVE  IsProcess([r EXCEPT !.orders = o, !.clean = c])
<1> DEFINE q == [r EXCEPT !.orders = o]
           m == [q EXCEPT !.clean = c]
<1>1. q = [pc |-> r.pc, armed |-> r.armed, todo |-> r.todo, seen |-> r.seen, unknown |-> r.unknown,
           planned |-> r.planned, orders |-> o, clean |-> r.clean, id |-> r.id]
  BY DEF IsProcess
<1>2. IsProcess(q)
  BY <1>1 DEF IsProcess
<1>3. [r EXCEPT !.orders = o, !.clean = c] = m
  BY DEF IsProcess
<1> HIDE DEF q
<1>4. IsProcess(m)
  BY <1>2 DEF IsProcess
<1>5. QED
  BY <1>3, <1>4

LEMMA UpdateStays ==
  ASSUME NEW S, NEW T, NEW f \in [S -> T], NEW k, NEW v \in T
  PROVE  [f EXCEPT ![k] = v] \in [S -> T]
OBVIOUS

LEMMA DealtTurn ==
  ASSUME IsProcess(run), NEW id, NEW submitted \in BOOLEAN, run' = Dealt(id, submitted)
  PROVE  IsProcess(run') /\ AtOrder' /\ Reconciled'
<1> DEFINE o == [run.orders EXCEPT ![id[2]] = 0]
           c == (run.clean /\ submitted)
           m == [run EXCEPT !.orders = o, !.clean = c]
<1>1. run' = NextOrOver(m)
  BY DEF Dealt
<1>2. o \in [Tickers -> Int]
  <2>1. PICK k : k = id[2]
    OBVIOUS
  <2>2. PICK f : f = run.orders
    OBVIOUS
  <2>3. f \in [Tickers -> Int]
    BY <2>2 DEF IsProcess
  <2>4. [f EXCEPT ![k] = 0] \in [Tickers -> Int]
    BY <2>3, UpdateStays
  <2>5. QED
    BY <2>1, <2>2, <2>4
<1> HIDE DEF o, c
<1>4. IsProcess(m)
  BY <1>2, PlanUpdate
<1> HIDE DEF m
<1>5. QED
  BY <1>1, <1>4, NextTurn

\* The session goes on with its plan; the checkout may have left the branch behind.
LEMMA AheadMoves ==
  ASSUME PromiseInv, ~At("idle"), UNCHANGED <<saved, broker, session>>,
         IsState(work'), Same(work, work') \/ Leads(saved, work'), IsProcess(run'), AtOrder', Reconciled'
  PROVE  Move
<1>1. Shaped'
  BY DEF Shaped, PromiseInv
<1>2. Same(saved, saved')
  BY DEF Same
<1>3. QED
  BY <1>1, <1>2 DEF Move

\* The order id at the head of the plan is one the session owes.
LEMMA NextOrderOwed ==
  ASSUME PromiseInv, At("order"), NEW id, id = NextOrder
  PROVE  id \in Ids /\ id[1] = session /\ Quantity(id) > 0
<1> DEFINE owed == {x \in Ids : x[1] = session /\ Quantity(x) > 0}
<1>1. PICK t \in Tickers : run.orders[t] # 0
  BY DEF PromiseInv, AtOrder, At, Before
<1>2. run.orders[t] \in Int /\ session \in Sessions
  BY DEF PromiseInv, Shaped, IsProcess
<1>3. CASE run.orders[t] > 0
  <2>1. <<session, t, "buy">> \in owed
    BY <1>2, <1>3 DEF Ids, Quantity, Signed
  <2>2. QED
    BY <2>1 DEF NextOrder, Next1
<1>4. CASE run.orders[t] < 0
  <2>1. <<session, t, "sell">> \in owed
    BY <1>2, <1>4 DEF Ids, Quantity, Signed
  <2>2. QED
    BY <2>1 DEF NextOrder, Next1
<1>5. QED
  BY <1>1, <1>2, <1>3, <1>4

LEMMA PlanMoves ==
  ASSUME PromiseInv,
         (\E orders \in Plans, clean \in BOOLEAN : Plan(orders, clean)) \/ Deny
  PROVE  Move
<1>0. IsState(work) /\ IsProcess(run)
  BY DEF PromiseInv, Shaped
<1>1. ASSUME NEW orders \in Plans, NEW clean \in BOOLEAN, Plan(orders, clean)
      PROVE  Move
  <2> DEFINE c == (work.executed # DecisionAt[session] /\ clean)
             m == [run EXCEPT !.orders = orders, !.clean = c]
  <2>1. ~At("idle") /\ UNCHANGED <<saved, work, broker, session>> /\ run' = NextOrOver(m)
    BY <1>1 DEF Plan, At, account
  <2> HIDE DEF c
  <2>3. orders \in [Tickers -> Int]
    BY FidelityAssumption
  <2>4. IsProcess(m)
    BY <1>0, <2>3, PlanUpdate
  <2> HIDE DEF m
  <2>5. QED
    BY <1>0, <2>1, <2>4, NextTurn, AheadMoves DEF Same
<1>2. ASSUME Deny, NEW id, id = NextOrder
      PROVE  Move
  <2>1. ~At("idle") /\ UNCHANGED <<saved, work, broker, session>> /\ run' = Dealt(id, FALSE)
    BY <1>2 DEF Deny, At, account
  <2>2. QED
    BY <1>0, <2>1, DealtTurn, AheadMoves DEF Same
<1>3. QED
  BY <1>1, <1>2

\* A row, an intent or a book entry is written of an order the branch does not know.
LEMMA WriteLeads ==
  ASSUME PromiseInv, ~At("idle"), NEW id \in Ids, NEW d, d.rows[id] # "none",
         saved.rows[id] = "none", LogOf(d, id) \in {"none", "open"},
         \A other \in Ids \ {id} : LogOf(d, other) = LogOf(work, other) /\ d.rows[other] = work.rows[other]
  PROVE  Leads(saved, d)
<1>1. LogOf(saved, id) = "none"
  BY DEF LogOf
<1>2. QED
  BY <1>1 DEF PromiseInv, Leads

LEMMA ReserveMoves ==
  ASSUME PromiseInv, Reserve
  PROVE  Move
<1>0. /\ IsState(saved) /\ IsState(work) /\ IsProcess(run) /\ At("order") /\ ~At("idle")
      /\ UNCHANGED <<saved, broker, session>>
  BY DEF PromiseInv, Shaped, Reserve, At, account
<1>1. PICK id : id = NextOrder
  OBVIOUS
<1> DEFINE e == [work.rows EXCEPT ![id] = "open"]
           d == [work EXCEPT !.rows = e]
           p == [run EXCEPT !.pc = "send"]
           q == [p EXCEPT !.id = id]
<1>2. work' = d /\ run' = [run EXCEPT !.pc = "send", !.id = id] /\ work.rows[id] = "none"
  BY <1>1 DEF Reserve
<1>3. id \in Ids /\ Quantity(id) > 0
  BY <1>0, <1>1, NextOrderOwed
<1>4. /\ e \in [Ids -> {"none", "open", "ended"}]
      /\ \A other \in Ids : e[other] = IF other = id THEN "open" ELSE work.rows[other]
  BY <1>0 DEF IsState
<1> HIDE DEF e
<1>5. IsState(d) /\ d.rows = e /\ d.intents = work.intents /\ d.book = work.book
  BY <1>0, <1>4 DEF IsState
<1> HIDE DEF d
<1>6. saved.rows[id] = "none"
  BY <1>0, <1>2, <1>3 DEF PromiseInv, Leads
<1>7. broker[id].quantity = 0
  BY <1>3, <1>6 DEF PromiseInv, Log
<1>8. Leads(saved, d)
  <2>1. d.rows[id] # "none" /\ LogOf(d, id) \in {"none", "open"}
    BY <1>3, <1>4, <1>5 DEF LogOf
  <2>2. \A other \in Ids \ {id} : LogOf(d, other) = LogOf(work, other) /\ d.rows[other] = work.rows[other]
    BY <1>4, <1>5 DEF LogOf
  <2>3. QED
    BY <1>0, <1>3, <1>6, <2>1, <2>2, WriteLeads
<1>9. IsProcess(p) /\ p.pc = "send" /\ p.orders = run.orders
  BY <1>0 DEF IsProcess
<1>10. run' = q
  BY <1>0, <1>2 DEF IsProcess
<1> HIDE DEF p
<1>11. IsProcess(q) /\ q.pc = "send" /\ q.orders = run.orders /\ q.id = id
  BY <1>9 DEF IsProcess
<1> HIDE DEF q
<1>12. AtOrder'
  <2>1. Signed(id, run.orders[id[2]]) # 0
    BY <1>3 DEF Quantity
  <2>2. run'.id \in Ids /\ work'.rows[run'.id] = "open" /\ saved'.rows[run'.id] = "none" /\ broker'[run'.id].quantity = 0
    BY <1>0, <1>2, <1>3, <1>4, <1>5, <1>6, <1>7, <1>10, <1>11
  <2>3. QED
    BY <1>10, <1>11, <2>1, <2>2 DEF AtOrder, At, Before, Sending, Quantity
<1>13. Reconciled'
  <2>1. \A other \in OpenRows(work) : Shows(other)
    BY <1>0 DEF PromiseInv, Reconciled, At
  <2>2. \A other \in Ids \ {id} : d.rows[other] = "open" => Shows(other)
    BY <1>4, <1>5, <2>1 DEF OpenRows
  <2>3. QED
    BY <1>0, <1>2, <1>10, <1>11, <2>2 DEF Reconciled, At, Sending, OpenRows, Shows
<1>14. QED
  BY <1>0, <1>2, <1>5, <1>8, <1>10, <1>11, <1>12, <1>13, AheadMoves

\* An order that never was sent is entered in the checkout's book, recorded with its
\* intent, or released.
LEMMA WriteMoves ==
  ASSUME PromiseInv, PreviewOnly \/ EnterOrder \/ RecordIntent
  PROVE  Move
<1>0. /\ IsState(saved) /\ IsState(work) /\ IsProcess(run) /\ run.pc \in {"send", "submit"} /\ ~At("idle")
      /\ UNCHANGED <<saved, broker, session>>
  BY DEF PromiseInv, Shaped, PreviewOnly, EnterOrder, RecordIntent, At, account
<1>1. PICK id : id = run.id
  OBVIOUS
<1>2. PICK n : n = Quantity(id)
  OBVIOUS
<1>3. /\ id \in Ids /\ work.rows[id] = "open" /\ saved.rows[id] = "none"
      /\ broker[id].quantity = 0 /\ n # 0 /\ (At("submit") => work.book[id] = n)
  BY <1>0, <1>1, <1>2 DEF PromiseInv, AtOrder, Sending, At
<1>4. n = Signed(id, run.orders[id[2]])
  BY <1>2 DEF Quantity
<1>5. \A other \in OpenRows(work) \ {id} : Shows(other)
  BY <1>0, <1>1 DEF PromiseInv, Reconciled, Sending
<1>6. CASE PreviewOnly
  <2> DEFINE e == [work.rows EXCEPT ![id] = "ended"]
             d == [work EXCEPT !.rows = e]
  <2>1. work' = d /\ run' = Dealt(id, FALSE)
    BY <1>1, <1>6 DEF PreviewOnly
  <2>2. /\ e \in [Ids -> {"none", "open", "ended"}]
        /\ \A other \in Ids : e[other] = IF other = id THEN "ended" ELSE work.rows[other]
    BY <1>0 DEF IsState
  <2> HIDE DEF e
  <2>3. IsState(d) /\ d.rows = e /\ d.intents = work.intents /\ d.book = work.book
    BY <1>0, <2>2 DEF IsState
  <2> HIDE DEF d
  <2>4. Leads(saved, d)
    <3>1. d.rows[id] # "none" /\ LogOf(d, id) = "ended" /\ Market(id) = "none"
      BY <1>3, <2>2, <2>3 DEF LogOf, Market
    <3>2. \A other \in Ids \ {id} : LogOf(d, other) = LogOf(work, other) /\ d.rows[other] = work.rows[other]
      BY <2>2, <2>3 DEF LogOf
    <3>3. Leads(saved, work) /\ LogOf(saved, id) \in {"none", "open", "ended"}
      BY <1>0, <1>3 DEF PromiseInv, IsState, LogOf
    <3>4. QED
      BY <3>1, <3>2, <3>3 DEF Leads
  <2>5. QED
    BY <1>0, <2>1, <2>3, <2>4, DealtTurn, AheadMoves
<1>7. CASE EnterOrder
  <2> DEFINE e == [work.book EXCEPT ![id] = n]
             d == [work EXCEPT !.book = e]
             p == [run EXCEPT !.pc = "submit"]
  <2>1. work' = d /\ run' = p /\ At("send")
    BY <1>1, <1>2, <1>7 DEF EnterOrder, Goto
  <2>2. e = [other \in Ids |-> e[other]] /\ \A other \in Ids : e[other] = IF other = id THEN n ELSE work.book[other]
    BY <1>0 DEF IsState
  <2> HIDE DEF e
  <2>3. IsState(d) /\ d.rows = work.rows /\ d.intents = work.intents /\ d.book = e
    BY <1>0, <2>2 DEF IsState
  <2> HIDE DEF d
  <2>4. Leads(saved, d)
    <3>1. d.rows[id] # "none" /\ LogOf(d, id) \in {"none", "open"}
      BY <1>3, <2>3 DEF LogOf
    <3>2. \A other \in Ids \ {id} : LogOf(d, other) = LogOf(work, other) /\ d.rows[other] = work.rows[other]
      BY <2>2, <2>3 DEF LogOf
    <3>3. QED
      BY <1>0, <1>3, <3>1, <3>2, WriteLeads
  <2>5. IsProcess(p) /\ p.pc = "submit" /\ p.orders = run.orders /\ p.id = id
    BY <1>0, <1>1 DEF IsProcess
  <2> HIDE DEF p
  <2>6. work'.book[id] = n
    BY <1>3, <2>1, <2>2, <2>3
  <2>7. AtOrder'
    BY <1>0, <1>3, <1>4, <2>1, <2>3, <2>5, <2>6 DEF AtOrder, At, Before, Sending, Quantity
  <2>8. Reconciled'
    BY <1>0, <1>5, <2>1, <2>3, <2>5 DEF Reconciled, At, Sending, OpenRows, Shows
  <2>9. QED
    BY <1>0, <2>1, <2>3, <2>4, <2>5, <2>7, <2>8, AheadMoves
<1>8. CASE RecordIntent
  <2> DEFINE e == [work.intents EXCEPT ![id] = n]
             d == [work EXCEPT !.intents = e]
             p == [run EXCEPT !.pc = "durable"]
  <2>1. work' = d /\ run' = p /\ At("submit")
    BY <1>1, <1>2, <1>8 DEF RecordIntent, Goto
  <2>2. e = [other \in Ids |-> e[other]] /\ \A other \in Ids : e[other] = IF other = id THEN n ELSE work.intents[other]
    BY <1>0 DEF IsState
  <2> HIDE DEF e
  <2>3. IsState(d) /\ d.rows = work.rows /\ d.intents = e /\ d.book = work.book
    BY <1>0, <2>2 DEF IsState
  <2> HIDE DEF d
  <2>4. Leads(saved, d)
    <3>1. d.rows[id] # "none" /\ LogOf(d, id) \in {"none", "open"}
      BY <1>3, <2>3 DEF LogOf
    <3>2. \A other \in Ids \ {id} : LogOf(d, other) = LogOf(work, other) /\ d.rows[other] = work.rows[other]
      BY <2>2, <2>3 DEF LogOf
    <3>3. QED
      BY <1>0, <1>3, <3>1, <3>2, WriteLeads
  <2>5. IsProcess(p) /\ p.pc = "durable" /\ p.orders = run.orders /\ p.id = id
    BY <1>0, <1>1 DEF IsProcess
  <2> HIDE DEF p
  <2>6. work'.book[id] = n /\ work'.intents[id] = n
    BY <1>3, <2>1, <2>2, <2>3
  <2>7. AtOrder'
    BY <1>0, <1>3, <1>4, <2>1, <2>3, <2>5, <2>6 DEF AtOrder, At, Before, Sending, Quantity
  <2>8. Reconciled'
    BY <1>0, <1>5, <2>1, <2>3, <2>5 DEF Reconciled, At, Sending, OpenRows, Shows
  <2>9. QED
    BY <1>0, <2>1, <2>3, <2>4, <2>5, <2>7, <2>8, AheadMoves
<1>9. QED
  BY <1>6, <1>7, <1>8

LEMMA FinishMoves ==
  ASSUME PromiseInv, PersistIntent \/ Finish
  PROVE  Move
<1>0. /\ IsState(saved) /\ IsState(work) /\ IsProcess(run) /\ ~At("idle")
      /\ UNCHANGED <<broker, session>>
  BY DEF PromiseInv, Shaped, PersistIntent, Finish, At, account
<1>1. CASE PersistIntent
  <2>1. CASE saved' = work /\ Goto("place") /\ UNCHANGED work
    <3> DEFINE p == [run EXCEPT !.pc = "place"]
    <3>1. IsProcess(p) /\ p.pc = "place" /\ p.orders = run.orders /\ p.id = run.id
      BY <1>0 DEF IsProcess
    <3>2. run' = p
      BY <2>1 DEF Goto
    <3> HIDE DEF p
    <3>3. At("durable")
      BY <1>1 DEF PersistIntent
    <3>4. PICK id : id = run.id
      OBVIOUS
    <3>5. PICK n : n = Quantity(id)
      OBVIOUS
    <3>6. /\ id \in Ids /\ work.rows[id] = "open" /\ broker[id].quantity = 0
          /\ n # 0 /\ work.book[id] = n /\ work.intents[id] = n
      BY <3>3, <3>4, <3>5 DEF PromiseInv, AtOrder, Sending, At
    <3>7. n = Signed(id, run.orders[id[2]])
      BY <3>5 DEF Quantity
    <3>8. AtOrder'
      BY <1>0, <2>1, <3>1, <3>2, <3>4, <3>6, <3>7 DEF AtOrder, At, Before, Sending, Quantity, Same
    <3>9. \A other \in OpenRows(work) \ {id} : Shows(other)
      BY <3>3, <3>4 DEF PromiseInv, Reconciled, Sending, At
    <3>10. Reconciled'
      BY <1>0, <2>1, <3>1, <3>2, <3>4, <3>9 DEF Reconciled, At, Sending, OpenRows, Shows
    <3>11. QED
      BY <1>0, <2>1, <3>1, <3>2, <3>8, <3>10, StillMoves DEF Same
  <2>2. CASE saved' \in {saved, work} /\ Halt(work)
    BY <1>0, <2>2, HaltMoves
  <2>3. QED
    BY <1>1, <2>1, <2>2 DEF PersistIntent
<1>2. CASE Finish
  <2> DEFINE d == IF run.armed /\ run.clean THEN [work EXCEPT !.executed = DecisionAt[session]] ELSE work
  <2>1. IsState(d) /\ Same(work, d)
    <3>1. PICK x : x = DecisionAt[session]
      OBVIOUS
    <3>2. IsState([work EXCEPT !.executed = x]) /\ Same(work, [work EXCEPT !.executed = x])
      BY <1>0 DEF IsState, Same
    <3>3. QED
      BY <1>0, <3>1, <3>2 DEF Same
  <2>2. /\ saved' \in {saved, d} /\ run' = Over
        /\ work' = d \/ work' = [d EXCEPT !.halted = TRUE]
    BY <1>2 DEF Finish, Halt
  <2> HIDE DEF d
  <2>3. PICK c : c = d
    OBVIOUS
  <2>4. QED
    BY <1>0, <2>1, <2>2, <2>3, OverMoves
<1>3. QED
  BY <1>1, <1>2

\* The order at hand leaves: it was never sent, and the branch says that it may exist.
LEMMA PlacePromised ==
  ASSUME PromiseInv, Place \/ \E arrives \in {"none", "delayed", "working"} : PlaceUnknown(arrives)
  PROVE  PromiseInv' /\ PromiseStep
<1>0. /\ IsState(saved) /\ IsState(work) /\ IsProcess(run) /\ At("place") /\ ~At("idle")
      /\ UNCHANGED <<saved, session>>
  BY DEF PromiseInv, Shaped, Place, PlaceUnknown, At
<1>1. PICK id : id = run.id
  OBVIOUS
<1>2. PICK n : n = work.intents[id]
  OBVIOUS
<1>3. /\ id \in Ids /\ n # 0 /\ broker[id].quantity = 0 /\ work.rows[id] = "open"
      /\ work.book[id] = n /\ work.intents[id] = n /\ Same(saved, work)
  BY <1>0, <1>1, <1>2 DEF PromiseInv, AtOrder, Sending, At
<1>4. PICK state \in {"none", "delayed", "working"} : Placed(id, state)
  BY <1>1 DEF Place, PlaceUnknown
<1> DEFINE o == [state |-> state, quantity |-> n, filled |-> 0]
           b == [broker EXCEPT ![id] = o]
<1>5. broker' = b
  BY <1>2, <1>4 DEF Placed
<1>6. o.state = state /\ o.quantity = n /\ IsOrder(o)
  BY DEF IsOrder
<1> HIDE DEF o
<1>7. b = [other \in Ids |-> b[other]] /\ \A other \in Ids : b[other] = IF other = id THEN o ELSE broker[other]
  BY DEF PromiseInv, Shaped
<1> HIDE DEF b
<1>8. IsProcess(run') /\ AtOrder' /\ Reconciled'
  <2>1. CASE Place
    BY <1>0, <1>1, <2>1, DealtTurn DEF Place
  <2>2. CASE \E arrives \in {"none", "delayed", "working"} : PlaceUnknown(arrives)
    BY <2>2, IdleIsShaped, AtRest DEF PlaceUnknown, Halt
  <2>3. QED
    BY <2>1, <2>2
<1>9. IsState(work') /\ Same(work, work')
  BY <1>0 DEF Place, PlaceUnknown, Halt, IsState, Same
<1>10. Shaped'
  <2>1. \A other \in Ids : IsOrder(b[other])
    BY <1>6, <1>7 DEF PromiseInv, Shaped
  <2>2. QED
    BY <1>0, <1>5, <1>7, <1>8, <1>9, <2>1 DEF Shaped, PromiseInv
<1>11. /\ Log(id) = "open" /\ Market(id) = "none" /\ Market(id)' \in {"live", "done"}
       /\ \A other \in Ids : Log(other)' = Log(other)
       /\ \A other \in Ids \ {id} : Market(other)' = Market(other)
  <2>1. Log(id) = "open"
    BY <1>3 DEF Log, Same
  <2>2. Market(id) = "none"
    BY <1>3 DEF Market
  <2>3. broker'[id] = o /\ \A other \in Ids \ {id} : broker'[other] = broker[other]
    BY <1>3, <1>5, <1>7
  <2>4. Market(id)' \in {"live", "done"}
    BY <1>3, <1>6, <2>3 DEF Market
  <2>5. QED
    BY <1>0, <2>1, <2>2, <2>3, <2>4 DEF Log, Market
<1>12. \A other \in Ids : broker'[other].quantity # 0 => Log(other)' # "none"
  BY <1>3, <1>5, <1>7, <1>11 DEF PromiseInv
<1>13. Leads(saved, work)'
  <2>1. Same(saved', work')
    BY <1>0, <1>3, <1>9 DEF Same
  <2>2. QED
    BY <2>1 DEF Leads, LogOf, Same
<1>14. PromiseInv'
  BY <1>8, <1>10, <1>12, <1>13 DEF PromiseInv
<1>15. Promise!Place(id)
  <2> DEFINE market == [other \in Ids |-> Market(other)]
             m == [other \in Ids |-> Market(other)']
  <2>1. market' = m
    OBVIOUS
  <2>2. PICK z \in {"live", "done"} : z = Market(id)'
    BY <1>11
  <2>3. m = [market EXCEPT ![id] = z]
    BY <1>3, <1>11, <2>2
  <2>4. UNCHANGED [other \in Ids |-> Log(other)]
    BY <1>11
  <2>5. QED
    BY <1>3, <1>11, <2>1, <2>2, <2>3, <2>4 DEF Promise!Place
<1>16. QED
  BY <1>3, <1>14, <1>15 DEF PromiseStep, Promise!Next

\* The broker works on an order that it got.
LEMMA BrokerWorks ==
  ASSUME PromiseInv, NEW id \in Ids,
         FillOne(id) \/ Expire(id) \/ \E s \in {"none", "working"} : Arrive(id, s)
  PROVE  /\ broker' = [other \in Ids |-> broker'[other]]
         /\ \A other \in Ids \ {id} : broker'[other] = broker[other]
         /\ IsOrder(broker'[id]) /\ broker'[id].quantity = broker[id].quantity
         /\ broker[id].state \in {"delayed", "working"}
         /\ broker'[id].state \in {"none", "working", "ended"}
         /\ Shows(id) => broker'[id].state \in {"working", "ended"}
<1>0. broker = [other \in Ids |-> broker[other]]
  BY DEF PromiseInv, Shaped
<1>1. PICK o : o = broker[id]
  OBVIOUS
<1>2. o = [state |-> o.state, quantity |-> o.quantity, filled |-> o.filled]
  BY <1>1 DEF PromiseInv, Shaped, IsOrder
<1>3. ASSUME NEW s, broker' = [broker EXCEPT ![id].state = s]
      PROVE  /\ broker' = [other \in Ids |-> broker'[other]]
             /\ \A other \in Ids \ {id} : broker'[other] = broker[other]
             /\ broker'[id] = [o EXCEPT !.state = s]
  BY <1>0, <1>1, <1>3
<1>4. ASSUME NEW s
      PROVE  IsOrder([o EXCEPT !.state = s]) /\ [o EXCEPT !.state = s].quantity = o.quantity
             /\ [o EXCEPT !.state = s].state = s
  BY <1>2 DEF IsOrder
<1>5. CASE Expire(id)
  BY <1>1, <1>3, <1>4, <1>5 DEF Expire, Shows
<1>6. ASSUME NEW s \in {"none", "working"}, Arrive(id, s)
      PROVE  /\ broker' = [other \in Ids |-> broker'[other]]
             /\ \A other \in Ids \ {id} : broker'[other] = broker[other]
             /\ IsOrder(broker'[id]) /\ broker'[id].quantity = broker[id].quantity
             /\ broker[id].state \in {"delayed", "working"}
             /\ broker'[id].state \in {"none", "working", "ended"}
             /\ Shows(id) => broker'[id].state \in {"working", "ended"}
  <2>1. o.state = "delayed" /\ broker' = [broker EXCEPT ![id].state = s]
    BY <1>1, <1>6 DEF Arrive
  <2>2. PICK q : q = [o EXCEPT !.state = s]
    OBVIOUS
  <2>3. broker'[id] = q /\ IsOrder(q) /\ q.quantity = o.quantity /\ q.state = s
    BY <1>3, <1>4, <2>1, <2>2
  <2>4. QED
    BY <1>1, <1>3, <2>1, <2>3 DEF Shows
<1>7. CASE FillOne(id)
  <2> DEFINE n == o.filled + 1
             s == IF o.filled + 1 = o.quantity THEN "ended" ELSE o.state
             p == [o EXCEPT !.filled = n]
             q == [p EXCEPT !.state = s]
             b == [broker EXCEPT ![id] = q]
  <2>1. o.state = "working"
    BY <1>1, <1>7 DEF FillOne
  <2>2. broker' = b
    <3>1. broker' = [broker EXCEPT ![id].filled = n, ![id].state = s]
      BY <1>1, <1>7 DEF FillOne
    <3> HIDE DEF n, s
    <3>2. QED
      BY <1>0, <1>1, <3>1
  <2>3. s \in {"working", "ended"}
    BY <2>1
  <2> HIDE DEF n, s
  <2>4. p = [state |-> o.state, quantity |-> o.quantity, filled |-> n]
    BY <1>2
  <2> HIDE DEF p
  <2>5. q = [state |-> s, quantity |-> o.quantity, filled |-> n]
    BY <2>4
  <2> HIDE DEF q
  <2>6. IsOrder(q) /\ q.quantity = o.quantity /\ q.state = s
    BY <2>5 DEF IsOrder
  <2>7. b = [other \in Ids |-> b[other]] /\ \A other \in Ids : b[other] = IF other = id THEN q ELSE broker[other]
    BY <1>0
  <2> HIDE DEF b
  <2>8. QED
    BY <1>1, <2>1, <2>2, <2>3, <2>6, <2>7 DEF Shows
<1>8. QED
  BY <1>5, <1>6, <1>7

\* ... and so keeps the promise.
LEMMA BrokerPromised ==
  ASSUME PromiseInv, NEW id \in Ids,
         FillOne(id) \/ Expire(id) \/ \E s \in {"none", "working"} : Arrive(id, s)
  PROVE  PromiseInv' /\ PromiseStep /\ \A other \in Ids : broker'[other].quantity = broker[other].quantity
<1>0. UNCHANGED <<saved, work, run, session>>
  BY DEF FillOne, Expire, Arrive
<1>1. /\ broker' = [other \in Ids |-> broker'[other]]
      /\ \A other \in Ids \ {id} : broker'[other] = broker[other]
      /\ IsOrder(broker'[id]) /\ broker'[id].quantity = broker[id].quantity
      /\ broker[id].state \in {"delayed", "working"}
      /\ broker'[id].state \in {"none", "working", "ended"}
      /\ Shows(id) => broker'[id].state \in {"working", "ended"}
  BY BrokerWorks
<1>2. Shaped'
  BY <1>0, <1>1 DEF PromiseInv, Shaped
<1>3. \A other \in Ids :
        /\ broker'[other].quantity = broker[other].quantity /\ Log(other)' = Log(other)
        /\ Shows(other) => Shows(other)'
        /\ other # id => Market(other)' = Market(other)
  BY <1>0, <1>1 DEF Log, Shows, Market
<1>4. \/ Market(id) = "none" /\ Market(id)' = "none"
      \/ Market(id) = "live" /\ Market(id)' \in {"live", "done"}
  BY <1>1 DEF Market
<1>5. ~At("idle")' => Leads(saved, work)'
  BY <1>0, <1>3, <1>4 DEF PromiseInv, At, Leads, LogOf
<1>6. AtOrder'
  BY <1>0, <1>3 DEF PromiseInv, AtOrder, At, Same, Quantity
<1>7. Reconciled'
  <2>1. OpenRows(work)' = OpenRows(work) /\ OpenRows(work) \subseteq Ids
    BY <1>0 DEF OpenRows
  <2>2. QED
    BY <1>0, <1>3, <2>1 DEF PromiseInv, Reconciled, At
<1>8. PromiseInv'
  BY <1>2, <1>3, <1>5, <1>6, <1>7 DEF PromiseInv
<1>9. PromiseStep
  <2> DEFINE market == [other \in Ids |-> Market(other)]
             m == [other \in Ids |-> Market(other)']
  <2>1. market' = m /\ UNCHANGED [other \in Ids |-> Log(other)]
    BY <1>3
  <2>2. CASE Market(id)' = Market(id)
    <3>1. market' = market
      BY <1>3, <2>1, <2>2
    <3>2. QED
      BY <2>1, <3>1 DEF PromiseStep
  <2>3. CASE Market(id) = "live" /\ Market(id)' = "done"
    <3>1. m = [market EXCEPT ![id] = "done"]
      BY <1>3, <2>3
    <3>2. Promise!Conclude(id)
      BY <2>1, <2>3, <3>1 DEF Promise!Conclude
    <3>3. QED
      BY <3>2 DEF PromiseStep, Promise!Next
  <2>4. QED
    BY <1>4, <2>2, <2>3
<1>10. QED
  BY <1>3, <1>8, <1>9

LEMMA OutsideMoves ==
  ASSUME PromiseInv,
         \/ Fail \/ KillProcess \/ PersistState \/ LoseRunner \/ Review \/ NextSession \/ UNCHANGED vars
         \/ \E t \in Tickers, n \in {-1, 1} : ForeignTrade(t, n)
  PROVE  Move
<1>0. IsState(saved) /\ IsState(work) /\ IsProcess(run) /\ session \in Sessions
  BY DEF PromiseInv, Shaped
<1>1. CASE Fail
  BY <1>1, HaltMoves DEF Fail, At, account
<1>2. CASE KillProcess
  BY <1>0, <1>2, OverMoves DEF KillProcess, At, account, Same
<1>3. ASSUME PersistState \/ LoseRunner
      PROVE  Move
  <2>1. /\ ~At("idle") /\ UNCHANGED <<broker, session>> /\ saved' \in {saved, work}
        /\ run' = Idle /\ work' = EmptyState
    BY <1>3 DEF PersistState, LoseRunner, Persist, At, account
  <2>2. Idle.pc = "idle"
    BY DEF Idle
  <2>3. Shaped'
    BY <1>0, <2>1, IdleIsShaped DEF PromiseInv, Shaped
  <2>4. At("idle")' /\ AtOrder' /\ Reconciled'
    BY <2>1, <2>2, AtRest DEF At
  <2>5. QED
    BY <2>1, <2>3, <2>4 DEF Move, Same
<1>4. CASE Review
  <2>1. IsState(saved') /\ Same(saved, saved')
    BY <1>0, <1>4 DEF Review, IsState, Same
  <2>2. UNCHANGED <<work, run, broker, session>> /\ At("idle")
    BY <1>4 DEF Review, account
  <2>3. Shaped'
    BY <1>0, <2>1, <2>2 DEF PromiseInv, Shaped
  <2>4. At("idle")' /\ AtOrder' /\ Reconciled'
    BY <2>2, AtRest DEF At
  <2>5. QED
    BY <2>1, <2>2, <2>3, <2>4 DEF Move
<1>5. CASE NextSession
  <2>1. UNCHANGED <<saved, work, run, broker>> /\ At("idle") /\ session' = session + 1 /\ session < LastSession
    BY <1>5 DEF NextSession, account
  <2>2. session' \in Sessions
    BY <1>0, <2>1, FidelityAssumption DEF Sessions
  <2>3. Shaped'
    BY <1>0, <2>1, <2>2 DEF PromiseInv, Shaped
  <2>4. At("idle")' /\ AtOrder' /\ Reconciled'
    BY <2>1, AtRest DEF At
  <2>5. QED
    BY <2>1, <2>3, <2>4 DEF Move, Same
<1>6. ASSUME UNCHANGED <<saved, work, run, broker, session>>
      PROVE  Move
  <2>1. Shaped' /\ AtOrder' /\ Reconciled'
    BY <1>6 DEF PromiseInv, Shaped, AtOrder, Reconciled, At, Shows, Quantity, OpenRows
  <2>2. QED
    BY <1>6, <2>1 DEF Move, Same, At
<1>7. CASE \E t \in Tickers, n \in {-1, 1} : ForeignTrade(t, n)
  BY <1>6, <1>7 DEF ForeignTrade
<1>8. CASE UNCHANGED vars
  BY <1>6, <1>8 DEF vars, account
<1>9. QED
  BY <1>1, <1>2, <1>3, <1>4, <1>5, <1>7, <1>8

LEMMA PromiseKept ==
  ASSUME PromiseInv, [Next]_vars
  PROVE  PromiseInv' /\ PromiseStep
<1>1. CASE Connect
  BY <1>1, ConnectMoves, LookUpMoves, BookMoves, CheckMoves, MoveKeeps DEF Connect
<1>2. CASE Trade
  BY <1>2, PlanMoves, ReserveMoves, WriteMoves, FinishMoves, PlacePromised, MoveKeeps DEF Trade
<1>3. CASE Environment
  BY <1>3, OutsideMoves, BrokerPromised, MoveKeeps DEF Environment
<1>4. CASE UNCHANGED vars
  BY <1>4, OutsideMoves, MoveKeeps
<1>5. QED
  BY <1>1, <1>2, <1>3, <1>4 DEF Next

LEMMA PromiseInit ==
  ASSUME Init
  PROVE  PromiseInv /\ Promise!Init
<1> DEFINE o == [state |-> "none", quantity |-> 0, filled |-> 0]
<1>1. /\ broker = [id \in Ids |-> o] /\ session = 1
      /\ saved = EmptyState /\ work = EmptyState /\ run = Idle
  BY DEF Init
<1>2. o.quantity = 0 /\ IsOrder(o)
  BY DEF IsOrder
<1> HIDE DEF o
<1>3. Idle.pc = "idle" /\ \A id \in Ids : EmptyState.rows[id] = "none"
  BY DEF Idle, EmptyState
<1>4. \A id \in Ids : Log(id) = "none" /\ Market(id) = "none" /\ broker[id].quantity = 0
  BY <1>1, <1>2, <1>3 DEF Log, Market
<1>5. Shaped
  BY <1>1, <1>2, IdleIsShaped, FidelityAssumption DEF Shaped, Sessions
<1>6. AtOrder /\ Reconciled
  BY <1>1, <1>3 DEF AtOrder, Reconciled, At, Before, Sending
<1>7. PromiseInv
  BY <1>1, <1>3, <1>4, <1>5, <1>6 DEF PromiseInv, At
<1>8. QED
  BY <1>4, <1>7 DEF Promise!Init

\* The armed session implements the promise: an order is reserved, recorded and in the
\* book on the branch before it is placed, is placed once, and is released only when
\* the broker says that it can trade no more, whatever is killed or lost between.
THEOREM SessionKeepsItsPromise == Spec => KeepsOrderPromise
<1>1. Init => PromiseInv /\ Promise!Init
  BY PromiseInit
<1>2. PromiseInv /\ [Next]_vars => PromiseInv' /\ PromiseStep
  BY PromiseKept
<1>3. Spec => /\ Promise!Init
              /\ [][Promise!Next]_<<[id \in Ids |-> Log(id)], [id \in Ids |-> Market(id)]>>
  BY <1>1, <1>2, PTL DEF Spec, PromiseStep
<1>4. QED
  BY <1>3, PTL DEF KeepsOrderPromise, Promise!Spec

LEMMA LeavesReconciled ==
  ASSUME PromiseInv, [Next]_vars, NEW id \in Ids, Leaves(id)
  PROVE  At("place") /\ UnknownStopsTrading(id)
<1>1. ~Move
  BY DEF Move, Leaves
<1>2. ~Connect /\ ~UNCHANGED vars
  BY <1>1, ConnectMoves, LookUpMoves, BookMoves, CheckMoves, OutsideMoves DEF Connect
<1>3. ~Environment
  BY <1>1, OutsideMoves, BrokerPromised DEF Environment, Leaves
<1>4. Place \/ \E arrives \in {"none", "delayed", "working"} : PlaceUnknown(arrives)
  BY <1>1, <1>2, <1>3, PlanMoves, ReserveMoves, WriteMoves, FinishMoves DEF Next, Trade
<1>5. PICK own : own = run.id
  OBVIOUS
<1>6. At("place")
  BY <1>4 DEF Place, PlaceUnknown
<1>7. id = own
  <2>1. SUFFICES ASSUME id # own PROVE broker'[id] = broker[id]
    BY DEF Leaves
  <2>2. PICK state : Placed(own, state)
    BY <1>4, <1>5 DEF Place, PlaceUnknown
  <2>3. QED
    BY <2>1, <2>2 DEF Placed, PromiseInv, Shaped
<1>8. \A other \in Ids : saved.rows[other] = work.rows[other]
  BY <1>6 DEF PromiseInv, AtOrder, Same
<1>9. \A other \in OpenRows(work) \ {own} : Shows(other)
  BY <1>5, <1>6 DEF PromiseInv, Reconciled, Sending, At
<1>10. QED
  BY <1>6, <1>7, <1>8, <1>9 DEF UnknownStopsTrading, Shows, OpenRows
-----------------------------------------------------------------------------
(* ---- The book of the fills -------------------------------------------- *)

\* What the orders of applied have filled of t, each to the last share or not at all.
FillsOf(b, applied, t) ==
  SumFunctionOnSet([id \in Ids |-> Signed(id, b[id].quantity)],
    {id \in applied : id[2] = t /\ b[id].filled = b[id].quantity})

\* The state c is a book of the broker b: it knows every order there is, applied only
\* what has ended, and what it applied is what it holds.
Books(c, b) ==
  /\ c.applied \subseteq {id \in Ids : b[id].state = "ended"}
  /\ \A id \in Ids : b[id].quantity # 0 => c.book[id] = b[id].quantity
  /\ c.positions = [t \in Tickers |-> FillsOf(b, c.applied, t)]

\* What a reconciliation has collected has ended, and was not applied before.
Collected ==
  At("book") =>
    /\ run.todo \subseteq Ids \ work.applied /\ run.seen \subseteq Ids \ work.applied
    /\ \A id \in run.seen : Status(id) \in {"filled", "cancelled"}

BookInv ==
  /\ \A id \in Ids :
       /\ broker[id].quantity \in Int /\ broker[id].state \in {"none", "delayed", "working", "ended"}
       /\ broker[id].quantity = 0 => broker[id].state = "none"
  /\ Books(saved, broker) /\ (~At("idle") => Books(work, broker))
  /\ Collected

LEMMA IdsAreFinite == IsFiniteSet(Ids)
<1>1. IsFiniteSet(Sessions)
  BY FidelityAssumption, FS_Interval DEF Sessions
<1>2. IsFiniteSet({"buy", "sell"})
  <2>1. IsFiniteSet({"buy"}) /\ {"buy", "sell"} = {"buy"} \cup {"sell"}
    BY FS_Singleton
  <2>2. QED
    BY <2>1, FS_AddElement
<1> DEFINE Pairs == Sessions \X Tickers
           Triples == Pairs \X {"buy", "sell"}
           f == [p \in Triples |-> <<p[1][1], p[1][2], p[2]>>]
<1>3. IsFiniteSet(Pairs)
  BY <1>1, FS_Product, FidelityAssumption
<1>4. \A p \in Triples : f[p] \in Ids
  BY DEF Ids
<1>5. \A id \in Ids : \E p \in Triples : f[p] = id
  <2>1. TAKE id \in Ids
  <2>2. PICK s \in Sessions, t \in Tickers, d \in {"buy", "sell"} : id = <<s, t, d>>
    BY DEF Ids
  <2>3. <<<<s, t>>, d>> \in Triples
    OBVIOUS
  <2>4. f[<<<<s, t>>, d>>] = <<s, t, d>>
    BY <2>3
  <2>5. QED
    BY <2>2, <2>3, <2>4
<1> HIDE DEF Pairs
<1>6. IsFiniteSet(Triples)
  BY <1>2, <1>3, FS_Product
<1> HIDE DEF Triples
<1>7. f \in [Triples -> Ids]
  BY <1>4
<1> HIDE DEF f
<1>8. f \in Surjection(Triples, Ids)
  BY <1>5, <1>7 DEF Surjection
<1>9. QED
  BY <1>6, <1>8, FS_Surjection

LEMMA SignedIsInt == ASSUME NEW id, NEW n \in Int PROVE Signed(id, n) \in Int
BY DEF Signed

LEMMA IdleBooks == ASSUME NEW b PROVE EmptyState.applied = {} /\ \A t \in Tickers : EmptyState.positions[t] = 0
BY DEF EmptyState

\* Two records of the broker that agree on the orders applied agree on their fills.
LEMMA SameFills ==
  ASSUME NEW a, NEW b, NEW applied, applied \subseteq Ids, \A id \in applied : a[id] = b[id], NEW t
  PROVE  FillsOf(a, applied, t) = FillsOf(b, applied, t)
<1> DEFINE F(c) == [id \in Ids |-> Signed(id, c[id].quantity)]
           S(c) == {id \in applied : id[2] = t /\ c[id].filled = c[id].quantity}
<1>1. S(a) = S(b)
  OBVIOUS
<1>2. IsFiniteSet(S(a))
  BY IdsAreFinite, FS_Subset
<1>3. \A id \in S(a) : F(a)[id] = F(b)[id]
  OBVIOUS
<1> HIDE DEF F, S
<1>4. SumFunctionOnSet(F(a), S(a)) = SumFunctionOnSet(F(b), S(b))
  BY <1>1, <1>2, <1>3, SumSame
<1>5. QED
  BY <1>4 DEF FillsOf, F, S

\* A step of the broker, or of the checkout, that leaves what has ended alone.
LEMMA BooksStay ==
  ASSUME NEW c, NEW a, Books(c, a), NEW d, NEW b,
         d.applied = c.applied, d.positions = c.positions,
         \A id \in Ids : a[id].state = "ended" => b[id] = a[id],
         \A id \in Ids : b[id].quantity # 0 => d.book[id] = b[id].quantity
  PROVE  Books(d, b)
<1>1. c.applied \subseteq Ids /\ \A id \in c.applied : b[id] = a[id]
  BY DEF Books
<1>2. \A t \in Tickers : FillsOf(a, c.applied, t) = FillsOf(b, c.applied, t)
  BY <1>1, SameFills
<1>3. QED
  BY <1>1, <1>2 DEF Books

\* Two states that keep the same book.
Alike(c, d) == c.applied = d.applied /\ c.positions = d.positions /\ c.book = d.book

\* What most steps have in common: the book moves as a whole, if at all.
Carry ==
  /\ broker' = broker
  /\ Alike(saved, saved') \/ (~At("idle") /\ Alike(work, saved'))
  /\ \/ At("idle")'
     \/ ~At("idle") /\ Alike(work, work')
     \/ Alike(saved, work')
  /\ run'.pc # "book"

LEMMA CarryKeeps ==
  ASSUME BookInv, Carry
  PROVE  BookInv'
<1>1. \A c, d : Books(c, broker) /\ Alike(c, d) => Books(d, broker)
  BY BooksStay DEF Books, Alike
<1>2. Books(saved', broker)
  BY <1>1 DEF BookInv, Carry
<1>3. ~At("idle")' => Books(work', broker)
  BY <1>1 DEF BookInv, Carry
<1>4. Collected'
  BY DEF Carry, Collected, At
<1>5. QED
  BY <1>2, <1>3, <1>4 DEF BookInv, Carry, Books, FillsOf

LEMMA OverBooks == Over.pc = "end" /\ Idle.pc = "idle"
BY DEF Over, Idle

LEMMA HaltCarries ==
  ASSUME BookInv, ~At("idle"), NEW c, IsState(c), Alike(work, c), Halt(c), broker' = broker,
         saved' \in {saved, work, c}
  PROVE  Carry
<1>1. Alike(work, work')
  BY DEF Halt, IsState, Alike
<1>2. Alike(saved, saved') \/ Alike(work, saved')
  BY DEF Alike
<1>3. run'.pc = "end"
  BY OverBooks DEF Halt
<1>4. QED
  BY <1>1, <1>2, <1>3 DEF Carry

LEMMA ReconcileCarries ==
  ASSUME PromiseInv, BookInv,
         \/ \E armed \in BOOLEAN : Claim(armed)
         \/ PersistLease \/ Login \/ LookUpRow \/ FailToLookUpRow \/ PersistBook \/ Check \/ Refuse
  PROVE  Carry
<1>0. IsState(saved) /\ IsState(work) /\ IsProcess(run)
  BY DEF PromiseInv, Shaped
<1>1. /\ broker' = broker
      /\ \A c : Alike(c, c)
  BY DEF Claim, PersistLease, Login, LookUpRow, FailToLookUpRow, PersistBook, Check, Refuse, account, Alike
<1>2. ASSUME NEW armed \in BOOLEAN, Claim(armed)
      PROVE  Carry
  <2>1. Alike(saved, work') /\ saved' = saved
    BY <1>0, <1>2 DEF Claim, AcquireLease, IsState, Alike
  <2>2. run'.pc = "claimed"
    BY <1>2 DEF Claim, Idle
  <2>3. QED
    BY <1>1, <2>1, <2>2 DEF Carry
<1>3. CASE PersistLease
  <2>1. ~At("idle")
    BY <1>3 DEF PersistLease, At
  <2>2. CASE saved' = work /\ Goto("login") /\ UNCHANGED work
    <3>1. run'.pc = "login"
      BY <1>0, <2>2 DEF Goto, IsProcess
    <3>2. QED
      BY <1>1, <2>1, <2>2, <3>1 DEF Carry
  <2>3. CASE saved' \in {saved, work} /\ Halt(work)
    BY <1>0, <1>1, <2>1, <2>3, HaltCarries
  <2>4. QED
    BY <1>3, <2>2, <2>3 DEF PersistLease
<1>4. CASE Login
  <2>1. run'.pc = "rows" /\ UNCHANGED <<saved, work>> /\ ~At("idle")
    BY <1>0, <1>4 DEF Login, IsProcess, At
  <2>2. QED
    BY <1>1, <2>1 DEF Carry
<1>5. CASE LookUpRow
  <2>1. run'.pc = "rows" /\ saved' = saved /\ ~At("idle")
    BY <1>0, <1>5 DEF LookUpRow, IsProcess, At
  <2>2. Alike(work, work')
    BY <1>0, <1>5 DEF LookUpRow, IsState, Alike
  <2>3. QED
    BY <1>1, <2>1, <2>2 DEF Carry
<1>6. CASE FailToLookUpRow
  <2>1. run'.pc = "rows" /\ UNCHANGED <<saved, work>> /\ ~At("idle")
    BY <1>0, <1>6 DEF FailToLookUpRow, IsProcess, At
  <2>2. QED
    BY <1>1, <2>1 DEF Carry
<1>7. CASE PersistBook
  <2>1. ~At("idle")
    BY <1>7 DEF PersistBook, At
  <2>2. CASE saved' = work /\ work' = work /\ run' = [run EXCEPT !.pc = "check", !.seen = {}]
    <3>1. run'.pc = "check"
      BY <1>0, <2>2 DEF IsProcess
    <3>2. QED
      BY <1>1, <2>1, <2>2, <3>1 DEF Carry
  <2>3. CASE saved' \in {saved, work} /\ Halt(work)
    BY <1>0, <1>1, <2>1, <2>3, HaltCarries
  <2>4. QED
    BY <1>7, <2>2, <2>3 DEF PersistBook
<1>8. CASE Check
  <2>1. ~At("idle") /\ saved' = saved
    BY <1>8 DEF Check, At
  <2>2. CASE Ownership
    <3>1. PICK pc : pc = IF run.planned THEN "order" ELSE "plan"
      OBVIOUS
    <3>2. Goto(pc) /\ work' = work
      BY <1>8, <2>2, <3>1 DEF Check
    <3>3. run'.pc = pc
      BY <1>0, <3>2 DEF Goto, IsProcess
    <3>4. QED
      BY <1>1, <2>1, <3>1, <3>2, <3>3 DEF Carry
  <2>3. CASE ~Ownership
    BY <1>0, <1>1, <1>8, <2>1, <2>3, HaltCarries DEF Check
  <2>4. QED
    BY <2>2, <2>3
<1>9. CASE Refuse
  <2>1. run'.pc = "end" /\ UNCHANGED <<saved, work>> /\ ~At("idle")
    BY <1>9, OverBooks DEF Refuse, At
  <2>2. QED
    BY <1>1, <2>1 DEF Carry
<1>10. QED
  BY <1>2, <1>3, <1>4, <1>5, <1>6, <1>7, <1>8, <1>9

LEMMA TradeCarries ==
  ASSUME PromiseInv, BookInv,
         \/ \E orders \in Plans, clean \in BOOLEAN : Plan(orders, clean)
         \/ Deny \/ Reserve \/ PreviewOnly \/ RecordIntent \/ PersistIntent \/ Finish
  PROVE  Carry
<1>0. IsState(saved) /\ IsState(work) /\ IsProcess(run) /\ "pc" \in DOMAIN run
  BY DEF PromiseInv, Shaped, IsProcess
<1>1. /\ broker' = broker /\ ~At("idle")
      /\ \A c : Alike(c, c)
  BY DEF Plan, Deny, Reserve, PreviewOnly, RecordIntent, PersistIntent, Finish, account, Alike, At
<1>2. ASSUME NEW orders \in Plans, NEW clean \in BOOLEAN, Plan(orders, clean)
      PROVE  Carry
  <2> DEFINE m == [run EXCEPT !.orders = orders, !.clean = work.executed # DecisionAt[session] /\ clean]
  <2>1. run' = NextOrOver(m) /\ UNCHANGED <<saved, work>>
    BY <1>2 DEF Plan
  <2>2. "pc" \in DOMAIN m
    BY <1>0
  <2> HIDE DEF m
  <2>3. QED
    BY <1>1, <2>1, <2>2, NextOrOverMoves DEF Carry
<1>3. CASE Deny
  BY <1>0, <1>1, <1>3, DealtMoves DEF Deny, Carry
<1>4. CASE Reserve
  <2>1. Alike(work, work') /\ saved' = saved
    BY <1>0, <1>4 DEF Reserve, IsState, Alike
  <2>2. run'.pc = "send"
    BY <1>0, <1>4 DEF Reserve, IsProcess
  <2>3. QED
    BY <1>1, <2>1, <2>2 DEF Carry
<1>5. CASE PreviewOnly
  <2>1. Alike(work, work') /\ saved' = saved
    BY <1>0, <1>5 DEF PreviewOnly, IsState, Alike
  <2>2. run'.pc # "book"
    BY <1>0, <1>5, DealtMoves DEF PreviewOnly
  <2>3. QED
    BY <1>1, <2>1, <2>2 DEF Carry
<1>6. CASE RecordIntent
  <2>1. Alike(work, work') /\ saved' = saved
    BY <1>0, <1>6 DEF RecordIntent, IsState, Alike
  <2>2. run'.pc = "durable"
    BY <1>0, <1>6 DEF RecordIntent, Goto, IsProcess
  <2>3. QED
    BY <1>1, <2>1, <2>2 DEF Carry
<1>7. CASE PersistIntent
  <2>1. CASE saved' = work /\ Goto("place") /\ UNCHANGED work
    <3>1. run'.pc = "place"
      BY <1>0, <2>1 DEF Goto, IsProcess
    <3>2. QED
      BY <1>1, <2>1, <3>1 DEF Carry
  <2>2. CASE saved' \in {saved, work} /\ Halt(work)
    BY <1>0, <1>1, <2>2, HaltCarries
  <2>3. QED
    BY <1>7, <2>1, <2>2 DEF PersistIntent
<1>8. CASE Finish
  <2> DEFINE d == [work EXCEPT !.executed = DecisionAt[session]]
             c == IF run.armed /\ run.clean THEN d ELSE work
  <2>1. IsState(c) /\ Alike(work, c)
    <3>1. IsState(d) /\ Alike(work, d)
      BY <1>0 DEF IsState, Alike
    <3> HIDE DEF d
    <3>2. QED
      BY <1>0, <1>1, <3>1
  <2>2. /\ saved' \in {saved, c}
        /\ \/ work' = c /\ run' = Over
           \/ Halt(c)
    BY <1>8 DEF Finish
  <2> HIDE DEF c
  <2>3. CASE work' = c /\ run' = Over
    BY <1>1, <2>1, <2>2, <2>3, OverBooks DEF Carry
  <2>4. CASE Halt(c)
    BY <1>1, <2>1, <2>2, <2>4, HaltCarries
  <2>5. QED
    BY <2>2, <2>3, <2>4
<1>9. QED
  BY <1>2, <1>3, <1>4, <1>5, <1>6, <1>7, <1>8

LEMMA OutsideCarries ==
  ASSUME PromiseInv, BookInv,
         Fail \/ KillProcess \/ PersistState \/ LoseRunner \/ Review
  PROVE  Carry
<1>0. IsState(saved) /\ IsState(work)
  BY DEF PromiseInv, Shaped
<1>1. broker' = broker /\ \A c : Alike(c, c)
  BY DEF Fail, KillProcess, PersistState, LoseRunner, Review, account, Alike
<1>2. CASE Fail
  BY <1>0, <1>1, <1>2, HaltCarries DEF Fail, At
<1>3. CASE KillProcess
  BY <1>1, <1>3, OverBooks DEF KillProcess, Carry, At
<1>4. CASE PersistState \/ LoseRunner
  BY <1>1, <1>4, OverBooks DEF PersistState, LoseRunner, Persist, Carry, At
<1>5. CASE Review
  <2>1. Alike(saved, saved')
    BY <1>0, <1>5 DEF Review, IsState, Alike
  <2>2. At("idle")' /\ run'.pc # "book"
    BY <1>5 DEF Review, At
  <2>3. QED
    BY <1>1, <2>1, <2>2 DEF Carry
<1>6. QED
  BY <1>2, <1>3, <1>4, <1>5

\* Nothing the book is about.
LEMMA ElseBooks ==
  ASSUME BookInv,
         \/ NextSession \/ UNCHANGED vars
         \/ \E t \in Tickers, n \in {-1, 1} : ForeignTrade(t, n)
  PROVE  BookInv'
<1>1. UNCHANGED <<saved, work, run, broker>>
  BY DEF NextSession, ForeignTrade, vars, account
<1>2. QED
  BY <1>1 DEF BookInv, Books, FillsOf, Collected, Status, Recorded, BrokerStatus, At

\* The session goes on collecting.
LEMMA CollectKeeps ==
  ASSUME BookInv, ~At("idle"), UNCHANGED <<saved, work, broker>>, Collected'
  PROVE  BookInv'
BY DEF BookInv, Books, FillsOf

LEMMA CollectBooks ==
  ASSUME PromiseInv, BookInv, RowsKnown \/ LookUpOrder
  PROVE  BookInv'
<1>0. IsState(work) /\ IsProcess(run) /\ ~At("idle") /\ UNCHANGED <<saved, broker>>
  BY DEF PromiseInv, Shaped, RowsKnown, LookUpOrder, At, account
<1>1. ASSUME Halt(work)
      PROVE  BookInv'
  <2>1. Alike(work, work)
    BY DEF Alike
  <2>2. QED
    BY <1>0, <1>1, <2>1, HaltCarries, CarryKeeps
<1>2. CASE RowsKnown /\ ~run.unknown
  <2> DEFINE t == {id \in Ids : work.book[id] # 0 /\ id \notin work.applied}
  <2>1. work' = work /\ run' = [run EXCEPT !.pc = "book", !.seen = {}, !.todo = t]
    BY <1>2 DEF RowsKnown
  <2>2. t \subseteq Ids \ work.applied
    OBVIOUS
  <2> HIDE DEF t
  <2>3. run'.todo = t /\ run'.seen = {}
    BY <1>0, <2>1 DEF IsProcess
  <2>4. Collected'
    BY <2>1, <2>2, <2>3 DEF Collected
  <2>5. QED
    BY <1>0, <2>1, <2>4, CollectKeeps
<1>3. ASSUME NEW id, LookUpOrder, id = Next1(run.todo), Status(id) # "none"
      PROVE  BookInv'
  <2> DEFINE t == run.todo \ {id}
             s == IF Status(id) = "working" THEN run.seen ELSE run.seen \cup {id}
  <2>1. work' = work /\ run' = [run EXCEPT !.todo = t, !.seen = s]
    BY <1>3 DEF LookUpOrder
  <2>2. At("book") /\ id \in run.todo
    BY <1>3 DEF LookUpOrder, Next1
  <2>3. /\ run.todo \subseteq Ids \ work.applied /\ run.seen \subseteq Ids \ work.applied
        /\ \A other \in run.seen : Status(other) \in {"filled", "cancelled"}
    BY <2>2 DEF BookInv, Collected
  <2>4. Status(id) \in {"working", "filled", "cancelled"}
    BY <1>3 DEF Status, BrokerStatus
  <2>5. /\ t \subseteq Ids \ work.applied /\ s \subseteq Ids \ work.applied
        /\ \A other \in s : Status(other) \in {"filled", "cancelled"}
    BY <2>2, <2>3, <2>4
  <2> HIDE DEF t, s
  <2>6. run'.todo = t /\ run'.seen = s
    BY <1>0, <2>1 DEF IsProcess
  <2>7. \A other : Status(other)' = Status(other)
    BY <1>0, <2>1 DEF Status, BrokerStatus, Recorded
  <2>8. Collected'
    BY <2>1, <2>5, <2>6, <2>7 DEF Collected
  <2>9. QED
    BY <1>0, <2>1, <2>8, CollectKeeps
<1>4. QED
  BY <1>1, <1>2, <1>3 DEF RowsKnown, LookUpOrder

\* Applied once: what was collected is new to the book, and has ended.
LEMMA ApplyBooks ==
  ASSUME PromiseInv, BookInv, Apply
  PROVE  BookInv'
<1>0. IsState(work) /\ IsProcess(run) /\ ~At("idle") /\ At("book") /\ UNCHANGED <<saved, broker>>
  BY DEF PromiseInv, Shaped, Apply, At, account
<1> DEFINE a == work.applied \cup run.seen
           h == [t \in Tickers |-> work.positions[t] + Filled(t)]
           e == [work EXCEPT !.applied = a]
           d == [e EXCEPT !.positions = h]
<1>1. work' = d /\ run'.pc = "persist"
  <2>1. work' = [work EXCEPT !.applied = a, !.positions = h]
    BY DEF Apply
  <2>2. run'.pc = "persist"
    BY <1>0 DEF Apply, Goto, IsProcess
  <2> HIDE DEF a, h
  <2>3. QED
    BY <1>0, <2>1, <2>2 DEF IsState
<1>2. /\ work.applied \subseteq {id \in Ids : broker[id].state = "ended"}
      /\ work.positions = [t \in Tickers |-> FillsOf(broker, work.applied, t)]
      /\ \A id \in Ids : broker[id].quantity # 0 => work.book[id] = broker[id].quantity
  BY <1>0 DEF BookInv, Books
<1>3. run.seen \subseteq Ids \ work.applied
  BY <1>0 DEF BookInv, Collected
<1>4. \A id \in run.seen :
        /\ broker[id].state = "ended" /\ broker[id].quantity # 0
        /\ Status(id) = "filled" <=> broker[id].filled = broker[id].quantity
  <2>1. TAKE id \in run.seen
  <2>2. Status(id) \in {"filled", "cancelled"} /\ id \in Ids
    BY <1>0, <1>3 DEF BookInv, Collected
  <2>3. /\ broker[id].state \in {"none", "delayed", "working", "ended"}
        /\ broker[id].quantity = 0 => broker[id].state = "none"
    BY <2>2 DEF BookInv
  <2>4. QED
    BY <2>2, <2>3 DEF Status, BrokerStatus
<1>5. \A id \in Ids : broker[id].quantity \in Int
  BY DEF BookInv
<1>6. ASSUME NEW t \in Tickers
      PROVE  h[t] = FillsOf(broker, a, t)
  <2> DEFINE f == [id \in Ids |-> Signed(id, broker[id].quantity)]
             g == [id \in Ids |-> Signed(id, work.book[id])]
             S(A) == {id \in A : id[2] = t /\ broker[id].filled = broker[id].quantity}
             U == {id \in run.seen : id[2] = t /\ Status(id) = "filled"}
  <2>1. U = S(run.seen)
    BY <1>4
  <2>2. \A id \in S(run.seen) : g[id] = f[id]
    BY <1>2, <1>3, <1>4
  <2>3. IsFiniteSet(S(run.seen)) /\ IsFiniteSet(S(work.applied))
    BY <1>2, <1>3, IdsAreFinite, FS_Subset
  <2>4. S(a) = S(work.applied) \cup S(run.seen) /\ S(work.applied) \cap S(run.seen) = {}
    BY <1>3
  <2>5. \A id \in S(work.applied) \cup S(run.seen) : f[id] \in Int
    BY <1>2, <1>3, <1>5, SignedIsInt
  <2>6. Filled(t) = SumFunctionOnSet(g, U)
    BY DEF Filled
  <2>7. \A A : FillsOf(broker, A, t) = SumFunctionOnSet(f, S(A))
    BY DEF FillsOf
  <2> HIDE DEF f, g, S, U
  <2>8. Filled(t) = SumFunctionOnSet(f, S(run.seen))
    BY <2>1, <2>2, <2>3, <2>6, SumSame
  <2>9. SumFunctionOnSet(f, S(a)) = SumFunctionOnSet(f, S(work.applied)) + SumFunctionOnSet(f, S(run.seen))
    <3>1. PICK P, Q : P = S(work.applied) /\ Q = S(run.seen)
      OBVIOUS
    <3>2. IsFiniteSet(P) /\ IsFiniteSet(Q) /\ P \cap Q = {} /\ \A id \in P \cup Q : f[id] \in Int
      BY <2>3, <2>4, <2>5, <3>1
    <3>3. SumFunctionOnSet(f, P \cup Q) = SumFunctionOnSet(f, P) + SumFunctionOnSet(f, Q)
      BY <3>2, SumUnion
    <3>4. QED
      BY <2>4, <3>1, <3>3
  <2>10. QED
    BY <1>2, <2>7, <2>8, <2>9
<1>7. a \subseteq {id \in Ids : broker[id].state = "ended"}
  BY <1>2, <1>3, <1>4
<1>8. h = [t \in Tickers |-> FillsOf(broker, a, t)]
  BY <1>6
<1> HIDE DEF a, h
<1>9. d.applied = a /\ d.positions = h /\ d.book = work.book
  <2>1. IsState(e) /\ e.applied = a /\ e.book = work.book
    BY <1>0 DEF IsState
  <2> HIDE DEF e
  <2>2. QED
    BY <2>1 DEF IsState
<1> HIDE DEF d
<1>10. Books(d, broker)
  BY <1>2, <1>7, <1>8, <1>9 DEF Books
<1>11. Books(saved, broker)
  BY DEF BookInv
<1>12. Collected'
  BY <1>1 DEF Collected, At
<1>13. QED
  BY <1>0, <1>1, <1>10, <1>11, <1>12 DEF BookInv, Books, FillsOf

LEMMA EnterBooks ==
  ASSUME PromiseInv, BookInv, EnterOrder
  PROVE  BookInv'
<1>0. IsState(work) /\ IsProcess(run) /\ At("send") /\ ~At("idle") /\ UNCHANGED <<saved, broker>>
  BY DEF PromiseInv, Shaped, EnterOrder, At, account
<1>1. PICK id : id = run.id
  OBVIOUS
<1>2. broker[id].quantity = 0
  BY <1>0, <1>1 DEF PromiseInv, AtOrder, At, Sending
<1> DEFINE n == Quantity(id)
           book == [work.book EXCEPT ![id] = n]
           d == [work EXCEPT !.book = book]
<1>3. work' = d /\ run'.pc = "submit"
  BY <1>0, <1>1 DEF EnterOrder, Goto, IsProcess
<1>4. \A other \in Ids : other # id => book[other] = work.book[other]
  <2> HIDE DEF n
  <2>1. work.book = [other \in Ids |-> work.book[other]]
    BY <1>0 DEF IsState
  <2>2. QED
    BY <2>1
<1> HIDE DEF book
<1>5. d.applied = work.applied /\ d.positions = work.positions /\ d.book = book
  BY <1>0 DEF IsState
<1> HIDE DEF d
<1>6. Books(work, broker) /\ Books(saved, broker)
  BY <1>0 DEF BookInv
<1>7. \A other \in Ids : broker[other].quantity # 0 => d.book[other] = broker[other].quantity
  BY <1>2, <1>4, <1>5, <1>6 DEF Books
<1>8. Books(d, broker)
  BY <1>5, <1>6, <1>7, BooksStay
<1>9. QED
  BY <1>0, <1>3, <1>6, <1>8 DEF BookInv, Books, FillsOf, Collected, At

\* The order placed is one that branch and checkout have in their books.
LEMMA PlaceBooks ==
  ASSUME PromiseInv, BookInv, Place \/ \E arrives \in {"none", "delayed", "working"} : PlaceUnknown(arrives)
  PROVE  BookInv'
<1>0. /\ IsState(work) /\ IsProcess(run) /\ At("place") /\ ~At("idle") /\ saved' = saved
      /\ broker = [other \in Ids |-> broker[other]]
  BY DEF PromiseInv, Shaped, Place, PlaceUnknown, At
<1>1. PICK id \in Ids : id = run.id
  BY <1>0 DEF PromiseInv, AtOrder, At, Sending
<1>2. /\ broker[id].quantity = 0 /\ Quantity(id) # 0
      /\ work.intents[id] = Quantity(id) /\ work.book[id] = Quantity(id)
      /\ saved.book = work.book
  BY <1>0, <1>1 DEF PromiseInv, AtOrder, At, Sending, Same
<1>3. Quantity(id) \in Int
  <2>1. id[2] \in Tickers
    BY DEF Ids
  <2>2. run.orders[id[2]] \in Int
    BY <1>0, <2>1 DEF IsProcess
  <2>3. QED
    BY <2>2, SignedIsInt DEF Quantity
<1>4. PICK state \in {"none", "delayed", "working"} : Placed(id, state)
  BY <1>1 DEF Place, PlaceUnknown
<1>5. /\ broker'[id].state = state /\ broker'[id].quantity = Quantity(id)
      /\ \A other \in Ids \ {id} : broker'[other] = broker[other]
  <2> DEFINE o == [state |-> state, quantity |-> work.intents[id], filled |-> 0]
  <2>1. broker' = [broker EXCEPT ![id] = o]
    BY <1>4 DEF Placed
  <2>2. o.state = state /\ o.quantity = work.intents[id]
    OBVIOUS
  <2> HIDE DEF o
  <2>3. QED
    BY <1>0, <1>2, <2>1, <2>2
<1>6. Alike(work, work') /\ run'.pc # "book"
  <2>1. CASE Place
    <3>1. run' = Dealt(id, TRUE) /\ work' = work
      BY <1>1, <2>1 DEF Place
    <3>2. "pc" \in DOMAIN run
      BY <1>0 DEF IsProcess
    <3>3. QED
      BY <3>1, <3>2, DealtMoves DEF Alike
  <2>2. CASE \E arrives \in {"none", "delayed", "working"} : PlaceUnknown(arrives)
    <3>1. Halt(work)
      BY <2>2 DEF PlaceUnknown
    <3>2. QED
      BY <1>0, <3>1, OverBooks DEF Halt, IsState, Alike
  <2>3. QED
    BY <2>1, <2>2
<1>7. broker[id].state = "none"
  BY <1>2 DEF BookInv
<1>8. \A other \in Ids : broker[other].state = "ended" => broker'[other] = broker[other]
  BY <1>5, <1>7
<1>9. Books(work, broker) /\ Books(saved, broker)
  BY <1>0 DEF BookInv
<1>10. \A other \in Ids : broker'[other].quantity # 0 =>
          work.book[other] = broker'[other].quantity /\ saved.book[other] = broker'[other].quantity
  BY <1>2, <1>5, <1>9 DEF Books
<1>11. Books(saved', broker')
  BY <1>0, <1>8, <1>9, <1>10, BooksStay
<1>12. Books(work', broker')
  <2>1. \A other \in Ids : broker'[other].quantity # 0 => work'.book[other] = broker'[other].quantity
    BY <1>6, <1>10 DEF Alike
  <2>2. QED
    BY <1>6, <1>8, <1>9, <2>1, BooksStay DEF Alike
<1>13. \A other \in Ids :
         /\ broker'[other].quantity \in Int /\ broker'[other].state \in {"none", "delayed", "working", "ended"}
         /\ broker'[other].quantity = 0 => broker'[other].state = "none"
  BY <1>2, <1>3, <1>5 DEF BookInv
<1>14. Collected'
  BY <1>6 DEF Collected, At
<1>15. Books(saved, broker)' /\ Books(work, broker)'
  BY <1>11, <1>12 DEF Books, FillsOf
<1>16. QED
  BY <1>13, <1>14, <1>15 DEF BookInv

LEMMA BrokerBooks ==
  ASSUME PromiseInv, BookInv, NEW id \in Ids,
         FillOne(id) \/ Expire(id) \/ \E s \in {"none", "working"} : Arrive(id, s)
  PROVE  BookInv'
<1>0. UNCHANGED <<saved, work, run>>
  BY DEF FillOne, Expire, Arrive
<1>1. /\ \A other \in Ids \ {id} : broker'[other] = broker[other]
      /\ broker'[id].quantity = broker[id].quantity /\ broker[id].state \in {"delayed", "working"}
      /\ broker'[id].state \in {"none", "working", "ended"}
  BY BrokerWorks
<1>2. \A other \in Ids :
        /\ broker'[other].quantity = broker[other].quantity
        /\ broker[other].state = "ended" => broker'[other] = broker[other]
  BY <1>1
<1>3. \A c : Books(c, broker) => Books(c, broker')
  <2>1. TAKE c
  <2>2. SUFFICES ASSUME Books(c, broker) PROVE Books(c, broker')
    OBVIOUS
  <2>3. \A other \in Ids : broker'[other].quantity # 0 => c.book[other] = broker'[other].quantity
    BY <1>2, <2>2 DEF Books
  <2>4. QED
    BY <1>2, <2>2, <2>3, BooksStay
<1>4. \A other \in Ids :
        /\ broker'[other].quantity \in Int /\ broker'[other].state \in {"none", "delayed", "working", "ended"}
        /\ broker'[other].quantity = 0 => broker'[other].state = "none"
  BY <1>1, <1>2 DEF BookInv
<1>5. Collected'
  <2>1. SUFFICES ASSUME At("book"), NEW other \in run.seen
                 PROVE  Status(other)' \in {"filled", "cancelled"}
    BY <1>0 DEF BookInv, Collected, At
  <2>2. other \in Ids /\ Status(other) \in {"filled", "cancelled"}
    BY <2>1 DEF BookInv, Collected
  <2>3. broker[other].state = "ended" /\ Recorded(other)
    BY <2>2 DEF BookInv, Status, BrokerStatus
  <2>4. broker'[other] = broker[other]
    BY <1>2, <2>2, <2>3
  <2>5. QED
    BY <1>0, <2>2, <2>4 DEF Status, BrokerStatus, Recorded
<1>6. Books(saved, broker)' /\ (~At("idle") => Books(work, broker))'
  <2>1. Books(saved, broker') /\ (~At("idle") => Books(work, broker'))
    BY <1>3 DEF BookInv
  <2>2. QED
    BY <1>0, <2>1 DEF Books, FillsOf, At
<1>7. QED
  BY <1>4, <1>5, <1>6 DEF BookInv

LEMMA BookKept ==
  ASSUME PromiseInv, BookInv, [Next]_vars
  PROVE  BookInv'
<1>1. CASE Connect
  BY <1>1, ReconcileCarries, CarryKeeps, CollectBooks, ApplyBooks DEF Connect
<1>2. CASE Trade
  BY <1>2, TradeCarries, CarryKeeps, EnterBooks, PlaceBooks DEF Trade
<1>3. CASE Environment
  BY <1>3, OutsideCarries, CarryKeeps, ElseBooks, BrokerBooks DEF Environment
<1>4. CASE UNCHANGED vars
  BY <1>4, ElseBooks
<1>5. QED
  BY <1>1, <1>2, <1>3, <1>4 DEF Next

LEMMA BookInit ==
  ASSUME Init
  PROVE  BookInv
<1> DEFINE o == [state |-> "none", quantity |-> 0, filled |-> 0]
<1>1. broker = [id \in Ids |-> o] /\ saved = EmptyState /\ run = Idle
  BY DEF Init
<1>2. o.quantity = 0 /\ o.state = "none"
  OBVIOUS
<1> HIDE DEF o
<1>3. EmptyState.applied = {} /\ EmptyState.positions = [t \in Tickers |-> 0]
  BY DEF EmptyState
<1>4. \A t \in Tickers : FillsOf(broker, {}, t) = 0
  <2> DEFINE f == [id \in Ids |-> Signed(id, broker[id].quantity)]
  <2>1. ASSUME NEW t \in Tickers
        PROVE  FillsOf(broker, {}, t) = SumFunctionOnSet(f, {})
    <3>1. {id \in {} : id[2] = t /\ broker[id].filled = broker[id].quantity} = {}
      OBVIOUS
    <3>2. QED
      BY <3>1 DEF FillsOf
  <2> HIDE DEF f
  <2>2. QED
    BY <2>1, SumEmpty
<1>5. Books(saved, broker)
  BY <1>1, <1>2, <1>3, <1>4 DEF Books
<1>6. At("idle") /\ ~At("book")
  BY <1>1 DEF Idle, At
<1>7. QED
  BY <1>1, <1>2, <1>5, <1>6 DEF BookInv, Collected

\* Every filled order is in the bot's positions exactly once (fidelity_reconcile.apply,
\* persist): on the branch and in the checkout, whichever process was killed, checkout
\* lost or push refused between the fill, the reconciliation and the write.
THEOREM FillsAreCountedOnce == Spec => []BookCountsFillsOnce
<1>1. Init => PromiseInv /\ BookInv
  BY PromiseInit, BookInit
<1>2. PromiseInv /\ BookInv /\ [Next]_vars => PromiseInv' /\ BookInv'
  BY PromiseKept, BookKept
<1>3. BookInv => BookCountsFillsOnce
  BY DEF BookInv, Books, FillsOf, FillsInBook, BookCountsFillsOnce
<1>4. QED
  BY <1>1, <1>2, <1>3, PTL DEF Spec
-----------------------------------------------------------------------------
(* ---- Nothing on top of a fill the book does not show ------------------- *)

Tried(id) == broker[id].quantity # 0

\* Filled in part only, so far or for good.
Odd(id) == broker[id].filled \notin {0, broker[id].quantity}

\* What the orders of t have brought into the account.
Bought(t) ==
  SumFunctionOnSet([id \in Ids |-> Signed(id, broker[id].filled)], {id \in Ids : id[2] = t})

\* The account and its orders: one a session and ticker, and none of a session behind an
\* order that an earlier one left filled in part.
FillsInv ==
  /\ \A id \in Ids :
       /\ broker[id].filled \in Int
       /\ Tried(id) => id[1] <= session /\ logins[id[1]] # 0
       /\ broker[id].state \in {"delayed", "working"} => id[1] = session
       /\ broker[id].filled # 0 => Tried(id) /\ broker[id].state \in {"working", "ended"}
  /\ \A a, b \in Ids : Tried(a) /\ Tried(b) /\ a[1] = b[1] /\ a[2] = b[2] => a = b
  /\ ~foreign =>
       /\ \A a, b \in Ids : Tried(b) /\ a[1] < b[1] => ~Odd(a)
       /\ held = [t \in Tickers |-> Bought(t)]

\* The fills of earlier sessions are all among ids.
Earlier(ids) == \A a \in Ids : a[1] < session /\ broker[a].filled # 0 => a \in ids

Checked == {"plan", "order"} \cup Sending
AtWork  == {"rows", "book", "persist", "check"} \cup Checked

\* A session at work plans each ticker once; it has applied what earlier ones bought, and
\* found nothing filled in part when it compared its book with the account.
SettledInv ==
  /\ run.pc \in AtWork =>
       /\ logins[session] # 0
       /\ \A b \in Ids : Tried(b) /\ b[1] = session => run.planned /\ run.orders[b[2]] = 0
  /\ At("plan") => ~run.planned
  /\ run.pc \in Sending => run.id[1] = session
  /\ At("book") => Earlier(work.applied \cup run.seen \cup run.todo)
  /\ run.pc \in {"persist", "check"} \cup Checked => Earlier(work.applied)
  /\ run.pc \in Checked => foreign \/ \A a \in work.applied : ~Odd(a)

LEMMA IdParts ==
  ASSUME NEW id \in Ids
  PROVE  id[1] \in Sessions /\ id[1] \in Int /\ id[2] \in Tickers
BY FidelityAssumption DEF Ids, Sessions

\* Neither an order nor the account moves.
LEMMA FillsStay ==
  ASSUME FillsInv, UNCHANGED <<broker, session>>, UNCHANGED <<held, foreign>> \/ foreign',
         \A s \in Sessions : logins[s] # 0 => logins'[s] # 0
  PROVE  FillsInv'
<1>1. \A id \in Ids : id[1] \in Sessions
  BY IdParts
<1>2. QED
  BY <1>1 DEF FillsInv, Tried, Odd, Bought

LEMMA RestSettled ==
  ASSUME run'.pc \in {"idle", "end", "finish", "claimed", "login"}
  PROVE  SettledInv'
BY DEF SettledInv, AtWork, Checked, Sending, At

LEMMA RowsSettled ==
  ASSUME run'.pc = "rows", UNCHANGED <<broker, session>>, logins'[session] # 0,
         \A b \in Ids : Tried(b) /\ b[1] = session => run'.planned /\ run'.orders[b[2]] = 0
  PROVE  SettledInv'
BY DEF SettledInv, AtWork, Checked, Sending, At, Tried

\* The session moves on with the same plan and the same applied orders.
LEMMA OnSettled ==
  ASSUME SettledInv, UNCHANGED <<broker, session, logins, foreign>>,
         run.pc \in Checked \cup {"persist", "check"},
         run'.pc \in Sending \cup {"check"}, run'.planned = run.planned, run'.orders = run.orders,
         run'.pc \in Sending => run.pc \in Checked /\ run'.id[1] = session,
         work'.applied = work.applied
  PROVE  SettledInv'
BY DEF SettledInv, AtWork, Checked, Sending, At, Tried, Odd, Earlier

\* After an order comes the next one, or the end, with the plan as it is ...
LEMMA PlanTurn ==
  ASSUME NEW m, IsProcess(m), run' = NextOrOver(m)
  PROVE  /\ run'.pc \in {"rows", "finish"} /\ (run'.pc = "rows" => run'.planned = TRUE)
         /\ run'.orders = m.orders
<1> DEFINE t == OpenRows(work')
           n == NoId
<1> HIDE DEF t, n
<1>1. CASE run' = [m EXCEPT !.pc = "rows", !.todo = t, !.planned = TRUE, !.id = n]
  <2>1. run' = [pc |-> "rows", armed |-> m.armed, todo |-> t, seen |-> m.seen, unknown |-> m.unknown,
                planned |-> TRUE, orders |-> m.orders, clean |-> m.clean, id |-> n]
    BY <1>1 DEF IsProcess
  <2>2. run'.pc = "rows" /\ run'.planned = TRUE /\ run'.orders = m.orders
    BY <2>1
  <2>3. QED
    BY <2>2
<1>2. CASE run' = [m EXCEPT !.pc = "finish", !.id = n]
  <2>1. run'.pc = "finish" /\ run'.orders = m.orders
    BY <1>2 DEF IsProcess
  <2>2. QED
    BY <2>1
<1>3. QED
  BY <1>1, <1>2 DEF NextOrOver, t, n

\* ... but for the order dealt with.
LEMMA DealtPlan ==
  ASSUME IsProcess(run), NEW id, NEW submitted \in BOOLEAN, run' = Dealt(id, submitted)
  PROVE  /\ run'.pc \in {"rows", "finish"} /\ (run'.pc = "rows" => run'.planned = TRUE)
         /\ \A t \in Tickers : run'.orders[t] = IF t = id[2] THEN 0 ELSE run.orders[t]
<1> DEFINE o == [run.orders EXCEPT ![id[2]] = 0]
           c == (run.clean /\ submitted)
           m == [run EXCEPT !.orders = o, !.clean = c]
<1>1. run' = NextOrOver(m)
  BY DEF Dealt
<1>2. /\ \A s \in Tickers : o[s] = IF s = id[2] THEN 0 ELSE run.orders[s]
      /\ o \in [Tickers -> Int]
  <2>1. PICK k : k = id[2]
    OBVIOUS
  <2>2. PICK f : f = run.orders
    OBVIOUS
  <2>3. f \in [Tickers -> Int]
    BY <2>2 DEF IsProcess
  <2>4. \A s \in Tickers : [f EXCEPT ![k] = 0][s] = IF s = k THEN 0 ELSE f[s]
    BY <2>3
  <2>5. [f EXCEPT ![k] = 0] \in [Tickers -> Int]
    BY <2>3, UpdateStays
  <2>6. QED
    BY <2>1, <2>2, <2>4, <2>5
<1> HIDE DEF o, c
<1>3. IsProcess(m)
  BY <1>2, PlanUpdate
<1>4. m.orders = o
  BY DEF IsProcess
<1> HIDE DEF m
<1>5. /\ run'.pc \in {"rows", "finish"} /\ (run'.pc = "rows" => run'.planned = TRUE)
      /\ run'.orders = m.orders
  BY <1>1, <1>3, PlanTurn
<1>6. QED
  BY <1>2, <1>4, <1>5

\* A dealt order: the session's ticker is done.
LEMMA DealtSettles ==
  ASSUME SettledInv, IsProcess(run), run.pc \in {"order"} \cup Sending,
         UNCHANGED <<broker, session, logins>>,
         NEW id, NEW submitted \in BOOLEAN, run' = Dealt(id, submitted)
  PROVE  SettledInv'
<1>1. /\ run'.pc \in {"rows", "finish"} /\ (run'.pc = "rows" => run'.planned = TRUE)
      /\ \A t \in Tickers : run'.orders[t] = IF t = id[2] THEN 0 ELSE run.orders[t]
  BY DealtPlan
<1>2. CASE run'.pc = "finish"
  BY <1>2, RestSettled
<1>3. CASE run'.pc = "rows"
  <2>1. logins'[session] # 0
    BY DEF SettledInv, AtWork, Checked, Sending
  <2>2. \A b \in Ids : Tried(b) /\ b[1] = session => run.orders[b[2]] = 0 /\ b[2] \in Tickers
    BY IdParts DEF SettledInv, AtWork, Checked, Sending
  <2>3. \A b \in Ids : Tried(b) /\ b[1] = session => run'.planned /\ run'.orders[b[2]] = 0
    BY <1>1, <1>3, <2>2
  <2>4. QED
    BY <1>3, <2>1, <2>3, RowsSettled
<1>4. QED
  BY <1>1, <1>2, <1>3

-----------------------------------------------------------------------------
LEMMA ConnectSettles ==
  ASSUME LoginInv, PromiseInv, FillsInv, SettledInv,
         \/ \E armed \in BOOLEAN : Claim(armed)
         \/ PersistLease \/ Login \/ LookUpRow \/ FailToLookUpRow \/ PersistBook \/ Refuse
  PROVE  FillsInv' /\ SettledInv'
<1>0. IsState(work) /\ IsProcess(run) /\ session \in Sessions
  BY DEF PromiseInv, Shaped
<1>1. /\ UNCHANGED <<broker, session, held, foreign>>
      /\ \A s \in Sessions : logins[s] # 0 => logins'[s] # 0
  <2>1. UNCHANGED <<broker, session, held, foreign>>
    BY DEF Claim, PersistLease, Login, LookUpRow, FailToLookUpRow, PersistBook, Refuse, account
  <2>2. UNCHANGED logins \/ logins' = [logins EXCEPT ![session] = @ + 1]
    BY DEF Claim, PersistLease, Login, LookUpRow, FailToLookUpRow, PersistBook, Refuse
  <2>3. logins \in [Sessions -> Nat]
    BY DEF LoginInv
  <2>4. QED
    BY <2>1, <2>2, <2>3
<1>2. FillsInv'
  BY <1>1, FillsStay
<1>3. ASSUME NEW armed \in BOOLEAN, Claim(armed) PROVE SettledInv'
  <2>1. run'.pc = "claimed"
    BY <1>3 DEF Claim, Idle
  <2>2. QED
    BY <2>1, RestSettled
<1>4. CASE PersistLease
  <2>1. run'.pc \in {"login", "end"}
    BY <1>0, <1>4, OverBooks DEF PersistLease, Goto, Halt, IsProcess
  <2>2. QED
    BY <1>2, <2>1, RestSettled
<1>5. CASE Login
  <2>1. run'.pc = "rows" /\ logins[session] = 0 /\ logins' = [logins EXCEPT ![session] = @ + 1]
    BY <1>0, <1>5 DEF Login, IsProcess, LoginInv, At
  <2>2. logins'[session] # 0
    BY <1>0, <2>1 DEF LoginInv
  <2>3. \A b \in Ids : ~(Tried(b) /\ b[1] = session)
    BY <2>1 DEF FillsInv
  <2>4. QED
    BY <1>2, <1>1, <2>1, <2>2, <2>3, RowsSettled
<1>6. CASE LookUpRow \/ FailToLookUpRow
  <2>1. At("rows") /\ run'.pc = "rows" /\ run'.planned = run.planned /\ run'.orders = run.orders
        /\ logins' = logins
    BY <1>0, <1>6 DEF LookUpRow, FailToLookUpRow, IsProcess, At
  <2>2. QED
    BY <1>2, <1>1, <2>1, RowsSettled DEF SettledInv, At, AtWork
<1>7. CASE PersistBook
  <2>1. CASE saved' = work /\ run' = [run EXCEPT !.pc = "check", !.seen = {}] /\ work' = work
    <3>1. run'.pc = "check" /\ run'.planned = run.planned /\ run'.orders = run.orders
      BY <1>0, <2>1 DEF IsProcess
    <3>2. At("persist") /\ logins' = logins
      BY <1>7 DEF PersistBook
    <3>3. QED
      BY <1>2, <1>1, <2>1, <3>1, <3>2, OnSettled DEF At, Sending
  <2>2. CASE Halt(work)
    BY <1>2, <2>2, OverBooks, RestSettled DEF Halt
  <2>3. QED
    BY <1>7, <2>1, <2>2 DEF PersistBook
<1>8. CASE Refuse
  BY <1>2, <1>8, OverBooks, RestSettled DEF Refuse
<1>9. QED
  BY <1>2, <1>3, <1>4, <1>5, <1>6, <1>7, <1>8

\* What an earlier session bought is found, and applied.
LEMMA CollectSettles ==
  ASSUME PromiseInv, BookInv, FillsInv, SettledInv, RowsKnown \/ LookUpOrder \/ Apply
  PROVE  FillsInv' /\ SettledInv'
<1>0. /\ IsState(work) /\ IsProcess(run) /\ ~At("idle") /\ run.pc \in {"rows", "book"}
      /\ UNCHANGED <<saved, broker, held, foreign, session, logins>>
  BY DEF PromiseInv, Shaped, RowsKnown, LookUpOrder, Apply, At, account
<1>1. FillsInv'
  BY <1>0, FillsStay
<1>2. CASE Halt(work)
  BY <1>1, <1>2, OverBooks, RestSettled DEF Halt
<1>3. /\ logins[session] # 0
      /\ \A b \in Ids : Tried(b) /\ b[1] = session => run.planned /\ run.orders[b[2]] = 0
  BY <1>0 DEF SettledInv, AtWork
<1>4. ASSUME run'.pc \in {"book", "persist"}, run'.planned = run.planned, run'.orders = run.orders,
             Earlier(IF run'.pc = "book" THEN work'.applied \cup run'.seen \cup run'.todo ELSE work'.applied)
      PROVE  SettledInv'
  BY <1>0, <1>3, <1>4 DEF SettledInv, AtWork, Checked, Sending, At, Tried, Earlier
<1>5. CASE RowsKnown /\ ~run.unknown
  <2> DEFINE t == {id \in Ids : work.book[id] # 0 /\ id \notin work.applied}
  <2>1. work' = work /\ run' = [run EXCEPT !.pc = "book", !.seen = {}, !.todo = t]
    BY <1>5 DEF RowsKnown
  <2>2. Earlier(work.applied \cup t)
    BY <1>0 DEF Earlier, FillsInv, Tried, BookInv, Books
  <2> HIDE DEF t
  <2>3. run'.pc = "book" /\ run'.todo = t /\ run'.seen = {} /\ run'.planned = run.planned /\ run'.orders = run.orders
    BY <1>0, <2>1 DEF IsProcess
  <2>4. QED
    BY <1>1, <1>4, <2>1, <2>2, <2>3
<1>6. ASSUME NEW id, LookUpOrder, id = Next1(run.todo), Status(id) # "none"
      PROVE  SettledInv'
  <2> DEFINE t == run.todo \ {id}
             s == IF Status(id) = "working" THEN run.seen ELSE run.seen \cup {id}
  <2>1. work' = work /\ run' = [run EXCEPT !.todo = t, !.seen = s]
    BY <1>6 DEF LookUpOrder
  <2>2. At("book") /\ Earlier(work.applied \cup run.seen \cup run.todo)
    <3>1. At("book")
      BY <1>6 DEF LookUpOrder
    <3>2. QED
      BY <3>1 DEF SettledInv
  <2>3. id \in Ids /\ Status(id) = "working" => id[1] = session
    BY DEF Status, BrokerStatus, FillsInv
  <2>4. Earlier(work.applied \cup s \cup t)
    BY <2>2, <2>3, IdParts DEF Earlier
  <2> HIDE DEF t, s
  <2>5. run'.pc = "book" /\ run'.todo = t /\ run'.seen = s /\ run'.planned = run.planned /\ run'.orders = run.orders
    BY <1>0, <2>1, <2>2 DEF IsProcess, At
  <2>6. QED
    BY <1>4, <2>1, <2>4, <2>5
<1>7. CASE Apply
  <2> DEFINE a == work.applied \cup run.seen
             h == [t \in Tickers |-> work.positions[t] + Filled(t)]
  <2>1. work' = [work EXCEPT !.applied = a, !.positions = h]
    BY <1>7 DEF Apply
  <2>2. At("book") /\ run.todo = {} /\ Goto("persist")
    BY <1>7 DEF Apply
  <2>3. Earlier(a)
    BY <2>2 DEF SettledInv, Earlier
  <2> HIDE DEF a, h
  <2>4. work'.applied = a
    BY <1>0, <2>1 DEF IsState
  <2>5. run'.pc = "persist" /\ run'.planned = run.planned /\ run'.orders = run.orders
    BY <1>0, <2>2 DEF Goto, IsProcess
  <2>6. Earlier(IF run'.pc = "book" THEN work'.applied \cup run'.seen \cup run'.todo ELSE work'.applied)
    BY <2>3, <2>4, <2>5
  <2>7. QED
    BY <1>1, <1>4, <2>5, <2>6
<1>8. CASE LookUpOrder
  <2>1. CASE Status(Next1(run.todo)) = "none"
    BY <1>2, <1>8, <2>1 DEF LookUpOrder
  <2>2. CASE Status(Next1(run.todo)) # "none"
    BY <1>1, <1>6, <1>8, <2>2
  <2>3. QED
    BY <2>1, <2>2
<1>9. CASE RowsKnown
  BY <1>2, <1>5, <1>9 DEF RowsKnown
<1>10. QED
  BY <1>7, <1>8, <1>9

\* The account holds what the book says: then nothing that was applied is filled in part,
\* for there is at most one such order of a ticker, and nothing to make up for it.
LEMMA OwnershipSettles ==
  ASSUME session \in Int, BookInv, FillsInv, SettledInv, At("check"), Ownership, ~foreign,
         NEW odd \in work.applied, Odd(odd)
  PROVE  FALSE
<1>0. /\ work.applied \subseteq {id \in Ids : broker[id].state = "ended"}
      /\ work.positions = [t \in Tickers |-> FillsOf(broker, work.applied, t)]
  BY DEF BookInv, Books, At
<1>1. odd \in Ids /\ odd[2] \in Tickers /\ broker[odd].filled # 0 /\ Tried(odd)
  BY <1>0, IdParts DEF Odd, FillsInv
<1>2. PICK t \in Tickers : t = odd[2]
  BY <1>1
<1> DEFINE Of == {id \in Ids : id[2] = t}
           Whole == {id \in work.applied : id[2] = t /\ broker[id].filled = broker[id].quantity}
           f == [id \in Ids |-> Signed(id, broker[id].quantity)]
           b == [id \in Ids |-> Signed(id, broker[id].filled)]
           g == [id \in Of |-> IF id \in Whole THEN f[id] ELSE 0]
<1>3. ASSUME NEW id \in Of, id # odd
      PROVE  b[id] = g[id]
  <2>1. CASE broker[id].filled = 0
    BY <2>1 DEF Signed
  <2>2. CASE broker[id].filled # 0 /\ id \in work.applied /\ ~Odd(id)
    BY <2>2 DEF Odd
  <2>3. CASE broker[id].filled # 0 /\ Odd(id)
    <3>1. Tried(id) /\ id \in Ids /\ id[2] = odd[2]
      BY <1>2, <2>3 DEF FillsInv
    <3>2. id[1] # odd[1]
      BY <1>1, <1>3, <3>1 DEF FillsInv
    <3>3. id[1] < odd[1] \/ odd[1] < id[1]
      BY <1>1, <3>1, <3>2, IdParts
    <3>4. QED
      BY <1>1, <2>3, <3>1, <3>3 DEF FillsInv
  <2>4. CASE broker[id].filled # 0 /\ id \notin work.applied /\ ~Odd(id)
    <3>1. Tried(id) /\ id \in Ids /\ id[2] = odd[2] /\ id[1] <= session
      BY <1>2, <2>4 DEF FillsInv
    <3>2. id[1] = session
      <4>1. Earlier(work.applied)
        BY DEF SettledInv, At
      <4>2. ~(id[1] < session)
        BY <2>4, <3>1, <4>1 DEF Earlier
      <4>3. id[1] \in Int
        BY <3>1, IdParts
      <4>4. QED
        BY <3>1, <4>2, <4>3
    <3>3. odd[1] <= session
      BY <1>1 DEF FillsInv
    <3>4. odd[1] # id[1]
      BY <1>1, <1>3, <3>1 DEF FillsInv
    <3>5. odd[1] < id[1]
      BY <1>1, <3>1, <3>2, <3>3, <3>4, IdParts
    <3>6. QED
      BY <1>1, <3>1, <3>5 DEF FillsInv
  <2>5. QED
    BY <2>1, <2>2, <2>3, <2>4
<1>4. IsFiniteSet(Of) /\ IsFiniteSet(Whole) /\ Whole \in SUBSET Of /\ odd \in Of /\ odd \notin Whole
  BY <1>0, <1>1, <1>2, IdsAreFinite, FS_Subset DEF Odd
<1>5. \A id \in Of : b[id] \in Int /\ f[id] \in Int
  BY SignedIsInt DEF BookInv, FillsInv
<1>6. \A id \in Of : g[id] \in Int
  BY <1>5
<1>7. g[odd] = 0 /\ b[odd] = Signed(odd, broker[odd].filled)
  BY <1>1, <1>4
<1>8. (\A x \in Whole : f[x] \in Int /\ g[x] = f[x]) /\ \A x \in Of \ Whole : g[x] = 0
  BY <1>4, <1>5
<1>9. SumFunctionOnSet(b, Of) = Bought(t) /\ SumFunctionOnSet(f, Whole) = FillsOf(broker, work.applied, t)
  BY DEF Bought, FillsOf
<1> HIDE DEF Of, Whole, f, b, g
<1>10. SumFunctionOnSet(g, Of) = SumFunctionOnSet(f, Whole)
  BY <1>4, <1>8, SumPart
<1>11. SumFunctionOnSet(b, Of) = SumFunctionOnSet(g, Of) + b[odd] - g[odd]
  <2>1. \A x \in Of : g[x] \in Int /\ b[x] \in Int
    BY <1>5, <1>6
  <2>2. \A x \in Of \ {odd} : g[x] = b[x]
    BY <1>3
  <2>3. QED
    BY <1>4, <2>1, <2>2, SumChange
<1>12. SumFunctionOnSet(g, Of) \in Int
  BY <1>4, <1>6, SumType
<1>13. Bought(t) = FillsOf(broker, work.applied, t)
  BY <1>0, <1>2 DEF Ownership, FillsInv
<1>14. b[odd] \in Int /\ b[odd] # 0
  BY <1>1, <1>4, <1>5, <1>7 DEF Signed, FillsInv
<1>15. SumFunctionOnSet(b, Of) = SumFunctionOnSet(g, Of)
  BY <1>9, <1>10, <1>13
<1>16. QED
  BY <1>7, <1>11, <1>12, <1>14, <1>15

LEMMA CheckSettles ==
  ASSUME PromiseInv, BookInv, FillsInv, SettledInv, Check
  PROVE  FillsInv' /\ SettledInv'
<1>0. /\ IsState(work) /\ IsProcess(run) /\ At("check")
      /\ UNCHANGED <<broker, held, foreign, session, logins>>
  BY DEF PromiseInv, Shaped, Check, account
<1>1. FillsInv'
  BY <1>0, FillsStay
<1>2. CASE Halt(work)
  BY <1>1, <1>2, OverBooks, RestSettled DEF Halt
<1>3. CASE Ownership
  <2>1. PICK pc : pc = IF run.planned THEN "order" ELSE "plan"
    OBVIOUS
  <2>2. work' = work /\ Goto(pc)
    BY <1>3, <2>1 DEF Check
  <2>3. run'.pc = pc /\ run'.planned = run.planned /\ run'.orders = run.orders
    BY <1>0, <2>2 DEF Goto, IsProcess
  <2>4. foreign \/ \A a \in work.applied : ~Odd(a)
    <3>1. session \in Int
      BY FidelityAssumption DEF PromiseInv, Shaped, Sessions
    <3>2. QED
      BY <1>0, <1>3, <3>1, OwnershipSettles
  <2>5. /\ logins[session] # 0 /\ Earlier(work.applied)
        /\ \A b \in Ids : Tried(b) /\ b[1] = session => run.planned /\ run.orders[b[2]] = 0
    BY <1>0 DEF SettledInv, At, AtWork
  <2>6. QED
    BY <1>0, <1>1, <2>1, <2>2, <2>3, <2>4, <2>5 DEF SettledInv, AtWork, Checked, Sending, At, Tried, Odd, Earlier
<1>4. QED
  BY <1>1, <1>2, <1>3 DEF Check

LEMMA TradeSettles ==
  ASSUME PromiseInv, FillsInv, SettledInv,
         \/ \E orders \in Plans, clean \in BOOLEAN : Plan(orders, clean)
         \/ Deny \/ Reserve \/ PreviewOnly \/ EnterOrder \/ RecordIntent \/ PersistIntent \/ Finish
  PROVE  FillsInv' /\ SettledInv'
<1>0. /\ IsState(work) /\ IsProcess(run) /\ UNCHANGED <<broker, held, foreign, session, logins>>
  BY DEF PromiseInv, Shaped, Plan, Deny, Reserve, PreviewOnly, EnterOrder, RecordIntent, PersistIntent,
         Finish, account
<1>1. FillsInv'
  BY <1>0, FillsStay
<1>2. ASSUME NEW orders \in Plans, NEW clean \in BOOLEAN, Plan(orders, clean)
      PROVE  SettledInv'
  <2> DEFINE c == (work.executed # DecisionAt[session] /\ clean)
             m == [run EXCEPT !.orders = orders, !.clean = c]
  <2>1. At("plan") /\ run' = NextOrOver(m)
    BY <1>2 DEF Plan
  <2> HIDE DEF c
  <2>2. orders \in [Tickers -> Int]
    BY FidelityAssumption
  <2>3. IsProcess(m)
    BY <1>0, <2>2, PlanUpdate
  <2> HIDE DEF m
  <2>4. run'.pc \in {"rows", "finish"}
    BY <2>1, <2>3, PlanTurn
  <2>5. logins'[session] # 0 /\ \A b \in Ids : ~(Tried(b) /\ b[1] = session)
    BY <1>0, <2>1 DEF SettledInv, At, AtWork, Checked
  <2>6. QED
    BY <1>0, <2>4, <2>5, RestSettled, RowsSettled
<1>3. ASSUME Deny, NEW id, id = NextOrder PROVE SettledInv'
  BY <1>0, <1>3, DealtSettles DEF Deny, At
<1>4. CASE Reserve
  <2>1. PICK id : id = NextOrder
    OBVIOUS
  <2>2. At("order") /\ run' = [run EXCEPT !.pc = "send", !.id = id]
    BY <1>4, <2>1 DEF Reserve
  <2>3. run'.pc = "send" /\ run'.id = id /\ run'.planned = run.planned /\ run'.orders = run.orders
    BY <1>0, <2>2 DEF IsProcess
  <2>4. work'.applied = work.applied
    BY <1>0, <1>4 DEF Reserve, IsState
  <2>5. id[1] = session
    BY <2>1, <2>2, NextOrderOwed
  <2>6. QED
    BY <1>1, <1>0, <2>2, <2>3, <2>4, <2>5, OnSettled DEF At, Sending, Checked
<1>5. CASE PreviewOnly
  <2>1. run' = Dealt(run.id, FALSE) /\ At("send")
    BY <1>5 DEF PreviewOnly
  <2>2. QED
    BY <1>1, <1>0, <2>1, DealtSettles DEF At, Sending
<1>6. ASSUME NEW pc \in Sending, run.pc \in Sending, Goto(pc), work'.applied = work.applied
      PROVE  SettledInv'
  <2>1. run'.pc = pc /\ run'.planned = run.planned /\ run'.orders = run.orders /\ run'.id = run.id
    BY <1>0, <1>6 DEF Goto, IsProcess
  <2>2. run.id[1] = session
    BY <1>6 DEF SettledInv
  <2>3. QED
    BY <1>0, <1>6, <2>1, <2>2, OnSettled DEF Checked
<1>7. CASE EnterOrder
  BY <1>1, <1>0, <1>6, <1>7 DEF EnterOrder, IsState, Sending, At
<1>8. CASE RecordIntent
  BY <1>1, <1>0, <1>6, <1>8 DEF RecordIntent, IsState, Sending, At
<1>9. CASE PersistIntent
  <2>1. CASE Goto("place") /\ work' = work
    BY <1>1, <1>6, <1>9, <2>1 DEF PersistIntent, Sending, At
  <2>2. CASE Halt(work)
    BY <1>1, <2>2, OverBooks, RestSettled DEF Halt
  <2>3. QED
    BY <1>9, <2>1, <2>2 DEF PersistIntent
<1>10. CASE Finish
  <2>1. run' = Over
    BY <1>10 DEF Finish, Halt
  <2>2. QED
    BY <1>1, <2>1, OverBooks, RestSettled
<1>11. QED
  BY <1>1, <1>2, <1>3, <1>4, <1>5, <1>7, <1>8, <1>9, <1>10

\* The order placed is the session's first of its ticker, and what earlier sessions left
\* was whole.
LEMMA PlaceSettles ==
  ASSUME PromiseInv, BookInv, FillsInv, SettledInv,
         Place \/ \E arrives \in {"none", "delayed", "working"} : PlaceUnknown(arrives)
  PROVE  FillsInv' /\ SettledInv'
<1>0. /\ IsState(work) /\ IsProcess(run) /\ At("place") /\ UNCHANGED <<held, foreign, session, logins>>
      /\ broker = [other \in Ids |-> broker[other]]
  BY DEF PromiseInv, Shaped, Place, PlaceUnknown
<1>1. PICK id \in Ids : id = run.id
  BY <1>0 DEF PromiseInv, AtOrder, At, Sending
<1>2. /\ broker[id].quantity = 0 /\ work.intents[id] = Quantity(id) /\ Quantity(id) # 0
  BY <1>0, <1>1 DEF PromiseInv, AtOrder, At, Sending
<1>3. PICK state \in {"none", "delayed", "working"} : Placed(id, state)
  BY <1>1 DEF Place, PlaceUnknown
<1>4. /\ broker'[id].state = state /\ broker'[id].quantity = Quantity(id) /\ broker'[id].filled = 0
      /\ \A other \in Ids \ {id} : broker'[other] = broker[other]
  <2> DEFINE o == [state |-> state, quantity |-> work.intents[id], filled |-> 0]
  <2>1. broker' = [broker EXCEPT ![id] = o]
    BY <1>3 DEF Placed
  <2>2. o.state = state /\ o.quantity = work.intents[id] /\ o.filled = 0
    OBVIOUS
  <2> HIDE DEF o
  <2>3. QED
    BY <1>0, <1>2, <2>1, <2>2
<1>5. broker[id].filled = 0
  BY <1>2 DEF FillsInv, Tried
<1>6. \A other \in Ids : broker'[other].filled = broker[other].filled
  BY <1>4, <1>5
<1>7. id[1] = session /\ id[1] \in Int /\ id[2] \in Tickers /\ logins[session] # 0 /\ Earlier(work.applied)
  BY <1>0, <1>1, IdParts DEF SettledInv, At, Sending, AtWork, Checked
<1>8. run.orders[id[2]] # 0
  BY <1>0, <1>2, <1>7 DEF Quantity, Signed, IsProcess
<1>9. \A b \in Ids : Tried(b) /\ b[1] = session => b[2] # id[2] /\ run.orders[b[2]] = 0
  BY <1>0, <1>8 DEF SettledInv, At, AtWork, Checked, Sending
<1>10. \A other \in Ids : Tried(other)' <=> other = id \/ Tried(other)
  BY <1>2, <1>4 DEF Tried
<1>11. ASSUME ~foreign, NEW a \in Ids, NEW b \in Ids, Tried(b)', a[1] < b[1]
       PROVE  ~Odd(a)'
  <2>1. a # id
    <3>1. b[1] <= session
      BY <1>7, <1>10, <1>11 DEF FillsInv
    <3>2. QED
      BY <1>7, <1>11, <3>1, IdParts
  <2>2. Odd(a)' <=> Odd(a)
    BY <1>4, <2>1 DEF Odd
  <2>3. CASE Tried(b)
    BY <1>11, <2>2, <2>3 DEF FillsInv
  <2>4. CASE b = id
    <3>1. CASE broker[a].filled = 0
      BY <2>2, <3>1 DEF Odd
    <3>2. CASE a \in work.applied
      BY <1>0, <1>11, <2>2, <3>2 DEF SettledInv, At, Checked, Sending
    <3>3. QED
      BY <1>7, <1>11, <2>4, <3>1, <3>2 DEF Earlier
  <2>5. QED
    BY <1>10, <1>11, <2>3, <2>4
<1>12. \A t \in Tickers : Bought(t)' = Bought(t)
  BY <1>6 DEF Bought
<1>13. FillsInv'
  <2>1. \A other \in Ids :
          /\ broker'[other].filled \in Int
          /\ Tried(other)' => other[1] <= session /\ logins[other[1]] # 0
          /\ broker'[other].state \in {"delayed", "working"} => other[1] = session
          /\ broker'[other].filled # 0 => Tried(other)' /\ broker'[other].state \in {"working", "ended"}
    BY <1>4, <1>5, <1>6, <1>7, <1>10 DEF FillsInv
  <2>2. \A a, b \in Ids : Tried(a)' /\ Tried(b)' /\ a[1] = b[1] /\ a[2] = b[2] => a = b
    BY <1>7, <1>9, <1>10 DEF FillsInv
  <2>3. ~foreign => held = [t \in Tickers |-> Bought(t)']
    BY <1>12 DEF FillsInv
  <2>4. QED
    BY <1>0, <1>11, <2>1, <2>2, <2>3 DEF FillsInv
<1>14. CASE Place
  <2>1. run' = Dealt(id, TRUE)
    BY <1>1, <1>14 DEF Place
  <2>2. /\ run'.pc \in {"rows", "finish"} /\ (run'.pc = "rows" => run'.planned = TRUE)
        /\ \A t \in Tickers : run'.orders[t] = IF t = id[2] THEN 0 ELSE run.orders[t]
    BY <1>0, <2>1, DealtPlan
  <2>3. CASE run'.pc = "finish"
    BY <1>13, <2>3, RestSettled
  <2>4. CASE run'.pc = "rows"
    <3>1. \A b \in Ids : Tried(b)' /\ b[1] = session => run'.planned /\ run'.orders[b[2]] = 0
      BY <1>7, <1>9, <1>10, <2>2, <2>4, IdParts
    <3>2. QED
      BY <1>0, <1>7, <1>13, <2>4, <3>1 DEF SettledInv, AtWork, Checked, Sending, At
  <2>5. QED
    BY <2>2, <2>3, <2>4
<1>15. CASE \E arrives \in {"none", "delayed", "working"} : PlaceUnknown(arrives)
  BY <1>13, <1>15, OverBooks, RestSettled DEF PlaceUnknown, Halt
<1>16. QED
  BY <1>14, <1>15

\* A fill is one of the session's own orders, and in the account.
LEMMA BrokerSettles ==
  ASSUME PromiseInv, BookInv, FillsInv, SettledInv, NEW id \in Ids,
         FillOne(id) \/ Expire(id) \/ \E s \in {"none", "working"} : Arrive(id, s)
  PROVE  FillsInv' /\ SettledInv'
<1>0. UNCHANGED <<saved, work, run, foreign, session, logins>>
  BY DEF FillOne, Expire, Arrive
<1>1. /\ \A other \in Ids \ {id} : broker'[other] = broker[other]
      /\ broker'[id].quantity = broker[id].quantity /\ broker[id].state \in {"delayed", "working"}
      /\ broker'[id].state \in {"none", "working", "ended"}
      /\ Shows(id) => broker'[id].state \in {"working", "ended"}
  BY BrokerWorks
<1>2. \/ broker'[id].filled = broker[id].filled /\ held' = held
      \/ /\ broker'[id].filled = broker[id].filled + 1 /\ broker[id].state = "working"
         /\ held' = [held EXCEPT ![id[2]] = @ + Signed(id, 1)]
  <2>1. PICK o : o = broker[id]
    OBVIOUS
  <2>2. o = [state |-> o.state, quantity |-> o.quantity, filled |-> o.filled]
        /\ broker = [other \in Ids |-> broker[other]]
    BY <2>1 DEF PromiseInv, Shaped, IsOrder
  <2>3. ASSUME NEW s, broker' = [broker EXCEPT ![id].state = s]
        PROVE  broker'[id].filled = broker[id].filled
    <3>1. broker'[id] = [o EXCEPT !.state = s]
      BY <2>1, <2>2, <2>3
    <3>2. QED
      BY <2>1, <2>2, <3>1
  <2>4. CASE FillOne(id)
    <3> DEFINE n == o.filled + 1
               s == IF o.filled + 1 = o.quantity THEN "ended" ELSE o.state
    <3>1. broker' = [broker EXCEPT ![id].filled = n, ![id].state = s]
      BY <2>1, <2>4 DEF FillOne
    <3> HIDE DEF s
    <3>2. broker'[id] = [state |-> s, quantity |-> o.quantity, filled |-> n]
      BY <2>1, <2>2, <3>1
    <3>3. broker'[id].filled = n
      BY <3>2
    <3>4. QED
      BY <2>1, <2>4, <3>3 DEF FillOne
  <2>5. QED
    BY <2>3, <2>4 DEF Expire, Arrive
<1>3. /\ broker[id].quantity # 0 /\ id[1] = session /\ broker[id].filled \in Int
      /\ id[2] \in Tickers /\ (id \notin work.applied \/ At("idle"))
  <2>1. broker[id].quantity # 0 /\ id[1] = session /\ broker[id].filled \in Int
    BY <1>1 DEF BookInv, FillsInv
  <2>2. ~At("idle") => id \notin work.applied
    BY <1>1 DEF BookInv, Books
  <2>3. QED
    BY <2>1, <2>2, IdParts
<1>4. \A other \in Ids : Tried(other)' <=> Tried(other)
  BY <1>1 DEF Tried
<1>5. \A other \in Ids \ {id} : Odd(other)' <=> Odd(other)
  BY <1>1 DEF Odd
<1>6. ASSUME ~foreign, NEW t \in Tickers
      PROVE  held'[t] = Bought(t)'
  <2> DEFINE S == {other \in Ids : other[2] = t}
             f == [other \in Ids |-> Signed(other, broker[other].filled)]
             g == [other \in Ids |-> Signed(other, broker'[other].filled)]
  <2>0. IsFiniteSet(S) /\ S \subseteq Ids
    BY IdsAreFinite, FS_Subset
  <2>1. Bought(t) = SumFunctionOnSet(f, S) /\ Bought(t)' = SumFunctionOnSet(g, S)
    BY DEF Bought
  <2>2. held[t] = Bought(t)
    BY <1>6 DEF FillsInv
  <2>3. \A x \in Ids \ {id} : f[x] = g[x]
    BY <1>1
  <2>4. \A x \in S : f[x] \in Int /\ g[x] \in Int
    <3>1. \A x \in Ids : broker[x].filled \in Int /\ broker'[x].filled \in Int
      BY <1>1, <1>2, <1>3 DEF FillsInv
    <3>2. QED
      BY <3>1, SignedIsInt
  <2>5. f[id] = Signed(id, broker[id].filled) /\ g[id] = Signed(id, broker'[id].filled)
    OBVIOUS
  <2>6. DOMAIN held = Tickers /\ id[2] \in Tickers
    BY <1>3, <1>6 DEF FillsInv
  <2>7. id \in S <=> id[2] = t
    OBVIOUS
  <2> HIDE DEF S, f, g
  <2>8. SumFunctionOnSet(f, S) \in Int
    BY <2>0, <2>4, SumType
  <2>9. CASE id[2] # t
    <3>1. \A x \in S : f[x] = g[x]
      BY <2>0, <2>3, <2>7, <2>9
    <3>2. SumFunctionOnSet(g, S) = SumFunctionOnSet(f, S)
      BY <2>0, <3>1, SumSame
    <3>3. held'[t] = held[t]
      BY <1>2, <2>6, <2>9
    <3>4. QED
      BY <2>1, <2>2, <3>2, <3>3
  <2>10. CASE id[2] = t
    <3>1. \A x \in S \ {id} : f[x] = g[x]
      BY <2>0, <2>3
    <3>2. SumFunctionOnSet(g, S) = SumFunctionOnSet(f, S) + g[id] - f[id]
      BY <2>0, <2>4, <2>7, <2>10, <3>1, SumChange
    <3>3. f[id] \in Int /\ g[id] \in Int
      BY <2>4, <2>7, <2>10
    <3>4. CASE broker'[id].filled = broker[id].filled /\ held' = held
      BY <2>1, <2>2, <2>5, <2>8, <3>2, <3>3, <3>4
    <3>5. CASE /\ broker'[id].filled = broker[id].filled + 1
               /\ held' = [held EXCEPT ![id[2]] = @ + Signed(id, 1)]
      <4>1. held'[t] = held[t] + Signed(id, 1)
        BY <2>6, <2>10, <3>5
      <4>2. g[id] = f[id] + Signed(id, 1) /\ Signed(id, 1) \in Int
        BY <1>3, <2>5, <3>5 DEF Signed
      <4>3. QED
        BY <2>1, <2>2, <2>8, <3>2, <3>3, <4>1, <4>2
    <3>6. QED
      BY <1>2, <3>4, <3>5
  <2>11. QED
    BY <2>9, <2>10
<1>7. FillsInv'
  <2>1. \A other \in Ids :
          /\ broker'[other].filled \in Int
          /\ Tried(other)' => other[1] <= session /\ logins[other[1]] # 0
          /\ broker'[other].state \in {"delayed", "working"} => other[1] = session
          /\ broker'[other].filled # 0 => Tried(other)' /\ broker'[other].state \in {"working", "ended"}
    <3>1. TAKE other \in Ids
    <3>2. CASE other # id
      BY <1>1, <1>4, <3>2 DEF FillsInv
    <3>3. /\ broker'[id].filled \in Int /\ Tried(id)'
          /\ broker'[id].filled # 0 => broker'[id].state \in {"working", "ended"}
      BY <1>1, <1>2, <1>3, <1>4 DEF FillsInv, Shows, Tried
    <3>4. CASE other = id
      BY <1>3, <1>4, <3>3, <3>4 DEF FillsInv
    <3>5. QED
      BY <3>2, <3>4
  <2>2. \A a, b \in Ids : Tried(a)' /\ Tried(b)' /\ a[1] = b[1] /\ a[2] = b[2] => a = b
    BY <1>4 DEF FillsInv
  <2>3. ASSUME ~foreign, NEW a \in Ids, NEW b \in Ids, Tried(b)', a[1] < b[1]
        PROVE  ~Odd(a)'
    <3>1. b[1] <= session /\ Tried(b)
      BY <1>4, <2>3 DEF FillsInv
    <3>2. a # id
      <4>1. a[1] \in Int /\ b[1] \in Int
        BY IdParts
      <4>2. QED
        BY <1>3, <2>3, <3>1, <4>1
    <3>3. QED
      BY <1>5, <2>3, <3>1, <3>2 DEF FillsInv
  <2>4. ~foreign => held' = [t \in Tickers |-> Bought(t)']
    <3>1. SUFFICES ASSUME ~foreign PROVE held' = [t \in Tickers |-> Bought(t)']
      OBVIOUS
    <3>2. held = [t \in Tickers |-> held[t]]
      BY <3>1 DEF FillsInv
    <3>3. held' = [t \in Tickers |-> held'[t]]
      BY <1>2, <3>2
    <3>4. QED
      BY <1>6, <3>1, <3>3
  <2>5. QED
    BY <1>0, <2>1, <2>2, <2>3, <2>4 DEF FillsInv
<1>8. \A a \in Ids : a[1] < session /\ broker'[a].filled # 0 => broker[a].filled # 0
  <2>1. \A a \in Ids : a[1] < session => a # id
    <3>1. session \in Int
      BY <1>3, IdParts
    <3>2. QED
      BY <1>3, <3>1
  <2>2. QED
    BY <1>1, <2>1
<1>9. SettledInv'
  <2>2. ~At("idle") => \A a \in work.applied : a \in Ids /\ (~Odd(a) => ~Odd(a)')
    BY <1>3, <1>5 DEF BookInv, Books
  <2>3. run.pc \in Checked => ~At("idle")
    BY DEF Checked, Sending, At
  <2>5. /\ run'.pc \in AtWork =>
             /\ logins'[session'] # 0
             /\ \A b \in Ids : Tried(b)' /\ b[1] = session' => run'.planned /\ run'.orders[b[2]] = 0
        /\ At("plan")' => ~run'.planned
        /\ run'.pc \in Sending => run'.id[1] = session'
    BY <1>0, <1>4 DEF SettledInv, At
  <2>6. At("book") => Earlier(work.applied \cup run.seen \cup run.todo)'
    BY <1>0, <1>8 DEF SettledInv, Earlier
  <2>7. run.pc \in {"persist", "check"} \cup Checked => Earlier(work.applied)'
    BY <1>0, <1>8 DEF SettledInv, Earlier
  <2>8. run.pc \in Checked => foreign \/ \A a \in work.applied : ~Odd(a)'
    BY <2>2, <2>3 DEF SettledInv
  <2>9. QED
    BY <1>0, <2>5, <2>6, <2>7, <2>8 DEF SettledInv, At
<1>10. QED
  BY <1>7, <1>9

LEMMA OutsideSettles ==
  ASSUME LoginInv, PromiseInv, BookInv, FillsInv, SettledInv,
         \/ Fail \/ KillProcess \/ PersistState \/ LoseRunner \/ Review \/ NextSession \/ UNCHANGED vars
         \/ \E t \in Tickers, n \in {-1, 1} : ForeignTrade(t, n)
  PROVE  FillsInv' /\ SettledInv'
<1>1. CASE Fail \/ KillProcess \/ PersistState \/ LoseRunner \/ Review
  <2>1. UNCHANGED <<broker, held, foreign, session, logins>>
    BY <1>1 DEF Fail, KillProcess, PersistState, LoseRunner, Review, account
  <2>2. run'.pc \in {"idle", "end"}
    BY <1>1, OverBooks DEF Fail, KillProcess, PersistState, LoseRunner, Review, Halt, Persist, At
  <2>3. QED
    BY <2>1, <2>2, FillsStay, RestSettled
<1>2. CASE NextSession
  <2>1. /\ UNCHANGED <<run, broker, held, foreign, logins>> /\ At("idle") /\ session' = session + 1
        /\ \A id \in Ids : broker[id].state \in {"none", "ended"}
    BY <1>2 DEF NextSession, account
  <2>2. session \in Int
    BY FidelityAssumption DEF LoginInv, Sessions
  <2>3. \A id \in Ids : id[1] <= session => id[1] <= session'
    BY <2>1, <2>2, IdParts
  <2>4. FillsInv'
    BY <2>1, <2>3 DEF FillsInv, Tried, Odd, Bought
  <2>5. QED
    BY <2>1, <2>4, RestSettled DEF At
<1>3. ASSUME NEW t, NEW n, ForeignTrade(t, n)
      PROVE  FillsInv' /\ SettledInv'
  <2>1. UNCHANGED <<saved, work, run, broker, session, logins>> /\ foreign' = TRUE
    BY <1>3 DEF ForeignTrade
  <2>2. FillsInv'
    BY <2>1, FillsStay
  <2>3. SettledInv'
    BY <2>1 DEF SettledInv, At, Tried, Earlier
  <2>4. QED
    BY <2>2, <2>3
<1>4. CASE UNCHANGED vars
  BY <1>4, FillsStay DEF vars, account, SettledInv, At, Tried, Odd, Earlier
<1>5. QED
  BY <1>1, <1>2, <1>3, <1>4

LEMMA SettledKept ==
  ASSUME LoginInv, PromiseInv, BookInv, FillsInv, SettledInv, [Next]_vars
  PROVE  FillsInv' /\ SettledInv'
<1>1. CASE Connect
  BY <1>1, ConnectSettles, CollectSettles, CheckSettles DEF Connect
<1>2. CASE Trade
  BY <1>2, TradeSettles, PlaceSettles DEF Trade
<1>3. CASE Environment
  BY <1>3, BrokerSettles, OutsideSettles DEF Environment
<1>4. CASE UNCHANGED vars
  BY <1>4, OutsideSettles
<1>5. QED
  BY <1>1, <1>2, <1>3, <1>4 DEF Next

LEMMA SettledInit ==
  ASSUME Init
  PROVE  FillsInv /\ SettledInv
<1> DEFINE o == [state |-> "none", quantity |-> 0, filled |-> 0]
<1>1. /\ broker = [id \in Ids |-> o] /\ run = Idle /\ session = 1
      /\ held = [t \in Tickers |-> 0]
  BY DEF Init
<1>2. o.state = "none" /\ o.quantity = 0 /\ o.filled = 0
  OBVIOUS
<1> HIDE DEF o
<1>3. \A id \in Ids : broker[id].state = "none" /\ broker[id].quantity = 0 /\ broker[id].filled = 0
  BY <1>1, <1>2
<1>4. ASSUME NEW t \in Tickers PROVE Bought(t) = 0
  <2> DEFINE f == [id \in Ids |-> Signed(id, broker[id].filled)]
             S == {id \in Ids : id[2] = t}
  <2>1. IsFiniteSet(S) /\ \A id \in S : f[id] = 0
    BY <1>3, IdsAreFinite, FS_Subset DEF Signed
  <2>2. Bought(t) = SumFunctionOnSet(f, S)
    BY DEF Bought
  <2> HIDE DEF f, S
  <2>3. QED
    BY <2>1, <2>2, SumZero
<1>5. FillsInv
  BY <1>1, <1>3, <1>4 DEF FillsInv, Tried, Odd
<1>6. run.pc = "idle"
  BY <1>1 DEF Idle
<1>7. QED
  BY <1>5, <1>6 DEF SettledInv, AtWork, Checked, Sending, At

\* Nothing is placed on top of an order whose outcome is unknown, nor of one filled in
\* part that the book does not show (require_reconciled, ownership): for any plans,
\* sessions and number of faults, while nobody else trades in the account.
THEOREM NothingFollows == Spec => NothingFollowsTheUnsettled
<1> DEFINE I == LoginInv /\ PromiseInv /\ BookInv /\ FillsInv /\ SettledInv
           Stop == \A id \in Ids : Leaves(id) => PartialFillStopsTrading(id) /\ UnknownStopsTrading(id)
<1>1. Init => I
  BY InitKeeps, PromiseInit, BookInit, SettledInit
<1>2. I /\ [Next]_vars => I'
  BY StepKeeps, PromiseKept, BookKept, SettledKept
<1>3. I /\ [Next]_vars => [Stop]_vars
  <2>1. SUFFICES ASSUME I, [Next]_vars, NEW id \in Ids, Leaves(id)
                 PROVE  PartialFillStopsTrading(id) /\ UnknownStopsTrading(id)
    OBVIOUS
  <2>2. At("place") /\ UnknownStopsTrading(id)
    BY <2>1, LeavesReconciled
  <2>3. foreign \/ \A a \in work.applied : ~Odd(a)
    BY <2>1, <2>2 DEF SettledInv, At, Checked, Sending
  <2>4. QED
    BY <2>2, <2>3 DEF PartialFillStopsTrading, Odd
<1> HIDE DEF I
<1>4. Spec => [][Stop]_vars
  BY <1>1, <1>2, <1>3, PTL DEF Spec
<1>5. QED
  BY <1>4 DEF NothingFollowsTheUnsettled
=============================================================================
