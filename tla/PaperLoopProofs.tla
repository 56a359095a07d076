-------------------------- MODULE PaperLoopProofs --------------------------
(***************************************************************************)
(* What PaperLoop promises for any runners, tickers, sessions and number   *)
(* of faults.  A checkout that is not behind knows every order that could  *)
(* still fill; only one runner can be about to send; and a runner that got *)
(* past its reconciliation has nothing unanswered but what it sent itself. *)
(***************************************************************************)
EXTENDS PaperLoop, SumTheorems

InFlight == {"delayed", "working"}

Sending(id) == \E r \in Runners : At(r, "send") /\ run[r].id = id

Open(id) == broker[id].state \in InFlight \/ Sending(id)

\* A state of the branch that loses nothing of what the broker has.
Known(copy) ==
  \A id \in Ids :
    /\ Open(id) => copy.rows[id] = "open"
    /\ broker[id].state \in InFlight => copy.intents[id] = broker[id].quantity
    /\ \A r \in Runners : At(r, "send") /\ run[r].id = id => copy.intents[id] = Quantity(r, id)
    /\ broker[id].state # "none" => copy.rows[id] # "none"
    /\ broker[id].state = "ended" /\ copy.rows[id] = "ended" => id \in copy.recorded

Checking == {"reconcile", "release", "fills"}
Planning == {"plan", "act", "record", "persist"}

Delayed == {id \in Ids : broker[id].state = "delayed"}

\* The order a runner is at.
AtOrder(r) ==
  /\ run[r].pc \in {"record", "persist", "send"} => run[r].id \in Ids
  /\ run[r].pc \in {"record", "persist"} =>
       /\ work[r].rows[run[r].id] = "open"
       /\ run[r].current => saved.rows[run[r].id] = "none"
  /\ At(r, "persist") => work[r].intents[run[r].id] = Quantity(r, run[r].id)
  /\ At(r, "send") =>
       /\ broker[run[r].id].state = "none"
       /\ \A q \in Runners : At(q, "send") => q = r
  /\ At(r, "release") =>
       /\ run[r].id \in Ids
       /\ broker[run[r].id].state = "ended"
       /\ run[r].id \in work[r].recorded
  /\ At(r, "fills") => run[r].todo = {}

\* What a runner knows of the requests nobody has answered.
Aware(r) ==
  /\ At(r, "send") => Delayed \subseteq run[r].sent
  /\ run[r].current /\ run[r].pc \in Planning =>
       Delayed \subseteq run[r].sent /\ \A q \in Runners : ~At(q, "send")
  /\ run[r].current /\ run[r].pc \in Checking =>
       \A id \in Ids : broker[id].state = "delayed" \/ Sending(id) =>
         id \in run[r].todo \/ run[r].unknown

\* What the branch has reserved, the copy has too.
Ahead(copy) == \A id \in Ids : saved.rows[id] # "none" => copy.rows[id] # "none"

Safe ==
  /\ Known(saved)
  /\ \A r \in Runners :
       /\ run[r].current => Known(work[r]) /\ Ahead(work[r])
       /\ AtOrder(r) /\ Aware(r)

-----------------------------------------------------------------------------
\* The shape of the state, as far as the arguments need it; amounts are left
\* open, they are sums.
IsState(c) ==
  /\ c = [rows |-> c.rows, intents |-> c.intents, recorded |-> c.recorded, executed |-> c.executed]
  /\ c.rows \in [Ids -> {"none", "open", "ended"}]
  /\ c.intents = [id \in Ids |-> c.intents[id]]

IsProcess(p) ==
  /\ p = [pc |-> p.pc, current |-> p.current, todo |-> p.todo, wrote |-> p.wrote,
          unknown |-> p.unknown, orders |-> p.orders, clean |-> p.clean, id |-> p.id,
          sent |-> p.sent]
  /\ p.pc \in Phases /\ p.current \in BOOLEAN /\ p.unknown \in BOOLEAN /\ p.todo \subseteq Ids

IsOrder(o) == o = [state |-> o.state, quantity |-> o.quantity, filled |-> o.filled]

Shaped ==
  /\ IsState(saved)
  /\ work = [r \in Runners |-> work[r]] /\ \A r \in Runners : IsState(work[r])
  /\ run = [r \in Runners |-> run[r]] /\ \A r \in Runners : IsProcess(run[r])
  /\ broker = [id \in Ids |-> broker[id]] /\ \A id \in Ids : IsOrder(broker[id])

LEMMA EmptyIsState == IsState(EmptyState)
  BY DEF EmptyState, IsState

LEMMA IdleIsProcess == IsProcess(Idle)
  BY DEF Idle, IsProcess, Phases

\* What a change of one field does to a copy of the branch.
LEMMA StateUpdates ==
  ASSUME NEW c, IsState(c), NEW id \in Ids
  PROVE  /\ \A v \in {"open", "ended"} :
              /\ IsState([c EXCEPT !.rows[id] = v])
              /\ [c EXCEPT !.rows[id] = v].rows = [c.rows EXCEPT ![id] = v]
              /\ [c EXCEPT !.rows[id] = v].intents = c.intents
              /\ [c EXCEPT !.rows[id] = v].recorded = c.recorded
         /\ \A n : /\ IsState([c EXCEPT !.intents[id] = n])
                   /\ [c EXCEPT !.intents[id] = n].rows = c.rows
                   /\ [c EXCEPT !.intents[id] = n].intents = [c.intents EXCEPT ![id] = n]
                   /\ [c EXCEPT !.intents[id] = n].recorded = c.recorded
         /\ IsState([c EXCEPT !.recorded = @ \cup {id}])
         /\ [c EXCEPT !.recorded = @ \cup {id}].rows = c.rows
         /\ [c EXCEPT !.recorded = @ \cup {id}].intents = c.intents
         /\ [c EXCEPT !.recorded = @ \cup {id}].recorded = c.recorded \cup {id}
<1>1. \A v \in {"open", "ended"} :
        /\ IsState([c EXCEPT !.rows[id] = v])
        /\ [c EXCEPT !.rows[id] = v].rows = [c.rows EXCEPT ![id] = v]
        /\ [c EXCEPT !.rows[id] = v].intents = c.intents
        /\ [c EXCEPT !.rows[id] = v].recorded = c.recorded
  BY DEF IsState
<1>2. \A n : /\ IsState([c EXCEPT !.intents[id] = n])
             /\ [c EXCEPT !.intents[id] = n].rows = c.rows
             /\ [c EXCEPT !.intents[id] = n].intents = [c.intents EXCEPT ![id] = n]
             /\ [c EXCEPT !.intents[id] = n].recorded = c.recorded
  BY DEF IsState
<1>3. /\ IsState([c EXCEPT !.recorded = @ \cup {id}])
      /\ [c EXCEPT !.recorded = @ \cup {id}].rows = c.rows
      /\ [c EXCEPT !.recorded = @ \cup {id}].intents = c.intents
      /\ [c EXCEPT !.recorded = @ \cup {id}].recorded = c.recorded \cup {id}
  BY DEF IsState
<1>4. QED
  BY <1>1, <1>2, <1>3

LEMMA ShapedInit == Init => Shaped
  BY EmptyIsState, IdleIsProcess DEF Init, Shaped, IsOrder

\* What a change of one field does to a runner's memory.
LEMMA SetPc ==
  ASSUME NEW p, IsProcess(p), NEW v \in Phases, NEW q, q = [p EXCEPT !.pc = v]
  PROVE  /\ IsProcess(q) /\ q.pc = v
         /\ q.current = p.current /\ q.todo = p.todo /\ q.unknown = p.unknown /\ q.id = p.id
         /\ q.orders = p.orders /\ q.sent = p.sent
  BY DEF IsProcess

LEMMA SetCurrent ==
  ASSUME NEW p, IsProcess(p), NEW v \in BOOLEAN, NEW q, q = [p EXCEPT !.current = v]
  PROVE  /\ IsProcess(q) /\ q.current = v
         /\ q.pc = p.pc /\ q.todo = p.todo /\ q.unknown = p.unknown /\ q.id = p.id
         /\ q.orders = p.orders /\ q.sent = p.sent
  BY DEF IsProcess

LEMMA SetTodo ==
  ASSUME NEW p, IsProcess(p), NEW v \in SUBSET Ids, NEW q, q = [p EXCEPT !.todo = v]
  PROVE  /\ IsProcess(q) /\ q.todo = v
         /\ q.pc = p.pc /\ q.current = p.current /\ q.unknown = p.unknown /\ q.id = p.id
         /\ q.orders = p.orders /\ q.sent = p.sent
  BY DEF IsProcess

LEMMA SetUnknown ==
  ASSUME NEW p, IsProcess(p), NEW v \in BOOLEAN, NEW q, q = [p EXCEPT !.unknown = v]
  PROVE  /\ IsProcess(q) /\ q.unknown = v
         /\ q.pc = p.pc /\ q.current = p.current /\ q.todo = p.todo /\ q.id = p.id
         /\ q.orders = p.orders /\ q.sent = p.sent
  BY DEF IsProcess

LEMMA SetWrote ==
  ASSUME NEW p, IsProcess(p), NEW v, NEW q, q = [p EXCEPT !.wrote = v]
  PROVE  /\ IsProcess(q) /\ q.wrote = v
         /\ q.pc = p.pc /\ q.current = p.current /\ q.todo = p.todo /\ q.unknown = p.unknown
         /\ q.id = p.id /\ q.orders = p.orders /\ q.sent = p.sent
  BY DEF IsProcess

LEMMA SetId ==
  ASSUME NEW p, IsProcess(p), NEW v, NEW q, q = [p EXCEPT !.id = v]
  PROVE  /\ IsProcess(q) /\ q.id = v
         /\ q.pc = p.pc /\ q.current = p.current /\ q.todo = p.todo /\ q.unknown = p.unknown
         /\ q.orders = p.orders /\ q.sent = p.sent
  BY DEF IsProcess

LEMMA SetOrders ==
  ASSUME NEW p, IsProcess(p), NEW v, NEW q, q = [p EXCEPT !.orders = v]
  PROVE  /\ IsProcess(q) /\ q.orders = v
         /\ q.pc = p.pc /\ q.current = p.current /\ q.todo = p.todo /\ q.unknown = p.unknown
         /\ q.id = p.id /\ q.sent = p.sent
  BY DEF IsProcess

LEMMA SetClean ==
  ASSUME NEW p, IsProcess(p), NEW v, NEW q, q = [p EXCEPT !.clean = v]
  PROVE  /\ IsProcess(q) /\ q.clean = v
         /\ q.pc = p.pc /\ q.current = p.current /\ q.todo = p.todo /\ q.unknown = p.unknown
         /\ q.id = p.id /\ q.orders = p.orders /\ q.sent = p.sent
  BY DEF IsProcess

LEMMA SetSent ==
  ASSUME NEW p, IsProcess(p), NEW v, NEW q, q = [p EXCEPT !.sent = v]
  PROVE  /\ IsProcess(q) /\ q.sent = v
         /\ q.pc = p.pc /\ q.current = p.current /\ q.todo = p.todo /\ q.unknown = p.unknown
         /\ q.id = p.id /\ q.orders = p.orders
  BY DEF IsProcess

LEMMA OverIsProcess ==
  ASSUME Shaped, NEW r \in Runners
  PROVE  IsProcess(Over(r)) /\ Over(r).pc = "end" /\ Over(r).current = run[r].current
<1>1. IsProcess(Idle) /\ run[r].current \in BOOLEAN
  BY IdleIsProcess DEF Shaped, IsProcess
<1> DEFINE ended == [Idle EXCEPT !.pc = "end"]
<1>2. IsProcess(ended) /\ ended.pc = "end"
  BY <1>1 DEF IsProcess, Phases
<1>3. Over(r) = [ended EXCEPT !.current = run[r].current]
  BY DEF Over
<1> HIDE DEF ended
<1>4. QED
  BY <1>1, <1>2, <1>3 DEF IsProcess

\* Steps that replace one runner's memory, and pushes.
LEMMA RunUpdate ==
  ASSUME Shaped, NEW r \in Runners, NEW next, IsProcess(next), run' = [run EXCEPT ![r] = next]
  PROVE  /\ run' = [q \in Runners |-> run'[q]] /\ \A q \in Runners : IsProcess(run'[q])
         /\ run'[r] = next /\ \A q \in Runners \ {r} : run'[q] = run[q]
  BY DEF Shaped

LEMMA PhaseUpdate ==
  ASSUME Shaped, NEW r \in Runners, NEW pc \in Phases, Goto(r, pc)
  PROVE  /\ run' = [q \in Runners |-> run'[q]] /\ \A q \in Runners : IsProcess(run'[q])
         /\ run'[r] = [run[r] EXCEPT !.pc = pc]
         /\ \A q \in Runners \ {r} : run'[q] = run[q]
<1>1. IsProcess([run[r] EXCEPT !.pc = pc])
  BY DEF Shaped, IsProcess
<1>2. run' = [run EXCEPT ![r] = [run[r] EXCEPT !.pc = pc]]
  BY DEF Goto, Shaped, IsProcess
<1>3. QED
  BY <1>1, <1>2, RunUpdate

\* Another runner's memory, but for whether it is behind.
SameButCurrent(q) ==
  /\ run'[q].pc = run[q].pc /\ run'[q].id = run[q].id /\ run'[q].orders = run[q].orders
  /\ run'[q].todo = run[q].todo /\ run'[q].unknown = run[q].unknown /\ run'[q].sent = run[q].sent
  /\ run'[q].current => run[q].current /\ saved' = saved

LEMMA PushUpdate ==
  ASSUME Shaped, NEW r \in Runners, NEW next, IsProcess(next), Push(r, next)
  PROVE  /\ run[r].current /\ saved' = work[r] /\ IsState(saved')
         /\ run' = [q \in Runners |-> run'[q]] /\ \A q \in Runners : IsProcess(run'[q])
         /\ run'[r] = next /\ \A q \in Runners \ {r} : SameButCurrent(q)
<1>1. \A q \in Runners :
        IsProcess([run[q] EXCEPT !.current = @ /\ saved' = saved])
  BY DEF Shaped, IsProcess
<1>2. \A q \in Runners \ {r} : run'[q] = [run[q] EXCEPT !.current = @ /\ saved' = saved]
  BY DEF Push
<1>3. ASSUME NEW q \in Runners \ {r} PROVE SameButCurrent(q)
  BY <1>2 DEF SameButCurrent, Shaped, IsProcess
<1>4. QED
  BY <1>1, <1>2, <1>3 DEF Push, Shaped

LEMMA PersistUpdate ==
  ASSUME Shaped, NEW r \in Runners, NEW done, NEW failed, IsProcess(done), IsProcess(failed),
         Persist(r, done, failed)
  PROVE  /\ saved' = saved \/ (run[r].current /\ saved' = work[r])
         /\ IsState(saved')
         /\ run' = [q \in Runners |-> run'[q]] /\ \A q \in Runners : IsProcess(run'[q])
         /\ run'[r] = done \/ run'[r] = failed
         /\ \A q \in Runners \ {r} : SameButCurrent(q)
<1>1. CASE Push(r, done)
  BY <1>1, PushUpdate
<1>2. CASE Push(r, failed)
  BY <1>2, PushUpdate
<1>3. CASE run' = [run EXCEPT ![r] = failed] /\ UNCHANGED saved
  BY <1>3, RunUpdate DEF Shaped, SameButCurrent
<1>4. QED
  BY <1>1, <1>2, <1>3 DEF Persist

-----------------------------------------------------------------------------
\* A step of r that sends nothing new on its way: the others are untouched, the
\* order r was at may have been sent, and the branch may be what r had.
Calm(r) ==
  /\ \A q \in Runners \ {r} : SameButCurrent(q) /\ work'[q] = work[q]
  /\ run'[r].pc # "send"
  /\ \A id \in Ids :
       \/ broker'[id] = broker[id]
       \/ /\ At(r, "send") /\ id = run[r].id
          /\ broker'[id].quantity = Quantity(r, id)
          /\ broker'[id].state \in {"none", "delayed", "working"}
  /\ saved' = saved \/ (run[r].current /\ saved' = work[r])

\* The copy d follows from c: reservations are added, and dropped only of orders
\* that can fill no more and whose fills are recorded.
Follows(r, c, d) ==
  /\ \A id \in Ids :
       /\ Open(id) => d.intents[id] = c.intents[id]
       /\ \/ d.rows[id] = c.rows[id]
          \/ c.rows[id] = "none" /\ d.rows[id] = "open"
          \/ /\ d.rows[id] = "ended" /\ c.rows[id] # "none"
             /\ broker'[id].state \notin InFlight
             /\ broker'[id].state # "none" => id \in d.recorded
             /\ \A q \in Runners \ {r} : At(q, "send") => run[q].id # id
  /\ c.recorded \subseteq d.recorded

\* Known in the next state.
KnownAfter(d) ==
  \A id \in Ids :
    /\ broker'[id].state \in InFlight => d.rows[id] = "open" /\ d.intents[id] = broker'[id].quantity
    /\ \A q \in Runners : run'[q].pc = "send" /\ run'[q].id = id =>
         /\ d.rows[id] = "open"
         /\ d.intents[id] = Signed(id, run'[q].orders[id[2]])
    /\ broker'[id].state # "none" => d.rows[id] # "none"
    /\ broker'[id].state = "ended" /\ d.rows[id] = "ended" => id \in d.recorded

LEMMA Follow ==
  ASSUME Safe, NEW r \in Runners, Calm(r), NEW c, NEW d, Known(c), Follows(r, c, d)
  PROVE  KnownAfter(d)
<1> SUFFICES ASSUME NEW id \in Ids
             PROVE  /\ broker'[id].state \in InFlight =>
                         d.rows[id] = "open" /\ d.intents[id] = broker'[id].quantity
                    /\ \A q \in Runners : run'[q].pc = "send" /\ run'[q].id = id =>
                         /\ d.rows[id] = "open"
                         /\ d.intents[id] = Signed(id, run'[q].orders[id[2]])
                    /\ broker'[id].state # "none" => d.rows[id] # "none"
                    /\ broker'[id].state = "ended" /\ d.rows[id] = "ended" => id \in d.recorded
  BY DEF KnownAfter
<1>1. /\ Open(id) => c.rows[id] = "open"
      /\ broker[id].state \in InFlight => c.intents[id] = broker[id].quantity
      /\ \A q \in Runners : At(q, "send") /\ run[q].id = id => c.intents[id] = Quantity(q, id)
      /\ broker[id].state # "none" => c.rows[id] # "none"
      /\ broker[id].state = "ended" /\ c.rows[id] = "ended" => id \in c.recorded
  BY DEF Known
<1>2. /\ Open(id) => d.intents[id] = c.intents[id]
      /\ \/ d.rows[id] = c.rows[id]
         \/ c.rows[id] = "none" /\ d.rows[id] = "open"
         \/ /\ d.rows[id] = "ended" /\ c.rows[id] # "none"
            /\ broker'[id].state \notin InFlight
            /\ broker'[id].state # "none" => id \in d.recorded
            /\ \A q \in Runners \ {r} : At(q, "send") => run[q].id # id
      /\ c.recorded \subseteq d.recorded
  BY DEF Follows
<1>3. \/ broker'[id] = broker[id]
      \/ /\ At(r, "send") /\ id = run[r].id
         /\ broker'[id].quantity = Quantity(r, id)
         /\ broker'[id].state \in {"none", "delayed", "working"}
  BY DEF Calm
<1>4. ASSUME NEW q \in Runners, run'[q].pc = "send", run'[q].id = id
      PROVE  /\ d.rows[id] = "open"
             /\ d.intents[id] = Signed(id, run'[q].orders[id[2]])
  <2>1. q # r /\ At(q, "send") /\ run[q].id = id /\ run'[q].orders = run[q].orders
    BY <1>4 DEF Calm, SameButCurrent, At
  <2>2. Open(id)
    BY <2>1 DEF Open, Sending
  <2>3. QED
    BY <1>1, <1>2, <2>1, <2>2 DEF Quantity
<1>5. ASSUME broker'[id].state \in InFlight
      PROVE  d.rows[id] = "open" /\ d.intents[id] = broker'[id].quantity
  <2>1. Open(id) /\ c.intents[id] = broker'[id].quantity
    BY <1>1, <1>3, <1>5 DEF Open, Sending
  <2>2. QED
    BY <1>1, <1>2, <1>5, <2>1
<1>6. ASSUME broker'[id].state # "none" PROVE d.rows[id] # "none"
  <2>1. broker[id].state # "none" \/ Open(id)
    BY <1>3, <1>6 DEF Open, Sending
  <2>2. QED
    BY <1>1, <1>2, <2>1
<1>7. ASSUME broker'[id].state = "ended", d.rows[id] = "ended" PROVE id \in d.recorded
  BY <1>1, <1>2, <1>3, <1>7 DEF Open
<1>8. QED
  BY <1>4, <1>5, <1>6, <1>7

\* The other runners' part of the invariant survives a calm step.
LEMMA OthersKept ==
  ASSUME Safe, NEW r \in Runners, Calm(r), NEW q \in Runners \ {r}
  PROVE  AtOrder(q)' /\ Aware(q)'
<1>1. /\ SameButCurrent(q) /\ work'[q] = work[q]
      /\ run'[r].pc # "send"
      /\ \A p \in Runners : run'[p].pc = "send" => At(p, "send") /\ p # r /\ run'[p].id = run[p].id
  BY DEF Calm, SameButCurrent, At
<1>2. AtOrder(q) /\ Aware(q) /\ AtOrder(r)
  BY DEF Safe
<1>3. \A id \in Ids : broker[id].state = "ended" => broker'[id].state = "ended"
  BY <1>2 DEF Calm, AtOrder, At
<1>4. At(q, "send") => ~At(r, "send") /\ \A id \in Ids : broker'[id] = broker[id]
  BY <1>2 DEF Calm, AtOrder, At
<1>5. \A id \in Ids : broker'[id].state = "delayed" =>
        broker[id].state = "delayed" \/ (At(r, "send") /\ id = run[r].id)
  BY DEF Calm
<1>6. AtOrder(q)'
  <2>1. run'[q].pc \in {"record", "persist", "send"} => run'[q].id \in Ids
    BY <1>1, <1>2 DEF AtOrder, SameButCurrent
  <2>2. run'[q].pc \in {"record", "persist"} =>
          /\ work'[q].rows[run'[q].id] = "open"
          /\ run'[q].current => saved'.rows[run'[q].id] = "none"
    BY <1>1, <1>2 DEF AtOrder, SameButCurrent
  <2>3. run'[q].pc = "persist" =>
          work'[q].intents[run'[q].id] = Signed(run'[q].id, run'[q].orders[run'[q].id[2]])
    BY <1>1, <1>2 DEF AtOrder, SameButCurrent, At, Quantity
  <2>4. run'[q].pc = "send" =>
          /\ broker'[run'[q].id].state = "none"
          /\ \A p \in Runners : run'[p].pc = "send" => p = q
    BY <1>1, <1>2, <1>4 DEF AtOrder, SameButCurrent, At
  <2>5. run'[q].pc = "release" =>
          /\ run'[q].id \in Ids
          /\ broker'[run'[q].id].state = "ended"
          /\ run'[q].id \in work'[q].recorded
    BY <1>1, <1>2, <1>3 DEF AtOrder, SameButCurrent, At
  <2>6. run'[q].pc = "fills" => run'[q].todo = {}
    BY <1>1, <1>2 DEF AtOrder, SameButCurrent, At
  <2>7. QED
    BY <2>1, <2>2, <2>3, <2>4, <2>5, <2>6 DEF AtOrder, At, Quantity, Signed
<1>7. Aware(q)'
  <2>1. run'[q].pc = "send" => Delayed' \subseteq run'[q].sent
    BY <1>1, <1>2, <1>4 DEF Aware, SameButCurrent, At, Delayed
  <2>2. run'[q].current /\ run'[q].pc \in Planning =>
          Delayed' \subseteq run'[q].sent /\ \A p \in Runners : run'[p].pc # "send"
    BY <1>1, <1>2, <1>5 DEF Aware, SameButCurrent, At, Delayed
  <2>3. ASSUME run'[q].current, run'[q].pc \in Checking, NEW id \in Ids,
               broker'[id].state = "delayed" \/ Sending(id)'
        PROVE  id \in run'[q].todo \/ run'[q].unknown
    <3>1. broker[id].state = "delayed" \/ Sending(id)
      BY <1>1, <1>5, <2>3 DEF Sending, At
    <3>2. QED
      BY <1>1, <1>2, <2>3, <3>1 DEF Aware, SameButCurrent
  <2>4. QED
    BY <2>1, <2>2, <2>3 DEF Aware, At
<1>8. QED
  BY <1>6, <1>7

LEMMA CalmKeeps ==
  ASSUME Safe, NEW r \in Runners, Calm(r), AtOrder(r)', Aware(r)',
         run'[r].current => \/ run[r].current /\ Follows(r, work[r], work'[r])
                            \/ saved' = saved /\ Follows(r, saved, work'[r])
  PROVE  Safe'
<1>1. \A c : Known(c) => KnownAfter(c)
  BY Follow DEF Follows
<1>3. KnownAfter(saved')
  BY <1>1 DEF Calm, Safe
<1>4. ASSUME NEW q \in Runners, run'[q].current PROVE KnownAfter(work'[q])
  <2>1. CASE q = r
    BY <1>4, <2>1, Follow DEF Safe
  <2>2. CASE q # r
    BY <1>1, <1>4, <2>2 DEF Calm, SameButCurrent, Safe
  <2>3. QED
    BY <2>1, <2>2
<1>5. Known(saved)' /\ \A q \in Runners : run'[q].current => Known(work[q])'
  BY <1>3, <1>4 DEF Known, KnownAfter, Open, Sending, At, Quantity, Signed
<1>6. \A q \in Runners : AtOrder(q)' /\ Aware(q)'
  BY OthersKept
<1>7. \A q \in Runners : run'[q].current => Ahead(work[q])'
  <2>1. \A c, d : Follows(r, c, d) => \A id \in Ids : c.rows[id] # "none" => d.rows[id] # "none"
    BY DEF Follows
  <2>2. CASE run'[r].current
    BY <2>1, <2>2 DEF Safe, Ahead, Calm, SameButCurrent
  <2>3. CASE ~run'[r].current
    BY <2>3 DEF Safe, Ahead, Calm, SameButCurrent
  <2>4. QED
    BY <2>2, <2>3
<1>8. QED
  BY <1>5, <1>6, <1>7 DEF Safe

\* A step of r within its runner.
Local(r) ==
  /\ \A q \in Runners \ {r} : run'[q] = run[q] /\ work'[q] = work[q]
  /\ saved' = saved /\ broker' = broker
  /\ run'[r].pc # "send"

LEMMA LocalIsCalm ==
  ASSUME NEW r \in Runners, Local(r)
  PROVE  Calm(r)
  BY DEF Local, Calm, SameButCurrent

LEMMA SameFollows == \A r, c : Follows(r, c, c)
  BY DEF Follows

Inv == Shaped /\ Safe

-----------------------------------------------------------------------------
\* A step of r within its runner, with next in its memory and d in its checkout.
LEMMA LocalUpdate ==
  ASSUME Inv, NEW r \in Runners, NEW next, IsProcess(next), next.pc # "send",
         run' = [run EXCEPT ![r] = next],
         NEW d, IsState(d), work' = [work EXCEPT ![r] = d],
         UNCHANGED <<saved, account>>
  PROVE  /\ Shaped' /\ Local(r) /\ Calm(r) /\ run'[r] = next /\ work'[r] = d
         /\ saved' = saved /\ broker' = broker
<1>1. /\ run' = [q \in Runners |-> run'[q]] /\ \A q \in Runners : IsProcess(run'[q])
      /\ run'[r] = next /\ \A q \in Runners \ {r} : run'[q] = run[q]
  BY RunUpdate DEF Inv
<1>2. /\ work' = [q \in Runners |-> work'[q]] /\ \A q \in Runners : IsState(work'[q])
      /\ work'[r] = d /\ \A q \in Runners \ {r} : work'[q] = work[q]
  BY DEF Inv, Shaped
<1>3. Shaped'
  BY <1>1, <1>2 DEF Inv, Shaped, account
<1>4. Local(r)
  BY <1>1, <1>2 DEF Local, account
<1>5. QED
  BY <1>1, <1>2, <1>3, <1>4, LocalIsCalm DEF account

\* The memory alone changes.
LEMMA MemoryUpdate ==
  ASSUME Inv, NEW r \in Runners, NEW next, IsProcess(next), next.pc # "send",
         run' = [run EXCEPT ![r] = next], UNCHANGED <<saved, work, account>>
  PROVE  /\ Shaped' /\ Local(r) /\ Calm(r) /\ run'[r] = next /\ work'[r] = work[r]
         /\ saved' = saved /\ broker' = broker /\ Follows(r, work[r], work'[r])
<1>1. IsState(work[r]) /\ work' = [work EXCEPT ![r] = work[r]]
  BY DEF Inv, Shaped
<1>2. QED
  BY <1>1, LocalUpdate, SameFollows

\* A checkout that is ahead of the branch, or not used any more.
LEMMA CalmStep ==
  ASSUME Inv, Shaped', NEW r \in Runners, Calm(r), AtOrder(r)', Aware(r)',
         run'[r].current => run[r].current /\ Follows(r, work[r], work'[r])
  PROVE  Inv'
  BY CalmKeeps DEF Inv

\* Where the loop neither checks, plans nor sends, nothing is asked of it.
LEMMA AtRest ==
  ASSUME NEW r \in Runners, run'[r].pc \in {"idle", "complete", "end"}
  PROVE  AtOrder(r)' /\ Aware(r)'
  BY DEF AtOrder, Aware, At, Planning, Checking

\* A runner that plans goes on planning.
LEMMA PlanningOn ==
  ASSUME Inv, NEW r \in Runners, Local(r), run[r].pc \in Planning, run'[r].pc \in Planning,
         run[r].sent \subseteq run'[r].sent, run'[r].current => run[r].current
  PROVE  Aware(r)'
<1>1. run[r].current => Delayed \subseteq run[r].sent /\ \A q \in Runners : ~At(q, "send")
  BY DEF Inv, Safe, Aware
<1>2. \A q \in Runners : run'[q].pc = "send" => At(q, "send")
  BY DEF Local, At
<1>3. Delayed' = Delayed
  BY DEF Local, Delayed
<1>4. run'[r].pc \notin Checking /\ run'[r].pc # "send"
  BY DEF Planning, Checking
<1>5. QED
  BY <1>1, <1>2, <1>3, <1>4 DEF Aware, At

\* A runner that checks goes on checking what it has to, and still knows what
\* it could not find.
LEMMA CheckingOn ==
  ASSUME Inv, NEW r \in Runners, Local(r), run[r].pc \in Checking, run'[r].pc \in Checking,
         run'[r].current => run[r].current,
         \A id \in Ids :
           (broker[id].state = "delayed" \/ Sending(id)) /\ (id \in run[r].todo \/ run[r].unknown)
             => id \in run'[r].todo \/ run'[r].unknown
  PROVE  Aware(r)'
<1>1. run[r].current => \A id \in Ids : broker[id].state = "delayed" \/ Sending(id) =>
        id \in run[r].todo \/ run[r].unknown
  BY DEF Inv, Safe, Aware
<1>2. \A id \in Ids : broker'[id].state = "delayed" \/ Sending(id)' =>
        broker[id].state = "delayed" \/ Sending(id)
  BY DEF Local, Sending, At
<1>3. run'[r].pc \notin Planning /\ run'[r].pc # "send"
  BY DEF Planning, Checking
<1>4. QED
  BY <1>1, <1>2, <1>3 DEF Aware, At

-----------------------------------------------------------------------------
LEMMA StartKeeps ==
  ASSUME Inv, NEW r \in Runners, Start(r)
  PROVE  Inv'
<1> DEFINE open == {id \in Ids : saved.rows[id] = "open"}
           p1   == [Idle EXCEPT !.pc = "reconcile"]
           here == TRUE
           p2   == [p1 EXCEPT !.current = here]
           p3   == [p2 EXCEPT !.todo = open]
<1>1. IsProcess(p1) /\ p1.pc = "reconcile"
  BY IdleIsProcess, SetPc DEF Phases
<1>2. run' = [run EXCEPT ![r] = p3] /\ work' = [work EXCEPT ![r] = saved]
  BY DEF Start
<1> HIDE DEF p1
<1>3. here \in BOOLEAN
  OBVIOUS
<1> HIDE DEF here
<1>4. IsProcess(p2) /\ p2.pc = "reconcile"
  BY <1>1, <1>3, SetCurrent
<1> HIDE DEF p2
<1>5. IsProcess(p3) /\ p3.pc = "reconcile" /\ p3.todo = open
  BY <1>4, SetTodo
<1> HIDE DEF p3
<1>6. /\ Shaped' /\ Local(r) /\ Calm(r) /\ run'[r] = p3 /\ work'[r] = saved
      /\ saved' = saved /\ broker' = broker
  BY <1>2, <1>5, LocalUpdate DEF Start, Inv, Shaped
<1>7. AtOrder(r)'
  BY <1>5, <1>6 DEF AtOrder, At
<1>8. Aware(r)'
  <2>1. \A id \in Ids : broker'[id].state = "delayed" \/ Sending(id)' => Open(id)
    BY <1>5, <1>6 DEF Local, Open, Sending, At, InFlight
  <2>2. \A id \in Ids : Open(id) => id \in open
    BY DEF Inv, Safe, Known
  <2>3. QED
    BY <1>5, <1>6, <2>1, <2>2 DEF Aware, At, Planning
<1>9. QED
  BY <1>6, <1>7, <1>8, SameFollows, CalmKeeps DEF Inv

LEMMA LookUpKeeps ==
  ASSUME Inv, NEW r \in Runners, LookUp(r)
  PROVE  Inv'
<1> DEFINE id   == NextRow(r)
           lost == run[r].unknown \/ broker[id].state # "working"
           p1   == [run[r] EXCEPT !.todo = run[r].todo \ {id}]
           p2   == [p1 EXCEPT !.unknown = lost]
<1>1. IsProcess(run[r]) /\ run[r].todo \ {id} \in SUBSET Ids /\ lost \in BOOLEAN
  BY DEF Inv, Shaped, LookUp, Reconciling, NextRow, IsProcess
<1>2. run' = [run EXCEPT ![r] = p2] /\ At(r, "reconcile")
  BY DEF LookUp, Reconciling, Inv, Shaped
<1> HIDE DEF id, lost
<1>3. /\ IsProcess(p1) /\ p1.pc = run[r].pc /\ p1.current = run[r].current
      /\ p1.todo = run[r].todo \ {id}
  BY <1>1, SetTodo
<1> HIDE DEF p1
<1>4. /\ IsProcess(p2) /\ p2.pc = run[r].pc /\ p2.current = run[r].current
      /\ p2.todo = run[r].todo \ {id} /\ p2.unknown = lost
  BY <1>1, <1>3, SetUnknown
<1> HIDE DEF p2
<1>5. /\ Shaped' /\ Local(r) /\ Calm(r) /\ run'[r] = p2 /\ work'[r] = work[r]
      /\ broker' = broker /\ Follows(r, work[r], work'[r])
  BY <1>2, <1>4, MemoryUpdate DEF LookUp, At
<1>6. AtOrder(r)'
  BY <1>2, <1>4, <1>5 DEF AtOrder, At
<1>7. Aware(r)'
  <2>1. \A i \in Ids : broker[i].state = "delayed" \/ Sending(i) => broker[i].state # "working"
    BY DEF Inv, Safe, AtOrder, Sending
  <2>2. QED
    BY <1>2, <1>4, <1>5, <2>1, CheckingOn DEF At, Checking, lost
<1>8. QED
  BY <1>4, <1>5, <1>6, <1>7, CalmStep

LEMMA RecordFillKeeps ==
  ASSUME Inv, NEW r \in Runners, RecordFill(r)
  PROVE  Inv'
<1> DEFINE id == NextRow(r)
           d  == [work[r] EXCEPT !.recorded = work[r].recorded \cup {id}]
           p1 == [run[r] EXCEPT !.pc = "release"]
           p2 == [p1 EXCEPT !.id = id]
<1>1. /\ IsProcess(run[r]) /\ IsState(work[r]) /\ id \in Ids
      /\ At(r, "reconcile") /\ broker[id].state = "ended"
  BY DEF Inv, Shaped, RecordFill, Reconciling, NextRow, IsProcess
<1>2. run' = [run EXCEPT ![r] = p2] /\ work' = [work EXCEPT ![r] = d]
  BY DEF RecordFill, Inv, Shaped
<1> HIDE DEF id
<1>3. /\ IsState(d) /\ d.rows = work[r].rows /\ d.intents = work[r].intents
      /\ d.recorded = work[r].recorded \cup {id}
  BY <1>1, StateUpdates
<1> HIDE DEF d
<1>4. /\ IsProcess(p1) /\ p1.pc = "release" /\ p1.current = run[r].current
      /\ p1.todo = run[r].todo /\ p1.unknown = run[r].unknown
  BY <1>1, SetPc DEF Phases
<1> HIDE DEF p1
<1>5. /\ IsProcess(p2) /\ p2.pc = "release" /\ p2.current = run[r].current
      /\ p2.todo = run[r].todo /\ p2.unknown = run[r].unknown /\ p2.id = id
  BY <1>4, SetId
<1> HIDE DEF p2
<1>6. UNCHANGED <<saved, account>>
  BY DEF RecordFill
<1>7. /\ Shaped' /\ Local(r) /\ Calm(r) /\ run'[r] = p2 /\ work'[r] = d
      /\ broker' = broker
  BY <1>2, <1>3, <1>5, <1>6, LocalUpdate
<1>8. AtOrder(r)'
  BY <1>1, <1>3, <1>5, <1>7 DEF AtOrder, At
<1>9. Aware(r)'
  BY <1>1, <1>5, <1>7, CheckingOn DEF At, Checking
<1>10. Follows(r, work[r], work'[r])
  BY <1>3, <1>7 DEF Follows
<1>11. QED
  BY <1>5, <1>7, <1>8, <1>9, <1>10, CalmStep

LEMMA ReleaseKeeps ==
  ASSUME Inv, NEW r \in Runners, Release(r)
  PROVE  Inv'
<1> DEFINE id == run[r].id
           d  == [work[r] EXCEPT !.rows[id] = "ended"]
           p1 == [run[r] EXCEPT !.pc = "reconcile"]
           p2 == [p1 EXCEPT !.todo = run[r].todo \ {id}]
           p3 == [p2 EXCEPT !.wrote = TRUE]
<1>1. /\ IsProcess(run[r]) /\ IsState(work[r]) /\ At(r, "release")
      /\ id \in Ids /\ broker[id].state = "ended" /\ id \in work[r].recorded
      /\ run[r].todo \ {id} \in SUBSET Ids
  BY DEF Inv, Shaped, Safe, AtOrder, Release, IsProcess
<1>2. run' = [run EXCEPT ![r] = p3] /\ work' = [work EXCEPT ![r] = d]
  BY DEF Release, Inv, Shaped
<1> HIDE DEF id
<1>3. /\ IsState(d) /\ d.rows = [work[r].rows EXCEPT ![id] = "ended"]
      /\ d.intents = work[r].intents /\ d.recorded = work[r].recorded
  BY <1>1, StateUpdates
<1> HIDE DEF d
<1>4. /\ IsProcess(p1) /\ p1.pc = "reconcile" /\ p1.current = run[r].current
      /\ p1.unknown = run[r].unknown
  BY <1>1, SetPc DEF Phases
<1> HIDE DEF p1
<1>5. /\ IsProcess(p2) /\ p2.pc = "reconcile" /\ p2.current = run[r].current
      /\ p2.todo = run[r].todo \ {id} /\ p2.unknown = run[r].unknown
  BY <1>1, <1>4, SetTodo
<1> HIDE DEF p2
<1>6. /\ IsProcess(p3) /\ p3.pc = "reconcile" /\ p3.current = run[r].current
      /\ p3.todo = run[r].todo \ {id} /\ p3.unknown = run[r].unknown
  BY <1>5, SetWrote
<1> HIDE DEF p3
<1>7. /\ Shaped' /\ Local(r) /\ Calm(r) /\ run'[r] = p3 /\ work'[r] = d
      /\ broker' = broker
  BY <1>2, <1>3, <1>6, LocalUpdate DEF Release
<1>8. AtOrder(r)'
  BY <1>6, <1>7 DEF AtOrder, At
<1>9. \A q \in Runners : At(q, "send") => run[q].id # id
  BY <1>1 DEF Inv, Safe, AtOrder
<1>10. Aware(r)'
  BY <1>1, <1>6, <1>7, <1>9, CheckingOn DEF At, Checking, Sending
<1>11. run[r].current => Follows(r, work[r], work'[r])
  <2>1. run[r].current => work[r].rows[id] # "none"
    BY <1>1 DEF Inv, Safe, Known
  <2>2. work[r].rows \in [Ids -> {"none", "open", "ended"}]
    BY <1>1 DEF IsState
  <2>3. QED
    BY <1>1, <1>3, <1>7, <1>9, <2>1, <2>2 DEF Follows, InFlight
<1>12. QED
  BY <1>6, <1>7, <1>8, <1>10, <1>11, CalmStep

\* Everything looked up and nothing unknown: nothing is under way unanswered.
LEMMA Cleared ==
  ASSUME Inv, NEW r \in Runners, run[r].current, run[r].pc \in Checking,
         run[r].todo = {}, ~run[r].unknown
  PROVE  Delayed = {} /\ \A q \in Runners : ~At(q, "send")
<1>1. \A id \in Ids : ~(broker[id].state = "delayed" \/ Sending(id))
  BY DEF Inv, Safe, Aware
<1>2. \A q \in Runners : At(q, "send") => run[q].id \in Ids
  BY DEF Inv, Safe, AtOrder, At
<1>3. QED
  BY <1>1, <1>2 DEF Delayed, Sending

LEMMA AddsNoExposureIsProcess ==
  ASSUME Inv, NEW r \in Runners
  PROVE  /\ IsProcess(AddsNoExposure(r)) /\ AddsNoExposure(r).current = run[r].current
         /\ \/ AddsNoExposure(r).pc = "end"
            \/ ~run[r].unknown /\ AddsNoExposure(r).pc = "plan"
<1>1. CASE run[r].unknown
  BY <1>1, OverIsProcess DEF AddsNoExposure, Inv
<1>2. CASE ~run[r].unknown
  <2> DEFINE p == [run[r] EXCEPT !.pc = "plan"]
  <2>1. IsProcess(p) /\ p.pc = "plan" /\ p.current = run[r].current
    BY SetPc DEF Phases, Inv, Shaped
  <2>2. QED
    BY <1>2, <2>1 DEF AddsNoExposure
<1>3. QED
  BY <1>1, <1>2

LEMMA ReconciledKeeps ==
  ASSUME Inv, NEW r \in Runners, Reconciled(r)
  PROVE  Inv'
<1>1. IsProcess(run[r]) /\ At(r, "reconcile") /\ run[r].todo = {}
  BY DEF Inv, Shaped, Reconciled
<1>2. CASE run[r].wrote
  <2> DEFINE p == [run[r] EXCEPT !.pc = "fills"]
  <2>1. run' = [run EXCEPT ![r] = p]
    BY <1>2 DEF Reconciled
  <2>2. /\ IsProcess(p) /\ p.pc = "fills" /\ p.current = run[r].current
        /\ p.todo = run[r].todo /\ p.unknown = run[r].unknown
    BY <1>1, SetPc DEF Phases
  <2> HIDE DEF p
  <2>3. /\ Shaped' /\ Local(r) /\ Calm(r) /\ run'[r] = p /\ Follows(r, work[r], work'[r])
    BY <2>1, <2>2, MemoryUpdate DEF Reconciled
  <2>4. AtOrder(r)'
    BY <1>1, <2>2, <2>3 DEF AtOrder, At
  <2>5. Aware(r)'
    BY <1>1, <2>2, <2>3, CheckingOn DEF At, Checking
  <2>6. QED
    BY <2>2, <2>3, <2>4, <2>5, CalmStep
<1>3. CASE ~run[r].wrote
  <2> DEFINE p == AddsNoExposure(r)
  <2>1. run' = [run EXCEPT ![r] = p]
    BY <1>3 DEF Reconciled
  <2>2. /\ IsProcess(p) /\ p.current = run[r].current
        /\ p.pc = "end" \/ (~run[r].unknown /\ p.pc = "plan")
    BY AddsNoExposureIsProcess
  <2> HIDE DEF p
  <2>3. /\ Shaped' /\ Local(r) /\ Calm(r) /\ run'[r] = p /\ broker' = broker
        /\ Follows(r, work[r], work'[r])
    BY <2>1, <2>2, MemoryUpdate DEF Reconciled
  <2>4. AtOrder(r)'
    BY <2>2, <2>3 DEF AtOrder, At
  <2>5. CASE p.pc = "end"
    BY <2>2, <2>3, <2>5, AtRest, CalmStep
  <2>6. CASE p.pc = "plan"
    <3>1. run[r].current => Delayed = {} /\ \A q \in Runners : ~At(q, "send")
      BY <1>1, <2>2, <2>6, Cleared DEF At, Checking
    <3>2. Delayed' = Delayed
      BY <2>3 DEF Delayed
    <3>3. \A q \in Runners : run'[q].pc = "send" => At(q, "send")
      BY <2>3 DEF Local, At
    <3>4. Aware(r)'
      BY <2>2, <2>3, <2>6, <3>1, <3>2, <3>3 DEF Aware, At, Checking
    <3>5. QED
      BY <2>2, <2>3, <2>4, <3>4, CalmStep
  <2>7. QED
    BY <2>2, <2>5, <2>6
<1>4. QED
  BY <1>2, <1>3

\* A push by r that sends nothing on its way.
LEMMA PushCalm ==
  ASSUME Inv, NEW r \in Runners, NEW done, NEW failed, IsProcess(done), IsProcess(failed),
         done.pc # "send", failed.pc # "send", Persist(r, done, failed),
         NEW d, IsState(d), work' = [work EXCEPT ![r] = d], UNCHANGED account
  PROVE  /\ Shaped' /\ Calm(r) /\ work'[r] = d /\ broker' = broker
         /\ run'[r] = done \/ run'[r] = failed
         /\ \A q \in Runners : run'[q].pc = "send" => At(q, "send")
<1>1. /\ saved' = saved \/ (run[r].current /\ saved' = work[r])
      /\ IsState(saved')
      /\ run' = [q \in Runners |-> run'[q]] /\ \A q \in Runners : IsProcess(run'[q])
      /\ run'[r] = done \/ run'[r] = failed
      /\ \A q \in Runners \ {r} : SameButCurrent(q)
  BY PersistUpdate DEF Inv
<1>2. /\ work' = [q \in Runners |-> work'[q]] /\ \A q \in Runners : IsState(work'[q])
      /\ work'[r] = d /\ \A q \in Runners \ {r} : work'[q] = work[q]
  BY DEF Inv, Shaped
<1>3. Shaped'
  BY <1>1, <1>2 DEF Inv, Shaped, account
<1>4. Calm(r)
  BY <1>1, <1>2 DEF Calm, account
<1>5. \A q \in Runners : run'[q].pc = "send" => At(q, "send")
  BY <1>1 DEF SameButCurrent, At
<1>6. QED
  BY <1>1, <1>2, <1>3, <1>4, <1>5 DEF account

LEMMA PersistFillsKeeps ==
  ASSUME Inv, NEW r \in Runners, PersistFills(r)
  PROVE  Inv'
<1> DEFINE p    == AddsNoExposure(r)
           done == [p EXCEPT !.wrote = FALSE]
<1>1. /\ IsProcess(p) /\ p.current = run[r].current
      /\ p.pc = "end" \/ (~run[r].unknown /\ p.pc = "plan")
  BY AddsNoExposureIsProcess
<1>2. Persist(r, done, Over(r)) /\ At(r, "fills") /\ UNCHANGED <<work, account>>
  BY DEF PersistFills
<1> HIDE DEF p
<1>3. IsProcess(done) /\ done.current = run[r].current /\ done.pc = p.pc
  BY <1>1, SetWrote
<1> HIDE DEF done
<1>4. IsProcess(Over(r)) /\ Over(r).pc = "end"
  BY OverIsProcess DEF Inv
<1>5. IsState(work[r]) /\ work' = [work EXCEPT ![r] = work[r]]
  BY <1>2 DEF Inv, Shaped
<1>6. /\ Shaped' /\ Calm(r) /\ work'[r] = work[r] /\ broker' = broker
      /\ run'[r] = done \/ run'[r] = Over(r)
      /\ \A q \in Runners : run'[q].pc = "send" => At(q, "send")
  BY <1>1, <1>2, <1>3, <1>4, <1>5, PushCalm
<1>7. run'[r].current => run[r].current
  BY <1>3, <1>6, OverIsProcess DEF Inv
<1>8. CASE run'[r].pc = "end"
  BY <1>6, <1>7, <1>8, AtRest, SameFollows, CalmStep
<1>9. CASE run'[r] = done /\ ~run[r].unknown /\ done.pc = "plan"
  <2>1. run[r].todo = {}
    BY <1>2 DEF Inv, Safe, AtOrder
  <2>2. run[r].current => Delayed = {} /\ \A q \in Runners : ~At(q, "send")
    BY <1>2, <1>9, <2>1, Cleared DEF At, Checking
  <2>3. Delayed' = Delayed
    BY <1>6 DEF Delayed
  <2>4. Aware(r)' /\ AtOrder(r)'
    BY <1>6, <1>7, <1>9, <2>2, <2>3 DEF Aware, AtOrder, At, Checking
  <2>5. QED
    BY <1>6, <1>7, <2>4, SameFollows, CalmStep
<1>10. QED
  BY <1>1, <1>3, <1>4, <1>6, <1>8, <1>9

-----------------------------------------------------------------------------
LEMMA PlanKeeps ==
  ASSUME Inv, NEW r \in Runners, NEW cash, Plan(r, cash)
  PROVE  Inv'
<1>1. /\ \E x, y : run' = [run EXCEPT ![r].pc = "act", ![r].orders = x, ![r].clean = y]
      /\ At(r, "plan") /\ UNCHANGED <<saved, work, account>>
  BY DEF Plan
<1>2. PICK x, y : run' = [run EXCEPT ![r].pc = "act", ![r].orders = x, ![r].clean = y]
  BY <1>1
<1> DEFINE p1 == [run[r] EXCEPT !.pc = "act"]
           p2 == [p1 EXCEPT !.orders = x]
           p3 == [p2 EXCEPT !.clean = y]
<1>3. run' = [run EXCEPT ![r] = p3] /\ IsProcess(run[r])
  BY <1>2 DEF Inv, Shaped
<1>4. /\ IsProcess(p1) /\ p1.pc = "act" /\ p1.current = run[r].current /\ p1.sent = run[r].sent
  BY <1>3, SetPc DEF Phases
<1> HIDE DEF p1
<1>5. /\ IsProcess(p2) /\ p2.pc = "act" /\ p2.current = run[r].current /\ p2.sent = run[r].sent
  BY <1>4, SetOrders
<1> HIDE DEF p2
<1>6. /\ IsProcess(p3) /\ p3.pc = "act" /\ p3.current = run[r].current /\ p3.sent = run[r].sent
  BY <1>5, SetClean
<1> HIDE DEF p3
<1>7. Shaped' /\ Local(r) /\ Calm(r) /\ run'[r] = p3 /\ Follows(r, work[r], work'[r])
  BY <1>1, <1>3, <1>6, MemoryUpdate
<1>8. AtOrder(r)'
  BY <1>6, <1>7 DEF AtOrder, At
<1>9. Aware(r)'
  BY <1>1, <1>6, <1>7, PlanningOn DEF At, Planning
<1>10. QED
  BY <1>6, <1>7, <1>8, <1>9, CalmStep

\* r's memory after an order was dealt with.
LEMMA DealtIsProcess ==
  ASSUME Inv, NEW r \in Runners, NEW id \in Ids, NEW sent \in BOOLEAN, NEW submitted
  PROVE  LET p == Dealt(r, id, sent, submitted)
         IN  /\ IsProcess(p) /\ p.pc = "act" /\ p.current = run[r].current
             /\ p.sent = IF sent THEN run[r].sent \cup {id} ELSE run[r].sent
<1> DEFINE x  == [run[r].orders EXCEPT ![id[2]] = 0]
           y  == run[r].clean /\ submitted
           z  == IF sent THEN run[r].sent \cup {id} ELSE run[r].sent
           p1 == [run[r] EXCEPT !.pc = "act"]
           p2 == [p1 EXCEPT !.id = NoId]
           p3 == [p2 EXCEPT !.orders = x]
           p4 == [p3 EXCEPT !.clean = y]
           p5 == [p4 EXCEPT !.sent = z]
<1>1. Dealt(r, id, sent, submitted) = p5 /\ IsProcess(run[r])
  BY DEF Dealt, Inv, Shaped
<1> HIDE DEF x, y, z
<1>2. /\ IsProcess(p1) /\ p1.pc = "act" /\ p1.current = run[r].current
  BY <1>1, SetPc DEF Phases
<1> HIDE DEF p1
<1>3. /\ IsProcess(p2) /\ p2.pc = "act" /\ p2.current = run[r].current
  BY <1>2, SetId
<1> HIDE DEF p2
<1>4. /\ IsProcess(p3) /\ p3.pc = "act" /\ p3.current = run[r].current
  BY <1>3, SetOrders
<1> HIDE DEF p3
<1>5. /\ IsProcess(p4) /\ p4.pc = "act" /\ p4.current = run[r].current
  BY <1>4, SetClean
<1> HIDE DEF p4
<1>6. /\ IsProcess(p5) /\ p5.pc = "act" /\ p5.current = run[r].current /\ p5.sent = z
  BY <1>5, SetSent
<1> HIDE DEF p5
<1>7. QED
  BY <1>1, <1>6 DEF z

LEMMA DenyKeeps ==
  ASSUME Inv, NEW r \in Runners, NEW id \in Ids, Deny(r, id)
  PROVE  Inv'
<1> DEFINE p == Dealt(r, id, FALSE, FALSE)
<1>1. IsProcess(p) /\ p.pc = "act" /\ p.current = run[r].current /\ p.sent = run[r].sent
  BY DealtIsProcess
<1>2. run' = [run EXCEPT ![r] = p] /\ At(r, "act") /\ UNCHANGED <<saved, work, account>>
  BY DEF Deny
<1> HIDE DEF p
<1>3. Shaped' /\ Local(r) /\ Calm(r) /\ run'[r] = p /\ Follows(r, work[r], work'[r])
  BY <1>1, <1>2, MemoryUpdate
<1>4. AtOrder(r)'
  BY <1>1, <1>3 DEF AtOrder, At
<1>5. Aware(r)'
  BY <1>1, <1>2, <1>3, PlanningOn DEF At, Planning
<1>6. QED
  BY <1>1, <1>3, <1>4, <1>5, CalmStep

LEMMA ReserveKeeps ==
  ASSUME Inv, NEW r \in Runners, NEW id \in Ids, Reserve(r, id)
  PROVE  Inv'
<1> DEFINE d  == [work[r] EXCEPT !.rows[id] = "open"]
           p1 == [run[r] EXCEPT !.pc = "record"]
           p2 == [p1 EXCEPT !.id = id]
<1>1. /\ IsProcess(run[r]) /\ IsState(work[r]) /\ At(r, "act")
      /\ work[r].rows[id] = "none" /\ UNCHANGED <<saved, account>>
  BY DEF Inv, Shaped, Reserve, Unused
<1>2. run' = [run EXCEPT ![r] = p2] /\ work' = [work EXCEPT ![r] = d]
  BY DEF Reserve, Inv, Shaped
<1>3. /\ IsState(d) /\ d.rows = [work[r].rows EXCEPT ![id] = "open"]
      /\ d.intents = work[r].intents /\ d.recorded = work[r].recorded
  BY <1>1, StateUpdates
<1> HIDE DEF d
<1>4. /\ IsProcess(p1) /\ p1.pc = "record" /\ p1.current = run[r].current
      /\ p1.sent = run[r].sent
  BY <1>1, SetPc DEF Phases
<1> HIDE DEF p1
<1>5. /\ IsProcess(p2) /\ p2.pc = "record" /\ p2.current = run[r].current
      /\ p2.sent = run[r].sent /\ p2.id = id
  BY <1>4, SetId
<1> HIDE DEF p2
<1>6. /\ Shaped' /\ Local(r) /\ Calm(r) /\ run'[r] = p2 /\ work'[r] = d
      /\ saved' = saved /\ broker' = broker
  BY <1>1, <1>2, <1>3, <1>5, LocalUpdate
<1>7. work[r].rows \in [Ids -> {"none", "open", "ended"}]
  BY <1>1 DEF IsState
<1>8. AtOrder(r)'
  <2>1. run[r].current => saved.rows[id] = "none"
    BY <1>1 DEF Inv, Safe, Ahead
  <2>2. d.rows[id] = "open"
    BY <1>3, <1>7
  <2>3. QED
    BY <1>5, <1>6, <2>1, <2>2 DEF AtOrder, At
<1>9. Aware(r)'
  BY <1>1, <1>5, <1>6, PlanningOn DEF At, Planning
<1>10. Follows(r, work[r], work'[r])
  BY <1>1, <1>3, <1>6, <1>7 DEF Follows
<1>11. QED
  BY <1>5, <1>6, <1>8, <1>9, <1>10, CalmStep

LEMMA RecordIntentKeeps ==
  ASSUME Inv, NEW r \in Runners, RecordIntent(r)
  PROVE  Inv'
<1> DEFINE id == run[r].id
           n  == Quantity(r, id)
           d  == [work[r] EXCEPT !.intents[id] = n]
           p  == [run[r] EXCEPT !.pc = "persist"]
<1>1. /\ IsProcess(run[r]) /\ IsState(work[r]) /\ At(r, "record") /\ id \in Ids
      /\ work[r].rows[id] = "open" /\ UNCHANGED <<saved, account>>
      /\ run[r].current => saved.rows[id] = "none"
  BY DEF Inv, Shaped, Safe, AtOrder, At, RecordIntent
<1>2. run' = [run EXCEPT ![r] = p] /\ work' = [work EXCEPT ![r] = d]
  BY DEF RecordIntent, Goto, Inv, Shaped
<1>3. n = Signed(id, run[r].orders[id[2]])
  BY DEF Quantity
<1> HIDE DEF n
<1>4. /\ IsState(d) /\ d.rows = work[r].rows /\ d.intents = [work[r].intents EXCEPT ![id] = n]
      /\ d.recorded = work[r].recorded
  BY <1>1 DEF IsState
<1>5. d.intents[id] = n /\ \A i \in Ids \ {id} : d.intents[i] = work[r].intents[i]
  BY <1>1, <1>4 DEF IsState
<1> HIDE DEF d
<1>6. /\ IsProcess(p) /\ p.pc = "persist" /\ p.current = run[r].current
      /\ p.sent = run[r].sent /\ p.id = id /\ p.orders = run[r].orders
  BY <1>1, SetPc DEF Phases
<1> HIDE DEF p, id
<1>7. /\ Shaped' /\ Local(r) /\ Calm(r) /\ run'[r] = p /\ work'[r] = d
      /\ saved' = saved /\ broker' = broker
  BY <1>1, <1>2, <1>4, <1>6, LocalUpdate
<1>8. AtOrder(r)'
  <2>1. run'[r].pc = "persist" =>
          work'[r].intents[run'[r].id] = Signed(run'[r].id, run'[r].orders[run'[r].id[2]])
    BY <1>3, <1>5, <1>6, <1>7
  <2>2. QED
    BY <1>1, <1>4, <1>6, <1>7, <2>1 DEF AtOrder, At, Quantity, Signed
<1>9. Aware(r)'
  BY <1>1, <1>6, <1>7, PlanningOn DEF At, Planning
<1>10. run[r].current => Follows(r, work[r], work'[r])
  <2>1. run[r].current => ~Open(id)
    BY <1>1 DEF Inv, Safe, Known
  <2>2. QED
    BY <1>4, <1>5, <1>7, <2>1 DEF Follows
<1>11. QED
  BY <1>6, <1>7, <1>8, <1>9, <1>10, CalmStep

\* An order that was not sent, or refused, may be released.
LEMMA Dropped ==
  ASSUME Inv, NEW r \in Runners, run[r].pc \in {"record", "persist", "send"}, run[r].current,
         NEW d, d = [work[r] EXCEPT !.rows[run[r].id] = "ended"], broker' = broker
  PROVE  Follows(r, work[r], d)
<1> DEFINE id == run[r].id
<1>1. IsState(work[r]) /\ id \in Ids
  BY DEF Inv, Shaped, Safe, AtOrder
<1>2. /\ d.rows = [work[r].rows EXCEPT ![id] = "ended"] /\ d.intents = work[r].intents
      /\ d.recorded = work[r].recorded /\ work[r].rows \in [Ids -> {"none", "open", "ended"}]
  <2>1. work[r].rows \in [Ids -> {"none", "open", "ended"}]
    BY <1>1 DEF IsState
  <2>2. QED
    BY <1>1, <2>1, StateUpdates
<1>3. CASE At(r, "send")
  <2>1. broker[id].state = "none" /\ \A q \in Runners : At(q, "send") => q = r
    BY <1>3 DEF Inv, Safe, AtOrder
  <2>2. work[r].rows[id] = "open"
    BY <1>1, <1>3 DEF Inv, Safe, Known, Open, Sending
  <2>3. QED
    BY <1>1, <1>2, <2>1, <2>2 DEF Follows, InFlight
<1>4. CASE run[r].pc \in {"record", "persist"}
  <2>1. work[r].rows[id] = "open" /\ saved.rows[id] = "none"
    BY <1>4 DEF Inv, Safe, AtOrder
  <2>2. broker[id].state = "none" /\ ~Sending(id)
    BY <1>1, <2>1 DEF Inv, Safe, Known, Open
  <2>3. QED
    BY <1>1, <1>2, <2>1, <2>2 DEF Follows, InFlight, Sending
<1>5. QED
  BY <1>3, <1>4 DEF At

LEMMA CutOffKeeps ==
  ASSUME Inv, NEW r \in Runners, CutOff(r)
  PROVE  Inv'
<1> DEFINE d == [work[r] EXCEPT !.rows[run[r].id] = "ended"]
<1>1. /\ run[r].pc \in {"record", "persist", "send"} /\ IsState(work[r]) /\ run[r].id \in Ids
      /\ UNCHANGED <<saved, account>>
  BY DEF Inv, Shaped, Safe, AtOrder, At, CutOff
<1>2. run' = [run EXCEPT ![r] = Over(r)] /\ work' = [work EXCEPT ![r] = d]
  BY DEF CutOff, Inv, Shaped
<1>3. IsState(d)
  BY <1>1, StateUpdates
<1>4. run[r].current /\ broker' = broker => Follows(r, work[r], d)
  BY <1>1, Dropped
<1> HIDE DEF d
<1>5. IsProcess(Over(r)) /\ Over(r).pc = "end" /\ Over(r).current = run[r].current
  BY OverIsProcess DEF Inv
<1>6. Shaped' /\ Calm(r) /\ run'[r] = Over(r) /\ work'[r] = d /\ broker' = broker
  BY <1>1, <1>2, <1>3, <1>5, LocalUpdate
<1>7. QED
  BY <1>4, <1>5, <1>6, AtRest, CalmStep

LEMMA RefuseKeeps ==
  ASSUME Inv, NEW r \in Runners, Refuse(r)
  PROVE  Inv'
<1> DEFINE d == [work[r] EXCEPT !.rows[run[r].id] = "ended"]
           p == Dealt(r, run[r].id, FALSE, FALSE)
<1>1. /\ At(r, "send") /\ IsState(work[r]) /\ run[r].id \in Ids /\ UNCHANGED <<saved, account>>
  BY DEF Inv, Shaped, Safe, AtOrder, At, Refuse
<1>2. run' = [run EXCEPT ![r] = p] /\ work' = [work EXCEPT ![r] = d]
  BY DEF Refuse, Inv, Shaped
<1>3. IsState(d)
  BY <1>1, StateUpdates
<1>4. run[r].current /\ broker' = broker => Follows(r, work[r], d)
  BY <1>1, Dropped DEF At
<1> HIDE DEF d
<1>5. IsProcess(p) /\ p.pc = "act" /\ p.current = run[r].current /\ p.sent = run[r].sent
  BY <1>1, DealtIsProcess
<1> HIDE DEF p
<1>6. /\ Shaped' /\ Local(r) /\ Calm(r) /\ run'[r] = p /\ work'[r] = d /\ broker' = broker
  BY <1>1, <1>2, <1>3, <1>5, LocalUpdate
<1>7. AtOrder(r)'
  BY <1>5, <1>6 DEF AtOrder, At
<1>8. Aware(r)'
  <2>1. Delayed \subseteq run[r].sent /\ \A q \in Runners : At(q, "send") => q = r
    BY <1>1 DEF Inv, Safe, Aware, AtOrder
  <2>2. QED
    BY <1>5, <1>6, <2>1 DEF Aware, At, Checking, Delayed, Local
<1>9. QED
  BY <1>4, <1>5, <1>6, <1>7, <1>8, CalmStep

\* Sent, whatever r learns of it.
LEMMA SentKeeps ==
  ASSUME Inv, NEW r \in Runners, At(r, "send"), NEW state \in {"none", "delayed", "working"},
         NEW submitted, Sent(r, run[r].id, state), UNCHANGED <<saved, work>>,
         run' = [run EXCEPT ![r] = Dealt(r, run[r].id, TRUE, submitted)]
  PROVE  Inv'
<1> DEFINE id == run[r].id
           n  == Quantity(r, id)
           o  == [state |-> state, quantity |-> n, filled |-> 0]
           p  == Dealt(r, id, TRUE, submitted)
<1>1. id \in Ids /\ \A q \in Runners : At(q, "send") => q = r
  BY DEF Inv, Safe, AtOrder, At
<1>2. broker' = [broker EXCEPT ![id] = o]
  BY DEF Sent
<1> HIDE DEF id
<1>3. IsProcess(p) /\ p.pc = "act" /\ p.current = run[r].current /\ p.sent = run[r].sent \cup {id}
  <2>1. TRUE \in BOOLEAN
    OBVIOUS
  <2>2. QED
    BY ONLY Inv, r \in Runners, <1>1, <2>1, DealtIsProcess
<1> HIDE DEF p
<1>4. /\ run' = [q \in Runners |-> run'[q]] /\ \A q \in Runners : IsProcess(run'[q])
      /\ run'[r] = p /\ \A q \in Runners \ {r} : run'[q] = run[q]
  BY <1>3, RunUpdate DEF Inv, p, id
<1>5. IsOrder(o) /\ o.state = state /\ o.quantity = n
  BY DEF IsOrder
<1> HIDE DEF o
<1>6. /\ broker' = [i \in Ids |-> broker'[i]] /\ \A i \in Ids : IsOrder(broker'[i])
      /\ broker'[id] = o /\ \A i \in Ids \ {id} : broker'[i] = broker[i]
  BY <1>1, <1>2, <1>5 DEF Inv, Shaped
<1>7. Shaped'
  BY <1>4, <1>6 DEF Inv, Shaped
<1>8. Calm(r)
  BY <1>3, <1>4, <1>5, <1>6 DEF Calm, SameButCurrent, id
<1>9. AtOrder(r)'
  BY <1>3, <1>4 DEF AtOrder, At
<1>10. Aware(r)'
  <2>1. Delayed \subseteq run[r].sent
    BY DEF Inv, Safe, Aware
  <2>2. Delayed' \subseteq run[r].sent \cup {id}
    BY <1>6, <2>1 DEF Delayed
  <2>3. \A q \in Runners : run'[q].pc # "send"
    BY <1>1, <1>3, <1>4 DEF At
  <2>4. QED
    BY <1>3, <1>4, <2>2, <2>3 DEF Aware, At, Checking
<1>11. QED
  BY <1>3, <1>4, <1>7, <1>8, <1>9, <1>10, SameFollows, CalmStep

LEMMA AcceptKeeps ==
  ASSUME Inv, NEW r \in Runners, Accept(r)
  PROVE  Inv'
  BY SentKeeps DEF Accept

LEMMA TimeOutKeeps ==
  ASSUME Inv, NEW r \in Runners, NEW arrives \in {"none", "delayed", "working"},
         TimeOut(r, arrives)
  PROVE  Inv'
<1>1. At(r, "send") /\ broker[run[r].id].state = "none"
  BY DEF TimeOut, Inv, Safe, AtOrder
<1>2. QED
  BY <1>1, SentKeeps DEF TimeOut

\* The order becomes the branch's, and r the only runner that is not behind.
LEMMA PersistIntentKeeps ==
  ASSUME Inv, NEW r \in Runners, PersistIntent(r)
  PROVE  Inv'
<1> DEFINE id == run[r].id
           p  == [run[r] EXCEPT !.pc = "send"]
<1>1. /\ At(r, "persist") /\ Push(r, p) /\ UNCHANGED <<work, account>> /\ IsProcess(run[r])
  BY DEF PersistIntent, Inv, Shaped
<1>2. /\ IsProcess(p) /\ p.pc = "send" /\ p.sent = run[r].sent /\ p.id = id
      /\ p.orders = run[r].orders
  BY <1>1, SetPc DEF Phases
<1> HIDE DEF p
<1>3. /\ run[r].current /\ saved' = work[r] /\ IsState(saved')
      /\ run' = [q \in Runners |-> run'[q]] /\ \A q \in Runners : IsProcess(run'[q])
      /\ run'[r] = p /\ \A q \in Runners \ {r} : SameButCurrent(q)
  BY <1>1, <1>2, PushUpdate DEF Inv
<1>4. Shaped'
  BY <1>1, <1>3 DEF Inv, Shaped, account
<1>5. /\ id \in Ids /\ work[r].rows[id] = "open" /\ saved.rows[id] = "none"
      /\ work[r].intents[id] = Quantity(r, id)
      /\ Delayed \subseteq run[r].sent /\ \A q \in Runners : ~At(q, "send")
  BY <1>1, <1>3 DEF Inv, Safe, AtOrder, Aware, At, Planning
<1>6. \A q \in Runners \ {r} : ~run'[q].current /\ run'[q].pc = run[q].pc /\ run'[q].pc # "send"
  BY <1>3, <1>5 DEF SameButCurrent, At
<1>7. broker' = broker /\ work' = work
  BY <1>1 DEF account
<1>8. KnownAfter(work[r])
  <2>1. Known(work[r])
    BY <1>3 DEF Inv, Safe
  <2>2. \A q \in Runners, i \in Ids : run'[q].pc = "send" /\ run'[q].id = i =>
          /\ work[r].rows[i] = "open"
          /\ work[r].intents[i] = Signed(i, run'[q].orders[i[2]])
    BY <1>2, <1>3, <1>5, <1>6 DEF Quantity
  <2>3. QED
    BY <1>7, <2>1, <2>2 DEF Known, KnownAfter, Open
<1>9. Known(saved)' /\ \A q \in Runners : run'[q].current => Known(work[q])' /\ Ahead(work[q])'
  <2>1. \A q \in Runners : run'[q].current => work'[q] = saved'
    BY <1>3, <1>6, <1>7
  <2>2. Known(saved)' /\ \A q \in Runners : run'[q].current => Known(work[q])'
    BY <1>3, <1>8, <2>1 DEF Known, KnownAfter, Open, Sending, At, Quantity, Signed
  <2>3. QED
    BY <2>1, <2>2 DEF Ahead
<1>10. AtOrder(r)' /\ Aware(r)'
  <2>1. broker[id].state = "none"
    BY <1>5 DEF Inv, Safe, Known
  <2>2. AtOrder(r)'
    BY <1>2, <1>3, <1>5, <1>6, <1>7, <2>1 DEF AtOrder, At
  <2>3. Aware(r)'
    BY <1>2, <1>3, <1>5, <1>7 DEF Aware, At, Delayed, Planning, Checking
  <2>4. QED
    BY <2>2, <2>3
<1>11. \A q \in Runners \ {r} : AtOrder(q)' /\ Aware(q)'
  <2> SUFFICES ASSUME NEW q \in Runners \ {r} PROVE AtOrder(q)' /\ Aware(q)'
    OBVIOUS
  <2>1. AtOrder(q)
    BY DEF Inv, Safe
  <2>2. AtOrder(q)'
    BY <1>3, <1>6, <1>7, <2>1 DEF AtOrder, At, SameButCurrent, Quantity, Signed
  <2>3. Aware(q)'
    BY <1>6 DEF Aware, At
  <2>4. QED
    BY <2>2, <2>3
<1>12. QED
  BY <1>4, <1>9, <1>10, <1>11 DEF Inv, Safe

LEMMA FailToPersistIntentKeeps ==
  ASSUME Inv, NEW r \in Runners, FailToPersistIntent(r)
  PROVE  Inv'
<1> DEFINE d == [work[r] EXCEPT !.rows[run[r].id] = "ended"]
<1>1. /\ At(r, "persist") /\ IsState(work[r]) /\ run[r].id \in Ids /\ UNCHANGED account
  BY DEF Inv, Shaped, Safe, AtOrder, At, FailToPersistIntent
<1>2. work' = [work EXCEPT ![r] = d]
  BY DEF FailToPersistIntent, Inv, Shaped
<1>3. Persist(r, Over(r), Over(r))
  BY DEF FailToPersistIntent, Persist
<1>4. IsState(d)
  BY <1>1, StateUpdates
<1>5. run[r].current /\ broker' = broker => Follows(r, work[r], d)
  BY <1>1, Dropped DEF At
<1> HIDE DEF d
<1>6. IsProcess(Over(r)) /\ Over(r).pc = "end" /\ Over(r).current = run[r].current
  BY OverIsProcess DEF Inv
<1>7. Shaped' /\ Calm(r) /\ run'[r] = Over(r) /\ work'[r] = d /\ broker' = broker
  BY <1>1, <1>2, <1>3, <1>4, <1>6, PushCalm
<1>8. QED
  BY <1>5, <1>6, <1>7, AtRest, CalmStep

LEMMA FinishKeeps ==
  ASSUME Inv, NEW r \in Runners, Finish(r)
  PROVE  Inv'
<1> DEFINE d == [work[r] EXCEPT !.executed = DecisionAt[session]]
           p == [run[r] EXCEPT !.pc = "complete"]
<1>1. IsProcess(run[r]) /\ IsState(work[r]) /\ UNCHANGED <<saved, account>>
  BY DEF Inv, Shaped, Finish
<1>2. CASE run[r].clean
  <2>1. run' = [run EXCEPT ![r] = p] /\ work' = [work EXCEPT ![r] = d]
    BY <1>2 DEF Finish, Goto, Inv, Shaped
  <2>2. /\ IsState(d) /\ d.rows = work[r].rows /\ d.intents = work[r].intents
        /\ d.recorded = work[r].recorded
    BY <1>1 DEF IsState
  <2> HIDE DEF d
  <2>3. IsProcess(p) /\ p.pc = "complete" /\ p.current = run[r].current
    BY <1>1, SetPc DEF Phases
  <2> HIDE DEF p
  <2>4. Shaped' /\ Calm(r) /\ run'[r] = p /\ work'[r] = d
    BY <1>1, <2>1, <2>2, <2>3, LocalUpdate
  <2>5. Follows(r, work[r], work'[r])
    BY <2>2, <2>4 DEF Follows
  <2>6. QED
    BY <2>3, <2>4, <2>5, AtRest, CalmStep
<1>3. CASE ~run[r].clean
  <2>1. run' = [run EXCEPT ![r] = Over(r)] /\ UNCHANGED work
    BY <1>3 DEF Finish
  <2>2. IsProcess(Over(r)) /\ Over(r).pc = "end" /\ Over(r).current = run[r].current
    BY OverIsProcess DEF Inv
  <2>3. Shaped' /\ Calm(r) /\ run'[r] = Over(r) /\ Follows(r, work[r], work'[r])
    BY <1>1, <2>1, <2>2, MemoryUpdate
  <2>4. QED
    BY <2>2, <2>3, AtRest, CalmStep
<1>4. QED
  BY <1>2, <1>3

LEMMA PersistDecisionKeeps ==
  ASSUME Inv, NEW r \in Runners, PersistDecision(r)
  PROVE  Inv'
<1> DEFINE d == work[r]
<1>1. Persist(r, Over(r), Over(r)) /\ UNCHANGED account
  BY DEF PersistDecision
<1>2. IsProcess(Over(r)) /\ Over(r).pc = "end" /\ Over(r).current = run[r].current
  BY OverIsProcess DEF Inv
<1>3. IsState(d) /\ work' = [work EXCEPT ![r] = d]
  BY DEF PersistDecision, Inv, Shaped
<1> HIDE DEF d
<1>4. Shaped' /\ Calm(r) /\ run'[r] = Over(r) /\ work'[r] = d
  BY <1>1, <1>2, <1>3, PushCalm
<1>5. QED
  BY <1>2, <1>4, AtRest, SameFollows, CalmStep DEF d

LEMMA PersistStateKeeps ==
  ASSUME Inv, NEW r \in Runners, PersistState(r)
  PROVE  Inv'
<1>1. Persist(r, Idle, Idle) /\ work' = [work EXCEPT ![r] = EmptyState] /\ UNCHANGED account
  BY DEF PersistState
<1>2. IsProcess(Idle) /\ Idle.pc = "idle" /\ ~Idle.current
  BY IdleIsProcess DEF Idle
<1>3. Shaped' /\ Calm(r) /\ run'[r] = Idle
  BY <1>1, <1>2, EmptyIsState, PushCalm
<1>4. QED
  BY <1>2, <1>3, AtRest, CalmStep

LEMMA KillProcessKeeps ==
  ASSUME Inv, NEW r \in Runners, KillProcess(r)
  PROVE  Inv'
<1>1. run' = [run EXCEPT ![r] = Over(r)] /\ UNCHANGED <<saved, work, account>>
  BY DEF KillProcess
<1>2. IsProcess(Over(r)) /\ Over(r).pc = "end" /\ Over(r).current = run[r].current
  BY OverIsProcess DEF Inv
<1>3. Shaped' /\ Calm(r) /\ run'[r] = Over(r) /\ Follows(r, work[r], work'[r])
  BY <1>1, <1>2, MemoryUpdate
<1>4. QED
  BY <1>2, <1>3, AtRest, CalmStep

LEMMA LoseRunnerKeeps ==
  ASSUME Inv, NEW r \in Runners, LoseRunner(r)
  PROVE  Inv'
<1>1. /\ run' = [run EXCEPT ![r] = Idle] /\ work' = [work EXCEPT ![r] = EmptyState]
      /\ UNCHANGED <<saved, account>>
  BY DEF LoseRunner
<1>2. IsProcess(Idle) /\ Idle.pc = "idle" /\ ~Idle.current
  BY IdleIsProcess DEF Idle
<1>3. Shaped' /\ Calm(r) /\ run'[r] = Idle
  BY <1>1, <1>2, EmptyIsState, LocalUpdate
<1>4. QED
  BY <1>2, <1>3, AtRest, CalmStep

-----------------------------------------------------------------------------
\* The broker's own steps.
LEMMA BrokerKeeps ==
  ASSUME Inv, NEW id \in Ids, NEW o, IsOrder(o), broker' = [broker EXCEPT ![id] = o],
         \/ broker[id].state = "delayed" /\ o.state \in {"none", "working"}
         \/ broker[id].state = "working" /\ o.state \in {"working", "ended"},
         o.quantity = broker[id].quantity, UNCHANGED <<saved, work, run>>
  PROVE  Inv'
<1>1. /\ broker' = [i \in Ids |-> broker'[i]] /\ \A i \in Ids : IsOrder(broker'[i])
      /\ broker'[id] = o /\ \A i \in Ids \ {id} : broker'[i] = broker[i]
  BY DEF Inv, Shaped
<1>2. Shaped'
  BY <1>1 DEF Inv, Shaped
<1>3. ASSUME NEW c, Known(c) PROVE KnownAfter(c)
  <2> SUFFICES ASSUME NEW i \in Ids
               PROVE  /\ broker'[i].state \in InFlight =>
                           c.rows[i] = "open" /\ c.intents[i] = broker'[i].quantity
                      /\ \A q \in Runners : run'[q].pc = "send" /\ run'[q].id = i =>
                           /\ c.rows[i] = "open"
                           /\ c.intents[i] = Signed(i, run'[q].orders[i[2]])
                      /\ broker'[i].state # "none" => c.rows[i] # "none"
                      /\ broker'[i].state = "ended" /\ c.rows[i] = "ended" => i \in c.recorded
    BY DEF KnownAfter
  <2>1. /\ Open(i) => c.rows[i] = "open"
        /\ broker[i].state \in InFlight => c.intents[i] = broker[i].quantity
        /\ \A q \in Runners : At(q, "send") /\ run[q].id = i => c.intents[i] = Quantity(q, i)
        /\ broker[i].state # "none" => c.rows[i] # "none"
        /\ broker[i].state = "ended" /\ c.rows[i] = "ended" => i \in c.recorded
    BY <1>3 DEF Known
  <2>2. CASE i # id
    BY <1>1, <2>1, <2>2 DEF Open, Sending, At, Quantity
  <2>3. CASE i = id
    BY <1>1, <2>1, <2>3 DEF Open, Sending, At, Quantity, InFlight
  <2>4. QED
    BY <2>2, <2>3
<1>4. Known(saved)' /\ \A q \in Runners : run'[q].current => Known(work[q])' /\ Ahead(work[q])'
  <2>1. KnownAfter(saved) /\ \A q \in Runners : run[q].current => KnownAfter(work[q])
    BY <1>3 DEF Inv, Safe
  <2>2. QED
    BY <2>1 DEF Inv, Safe, Known, KnownAfter, Ahead, Open, Sending, At, Quantity, Signed
<1>5. \A q \in Runners : AtOrder(q)'
  <2> SUFFICES ASSUME NEW q \in Runners PROVE AtOrder(q)'
    OBVIOUS
  <2>1. AtOrder(q)
    BY DEF Inv, Safe
  <2>2. At(q, "send") => run[q].id \in Ids /\ run[q].id # id
    BY <2>1 DEF AtOrder, At
  <2>3. At(q, "release") => run[q].id \in Ids /\ run[q].id # id
    BY <2>1 DEF AtOrder, At
  <2>4. QED
    BY <1>1, <2>1, <2>2, <2>3 DEF AtOrder, At, Quantity, Signed
<1>6. \A q \in Runners : Aware(q)'
  <2> SUFFICES ASSUME NEW q \in Runners PROVE Aware(q)'
    OBVIOUS
  <2>1. Aware(q)
    BY DEF Inv, Safe
  <2>2. Delayed' \subseteq Delayed /\ \A i \in Ids : Sending(i)' => Sending(i)
    BY <1>1 DEF Delayed, Sending, At
  <2>3. \A i \in Ids : broker'[i].state = "delayed" => broker[i].state = "delayed"
    BY <2>2 DEF Delayed
  <2>4. QED
    BY <2>1, <2>2, <2>3 DEF Aware, At
<1>7. QED
  BY <1>2, <1>4, <1>5, <1>6 DEF Inv, Safe

LEMMA BrokerStepKeeps ==
  ASSUME Inv, NEW id \in Ids, Broker(id)
  PROVE  Inv'
<1>1. IsOrder(broker[id])
  BY DEF Inv, Shaped
<1>2. CASE Arrive(id) \/ Vanish(id) \/ Expire(id)
  <2>1. PICK s \in {"none", "working", "ended"} :
          /\ broker' = [broker EXCEPT ![id].state = s]
          /\ \/ broker[id].state = "delayed" /\ s \in {"none", "working"}
             \/ broker[id].state = "working" /\ s \in {"working", "ended"}
    BY <1>2 DEF Arrive, Vanish, Expire
  <2> DEFINE o == [broker[id] EXCEPT !.state = s]
  <2>2. IsOrder(o) /\ o.state = s /\ o.quantity = broker[id].quantity
    BY <1>1 DEF IsOrder
  <2>3. broker' = [broker EXCEPT ![id] = o] /\ UNCHANGED <<saved, work, run>>
    BY <1>2, <2>1 DEF Inv, Shaped, Arrive, Vanish, Expire
  <2> HIDE DEF o
  <2>4. QED
    BY <2>1, <2>2, <2>3, BrokerKeeps
<1>3. CASE FillOne(id)
  <2> DEFINE n == broker[id].filled + 1
             s == IF n = broker[id].quantity THEN "ended" ELSE broker[id].state
             p == [broker[id] EXCEPT !.filled = n]
             o == [p EXCEPT !.state = s]
  <2>1. broker' = [broker EXCEPT ![id] = o] /\ UNCHANGED <<saved, work, run>>
    BY <1>3 DEF Inv, Shaped, FillOne
  <2>2. broker[id].state = "working" /\ s \in {"working", "ended"}
    BY <1>3 DEF FillOne
  <2> HIDE DEF n, s
  <2>3. IsOrder(p) /\ p.quantity = broker[id].quantity
    BY <1>1 DEF IsOrder
  <2> HIDE DEF p
  <2>4. IsOrder(o) /\ o.state = s /\ o.quantity = broker[id].quantity
    BY <2>3 DEF IsOrder
  <2> HIDE DEF o
  <2>5. QED
    BY <2>1, <2>2, <2>4, BrokerKeeps
<1>4. QED
  BY <1>2, <1>3 DEF Broker

-----------------------------------------------------------------------------
LEMMA InvInit == Init => Inv
<1> SUFFICES ASSUME Init PROVE Inv
  OBVIOUS
<1>1. Shaped
  BY ShapedInit
<1>2. /\ \A r \in Runners : run[r].pc = "idle" /\ ~run[r].current
      /\ \A id \in Ids : broker[id].state = "none"
  BY DEF Init, Idle
<1>3. Known(saved)
  BY <1>2 DEF Known, Open, Sending, At, InFlight
<1>4. \A r \in Runners : AtOrder(r) /\ Aware(r)
  BY <1>2 DEF AtOrder, Aware, At, Planning, Checking
<1>5. QED
  BY <1>1, <1>2, <1>3, <1>4 DEF Inv, Safe

LEMMA InvStep == Inv /\ [Next]_vars => Inv'
<1> SUFFICES ASSUME Inv, [Next]_vars PROVE Inv'
  OBVIOUS
<1>1. ASSUME NEW r \in Runners, Prepare(r) PROVE Inv'
  BY <1>1, StartKeeps, LookUpKeeps, RecordFillKeeps, ReleaseKeeps, ReconciledKeeps,
     PersistFillsKeeps, PlanKeeps DEF Prepare
<1>2. ASSUME NEW r \in Runners, Act(r) PROVE Inv'
  BY <1>2, DenyKeeps, ReserveKeeps, RecordIntentKeeps, CutOffKeeps, PersistIntentKeeps,
     FailToPersistIntentKeeps, AcceptKeeps, RefuseKeeps, TimeOutKeeps, FinishKeeps,
     PersistDecisionKeeps, PersistStateKeeps DEF Act
<1>3. CASE NextSession \/ UNCHANGED vars
  <2>1. UNCHANGED <<saved, work, run, broker>>
    BY <1>3 DEF NextSession, vars, account
  <2>2. Shaped'
    BY <2>1 DEF Inv, Shaped
  <2>3. Known(saved)'
    BY <2>1 DEF Inv, Safe, Known, Open, Sending, At, Quantity, Signed
  <2>4. ASSUME NEW r \in Runners
        PROVE  (run'[r].current => Known(work[r])' /\ Ahead(work[r])') /\ AtOrder(r)' /\ Aware(r)'
    <3>1. (run[r].current => Known(work[r]) /\ Ahead(work[r])) /\ AtOrder(r) /\ Aware(r)
      BY DEF Inv, Safe
    <3>2. run'[r].current => Known(work[r])' /\ Ahead(work[r])'
      BY <2>1, <3>1 DEF Known, Ahead, Open, Sending, At, Quantity, Signed
    <3>3. AtOrder(r)' /\ Aware(r)'
      BY <2>1, <3>1 DEF AtOrder, Aware, At, Quantity, Signed, Delayed, Sending
    <3>4. QED
      BY <3>2, <3>3
  <2>5. QED
    BY <2>2, <2>3, <2>4 DEF Inv, Safe
<1>4. QED
  BY <1>1, <1>2, <1>3, KillProcessKeeps, LoseRunnerKeeps, BrokerStepKeeps DEF Next

LEMMA Invariance == Spec => []Inv
<1>1. QED
  BY InvInit, InvStep, PTL DEF Spec

\* Every order at the broker or on its way is reserved on the branch, with its
\* quantity, whatever runners die, overlap or fail to push.
THEOREM OrdersAreDurable == Spec => []SentIsDurable
<1>1. Inv => SentIsDurable
  BY DEF Inv, Safe, Known, SentIsDurable, Open, InFlight
<1>2. QED
  BY <1>1, Invariance, PTL

\* An order the broker had is released on the branch only with its fill line.
THEOREM NoFillIsLost == Spec => []FillsAreRecorded
<1>1. Inv => FillsAreRecorded
  BY DEF Inv, Safe, Known, FillsAreRecorded
<1>2. QED
  BY <1>1, Invariance, PTL

\* Nothing but a send adds to what a run has sent.
Quiet == \A q \in Runners : run'[q].sent \subseteq run[q].sent

LEMMA QuietUpdate ==
  ASSUME Inv, NEW r \in Runners, NEW next, next.sent \subseteq run[r].sent,
         run' = [run EXCEPT ![r] = next]
  PROVE  Quiet
  BY DEF Quiet, Inv, Shaped

LEMMA QuietPush ==
  ASSUME Inv, NEW r \in Runners, NEW next, next.sent \subseteq run[r].sent, Push(r, next)
  PROVE  Quiet
<1>1. ASSUME NEW q \in Runners PROVE run'[q].sent \subseteq run[q].sent
  <2>1. CASE q = r
    BY <2>1 DEF Push
  <2>2. CASE q # r
    BY <2>2 DEF Push, Inv, Shaped, IsProcess
  <2>3. QED
    BY <2>1, <2>2
<1>2. QED
  BY <1>1 DEF Quiet

LEMMA QuietPersist ==
  ASSUME Inv, NEW r \in Runners, NEW done, NEW failed,
         done.sent \subseteq run[r].sent, failed.sent \subseteq run[r].sent,
         Persist(r, done, failed)
  PROVE  Quiet
  BY QuietUpdate, QuietPush DEF Persist

LEMMA EndIsQuiet ==
  ASSUME NEW r \in Runners
  PROVE  Over(r).sent \subseteq run[r].sent /\ Idle.sent \subseteq run[r].sent
  BY DEF Over, Idle

LEMMA PrepareIsQuiet ==
  ASSUME Inv, NEW r \in Runners, Prepare(r)
  PROVE  Quiet
<1>1. IsProcess(run[r])
  BY DEF Inv, Shaped
<1>2. CASE Start(r)
  BY <1>2, QuietUpdate DEF Start, Idle
<1>3. CASE LookUp(r)
  BY <1>1, <1>3 DEF LookUp, Quiet, IsProcess, Inv, Shaped
<1>4. CASE RecordFill(r)
  BY <1>1, <1>4 DEF RecordFill, Quiet, IsProcess, Inv, Shaped
<1>5. CASE Release(r)
  BY <1>1, <1>5 DEF Release, Quiet, IsProcess, Inv, Shaped
<1>6. AddsNoExposure(r).sent \subseteq run[r].sent
  BY <1>1, EndIsQuiet DEF AddsNoExposure, IsProcess
<1>7. CASE Reconciled(r)
  <2> DEFINE p == IF run[r].wrote THEN [run[r] EXCEPT !.pc = "fills"] ELSE AddsNoExposure(r)
  <2>1. p.sent \subseteq run[r].sent
    BY <1>1, <1>6 DEF IsProcess
  <2>2. QED
    BY <1>7, <2>1, QuietUpdate DEF Reconciled
<1>8. CASE PersistFills(r)
  <2> DEFINE p    == AddsNoExposure(r)
             done == [p EXCEPT !.wrote = FALSE]
  <2>1. Persist(r, done, Over(r))
    BY <1>8 DEF PersistFills
  <2>2. IsProcess(p)
    BY AddsNoExposureIsProcess
  <2>3. p.sent \subseteq run[r].sent
    BY <1>6
  <2> HIDE DEF p
  <2>4. done.sent = p.sent
    BY <2>2, SetWrote
  <2> HIDE DEF done
  <2>5. QED
    BY <2>1, <2>3, <2>4, EndIsQuiet, QuietPersist
<1>9. CASE \E cash \in CashLevels : Plan(r, cash)
  <2>1. \E x, y : run' = [run EXCEPT ![r].pc = "act", ![r].orders = x, ![r].clean = y]
    BY <1>9 DEF Plan
  <2>2. QED
    BY <1>1, <2>1 DEF Quiet, IsProcess, Inv, Shaped
<1>10. QED
  BY <1>2, <1>3, <1>4, <1>5, <1>7, <1>8, <1>9 DEF Prepare

\* Of a runner's steps only those that follow a send add to what it sent.
LEMMA ActIsQuiet ==
  ASSUME Inv, NEW r \in Runners, Act(r)
  PROVE  Quiet \/ Accept(r) \/ \E arrives \in {"none", "delayed", "working"} : TimeOut(r, arrives)
<1>0. IsProcess(run[r])
  BY DEF Inv, Shaped
<1>2. CASE \E id \in Ids : Deny(r, id)
  <2>1. PICK id \in Ids : Deny(r, id)
    BY <1>2
  <2> DEFINE p == Dealt(r, id, FALSE, FALSE)
  <2>2. p.sent = run[r].sent
    BY DealtIsProcess
  <2>3. run' = [run EXCEPT ![r] = p]
    BY <2>1 DEF Deny
  <2> HIDE DEF p
  <2>4. QED
    BY <2>2, <2>3, QuietUpdate DEF Quiet
<1>3. CASE Refuse(r)
  <2> DEFINE id == run[r].id
             p  == Dealt(r, id, FALSE, FALSE)
  <2>1. id \in Ids
    BY <1>3 DEF Refuse, Inv, Safe, AtOrder, At
  <2>2. run' = [run EXCEPT ![r] = p]
    BY <1>3 DEF Refuse
  <2> HIDE DEF id
  <2>3. p.sent = run[r].sent
    BY <2>1, DealtIsProcess
  <2> HIDE DEF p
  <2>4. QED
    BY <2>2, <2>3, QuietUpdate DEF Quiet
<1>4. CASE \E id \in Ids : Reserve(r, id)
  BY <1>0, <1>4 DEF Reserve, IsProcess, Inv, Shaped, Quiet
<1>5. CASE RecordIntent(r)
  BY <1>0, <1>5 DEF RecordIntent, Goto, IsProcess, Inv, Shaped, Quiet
<1>6. CASE CutOff(r)
  BY <1>6, EndIsQuiet, QuietUpdate DEF CutOff
<1>7. CASE PersistIntent(r)
  <2> DEFINE p == [run[r] EXCEPT !.pc = "send"]
  <2>1. Push(r, p)
    BY <1>7 DEF PersistIntent
  <2>2. p.sent = run[r].sent
    BY <1>0 DEF IsProcess
  <2> HIDE DEF p
  <2>3. QED
    BY <2>1, <2>2, QuietPush
<1>8. CASE FailToPersistIntent(r)
  <2>1. Persist(r, Over(r), Over(r))
    BY <1>8 DEF FailToPersistIntent, Persist
  <2>2. QED
    BY <2>1, EndIsQuiet, QuietPersist
<1>9. CASE Finish(r)
  <2>1. CASE run[r].clean
    BY <1>0, <1>9, <2>1 DEF Finish, Goto, IsProcess, Inv, Shaped, Quiet
  <2>2. CASE ~run[r].clean
    BY <1>9, <2>2, EndIsQuiet, QuietUpdate DEF Finish
  <2>3. QED
    BY <2>1, <2>2
<1>10. CASE PersistDecision(r)
  BY <1>10, EndIsQuiet, QuietPersist DEF PersistDecision
<1>11. CASE PersistState(r)
  BY <1>11, EndIsQuiet, QuietPersist DEF PersistState
<1>12. QED
  BY <1>2, <1>3, <1>4, <1>5, <1>6, <1>7, <1>8, <1>9, <1>10, <1>11 DEF Act

LEMMA NextIsQuiet ==
  ASSUME Inv, [Next]_vars
  PROVE  Quiet \/ \E r \in Runners : Accept(r) \/ \E arrives \in {"none", "delayed", "working"} :
                                                    TimeOut(r, arrives)
<1>1. CASE \E q \in Runners : Prepare(q)
  BY <1>1, PrepareIsQuiet
<1>2. CASE \E q \in Runners : Act(q)
  BY <1>2, ActIsQuiet
<1>3. CASE \E q \in Runners : KillProcess(q) \/ LoseRunner(q)
  BY <1>3, EndIsQuiet, QuietUpdate DEF KillProcess, LoseRunner
<1>4. CASE (\E id \in Ids : Broker(id)) \/ NextSession \/ UNCHANGED vars
  BY <1>4 DEF Broker, Arrive, Vanish, FillOne, Expire, NextSession, vars, Quiet
<1>5. QED
  BY <1>1, <1>2, <1>3, <1>4 DEF Next

\* A send is the step of the one runner that is at it.
LEMMA SendIsOfOrder ==
  ASSUME Inv, [Next]_vars, NEW r \in Runners, NEW id \in Ids, Sends(r, id)
  PROVE  /\ At(r, "send") /\ run[r].id = id
         /\ \E state \in {"none", "delayed", "working"} : Sent(r, id, state)
<1>1. PICK q \in Runners : Accept(q) \/ \E arrives \in {"none", "delayed", "working"} :
                                          TimeOut(q, arrives)
  BY NextIsQuiet DEF Quiet, Sends
<1>2. PICK yes : run' = [run EXCEPT ![q] = Dealt(q, run[q].id, TRUE, yes)]
  BY <1>1 DEF Accept, TimeOut
<1>3. /\ At(q, "send") /\ run[q].id \in Ids /\ broker[run[q].id].state = "none"
  BY <1>1 DEF Accept, TimeOut, Inv, Safe, AtOrder, At
<1> DEFINE p == Dealt(q, run[q].id, TRUE, yes)
<1>4. p.sent = run[q].sent \cup {run[q].id}
  BY <1>3 DEF Dealt, Inv, Shaped, IsProcess
<1> HIDE DEF p
<1>5. run'[q] = p /\ \A u \in Runners \ {q} : run'[u] = run[u]
  BY <1>2 DEF Inv, Shaped, p
<1>6. r = q /\ id = run[r].id
  BY <1>4, <1>5 DEF Sends
<1>7. \E state \in {"none", "delayed", "working"} : Sent(r, id, state)
  BY <1>1, <1>3, <1>6 DEF Accept, TimeOut
<1>8. QED
  BY <1>3, <1>6, <1>7

\* Every send, of any run, comes when nothing is under way unanswered but the
\* run's own requests.
THEOREM NothingIsSentBlind == Spec => NothingOnTopOfUnknown
<1>1. ASSUME Inv, [Next]_vars, NEW r \in Runners, NEW id \in Ids, Sends(r, id)
      PROVE  \A other \in Ids : broker[other].state = "delayed" => other \in run[r].sent
  BY <1>1, SendIsOfOrder DEF Inv, Safe, Aware, Delayed
<1>2. Inv /\ [Next]_vars =>
        \A r \in Runners, id \in Ids : Sends(r, id) =>
          \A other \in Ids : broker[other].state = "delayed" => other \in run[r].sent
  BY <1>1
<1>3. QED
  BY <1>2, Invariance, PTL DEF Spec, NothingOnTopOfUnknown

-----------------------------------------------------------------------------
(* ---- The promise of every order --------------------------------------- *)

Promised == {"record", "persist", "send"}

\* The promise's own books: an order has a quantity once it was sent, and not
\* before; a sent order stays on the branch, and an ended one is ended in every
\* checkout that is not behind.
Told ==
  /\ \A id \in Ids :
       /\ broker[id].quantity # 0 => saved.rows[id] # "none"
       /\ broker[id].state # "none" => broker[id].quantity # 0
  /\ \A r \in Runners :
       /\ run[r].pc \in Promised => Quantity(r, run[r].id) # 0
       /\ At(r, "send") => broker[run[r].id].quantity = 0
       /\ run[r].current => \A id \in Ids : saved.rows[id] = "ended" => work[r].rows[id] = "ended"

\* The copy d keeps what c says has ended.
Remembers(c, d) == \A id \in Ids : c.rows[id] = "ended" => d.rows[id] = "ended"

\* A step of r that sends nothing: its memory is next, its checkout d.
Turn(r, next, d) ==
  /\ run'[r] = next /\ work'[r] = d /\ broker' = broker
  /\ \A q \in Runners \ {r} : SameButCurrent(q) /\ work'[q] = work[q]
  /\ saved' = saved \/ (run[r].current /\ saved' = work[r])
  /\ next.pc \in Promised => Signed(next.id, next.orders[next.id[2]]) # 0
  /\ next.pc = "send" => broker[next.id].quantity = 0
  /\ next.current => \/ saved' = saved /\ d = saved
                     \/ run[r].current /\ Remembers(work[r], d)

PromiseStep == [Promise!Next]_<<[id \in Ids |-> Log(id)], [id \in Ids |-> Market(id)]>>

LEMMA TurnKeeps ==
  ASSUME Inv, Inv', Told, NEW r \in Runners, NEW next, NEW d, Turn(r, next, d)
  PROVE  Told' /\ PromiseStep
<1>1. /\ broker' = broker
      /\ saved' = saved \/ (run[r].current /\ saved' = work[r])
      /\ \A q \in Runners \ {r} : SameButCurrent(q) /\ work'[q] = work[q]
      /\ run'[r] = next /\ work'[r] = d
  BY DEF Turn
<1>2. \A id \in Ids :
        /\ saved.rows[id] # "none" => saved'.rows[id] # "none"
        /\ saved.rows[id] = "ended" => saved'.rows[id] = "ended"
  BY <1>1 DEF Told, Inv, Safe, Ahead
<1>3. \A id \in Ids : /\ broker'[id].quantity # 0 => saved'.rows[id] # "none"
                      /\ broker'[id].state # "none" => broker'[id].quantity # 0
  BY <1>1, <1>2 DEF Told
<1>4. ASSUME NEW q \in Runners
      PROVE  /\ run'[q].pc \in Promised => Signed(run'[q].id, run'[q].orders[run'[q].id[2]]) # 0
             /\ run'[q].pc = "send" => broker'[run'[q].id].quantity = 0
             /\ run'[q].current => Remembers(saved', work'[q])
  <2>1. CASE q = r
    <3>1. run'[q].current => Remembers(saved', work'[q])
      BY <1>1, <2>1 DEF Turn, Told, Remembers
    <3>2. QED
      BY <1>1, <2>1, <3>1 DEF Turn
  <2>2. CASE q # r
    BY <1>1, <2>2 DEF Told, SameButCurrent, At, Quantity, Signed, Remembers
  <2>3. QED
    BY <2>1, <2>2
<1>5. Told'
  BY <1>3, <1>4 DEF Told, At, Quantity, Signed, Remembers
<1>6. PromiseStep
  <2> DEFINE log == [id \in Ids |-> saved.rows[id]]
             logA == [id \in Ids |-> saved'.rows[id]]
             market == [id \in Ids |-> Market(id)]
  <2>1. \A id \in Ids : saved.rows[id] \in {"none", "open", "ended"} /\ saved'.rows[id] \in {"none", "open", "ended"}
    BY DEF Inv, Shaped, IsState
  <2>2. ASSUME NEW id \in Ids
        PROVE  \/ saved'.rows[id] = saved.rows[id]
               \/ saved.rows[id] = "none" /\ saved'.rows[id] = "open"
               \/ saved.rows[id] \in {"none", "open"} /\ saved'.rows[id] = "ended" /\ Market(id) # "live"
    <3>1. CASE saved' = saved
      BY <3>1
    <3>2. CASE run[r].current /\ saved' = work[r]
      <4>1. broker[id].state \in InFlight => saved'.rows[id] = "open"
        BY <3>2 DEF Inv, Safe, Known, Open
      <4>2. saved'.rows[id] = "ended" => Market(id) # "live"
        BY <4>1 DEF Market, InFlight
      <4>3. QED
        BY <1>2, <2>1, <4>2
    <3>3. QED
      BY <1>1, <3>1, <3>2
  <2>3. [id \in Ids |-> Log(id)] = log /\ [id \in Ids |-> Log(id)]' = logA
    BY DEF Log
  <2>4. market' = market
    BY <1>1 DEF Market
  <2>5. Promise!Publish
    BY <2>1, <2>2, <2>4 DEF Promise!Publish, Promise!MayBecome, Log
  <2>6. QED
    BY <2>5 DEF PromiseStep, Promise!Next
<1>7. QED
  BY <1>5, <1>6

\* A step of r within its runner is a turn.
LEMMA OwnTurn ==
  ASSUME Inv, NEW r \in Runners, NEW next, run' = [run EXCEPT ![r] = next],
         NEW d, work' = [work EXCEPT ![r] = d], UNCHANGED <<saved, account>>,
         next.pc \in Promised => Signed(next.id, next.orders[next.id[2]]) # 0,
         next.pc # "send",
         next.current => d = saved \/ (run[r].current /\ Remembers(work[r], d))
  PROVE  Turn(r, next, d)
  BY DEF Turn, SameButCurrent, Inv, Shaped, account

\* ... also when the checkout stays as it is and the order too.
LEMMA MemoryTurn ==
  ASSUME Inv, NEW r \in Runners, NEW next, run' = [run EXCEPT ![r] = next],
         UNCHANGED <<saved, work, account>>, next.pc \notin Promised,
         next.current => run[r].current
  PROVE  Turn(r, next, work[r])
  BY DEF Turn, SameButCurrent, Remembers, Inv, Shaped, account, Promised

\* A push, accepted or not, is one.
LEMMA PushTurn ==
  ASSUME Inv, NEW r \in Runners, NEW done, NEW failed, IsProcess(done), IsProcess(failed),
         Persist(r, done, failed), done.pc \notin Promised, failed.pc \notin Promised,
         NEW d, work' = [work EXCEPT ![r] = d], UNCHANGED account,
         done.current \/ failed.current => run[r].current /\ Remembers(work[r], d)
  PROVE  Turn(r, done, d) \/ Turn(r, failed, d)
<1>1. /\ saved' = saved \/ (run[r].current /\ saved' = work[r])
      /\ run'[r] = done \/ run'[r] = failed
      /\ \A q \in Runners \ {r} : SameButCurrent(q)
  BY PersistUpdate DEF Inv
<1>2. work'[r] = d /\ \A q \in Runners \ {r} : work'[q] = work[q]
  BY DEF Inv, Shaped
<1>3. QED
  BY <1>1, <1>2 DEF Turn, Promised, account

LEMMA PrepareTurns ==
  ASSUME Inv, NEW r \in Runners, Prepare(r)
  PROVE  \E next, d : Turn(r, next, d)
<1>0. IsProcess(run[r]) /\ IsState(work[r])
  BY DEF Inv, Shaped
<1>1. CASE Start(r)
  <2> DEFINE next == [Idle EXCEPT !.pc = "reconcile", !.current = TRUE,
                        !.todo = {id \in Ids : saved.rows[id] = "open"}]
  <2>1. next.pc = "reconcile"
    BY DEF Idle
  <2>2. run' = [run EXCEPT ![r] = next] /\ work' = [work EXCEPT ![r] = saved] /\ UNCHANGED <<saved, account>>
    BY <1>1 DEF Start
  <2> HIDE DEF next
  <2>3. Turn(r, next, saved)
    BY <2>1, <2>2, OwnTurn DEF Promised
  <2>4. QED
    BY <2>3
<1>2. CASE LookUp(r)
  <2> DEFINE t == run[r].todo \ {NextRow(r)}
             u == run[r].unknown \/ broker[NextRow(r)].state # "working"
             next == [run[r] EXCEPT !.todo = t, !.unknown = u]
  <2>1. run' = [run EXCEPT ![r] = next] /\ At(r, "reconcile") /\ UNCHANGED <<saved, work, account>>
    BY <1>2 DEF LookUp, Reconciling, Inv, Shaped
  <2> HIDE DEF t, u
  <2>2. next.pc = run[r].pc /\ next.current = run[r].current
    BY <1>0 DEF IsProcess
  <2> HIDE DEF next
  <2>3. Turn(r, next, work[r])
    BY <2>1, <2>2, MemoryTurn DEF Promised, At
  <2>4. QED
    BY <2>3
<1>3. CASE RecordFill(r)
  <2> DEFINE d == [work[r] EXCEPT !.recorded = @ \cup {NextRow(r)}]
             next == [run[r] EXCEPT !.pc = "release", !.id = NextRow(r)]
  <2>1. run' = [run EXCEPT ![r] = next] /\ work' = [work EXCEPT ![r] = d] /\ UNCHANGED <<saved, account>>
    BY <1>3 DEF RecordFill, Inv, Shaped
  <2>2. next.pc = "release" /\ next.current = run[r].current /\ d.rows = work[r].rows
    BY <1>0 DEF IsProcess, IsState
  <2> HIDE DEF next, d
  <2>3. Turn(r, next, d)
    BY <2>1, <2>2, OwnTurn DEF Promised, Remembers
  <2>4. QED
    BY <2>3
<1>4. CASE Release(r)
  <2> DEFINE d == [work[r] EXCEPT !.rows[run[r].id] = "ended"]
             t == run[r].todo \ {run[r].id}
             next == [run[r] EXCEPT !.pc = "reconcile", !.todo = t, !.wrote = TRUE]
  <2>1. run' = [run EXCEPT ![r] = next] /\ work' = [work EXCEPT ![r] = d] /\ UNCHANGED <<saved, account>>
        /\ At(r, "release")
    BY <1>4 DEF Release, Inv, Shaped
  <2>2. run[r].id \in Ids
    BY <2>1 DEF Inv, Safe, AtOrder
  <2> HIDE DEF t
  <2>3. next.pc = "reconcile" /\ next.current = run[r].current
    BY <1>0 DEF IsProcess
  <2>4. Remembers(work[r], d)
    BY <1>0, <2>2, StateUpdates DEF Remembers, IsState
  <2> HIDE DEF next, d
  <2>5. Turn(r, next, d)
    BY <2>1, <2>3, <2>4, OwnTurn DEF Promised
  <2>6. QED
    BY <2>5
<1>5. CASE Reconciled(r)
  <2> DEFINE next == IF run[r].wrote THEN [run[r] EXCEPT !.pc = "fills"] ELSE AddsNoExposure(r)
  <2>1. run' = [run EXCEPT ![r] = next] /\ UNCHANGED <<saved, work, account>>
    BY <1>5 DEF Reconciled
  <2>2. next.pc \in {"fills", "plan", "end"} /\ next.current = run[r].current
    <3>1. [run[r] EXCEPT !.pc = "fills"].pc = "fills" /\ [run[r] EXCEPT !.pc = "fills"].current = run[r].current
      BY <1>0, SetPc DEF Phases
    <3>2. QED
      BY <3>1, AddsNoExposureIsProcess
  <2> HIDE DEF next
  <2>3. Turn(r, next, work[r])
    BY <2>1, <2>2, MemoryTurn DEF Promised
  <2>4. QED
    BY <2>3
<1>6. CASE PersistFills(r)
  <2> DEFINE p == AddsNoExposure(r)
             done == [p EXCEPT !.wrote = FALSE]
  <2>1. Persist(r, done, Over(r)) /\ UNCHANGED <<work, account>>
    BY <1>6 DEF PersistFills
  <2>2. IsProcess(p) /\ p.current = run[r].current /\ p.pc \in {"plan", "end"}
    BY AddsNoExposureIsProcess
  <2> HIDE DEF p
  <2>3. IsProcess(done) /\ done.current = run[r].current /\ done.pc = p.pc
    BY <2>2, SetWrote
  <2> HIDE DEF done
  <2>4. work' = [work EXCEPT ![r] = work[r]] /\ Remembers(work[r], work[r])
    BY <2>1 DEF Inv, Shaped, Remembers
  <2>5. IsProcess(Over(r)) /\ Over(r).pc = "end" /\ Over(r).current = run[r].current
    BY OverIsProcess DEF Inv
  <2>6. Turn(r, done, work[r]) \/ Turn(r, Over(r), work[r])
    BY <2>1, <2>2, <2>3, <2>4, <2>5, PushTurn DEF Promised
  <2>7. QED
    BY <2>6
<1>7. CASE \E cash \in CashLevels : Plan(r, cash)
  <2>1. PICK x, y : run' = [run EXCEPT ![r].pc = "act", ![r].orders = x, ![r].clean = y]
    BY <1>7 DEF Plan
  <2> DEFINE next == [run[r] EXCEPT !.pc = "act", !.orders = x, !.clean = y]
  <2>2. run' = [run EXCEPT ![r] = next] /\ UNCHANGED <<saved, work, account>>
    BY <1>7, <2>1 DEF Plan, Inv, Shaped
  <2>3. next.pc = "act" /\ next.current = run[r].current
    BY <1>0 DEF IsProcess
  <2> HIDE DEF next
  <2>4. Turn(r, next, work[r])
    BY <2>2, <2>3, MemoryTurn DEF Promised
  <2>5. QED
    BY <2>4
<1>8. QED
  BY <1>1, <1>2, <1>3, <1>4, <1>5, <1>6, <1>7 DEF Prepare

\* The steps of the order loop that send nothing.
LEMMA ActTurns ==
  ASSUME Inv, Told, NEW r \in Runners, Act(r), ~Accept(r),
         \A arrives \in {"none", "delayed", "working"} : ~TimeOut(r, arrives)
  PROVE  \E next, d : Turn(r, next, d)
<1>0. IsProcess(run[r]) /\ IsState(work[r]) /\ IsProcess(Over(r)) /\ Over(r).pc = "end"
      /\ Over(r).current = run[r].current
  BY OverIsProcess DEF Inv, Shaped
<1>1. ASSUME NEW id \in Ids, Deny(r, id)
      PROVE  \E next, d : Turn(r, next, d)
  <2> DEFINE next == Dealt(r, id, FALSE, FALSE)
  <2>1. run' = [run EXCEPT ![r] = next] /\ UNCHANGED <<saved, work, account>>
    BY <1>1 DEF Deny
  <2>2. next.pc = "act" /\ next.current = run[r].current
    BY DealtIsProcess
  <2> HIDE DEF next
  <2>3. Turn(r, next, work[r])
    BY <2>1, <2>2, MemoryTurn DEF Promised
  <2>4. QED
    BY <2>3
<1>2. ASSUME NEW id \in Ids, Reserve(r, id)
      PROVE  \E next, d : Turn(r, next, d)
  <2> DEFINE d == [work[r] EXCEPT !.rows[id] = "open"]
             next == [run[r] EXCEPT !.pc = "record", !.id = id]
  <2>1. /\ run' = [run EXCEPT ![r] = next] /\ work' = [work EXCEPT ![r] = d]
        /\ UNCHANGED <<saved, account>> /\ work[r].rows[id] = "none"
        /\ Signed(id, run[r].orders[id[2]]) > 0
    BY <1>2 DEF Reserve, Unused, NextOrder, Quantity, Inv, Shaped
  <2>2. /\ next.pc = "record" /\ next.current = run[r].current /\ next.id = id
        /\ next.orders = run[r].orders
    BY <1>0 DEF IsProcess
  <2>3. Remembers(work[r], d)
    BY <1>0, <2>1, StateUpdates DEF Remembers, IsState
  <2>4. Signed(id, run[r].orders[id[2]]) # 0
    BY <2>1
  <2> HIDE DEF next, d
  <2>5. Turn(r, next, d)
    BY <2>1, <2>2, <2>3, <2>4, OwnTurn
  <2>6. QED
    BY <2>5
<1>3. CASE RecordIntent(r)
  <2> DEFINE d == [work[r] EXCEPT !.intents[run[r].id] = Quantity(r, run[r].id)]
             next == [run[r] EXCEPT !.pc = "persist"]
  <2>1. /\ run' = [run EXCEPT ![r] = next] /\ work' = [work EXCEPT ![r] = d]
        /\ UNCHANGED <<saved, account>> /\ At(r, "record")
    BY <1>3 DEF RecordIntent, Goto, Inv, Shaped
  <2>2. /\ next.pc = "persist" /\ next.current = run[r].current /\ next.id = run[r].id
        /\ next.orders = run[r].orders
    BY <1>0, SetPc DEF Phases
  <2>3. d.rows = work[r].rows
    BY <1>0 DEF IsState
  <2>4. Signed(run[r].id, run[r].orders[run[r].id[2]]) # 0
    BY <2>1 DEF Told, At, Promised, Quantity
  <2> HIDE DEF next, d
  <2>5. Turn(r, next, d)
    BY <2>1, <2>2, <2>3, <2>4, OwnTurn DEF Remembers
  <2>6. QED
    BY <2>5
<1>4. CASE CutOff(r) \/ Refuse(r) \/ FailToPersistIntent(r)
  <2> DEFINE d == [work[r] EXCEPT !.rows[run[r].id] = "ended"]
             p == Dealt(r, run[r].id, FALSE, FALSE)
  <2>1. run[r].id \in Ids /\ work' = [work EXCEPT ![r] = d] /\ UNCHANGED account
    BY <1>4 DEF CutOff, Refuse, FailToPersistIntent, At, Inv, Safe, AtOrder, Shaped
  <2>2. Remembers(work[r], d)
    BY <1>0, <2>1, StateUpdates DEF Remembers, IsState
  <2>3. IsProcess(p) /\ p.pc = "act" /\ p.current = run[r].current
    BY <2>1, DealtIsProcess
  <2>4. CutOff(r) => run' = [run EXCEPT ![r] = Over(r)] /\ saved' = saved
    BY DEF CutOff
  <2>5. Refuse(r) => run' = [run EXCEPT ![r] = p] /\ saved' = saved
    BY DEF Refuse
  <2>6. FailToPersistIntent(r) => Persist(r, Over(r), Over(r))
    BY DEF FailToPersistIntent, Persist
  <2> HIDE DEF d, p
  <2>7. CASE CutOff(r)
    BY <1>0, <2>1, <2>2, <2>4, <2>7, OwnTurn DEF Promised
  <2>8. CASE Refuse(r)
    BY <1>0, <2>1, <2>2, <2>3, <2>5, <2>8, OwnTurn DEF Promised
  <2>9. CASE FailToPersistIntent(r)
    <3>1. Over(r).current => run[r].current
      BY <1>0
    <3>2. Over(r).pc \notin Promised
      BY <1>0 DEF Promised
    <3>3. Turn(r, Over(r), d)
      BY <1>0, <2>1, <2>2, <2>6, <2>9, <3>1, <3>2, PushTurn
    <3>4. QED
      BY <3>3
  <2>10. QED
    BY <1>4, <2>7, <2>8, <2>9
<1>5. CASE PersistIntent(r)
  <2> DEFINE next == [run[r] EXCEPT !.pc = "send"]
  <2>1. Push(r, next) /\ UNCHANGED <<work, account>> /\ At(r, "persist")
    BY <1>5 DEF PersistIntent
  <2>2. /\ IsProcess(next) /\ next.pc = "send" /\ next.current = run[r].current /\ next.id = run[r].id
        /\ next.orders = run[r].orders
    BY <1>0, SetPc DEF Phases
  <2> HIDE DEF next
  <2>3. /\ run[r].current /\ saved' = work[r] /\ run'[r] = next
        /\ \A q \in Runners \ {r} : SameButCurrent(q)
    BY <2>1, <2>2, PushUpdate DEF Inv
  <2>4. saved.rows[run[r].id] = "none" /\ run[r].id \in Ids
    BY <2>1, <2>3 DEF Inv, Safe, AtOrder, At
  <2>5. broker[run[r].id].quantity = 0 /\ Signed(run[r].id, run[r].orders[run[r].id[2]]) # 0
    BY <2>1, <2>4 DEF Told, At, Promised, Quantity
  <2>6. Turn(r, next, work[r])
    BY <2>1, <2>2, <2>3, <2>5 DEF Turn, Remembers, account
  <2>7. QED
    BY <2>6
<1>6. CASE Finish(r)
  <2> DEFINE d == [work[r] EXCEPT !.executed = DecisionAt[session]]
             next == [run[r] EXCEPT !.pc = "complete"]
  <2>1. next.pc = "complete" /\ next.current = run[r].current
    BY <1>0, SetPc DEF Phases
  <2>2. d.rows = work[r].rows
    BY <1>0 DEF IsState
  <2>3. UNCHANGED <<saved, account>>
    BY <1>6 DEF Finish
  <2>4. CASE run[r].clean
    <3>1. run' = [run EXCEPT ![r] = next] /\ work' = [work EXCEPT ![r] = d]
      BY <1>6, <2>4 DEF Finish, Goto, Inv, Shaped
    <3> HIDE DEF next, d
    <3>2. Turn(r, next, d)
      BY <2>1, <2>2, <2>3, <3>1, OwnTurn DEF Promised, Remembers
    <3>3. QED
      BY <3>2
  <2>5. CASE ~run[r].clean
    <3>1. run' = [run EXCEPT ![r] = Over(r)] /\ work' = work
      BY <1>6, <2>5 DEF Finish
    <3>2. Turn(r, Over(r), work[r])
      BY <1>0, <2>3, <3>1, MemoryTurn DEF Promised
    <3>3. QED
      BY <3>2
  <2>6. QED
    BY <2>4, <2>5
<1>7. CASE PersistDecision(r)
  <2>1. Persist(r, Over(r), Over(r)) /\ UNCHANGED <<work, account>>
    BY <1>7 DEF PersistDecision
  <2>2. work' = [work EXCEPT ![r] = work[r]] /\ Remembers(work[r], work[r])
    BY <2>1 DEF Inv, Shaped, Remembers
  <2>3. Over(r).pc \notin Promised /\ (Over(r).current => run[r].current)
    BY <1>0 DEF Promised
  <2>4. Turn(r, Over(r), work[r])
    BY <1>0, <2>1, <2>2, <2>3, PushTurn
  <2>5. QED
    BY <2>4
<1>8. CASE PersistState(r)
  <2>1. Persist(r, Idle, Idle) /\ work' = [work EXCEPT ![r] = EmptyState] /\ UNCHANGED account
    BY <1>8 DEF PersistState
  <2>2. Idle.pc \notin Promised /\ ~Idle.current
    BY DEF Promised, Idle
  <2>3. Turn(r, Idle, EmptyState)
    BY <2>1, <2>2, IdleIsProcess, PushTurn
  <2>4. QED
    BY <2>3
<1>9. QED
  BY <1>1, <1>2, <1>3, <1>4, <1>5, <1>6, <1>7, <1>8 DEF Act

\* Killed, or gone with its checkout.
LEMMA LossTurns ==
  ASSUME Inv, NEW r \in Runners, KillProcess(r) \/ LoseRunner(r)
  PROVE  \E next, d : Turn(r, next, d)
<1>1. CASE KillProcess(r)
  <2>1. run' = [run EXCEPT ![r] = Over(r)] /\ UNCHANGED <<saved, work, account>>
    BY <1>1 DEF KillProcess
  <2>2. Over(r).pc = "end" /\ Over(r).current = run[r].current
    BY OverIsProcess DEF Inv
  <2>3. Turn(r, Over(r), work[r])
    BY <2>1, <2>2, MemoryTurn DEF Promised
  <2>4. QED
    BY <2>3
<1>2. CASE LoseRunner(r)
  <2>1. run' = [run EXCEPT ![r] = Idle] /\ work' = [work EXCEPT ![r] = EmptyState] /\ UNCHANGED <<saved, account>>
    BY <1>2 DEF LoseRunner
  <2>2. Idle.pc = "idle" /\ ~Idle.current
    BY DEF Idle
  <2>3. Turn(r, Idle, EmptyState)
    BY <2>1, <2>2, OwnTurn DEF Promised
  <2>4. QED
    BY <2>3
<1>3. QED
  BY <1>1, <1>2

\* A request leaves: the branch has had its order since before, and it never left before.
LEMMA SentPromised ==
  ASSUME Inv, Inv', Told, NEW r \in Runners, At(r, "send"), NEW state \in {"none", "delayed", "working"},
         NEW submitted, Sent(r, run[r].id, state), UNCHANGED <<saved, work>>,
         run' = [run EXCEPT ![r] = Dealt(r, run[r].id, TRUE, submitted)]
  PROVE  Told' /\ PromiseStep
<1>0. PICK id \in Ids : id = run[r].id
  BY DEF Inv, Safe, AtOrder, At
<1> DEFINE n  == Quantity(r, id)
           o  == [state |-> state, quantity |-> n, filled |-> 0]
           p  == Dealt(r, id, TRUE, submitted)
<1>1. \A q \in Runners : At(q, "send") => q = r
  BY DEF Inv, Safe, AtOrder
<1>2. n # 0 /\ broker[id].quantity = 0 /\ saved.rows[id] = "open"
  BY <1>0, <1>1 DEF Told, At, Promised, Inv, Safe, Known, Open, Sending
<1>3. broker' = [broker EXCEPT ![id] = o]
  BY <1>0 DEF Sent
<1>4. p.pc = "act" /\ p.current = run[r].current
  BY DealtIsProcess
<1>5. o.state = state /\ o.quantity = n
  OBVIOUS
<1>6. run'[r] = p /\ \A q \in Runners \ {r} : run'[q] = run[q]
  BY <1>0 DEF Inv, Shaped
<1> HIDE DEF n, o, p
<1>7. broker'[id] = o /\ \A i \in Ids \ {id} : broker'[i] = broker[i]
  BY <1>1, <1>3 DEF Inv, Shaped
<1>8. Told'
  <2>1. \A i \in Ids : /\ broker'[i].quantity # 0 => saved'.rows[i] # "none"
                       /\ broker'[i].state # "none" => broker'[i].quantity # 0
    BY <1>2, <1>5, <1>7 DEF Told
  <2>2. ASSUME NEW q \in Runners
        PROVE  /\ run'[q].pc \in Promised => Signed(run'[q].id, run'[q].orders[run'[q].id[2]]) # 0
               /\ run'[q].pc # "send"
               /\ run'[q].current => Remembers(saved', work'[q])
    <3>1. CASE q = r
      BY <1>4, <1>6, <3>1 DEF Promised, Told, Remembers
    <3>2. CASE q # r
      BY <1>1, <1>6, <3>2 DEF Told, At, Quantity, Remembers
    <3>3. QED
      BY <3>1, <3>2
  <2>3. QED
    BY <2>1, <2>2 DEF Told, At, Quantity, Signed, Remembers
<1>9. PromiseStep
  <2> DEFINE market == [i \in Ids |-> Market(i)]
             m == IF state = "none" THEN "done" ELSE "live"
  <2>1. market[id] = "none" /\ Log(id) = "open" /\ Log(id)' = "open"
    BY <1>1, <1>2 DEF Market, Log
  <2>2. Market(id)' = m /\ \A i \in Ids \ {id} : Market(i)' = Market(i)
    BY <1>2, <1>5, <1>7 DEF Market
  <2>3. [i \in Ids |-> Market(i)]' = [market EXCEPT ![id] = m]
    BY <1>1, <2>2
  <2>4. [i \in Ids |-> Log(i)]' = [i \in Ids |-> Log(i)]
    BY DEF Log
  <2>5. Promise!Place(id)
    BY <1>1, <2>1, <2>3, <2>4 DEF Promise!Place
  <2>6. QED
    BY <1>1, <2>5 DEF PromiseStep, Promise!Next
<1>10. QED
  BY <1>8, <1>9

\* The broker's own steps conclude an order or change nothing of its promise.
LEMMA BrokerPromised ==
  ASSUME Inv, Told, NEW id \in Ids, Broker(id)
  PROVE  Told' /\ PromiseStep
<1>1. UNCHANGED <<saved, work, run>>
  BY DEF Broker, Arrive, Vanish, FillOne, Expire
<1>2. /\ broker[id].state \in {"delayed", "working"}
      /\ broker'[id].quantity = broker[id].quantity
      /\ broker'[id].state \in {"none", "delayed", "working", "ended"}
      /\ \A i \in Ids \ {id} : broker'[i] = broker[i]
  BY DEF Broker, Arrive, Vanish, FillOne, Expire, Inv, Shaped, IsOrder
<1>3. broker[id].quantity # 0
  BY <1>2 DEF Told
<1>4. Told'
  <2>1. \A i \in Ids : /\ broker'[i].quantity # 0 => saved'.rows[i] # "none"
                       /\ broker'[i].state # "none" => broker'[i].quantity # 0
    BY <1>1, <1>2, <1>3 DEF Told
  <2>2. \A i \in Ids : broker'[i].quantity = broker[i].quantity
    BY <1>2
  <2>3. \A r \in Runners : At(r, "send") => run[r].id \in Ids
    BY DEF Inv, Safe, AtOrder, At
  <2>4. QED
    BY <1>1, <2>1, <2>2, <2>3 DEF Told, At, Quantity, Signed
<1>5. PromiseStep
  <2> DEFINE market == [i \in Ids |-> Market(i)]
  <2>1. market[id] = "live" /\ Market(id)' \in {"live", "done"}
    BY <1>2, <1>3 DEF Market
  <2>2. \A i \in Ids \ {id} : Market(i)' = Market(i)
    BY <1>2 DEF Market
  <2>3. [i \in Ids |-> Log(i)]' = [i \in Ids |-> Log(i)]
    BY <1>1 DEF Log
  <2>4. CASE Market(id)' = "live"
    <3>1. [i \in Ids |-> Market(i)]' = market
      BY <2>1, <2>2, <2>4
    <3>2. QED
      BY <2>3, <3>1 DEF PromiseStep
  <2>5. CASE Market(id)' = "done"
    <3>1. [i \in Ids |-> Market(i)]' = [market EXCEPT ![id] = "done"]
      BY <2>1, <2>2, <2>5
    <3>2. Promise!Conclude(id)
      BY <2>1, <2>3, <3>1 DEF Promise!Conclude
    <3>3. QED
      BY <3>2 DEF PromiseStep, Promise!Next
  <2>6. QED
    BY <2>1, <2>4, <2>5
<1>6. QED
  BY <1>4, <1>5

LEMMA PromiseKept ==
  ASSUME Inv, Inv', Told, [Next]_vars
  PROVE  Told' /\ PromiseStep
<1>1. ASSUME NEW r \in Runners, NEW next, NEW d, Turn(r, next, d)
      PROVE  Told' /\ PromiseStep
  BY <1>1, TurnKeeps
<1>2. ASSUME NEW r \in Runners, Prepare(r) \/ KillProcess(r) \/ LoseRunner(r)
      PROVE  Told' /\ PromiseStep
  <2>1. PICK next, d : Turn(r, next, d)
    BY <1>2, PrepareTurns, LossTurns
  <2>2. QED
    BY <1>1, <2>1
<1>3. ASSUME NEW r \in Runners, Act(r)
      PROVE  Told' /\ PromiseStep
  <2>1. CASE Accept(r)
    BY <2>1, SentPromised DEF Accept
  <2>2. ASSUME NEW arrives \in {"none", "delayed", "working"}, TimeOut(r, arrives)
        PROVE  Told' /\ PromiseStep
    <3>1. At(r, "send") /\ broker[run[r].id].state = "none"
      BY <2>2 DEF TimeOut, Inv, Safe, AtOrder
    <3>2. QED
      BY <2>2, <3>1, SentPromised DEF TimeOut
  <2>3. CASE ~Accept(r) /\ \A arrives \in {"none", "delayed", "working"} : ~TimeOut(r, arrives)
    <3>1. PICK next, d : Turn(r, next, d)
      BY <1>3, <2>3, ActTurns
    <3>2. QED
      BY <1>1, <3>1
  <2>4. QED
    BY <2>1, <2>2, <2>3
<1>4. CASE NextSession \/ UNCHANGED vars
  <2>1. UNCHANGED <<saved, work, run, broker>>
    BY <1>4 DEF NextSession, vars, account
  <2>2. Told'
    BY <2>1 DEF Told, At, Quantity, Signed
  <2>3. PromiseStep
    BY <2>1 DEF PromiseStep, Log, Market
  <2>4. QED
    BY <2>2, <2>3
<1>5. QED
  BY <1>2, <1>3, <1>4, BrokerPromised DEF Next

LEMMA PromiseInit ==
  ASSUME Init
  PROVE  Told /\ Promise!Init
<1>1. /\ \A r \in Runners : run[r].pc = "idle" /\ ~run[r].current
      /\ \A id \in Ids : broker[id].state = "none" /\ broker[id].quantity = 0 /\ saved.rows[id] = "none"
  BY DEF Init, Idle, EmptyState
<1>2. Told
  BY <1>1 DEF Told, At, Promised
<1>3. \A id \in Ids : Log(id) = "none" /\ Market(id) = "none"
  BY <1>1 DEF Log, Market
<1>4. QED
  BY <1>2, <1>3 DEF Promise!Init

\* The submitting loop implements the promise: every order is on the branch before
\* it is sent, is sent once, and leaves the branch when it can trade no more.
THEOREM LoopKeepsItsPromise == Spec => KeepsOrderPromise
<1>1. Init => Told /\ Promise!Init
  BY PromiseInit
<1>2. Inv /\ Inv' /\ Told /\ [Next]_vars => Told' /\ PromiseStep
  BY PromiseKept
<1>3. Spec => /\ Promise!Init
              /\ [][Promise!Next]_<<[id \in Ids |-> Log(id)], [id \in Ids |-> Market(id)]>>
  BY <1>1, <1>2, Invariance, PTL DEF Spec, PromiseStep
<1>4. QED
  BY <1>3, PTL DEF KeepsOrderPromise, Promise!Spec

-----------------------------------------------------------------------------
(* ---- What a session trades --------------------------------------------- *)

Trading == {"act", "record", "persist", "send"}

\* A copy of the branch that counts whatever the broker b was sent, and in which
\* no session has bought more than the cap.
Budget(copy, b) ==
  /\ copy.intents \in [Ids -> Nat]
  /\ \A id \in Ids :
       /\ copy.rows[id] = "none" => copy.intents[id] = 0
       /\ b[id].quantity # 0 => copy.intents[id] = b[id].quantity
  /\ \A s \in Sessions : SumFunctionOnSet(copy.intents, Buys(s)) <= DailyCap

\* What the process p still wants of an order.
Wants(p, id) == Signed(id, p.orders[id[2]])

\* The buys of its plan that its checkout does not count yet.
Uncounted(p) ==
  [t \in Tickers |->
     IF p.orders[t] > 0 /\ ~(p.pc \in {"persist", "send"} /\ t = p.id[2]) THEN p.orders[t] ELSE 0]

Affords(copy, p, s) ==
  SumFunctionOnSet(copy.intents, Buys(s)) + SumFunctionOnSet(Uncounted(p), Tickers) <= DailyCap

\* n more of an order lead no further than the decision of session s.
Room(id, n, h, s) ==
  LET goal == Target[DecisionAt[s]][id[2]]
  IN  IF id[3] = "buy" THEN h[id[2]] + n <= goal ELSE goal <= h[id[2]] - n

\* Nothing else trades the ticker, and the order leads no further than the decision.
Fits(id, n, b, h, s) ==
  /\ \A o \in Ids : o[2] = id[2] => b[o].state \notin InFlight
  /\ Room(id, n, h, s)

\* The orders of the plan that may still be sent.
Ahand(copy, p, s) ==
  {id \in Ids : /\ id[1] = s /\ Wants(p, id) > 0
                /\ copy.rows[id] = "none" \/ (p.pc \in Promised /\ id = p.id)}

\* A process and its checkout.
Trader(copy, p, b, h, s) ==
  /\ p.orders \in [Tickers -> Int] /\ copy.intents \in [Ids -> Nat]
  /\ p.pc \in Promised => p.id[1] = s /\ Wants(p, p.id) > 0
  /\ p.pc = "send" => Fits(p.id, Wants(p, p.id), b, h, s)
  /\ p.current => Budget(copy, b)
  /\ p.current /\ p.pc = "record" => copy.intents[p.id] = 0
  /\ p.current /\ p.pc \in Trading =>
       Affords(copy, p, s) /\ \A id \in Ahand(copy, p, s) : Fits(id, Wants(p, id), b, h, s)

\* The broker's book: one order a ticker, of today, and room for what is left of it.
Orderly(b, h, s) ==
  /\ \A id \in Ids :
       /\ b[id].quantity \in Nat /\ b[id].filled \in Nat
       /\ b[id].state \in InFlight =>
            /\ id[1] = s /\ b[id].filled < b[id].quantity
            /\ Room(id, b[id].quantity - b[id].filled, h, s)
  /\ \A id, o \in Ids :
       b[id].state \in InFlight /\ b[o].state \in InFlight /\ id[2] = o[2] => id = o

TradeInv ==
  /\ session \in Sessions /\ held \in [Tickers -> Int]
  /\ Orderly(broker, held, session) /\ Budget(saved, broker)
  /\ \A r \in Runners : Trader(work[r], run[r], broker, held, session)

-----------------------------------------------------------------------------
LEMMA IdsAreFinite == IsFiniteSet(Ids)
<1>1. IsFiniteSet(Sessions)
  BY PaperAssumption, FS_Interval DEF Sessions
<1>2. IsFiniteSet({"buy", "sell"})
  <2>1. IsFiniteSet({"buy"}) /\ {"buy", "sell"} = {"buy"} \cup {"sell"}
    BY FS_Singleton
  <2>2. QED
    BY <2>1, FS_AddElement
<1> DEFINE Pairs == Sessions \X Tickers
           Triples == Pairs \X {"buy", "sell"}
           f == [p \in Triples |-> <<p[1][1], p[1][2], p[2]>>]
<1>3. IsFiniteSet(Pairs)
  BY <1>1, FS_Product, PaperAssumption
<1>4. \A p \in Triples : f[p] \in Ids
  BY DEF Ids
<1>5. \A id \in Ids : \E p \in Triples : f[p] = id
  <2>1. TAKE id \in Ids
  <2>2. PICK s \in Sessions, t \in Tickers, d \in {"buy", "sell"} : id = <<s, t, d>>
    BY DEF Ids
  <2>3. <<<<s, t>>, d>> \in Triples
    OBVIOUS
  <2>4. f[<<<<s, t>>, d>>] = <<s, t, d>>
    BY <2>3
  <2>5. QED
    BY <2>2, <2>3, <2>4
<1> HIDE DEF Pairs
<1>6. IsFiniteSet(Triples)
  BY <1>2, <1>3, FS_Product
<1> HIDE DEF Triples
<1>7. f \in [Triples -> Ids]
  BY <1>4
<1> HIDE DEF f
<1>8. f \in Surjection(Triples, Ids)
  BY <1>5, <1>7 DEF Surjection
<1>9. QED
  BY <1>6, <1>8, FS_Surjection

LEMMA BuysAreFinite ==
  ASSUME NEW s
  PROVE  IsFiniteSet(Buys(s)) /\ Buys(s) \subseteq Ids
<1>1. Buys(s) \subseteq Ids
  BY DEF Buys
<1>2. QED
  BY <1>1, IdsAreFinite, FS_Subset

LEMMA IdParts ==
  ASSUME NEW id \in Ids
  PROVE  /\ id[1] \in Sessions /\ id[2] \in Tickers /\ id[3] \in {"buy", "sell"}
         /\ id = <<id[1], id[2], id[3]>>
  BY DEF Ids

\* What the loop's cap leaves of the buys is no more than there is to spend.
LEMMA BoundedSpends ==
  ASSUME NEW wanted \in [Tickers -> Nat], NEW spend \in Int
  PROVE  /\ Bounded(wanted, spend) \in [Tickers -> Nat]
         /\ \A t \in Tickers : Bounded(wanted, spend)[t] <= wanted[t]
         /\ SumFunctionOnSet(Bounded(wanted, spend), Tickers) <= (IF spend > 0 THEN spend ELSE 0)
<1> DEFINE buys     == Bounded(wanted, spend)
           Below(t) == {u \in Tickers : u < t}
           before   == [t \in Tickers |-> SumFunctionOnSet(wanted, Below(t))]
           left     == [t \in Tickers |-> spend - before[t]]
           gives(t) == IF left[t] <= 0 THEN 0 ELSE IF left[t] < wanted[t] THEN left[t] ELSE wanted[t]
<1>1. IsFiniteSet(Tickers) /\ Tickers \subseteq Int
  BY PaperAssumption
<1>2. ASSUME NEW t \in Tickers PROVE IsFiniteSet(Below(t)) /\ before[t] \in Int /\ left[t] \in Int
  <2>1. IsFiniteSet(Below(t))
    BY <1>1, FS_Subset
  <2> HIDE DEF Below
  <2>2. SumFunctionOnSet(wanted, Below(t)) \in Int
    BY <2>1, SumType DEF Below
  <2>3. QED
    BY <2>1, <2>2
<1>3. ASSUME NEW t \in Tickers PROVE buys[t] = gives(t)
  <2>1. buys[t] = Min({wanted[t], Max({0, left[t]})})
    BY DEF Bounded
  <2>2. left[t] \in Int /\ wanted[t] \in Nat
    BY <1>2
  <2>3. Max({0, left[t]}) = IF left[t] <= 0 THEN 0 ELSE left[t]
    BY <2>2 DEF Max
  <2> DEFINE rest == Max({0, left[t]})
  <2>4. rest \in Nat
    BY <2>2, <2>3
  <2> HIDE DEF rest
  <2>5. Min({wanted[t], rest}) = IF rest <= wanted[t] THEN rest ELSE wanted[t]
    BY <2>2, <2>4 DEF Min
  <2>6. QED
    BY <2>1, <2>2, <2>3, <2>5 DEF rest
<1>4. /\ buys = [t \in Tickers |-> buys[t]]
      /\ \A t \in Tickers : buys[t] \in Nat /\ buys[t] <= wanted[t]
  <2>1. buys = [t \in Tickers |-> buys[t]]
    BY DEF Bounded
  <2> HIDE DEF buys, left
  <2>2. ASSUME NEW t \in Tickers PROVE buys[t] \in Nat /\ buys[t] <= wanted[t]
    <3>1. wanted[t] \in Nat /\ left[t] \in Int /\ buys[t] = gives(t)
      BY <1>2, <1>3
    <3>2. QED
      BY <3>1
  <2>3. QED
    BY <2>1, <2>2
<1> HIDE DEF buys
<1> DEFINE some == {t \in Tickers : buys[t] > 0}
<1>5. CASE some = {}
  <2>1. \A t \in Tickers : buys[t] = 0
    BY <1>4, <1>5
  <2>2. SumFunctionOnSet(buys, Tickers) = 0
    BY <1>1, <2>1, SumZero
  <2>3. QED
    BY <1>4, <2>2 DEF buys
<1>6. CASE some # {}
  <2> DEFINE m == Max(some)
  <2>1. IsFiniteSet(some) /\ some \subseteq Int
    BY <1>1, FS_Subset
  <2>2. m \in some /\ \A t \in some : t <= m
    BY <1>6, <2>1, MaxOfFinite
  <2> HIDE DEF m
  <2>3. m \in Tickers /\ buys[m] > 0 /\ \A t \in Tickers : t > m => buys[t] = 0
    <3>1. ASSUME NEW t \in Tickers, t > m PROVE buys[t] = 0
      BY <1>1, <1>4, <2>2, <3>1
    <3>2. QED
      BY <2>2, <3>1
  <2> DEFINE upto == Below(m) \cup {m}
             over == {t \in Tickers : t > m}
  <2>4. /\ Tickers = upto \cup over /\ upto \cap over = {}
        /\ IsFiniteSet(upto) /\ IsFiniteSet(over)
    <3>1. \A t \in Tickers : t < m \/ t = m \/ t > m
      BY <1>1, <2>3
    <3>2. Tickers = upto \cup over
      BY <2>3, <3>1
    <3>3. ASSUME NEW u \in upto, u \in over PROVE FALSE
      <4>1. u \in Int /\ m \in Int /\ u > m /\ (u < m \/ u = m)
        BY <1>1, <2>3, <3>3
      <4>2. QED
        BY <4>1
    <3>4. upto \cap over = {}
      BY <3>3
    <3>5. QED
      BY <1>1, <3>2, <3>4, FS_Subset
  <2>5. /\ \A t \in Tickers : buys[t] \in Int
        /\ \A t \in over : buys[t] = 0
    BY <1>4, <2>3
  <2>6. SumFunctionOnSet(buys, over) = 0
    BY <2>4, <2>5, SumZero
  <2>7. SumFunctionOnSet(buys, Tickers)
          = SumFunctionOnSet(buys, upto) + SumFunctionOnSet(buys, over)
    <3>1. \A t \in upto \cup over : buys[t] \in Int
      BY <2>4, <2>5
    <3>2. QED
      BY <2>4, <3>1, SumUnion
  <2>8. SumFunctionOnSet(buys, upto) = buys[m] + SumFunctionOnSet(buys, Below(m))
    <3>1. upto \ {m} = Below(m)
      BY <1>1, <2>3
    <3>2. \A t \in upto : buys[t] \in Int
      BY <2>3, <2>5
    <3>3. QED
      BY <2>4, <3>1, <3>2, SumElement
  <2>9. SumFunctionOnSet(buys, Below(m)) <= before[m]
    <3>1. \A t \in Below(m) : buys[t] \in Int /\ wanted[t] \in Int /\ buys[t] <= wanted[t]
      BY <1>4
    <3>2. QED
      BY <1>2, <2>3, <3>1, SumOrder DEF before
  <2>10. SumFunctionOnSet(buys, Below(m)) \in Int
    BY <1>2, <2>3, <2>5, SumType
  <2>11. before[m] \in Int /\ left[m] > 0 /\ buys[m] <= left[m]
    BY <1>2, <1>3, <1>4, <2>3
  <2>12. spend \in Int /\ left[m] = spend - before[m] /\ buys[m] \in Nat
    BY <1>4, <2>3
  <2> HIDE DEF left
  <2>13. SumFunctionOnSet(buys, Tickers) <= spend /\ spend > 0
    <3>1. before[m] >= 0
      <4>1. \A u \in Below(m) : buys[u] \in Int /\ buys[u] >= 0 /\ wanted[u] \in Int
        BY <1>4
      <4>2. SumFunctionOnSet([u \in Below(m) |-> 0], Below(m)) = 0
        BY <1>2, <2>3, SumZero
      <4>3. SumFunctionOnSet([u \in Below(m) |-> 0], Below(m)) <= SumFunctionOnSet(wanted, Below(m))
        BY <1>2, <2>3, <4>1, SumOrder
      <4>4. QED
        BY <2>3, <4>2, <4>3
    <3>2. QED
      BY <2>6, <2>7, <2>8, <2>9, <2>10, <2>11, <2>12, <3>1
  <2>14. QED
    BY <1>4, <2>13 DEF buys
<1>7. QED
  BY <1>5, <1>6

-----------------------------------------------------------------------------
\* A process that fell behind, or is otherwise the same.
LEMMA StaleTrader ==
  ASSUME NEW c, NEW p, NEW b, NEW h, NEW s, Trader(c, p, b, h, s),
         NEW q, q.pc = p.pc, q.id = p.id, q.orders = p.orders, q.current => p.current
  PROVE  Trader(c, q, b, h, s)
<1>1. Wants(q, q.id) = Wants(p, p.id) /\ \A id : Wants(q, id) = Wants(p, id)
  BY DEF Wants
<1>2. Uncounted(q) = Uncounted(p)
  BY DEF Uncounted
<1>3. Ahand(c, q, s) = Ahand(c, p, s)
  BY <1>1 DEF Ahand
<1>4. Affords(c, q, s) <=> Affords(c, p, s)
  BY <1>2 DEF Affords
<1>5. QED
  BY <1>1, <1>3, <1>4 DEF Trader

\* A process that does not trade.
LEMMA RestingTrader ==
  ASSUME NEW c, NEW p, NEW b, NEW h, NEW s, p.pc \notin Trading,
         p.orders \in [Tickers -> Int], c.intents \in [Ids -> Nat], p.current => Budget(c, b)
  PROVE  Trader(c, p, b, h, s)
  BY DEF Trader, Trading, Promised

\* The budget knows nothing of reservations made, or dropped.
LEMMA SameBudget ==
  ASSUME NEW c, NEW d, NEW b, Budget(c, b), d.intents = c.intents,
         \A id \in Ids : d.rows[id] = "none" => c.rows[id] = "none"
  PROVE  Budget(d, b)
  BY DEF Budget

\* A step of r alone: its memory is next, its checkout d; a push may publish the
\* checkout it had.
Own(r, next, d) ==
  /\ run'[r] = next /\ work'[r] = d
  /\ broker' = broker /\ held' = held /\ session' = session
  /\ \A q \in Runners \ {r} : SameButCurrent(q) /\ work'[q] = work[q]
  /\ saved' = saved \/ (run[r].current /\ saved' = work[r])

LEMMA OwnLocal ==
  ASSUME Inv, NEW r \in Runners, NEW next, run' = [run EXCEPT ![r] = next],
         NEW d, work' = [work EXCEPT ![r] = d], UNCHANGED <<saved, account, session>>
  PROVE  Own(r, next, d)
  BY DEF Own, SameButCurrent, Inv, Shaped, account

LEMMA OwnMemory ==
  ASSUME Inv, NEW r \in Runners, NEW next, run' = [run EXCEPT ![r] = next],
         UNCHANGED <<saved, work, account, session>>
  PROVE  Own(r, next, work[r])
  BY DEF Own, SameButCurrent, Inv, Shaped, account

LEMMA OwnPush ==
  ASSUME Inv, NEW r \in Runners, NEW next, IsProcess(next), Push(r, next),
         NEW d, work' = [work EXCEPT ![r] = d], UNCHANGED <<account, session>>
  PROVE  Own(r, next, d)
  BY PushUpdate DEF Own, Inv, Shaped, account

LEMMA OwnPersist ==
  ASSUME Inv, NEW r \in Runners, NEW done, NEW failed, IsProcess(done), IsProcess(failed),
         Persist(r, done, failed),
         NEW d, work' = [work EXCEPT ![r] = d], UNCHANGED <<account, session>>
  PROVE  Own(r, done, d) \/ Own(r, failed, d)
  BY OwnPush, OwnLocal DEF Persist

LEMMA OwnKeeps ==
  ASSUME Inv, TradeInv, NEW r \in Runners, NEW next, NEW d, Own(r, next, d),
         Trader(d, next, broker, held, session)
  PROVE  TradeInv'
<1>1. Budget(saved', broker')
  BY DEF Own, TradeInv, Trader
<1>2. ASSUME NEW q \in Runners PROVE Trader(work'[q], run'[q], broker', held', session')
  <2>1. CASE q = r
    BY <2>1 DEF Own
  <2>2. CASE q # r
    <3>1. /\ SameButCurrent(q) /\ work'[q] = work[q]
          /\ broker' = broker /\ held' = held /\ session' = session
      BY <2>2 DEF Own
    <3>2. Trader(work[q], run[q], broker, held, session)
      BY DEF TradeInv
    <3>3. QED
      BY <3>1, <3>2, StaleTrader DEF SameButCurrent
  <2>3. QED
    BY <2>1, <2>2
<1>3. QED
  BY <1>1, <1>2 DEF TradeInv, Own

\* A step of r that does not trade, with a checkout that counts what the old one,
\* or the branch, counted.
LEMMA OwnRests ==
  ASSUME Inv, TradeInv, NEW r \in Runners, NEW next, NEW d, Own(r, next, d),
         next.pc \notin Trading, next.orders \in [Tickers -> Int],
         NEW c, \/ c = saved
                \/ c = work[r] /\ (next.current => run[r].current)
                \/ c = EmptyState /\ ~next.current,
         d.intents = c.intents,
         next.current => \A id \in Ids : d.rows[id] = "none" => c.rows[id] = "none"
  PROVE  TradeInv'
<1>0. d.intents \in [Ids -> Nat]
  BY DEF TradeInv, Trader, Budget, EmptyState
<1>1. next.current => Budget(c, broker)
  BY DEF TradeInv, Trader
<1>2. next.current => Budget(d, broker)
  BY <1>1, SameBudget
<1>3. QED
  BY <1>0, <1>2, RestingTrader, OwnKeeps

-----------------------------------------------------------------------------
LEMMA EndOrders ==
  ASSUME NEW r \in Runners
  PROVE  /\ Over(r).orders \in [Tickers -> Int] /\ Idle.orders \in [Tickers -> Int]
         /\ Over(r).pc = "end" /\ Idle.pc = "idle" /\ ~Idle.current
         /\ Over(r).current = run[r].current
  BY DEF Over, Idle

LEMMA NoExposureOrders ==
  ASSUME Inv, NEW r \in Runners, run[r].orders \in [Tickers -> Int]
  PROVE  AddsNoExposure(r).orders \in [Tickers -> Int]
<1>1. IsProcess(run[r])
  BY DEF Inv, Shaped
<1>2. [run[r] EXCEPT !.pc = "plan"].orders = run[r].orders
  BY <1>1 DEF IsProcess
<1>3. QED
  BY <1>2, EndOrders DEF AddsNoExposure

LEMMA CheckingTrades ==
  ASSUME Inv, TradeInv, NEW r \in Runners,
         Start(r) \/ LookUp(r) \/ RecordFill(r) \/ Release(r) \/ Reconciled(r) \/ PersistFills(r)
  PROVE  TradeInv'
<1>0. /\ IsProcess(run[r]) /\ IsState(work[r]) /\ run[r].orders \in [Tickers -> Int]
      /\ AddsNoExposure(r).orders \in [Tickers -> Int]
  BY NoExposureOrders DEF Inv, Shaped, TradeInv, Trader
<1>1. CASE Start(r)
  <2> DEFINE next == [Idle EXCEPT !.pc = "reconcile", !.current = TRUE,
                        !.todo = {id \in Ids : saved.rows[id] = "open"}]
  <2>1. next.pc = "reconcile" /\ next.orders \in [Tickers -> Int]
    BY DEF Idle
  <2>2. /\ run' = [run EXCEPT ![r] = next] /\ work' = [work EXCEPT ![r] = saved]
        /\ UNCHANGED <<saved, account, session>>
    BY <1>1 DEF Start
  <2> HIDE DEF next
  <2>3. Own(r, next, saved)
    BY <2>2, OwnLocal
  <2>4. next.pc \notin Trading
    BY <2>1 DEF Trading
  <2>5. QED
    BY <2>1, <2>3, <2>4, OwnRests
<1>2. CASE LookUp(r)
  <2> DEFINE t == run[r].todo \ {NextRow(r)}
             u == run[r].unknown \/ broker[NextRow(r)].state # "working"
             next == [run[r] EXCEPT !.todo = t, !.unknown = u]
  <2>1. /\ run' = [run EXCEPT ![r] = next] /\ run[r].pc = "reconcile"
        /\ UNCHANGED <<saved, work, account, session>>
    BY <1>2 DEF LookUp, Reconciling, Inv, Shaped, At
  <2> HIDE DEF t, u
  <2>2. next.pc = run[r].pc /\ next.current = run[r].current /\ next.orders = run[r].orders
    BY <1>0 DEF IsProcess
  <2> HIDE DEF next
  <2>3. Own(r, next, work[r])
    BY <2>1, OwnMemory
  <2>4. next.pc \notin Trading
    BY <2>1, <2>2 DEF Trading
  <2>5. QED
    BY <1>0, <2>2, <2>3, <2>4, OwnRests
<1>3. CASE RecordFill(r)
  <2> DEFINE d == [work[r] EXCEPT !.recorded = @ \cup {NextRow(r)}]
             next == [run[r] EXCEPT !.pc = "release", !.id = NextRow(r)]
  <2>1. /\ run' = [run EXCEPT ![r] = next] /\ work' = [work EXCEPT ![r] = d]
        /\ UNCHANGED <<saved, account, session>>
    BY <1>3 DEF RecordFill, Inv, Shaped
  <2>2. /\ next.pc = "release" /\ next.current = run[r].current /\ next.orders = run[r].orders
        /\ d.rows = work[r].rows /\ d.intents = work[r].intents
    BY <1>0 DEF IsProcess, IsState
  <2> HIDE DEF next, d
  <2>3. Own(r, next, d) /\ next.pc \notin Trading
    BY <2>1, <2>2, OwnLocal DEF Trading
  <2>4. QED
    BY <1>0, <2>2, <2>3, OwnRests
<1>4. CASE Release(r)
  <2> DEFINE d == [work[r] EXCEPT !.rows[run[r].id] = "ended"]
             t == run[r].todo \ {run[r].id}
             next == [run[r] EXCEPT !.pc = "reconcile", !.todo = t, !.wrote = TRUE]
  <2>1. /\ run' = [run EXCEPT ![r] = next] /\ work' = [work EXCEPT ![r] = d]
        /\ UNCHANGED <<saved, account, session>> /\ At(r, "release")
    BY <1>4 DEF Release, Inv, Shaped
  <2>2. run[r].id \in Ids
    BY <2>1 DEF Inv, Safe, AtOrder
  <2> HIDE DEF t
  <2>3. next.pc = "reconcile" /\ next.current = run[r].current /\ next.orders = run[r].orders
    BY <1>0 DEF IsProcess
  <2>4. d.intents = work[r].intents /\ \A id \in Ids : d.rows[id] = "none" => work[r].rows[id] = "none"
    BY <1>0, <2>2, StateUpdates DEF IsState
  <2> HIDE DEF next, d
  <2>5. Own(r, next, d) /\ next.pc \notin Trading
    BY <2>1, <2>3, OwnLocal DEF Trading
  <2>6. QED
    BY <1>0, <2>3, <2>4, <2>5, OwnRests
<1>5. CASE Reconciled(r)
  <2> DEFINE next == IF run[r].wrote THEN [run[r] EXCEPT !.pc = "fills"] ELSE AddsNoExposure(r)
  <2>1. run' = [run EXCEPT ![r] = next] /\ UNCHANGED <<saved, work, account, session>>
    BY <1>5 DEF Reconciled
  <2>2. /\ next.pc \in {"fills", "plan", "end"} /\ next.current = run[r].current
        /\ next.orders \in [Tickers -> Int]
    <3> DEFINE f == [run[r] EXCEPT !.pc = "fills"]
    <3>1. f.pc = "fills" /\ f.current = run[r].current /\ f.orders = run[r].orders
      BY <1>0, SetPc DEF Phases
    <3> HIDE DEF f
    <3>2. next = f \/ next = AddsNoExposure(r)
      BY DEF f
    <3> HIDE DEF next
    <3>3. QED
      BY <1>0, <3>1, <3>2, AddsNoExposureIsProcess
  <2> HIDE DEF next
  <2>3. Own(r, next, work[r]) /\ next.pc \notin Trading
    BY <2>1, <2>2, OwnMemory DEF Trading
  <2>4. QED
    BY <2>2, <2>3, OwnRests
<1>6. CASE PersistFills(r)
  <2> DEFINE p == AddsNoExposure(r)
             done == [p EXCEPT !.wrote = FALSE]
  <2>1. Persist(r, done, Over(r)) /\ UNCHANGED <<work, account, session>>
    BY <1>6 DEF PersistFills
  <2>2. /\ IsProcess(p) /\ p.current = run[r].current /\ p.pc \in {"plan", "end"}
        /\ p.orders \in [Tickers -> Int]
    BY <1>0, AddsNoExposureIsProcess
  <2> HIDE DEF p
  <2>3. IsProcess(done) /\ done.current = run[r].current /\ done.pc = p.pc /\ done.orders = p.orders
    BY <2>2, SetWrote
  <2> HIDE DEF done
  <2>4. work' = [work EXCEPT ![r] = work[r]]
    BY <2>1 DEF Inv, Shaped
  <2>5. IsProcess(Over(r)) /\ Over(r).pc = "end" /\ Over(r).current = run[r].current
    BY OverIsProcess DEF Inv
  <2>6. Own(r, done, work[r]) \/ Own(r, Over(r), work[r])
    BY <2>1, <2>3, <2>4, <2>5, OwnPersist
  <2>7. done.pc \notin Trading /\ Over(r).pc \notin Trading /\ Over(r).orders \in [Tickers -> Int]
    BY <2>2, <2>3, <2>5, EndOrders DEF Trading
  <2>8. CASE Own(r, done, work[r])
    BY <2>2, <2>3, <2>7, <2>8, OwnRests
  <2>9. CASE Own(r, Over(r), work[r])
    BY <2>5, <2>7, <2>9, OwnRests
  <2>10. QED
    BY <2>6, <2>8, <2>9
<1>7. QED
  BY <1>1, <1>2, <1>3, <1>4, <1>5, <1>6

\* The order loop's ends, and losses.
LEMMA EndingTrades ==
  ASSUME Inv, TradeInv, NEW r \in Runners,
         \/ CutOff(r) \/ FailToPersistIntent(r) \/ Finish(r) \/ PersistDecision(r) \/ PersistState(r)
         \/ KillProcess(r) \/ LoseRunner(r)
  PROVE  TradeInv'
<1>0. /\ IsProcess(run[r]) /\ IsState(work[r]) /\ run[r].orders \in [Tickers -> Int]
      /\ IsProcess(Over(r)) /\ Over(r).pc = "end" /\ Over(r).current = run[r].current
      /\ Over(r).orders \in [Tickers -> Int]
  BY OverIsProcess, EndOrders DEF Inv, Shaped, TradeInv, Trader
<1>1. Over(r).pc \notin Trading /\ Idle.pc \notin Trading
  BY <1>0, EndOrders DEF Trading
<1>2. CASE CutOff(r) \/ FailToPersistIntent(r)
  <2> DEFINE d == [work[r] EXCEPT !.rows[run[r].id] = "ended"]
  <2>1. run[r].id \in Ids /\ work' = [work EXCEPT ![r] = d] /\ UNCHANGED <<account, session>>
    BY <1>2 DEF CutOff, FailToPersistIntent, At, Inv, Safe, AtOrder, Shaped
  <2>2. d.intents = work[r].intents /\ \A id \in Ids : d.rows[id] = "none" => work[r].rows[id] = "none"
    BY <1>0, <2>1, StateUpdates DEF IsState
  <2>3. CutOff(r) => run' = [run EXCEPT ![r] = Over(r)] /\ saved' = saved
    BY DEF CutOff
  <2>4. FailToPersistIntent(r) => Persist(r, Over(r), Over(r))
    BY DEF FailToPersistIntent, Persist
  <2> HIDE DEF d
  <2>5. Own(r, Over(r), d)
    BY <1>0, <1>2, <2>1, <2>3, <2>4, OwnLocal, OwnPersist
  <2>6. QED
    BY <1>0, <1>1, <2>2, <2>5, OwnRests
<1>3. CASE Finish(r)
  <2> DEFINE d == [work[r] EXCEPT !.executed = DecisionAt[session]]
             next == [run[r] EXCEPT !.pc = "complete"]
  <2>1. next.pc = "complete" /\ next.current = run[r].current /\ next.orders = run[r].orders
    BY <1>0, SetPc DEF Phases
  <2>2. d.rows = work[r].rows /\ d.intents = work[r].intents
    BY <1>0 DEF IsState
  <2>3. UNCHANGED <<saved, account, session>>
    BY <1>3 DEF Finish
  <2>4. CASE run[r].clean
    <3>1. run' = [run EXCEPT ![r] = next] /\ work' = [work EXCEPT ![r] = d]
      BY <1>3, <2>4 DEF Finish, Goto, Inv, Shaped
    <3> HIDE DEF next, d
    <3>2. Own(r, next, d) /\ next.pc \notin Trading
      BY <2>1, <2>3, <3>1, OwnLocal DEF Trading
    <3>3. QED
      BY <1>0, <2>1, <2>2, <3>2, OwnRests
  <2>5. CASE ~run[r].clean
    <3>1. run' = [run EXCEPT ![r] = Over(r)] /\ work' = work
      BY <1>3, <2>5 DEF Finish
    <3>2. Own(r, Over(r), work[r])
      BY <2>3, <3>1, OwnMemory
    <3>3. QED
      BY <1>0, <1>1, <3>2, OwnRests
  <2>6. QED
    BY <2>4, <2>5
<1>4. CASE PersistDecision(r)
  <2>1. Persist(r, Over(r), Over(r)) /\ UNCHANGED <<work, account, session>>
    BY <1>4 DEF PersistDecision
  <2>2. work' = [work EXCEPT ![r] = work[r]]
    BY <2>1 DEF Inv, Shaped
  <2>3. Own(r, Over(r), work[r])
    BY <1>0, <2>1, <2>2, OwnPersist
  <2>4. QED
    BY <1>0, <1>1, <2>3, OwnRests
<1>5. CASE PersistState(r) \/ LoseRunner(r)
  <2>1. /\ Persist(r, Idle, Idle) \/ (run' = [run EXCEPT ![r] = Idle] /\ saved' = saved)
        /\ work' = [work EXCEPT ![r] = EmptyState] /\ UNCHANGED <<account, session>>
    BY <1>5 DEF PersistState, LoseRunner
  <2>2. Own(r, Idle, EmptyState)
    BY <2>1, IdleIsProcess, OwnPersist, OwnLocal
  <2>3. QED
    BY <1>1, <2>2, EndOrders, OwnRests
<1>6. CASE KillProcess(r)
  <2>1. run' = [run EXCEPT ![r] = Over(r)] /\ UNCHANGED <<saved, work, account, session>>
    BY <1>6 DEF KillProcess
  <2>2. Own(r, Over(r), work[r])
    BY <2>1, OwnMemory
  <2>3. QED
    BY <1>0, <1>1, <2>2, OwnRests
<1>7. QED
  BY <1>2, <1>3, <1>4, <1>5, <1>6

-----------------------------------------------------------------------------
Goal(t) == Target[DecisionAt[session]][t]

LEMMA GoalIsNat ==
  ASSUME session \in Sessions, NEW t \in Tickers
  PROVE  Goal(t) \in Nat
  BY PaperAssumption DEF Goal

LEMMA DeployedIsInt ==
  ASSUME NEW c, c.intents \in [Ids -> Nat], NEW s
  PROVE  SumFunctionOnSet(c.intents, Buys(s)) \in Int
<1>1. \A id \in Buys(s) : c.intents[id] \in Int
  BY DEF Buys
<1>2. QED
  BY <1>1, BuysAreFinite, SumType

\* What a plan wants leads towards the decision, not past it, and its buys stay
\* within what the cap leaves.
LEMMA PlanOrders ==
  ASSUME Inv, TradeInv, NEW r \in Runners, NEW cash \in CashLevels, Plan(r, cash)
  PROVE  \E x, y :
           /\ run' = [run EXCEPT ![r].pc = "act", ![r].orders = x, ![r].clean = y]
           /\ x \in [Tickers -> Int]
           /\ \A t \in Tickers : /\ x[t] > 0 => held[t] + x[t] <= Goal(t)
                                 /\ x[t] < 0 => Goal(t) <= held[t] + x[t]
           /\ LET spare == DailyCap - DeployedToday(work[r])
              IN SumFunctionOnSet([t \in Tickers |-> IF x[t] > 0 THEN x[t] ELSE 0], Tickers)
                   <= (IF spare > 0 THEN spare ELSE 0)
<1> DEFINE decision == DecisionAt[session]
           pending  == work[r].executed # decision
           gap      == [t \in Tickers |-> IF pending THEN Target[decision][t] - held[t] ELSE 0]
           sells    == [t \in Tickers |-> Min({gap[t], 0})]
           wanted   == [t \in Tickers |-> Max({gap[t], 0})]
           spare    == DailyCap - DeployedToday(work[r])
           spend    == Min({spare, cash})
           buys     == Bounded(wanted, spend)
           selling  == \E t \in Tickers : sells[t] < 0
           deferred == selling /\ \E t \in Tickers : wanted[t] > 0
           clean    == pending /\ ~deferred /\ (selling \/ buys = wanted)
           x        == IF selling THEN sells ELSE buys
           Part(v)  == [t \in Tickers |-> IF v[t] > 0 THEN v[t] ELSE 0]
<1>1. run' = [run EXCEPT ![r].pc = "act", ![r].orders = x, ![r].clean = clean]
  BY DEF Plan
<1> HIDE DEF clean
<1>2. spare \in Int /\ cash \in Nat
  BY DeployedIsInt, PaperAssumption DEF TradeInv, Trader, DeployedToday
<1> HIDE DEF spare
<1>3. spend \in Int /\ spend <= spare
  BY <1>2 DEF Min
<1> HIDE DEF spend
<1>4. ASSUME NEW t \in Tickers
      PROVE  /\ gap[t] = 0 \/ gap[t] = Goal(t) - held[t]
             /\ gap[t] \in Int /\ held[t] \in Int /\ Goal(t) \in Nat
  BY GoalIsNat DEF Goal, TradeInv
<1> HIDE DEF gap
<1>5. ASSUME NEW t \in Tickers
      PROVE  /\ sells[t] = IF gap[t] < 0 THEN gap[t] ELSE 0
             /\ wanted[t] = IF gap[t] > 0 THEN gap[t] ELSE 0
  BY <1>4 DEF Min, Max
<1>6. wanted \in [Tickers -> Nat] /\ sells \in [Tickers -> Int]
  <2>1. wanted = [t \in Tickers |-> wanted[t]] /\ sells = [t \in Tickers |-> sells[t]]
    OBVIOUS
  <2> HIDE DEF wanted, sells
  <2>2. \A t \in Tickers : wanted[t] \in Nat /\ sells[t] \in Int
    BY <1>4, <1>5
  <2>3. QED
    BY <2>1, <2>2
<1> HIDE DEF wanted, sells
<1>7. /\ buys \in [Tickers -> Nat] /\ \A t \in Tickers : buys[t] <= wanted[t]
      /\ SumFunctionOnSet(buys, Tickers) <= (IF spend > 0 THEN spend ELSE 0)
  BY <1>3, <1>6, BoundedSpends
<1> HIDE DEF buys
<1>8. x \in [Tickers -> Int]
  BY <1>6, <1>7
<1>9. ASSUME NEW t \in Tickers
      PROVE  /\ x[t] > 0 => held[t] + x[t] <= Goal(t)
             /\ x[t] < 0 => Goal(t) <= held[t] + x[t]
  <2>1. CASE selling
    BY <1>4, <1>5, <2>1
  <2>2. CASE ~selling
    <3>1. x[t] = buys[t] /\ buys[t] \in Nat /\ buys[t] <= wanted[t]
      BY <1>7, <2>2
    <3>2. QED
      BY <1>4, <1>5, <3>1
  <2>3. QED
    BY <2>1, <2>2
<1>10. SumFunctionOnSet(Part(x), Tickers) <= (IF spare > 0 THEN spare ELSE 0)
  <2>1. CASE selling
    <3>1. \A t \in Tickers : Part(x)[t] = 0
      BY <1>4, <1>5, <2>1
    <3>2. SumFunctionOnSet(Part(x), Tickers) = 0
      BY <3>1, PaperAssumption, SumZero
    <3>3. QED
      BY <1>2, <3>2
  <2>2. CASE ~selling
    <3>1. \A t \in Tickers : Part(x)[t] = buys[t]
      BY <1>7, <2>2
    <3>2. SumFunctionOnSet(Part(x), Tickers) = SumFunctionOnSet(buys, Tickers)
      BY <3>1, PaperAssumption, SumSame
    <3>3. SumFunctionOnSet(buys, Tickers) \in Int
      <4>1. \A t \in Tickers : buys[t] \in Int
        BY <1>7
      <4>2. QED
        BY <4>1, PaperAssumption, SumType
    <3>4. QED
      BY <1>2, <1>3, <1>7, <3>2, <3>3
  <2>3. QED
    BY <2>1, <2>2
<1>11. QED
  BY <1>1, <1>8, <1>9, <1>10 DEF spare

LEMMA PlanTrades ==
  ASSUME Inv, TradeInv, NEW r \in Runners, NEW cash \in CashLevels, Plan(r, cash)
  PROVE  TradeInv'
<1>1. PICK x, y :
        /\ run' = [run EXCEPT ![r].pc = "act", ![r].orders = x, ![r].clean = y]
        /\ x \in [Tickers -> Int]
        /\ \A t \in Tickers : /\ x[t] > 0 => held[t] + x[t] <= Goal(t)
                              /\ x[t] < 0 => Goal(t) <= held[t] + x[t]
        /\ LET spare == DailyCap - DeployedToday(work[r])
           IN SumFunctionOnSet([t \in Tickers |-> IF x[t] > 0 THEN x[t] ELSE 0], Tickers)
                <= (IF spare > 0 THEN spare ELSE 0)
  BY PlanOrders
<1> DEFINE next == [run[r] EXCEPT !.pc = "act", !.orders = x, !.clean = y]
<1>2. IsProcess(run[r]) /\ At(r, "plan") /\ UNCHANGED <<saved, work, account, session>>
  BY DEF Inv, Shaped, Plan
<1>3. run' = [run EXCEPT ![r] = next]
  BY <1>1, <1>2 DEF Inv, Shaped
<1>4. /\ next.pc = "act" /\ next.current = run[r].current /\ next.orders = x
  BY <1>2 DEF IsProcess
<1> HIDE DEF next
<1>5. Own(r, next, work[r])
  BY <1>2, <1>3, OwnMemory
<1>6. work[r].intents \in [Ids -> Nat] /\ (run[r].current => Budget(work[r], broker))
  BY DEF TradeInv, Trader
<1>7. ASSUME run[r].current PROVE Affords(work[r], next, session)
  <2>1. Uncounted(next) = [t \in Tickers |-> IF x[t] > 0 THEN x[t] ELSE 0]
    BY <1>4 DEF Uncounted
  <2>2. DeployedToday(work[r]) \in Int /\ DeployedToday(work[r]) <= DailyCap /\ DailyCap \in Nat
    BY <1>6, <1>7, DeployedIsInt, PaperAssumption DEF Budget, DeployedToday, TradeInv
  <2>3. SumFunctionOnSet(Uncounted(next), Tickers) \in Int
    <3>1. \A t \in Tickers : Uncounted(next)[t] \in Int
      BY <1>1, <2>1
    <3>2. QED
      BY <3>1, PaperAssumption, SumType
  <2>4. QED
    BY <1>1, <2>1, <2>2, <2>3 DEF Affords, DeployedToday
<1>8. ASSUME run[r].current, NEW id \in Ahand(work[r], next, session)
      PROVE  Fits(id, Wants(next, id), broker, held, session)
  <2>1. /\ id \in Ids /\ id[1] = session /\ Wants(next, id) > 0
        /\ work[r].rows[id] = "none"
    BY <1>4, <1>8 DEF Ahand, Promised
  <2>2. id[2] \in Tickers /\ id[3] \in {"buy", "sell"} /\ id = <<id[1], id[2], id[3]>>
    BY <2>1, IdParts
  <2>3. /\ x[id[2]] \in Int /\ held[id[2]] \in Int /\ Goal(id[2]) \in Nat
        /\ Wants(next, id) = IF id[3] = "buy" THEN x[id[2]] ELSE -x[id[2]]
    BY <1>1, <1>4, <2>2, GoalIsNat DEF Wants, Signed, TradeInv
  <2>4. Room(id, Wants(next, id), held, session)
    BY <1>1, <2>1, <2>2, <2>3 DEF Room, Goal
  <2>5. ASSUME NEW o \in Ids, o[2] = id[2], broker[o].state \in InFlight PROVE FALSE
    <3>1. /\ o[1] = session /\ broker[o].filled < broker[o].quantity
          /\ broker[o].filled \in Nat /\ broker[o].quantity \in Nat
          /\ Room(o, broker[o].quantity - broker[o].filled, held, session)
      BY <2>5 DEF TradeInv, Orderly
    <3>2. o[3] \in {"buy", "sell"} /\ o = <<o[1], o[2], o[3]>>
      BY IdParts
    <3>3. o[3] = id[3]
      BY <1>1, <2>1, <2>2, <2>3, <2>5, <3>1, <3>2 DEF Room, Goal
    <3>4. o = id
      BY <2>1, <2>2, <2>5, <3>1, <3>2, <3>3
    <3>5. work[r].rows[o] = "open"
      BY <1>8, <2>5 DEF Inv, Safe, Known, Open
    <3>6. QED
      BY <2>1, <3>4, <3>5
  <2>6. QED
    BY <2>4, <2>5 DEF Fits
<1>9. Trader(work[r], next, broker, held, session)
  BY <1>1, <1>4, <1>6, <1>7, <1>8 DEF Trader, Promised
<1>10. QED
  BY <1>5, <1>9, OwnKeeps

\* What r holds of the plan once it has dealt with an order.
LEMMA DealtMemory ==
  ASSUME Inv, NEW r \in Runners, NEW id \in Ids, NEW sent \in BOOLEAN, NEW submitted
  PROVE  LET p == Dealt(r, id, sent, submitted)
         IN  /\ p.pc = "act" /\ p.current = run[r].current /\ p.id = NoId
             /\ p.orders = [run[r].orders EXCEPT ![id[2]] = 0]
<1> DEFINE x  == [run[r].orders EXCEPT ![id[2]] = 0]
           y  == run[r].clean /\ submitted
           z  == IF sent THEN run[r].sent \cup {id} ELSE run[r].sent
           p1 == [run[r] EXCEPT !.pc = "act"]
           p2 == [p1 EXCEPT !.id = NoId]
           p3 == [p2 EXCEPT !.orders = x]
           p4 == [p3 EXCEPT !.clean = y]
           p5 == [p4 EXCEPT !.sent = z]
<1>1. Dealt(r, id, sent, submitted) = p5 /\ IsProcess(run[r])
  BY DEF Dealt, Inv, Shaped
<1> HIDE DEF x, y, z
<1>2. IsProcess(p1) /\ p1.pc = "act" /\ p1.current = run[r].current
  BY <1>1, SetPc DEF Phases
<1> HIDE DEF p1
<1>3. IsProcess(p2) /\ p2.pc = "act" /\ p2.current = run[r].current /\ p2.id = NoId
  BY <1>2, SetId
<1> HIDE DEF p2
<1>4. /\ IsProcess(p3) /\ p3.pc = "act" /\ p3.current = run[r].current /\ p3.id = NoId
      /\ p3.orders = x
  BY <1>3, SetOrders
<1> HIDE DEF p3
<1>5. /\ IsProcess(p4) /\ p4.pc = "act" /\ p4.current = run[r].current /\ p4.id = NoId
      /\ p4.orders = x
  BY <1>4, SetClean
<1> HIDE DEF p4
<1>6. p5.pc = "act" /\ p5.current = run[r].current /\ p5.id = NoId /\ p5.orders = x
  BY <1>5, SetSent
<1> HIDE DEF p5
<1>7. QED
  BY <1>1, <1>6 DEF x

\* Whatever the plan, the buys it does not count yet are amounts.
LEMMA UncountedSum ==
  ASSUME NEW p, p.orders \in [Tickers -> Int]
  PROVE  /\ \A t \in Tickers : Uncounted(p)[t] \in Nat
         /\ SumFunctionOnSet(Uncounted(p), Tickers) \in Int
<1>1. \A t \in Tickers : Uncounted(p)[t] \in Nat
  BY DEF Uncounted
<1>2. \A t \in Tickers : Uncounted(p)[t] \in Int
  BY <1>1
<1>3. QED
  BY <1>1, <1>2, PaperAssumption, SumType

\* A plan that wants no more than before, of orders it wanted as much of before.
LEMMA AffordsLess ==
  ASSUME NEW c, NEW d, NEW p, NEW q, NEW s, Affords(c, p, s), d.intents = c.intents,
         c.intents \in [Ids -> Nat], p.orders \in [Tickers -> Int], q.orders \in [Tickers -> Int],
         \A t \in Tickers : Uncounted(q)[t] <= Uncounted(p)[t]
  PROVE  Affords(d, q, s)
<1>1. /\ \A t \in Tickers : Uncounted(p)[t] \in Int /\ Uncounted(q)[t] \in Int
      /\ SumFunctionOnSet(Uncounted(p), Tickers) \in Int
      /\ SumFunctionOnSet(Uncounted(q), Tickers) \in Int
  BY UncountedSum
<1>2. SumFunctionOnSet(Uncounted(q), Tickers) <= SumFunctionOnSet(Uncounted(p), Tickers)
  BY <1>1, PaperAssumption, SumOrder
<1>3. SumFunctionOnSet(c.intents, Buys(s)) \in Int
  BY DeployedIsInt
<1>4. DailyCap \in Nat
  BY PaperAssumption
<1>5. QED
  BY <1>1, <1>2, <1>3, <1>4 DEF Affords

\* The broker has changed in one order at most.
LEMMA FitsElsewhere ==
  ASSUME NEW i \in Ids, NEW n, NEW b, NEW b2, NEW h, NEW s, Fits(i, n, b, h, s),
         NEW id \in Ids, i[2] # id[2], \A o \in Ids \ {id} : b2[o] = b[o]
  PROVE  Fits(i, n, b2, h, s)
  BY DEF Fits

\* r has dealt with an order, and it is done with its ticker.
LEMMA DealtTrades ==
  ASSUME Inv, TradeInv, NEW r \in Runners, NEW id \in Ids, NEW p,
         p.pc = "act", p.current = run[r].current, p.id = NoId,
         p.orders = [run[r].orders EXCEPT ![id[2]] = 0],
         run[r].pc \in {"act", "send"}, At(r, "send") => run[r].id = id,
         NEW c, c.intents = work[r].intents,
         \A i \in Ids : c.rows[i] = "none" => work[r].rows[i] = "none",
         NEW b2, \A o \in Ids \ {id} : b2[o] = broker[o],
         run[r].current => Budget(work[r], b2)
  PROVE  Trader(c, p, b2, held, session)
<1>1. /\ p.pc = "act" /\ p.current = run[r].current /\ p.id = NoId
      /\ p.orders = [run[r].orders EXCEPT ![id[2]] = 0]
  OBVIOUS
<1>2. /\ Trader(work[r], run[r], broker, held, session)
      /\ run[r].orders \in [Tickers -> Int] /\ work[r].intents \in [Ids -> Nat]
  BY DEF TradeInv, Trader
<1>3. id[2] \in Tickers
  BY IdParts
<1>4. /\ p.orders \in [Tickers -> Int]
      /\ \A t \in Tickers : p.orders[t] = IF t = id[2] THEN 0 ELSE run[r].orders[t]
  BY <1>1, <1>2, <1>3
<1>5. run[r].current => Budget(c, b2)
  BY SameBudget
<1>6. ASSUME run[r].current PROVE Affords(c, p, session)
  <2>1. Affords(work[r], run[r], session)
    BY <1>2, <1>6 DEF Trader, Trading
  <2>2. ASSUME NEW t \in Tickers PROVE Uncounted(p)[t] <= Uncounted(run[r])[t]
    BY <1>1, <1>2, <1>4 DEF Uncounted, At
  <2>3. QED
    BY <1>2, <1>4, <2>1, <2>2, AffordsLess
<1>7. ASSUME run[r].current, NEW i \in Ahand(c, p, session)
      PROVE  Fits(i, Wants(p, i), b2, held, session)
  <2>1. i \in Ids /\ i[1] = session /\ Wants(p, i) > 0 /\ work[r].rows[i] = "none"
    BY <1>1, <1>7 DEF Ahand, Promised
  <2>2. i[2] \in Tickers /\ i[2] # id[2] /\ Wants(p, i) = Wants(run[r], i)
    <3>1. i[2] \in Tickers /\ i[3] \in {"buy", "sell"}
      BY <2>1, IdParts
    <3>2. p.orders[i[2]] # 0
      BY <2>1, <3>1 DEF Wants, Signed
    <3>3. QED
      BY <1>4, <3>1, <3>2 DEF Wants
  <2>3. i \in Ahand(work[r], run[r], session)
    BY <2>1, <2>2 DEF Ahand
  <2>4. Fits(i, Wants(run[r], i), broker, held, session)
    BY <1>2, <1>7, <2>3 DEF Trader, Trading
  <2>5. QED
    BY <2>1, <2>2, <2>4, FitsElsewhere
<1>8. QED
  BY <1>1, <1>2, <1>4, <1>5, <1>6, <1>7 DEF Trader, Promised

LEMMA DenyTrades ==
  ASSUME Inv, TradeInv, NEW r \in Runners, NEW id \in Ids, Deny(r, id)
  PROVE  TradeInv'
<1> DEFINE p == Dealt(r, id, FALSE, FALSE)
<1>1. At(r, "act") /\ run' = [run EXCEPT ![r] = p] /\ UNCHANGED <<saved, work, account, session>>
  BY DEF Deny
<1>2. run[r].current => Budget(work[r], broker)
  BY DEF TradeInv, Trader
<1>3. run[r].pc \in {"act", "send"} /\ ~At(r, "send")
  BY <1>1 DEF At
<1>4. /\ p.pc = "act" /\ p.current = run[r].current /\ p.id = NoId
      /\ p.orders = [run[r].orders EXCEPT ![id[2]] = 0]
  <2>1. FALSE \in BOOLEAN
    OBVIOUS
  <2>2. QED
    BY ONLY Inv, r \in Runners, id \in Ids, <2>1, DealtMemory
<1> HIDE DEF p
<1>5. Trader(work[r], p, broker, held, session)
  BY <1>2, <1>3, <1>4, DealtTrades
<1>6. Own(r, p, work[r])
  BY <1>1, OwnMemory
<1>7. QED
  BY <1>5, <1>6, OwnKeeps

LEMMA RefuseTrades ==
  ASSUME Inv, TradeInv, NEW r \in Runners, Refuse(r)
  PROVE  TradeInv'
<1> DEFINE id == run[r].id
           p  == Dealt(r, id, FALSE, FALSE)
           d  == [work[r] EXCEPT !.rows[id] = "ended"]
<1>1. /\ At(r, "send") /\ id \in Ids /\ IsState(work[r])
      /\ run' = [run EXCEPT ![r] = p] /\ work' = [work EXCEPT ![r] = d]
      /\ UNCHANGED <<saved, account, session>>
  BY DEF Refuse, Inv, Shaped, Safe, AtOrder, At
<1>2. run[r].current => Budget(work[r], broker)
  BY DEF TradeInv, Trader
<1>3. run[r].pc \in {"act", "send"}
  BY <1>1 DEF At
<1>4. /\ p.pc = "act" /\ p.current = run[r].current /\ p.id = NoId
      /\ p.orders = [run[r].orders EXCEPT ![id[2]] = 0]
  <2>1. FALSE \in BOOLEAN /\ id \in Ids
    BY <1>1
  <2> HIDE DEF id
  <2>2. QED
    BY ONLY Inv, r \in Runners, <2>1, DealtMemory
<1> HIDE DEF p
<1>5. d.intents = work[r].intents /\ \A i \in Ids : d.rows[i] = "none" => work[r].rows[i] = "none"
  BY <1>1, StateUpdates DEF IsState
<1> HIDE DEF d
<1>6. Trader(d, p, broker, held, session)
  BY <1>1, <1>2, <1>3, <1>4, <1>5, DealtTrades
<1>7. Own(r, p, d)
  BY <1>1, OwnLocal
<1>8. QED
  BY <1>6, <1>7, OwnKeeps

LEMMA ReserveTrades ==
  ASSUME Inv, TradeInv, NEW r \in Runners, NEW id \in Ids, Reserve(r, id)
  PROVE  TradeInv'
<1> DEFINE d  == [work[r] EXCEPT !.rows[id] = "open"]
           p1 == [run[r] EXCEPT !.pc = "record"]
           p  == [p1 EXCEPT !.id = id]
<1>1. /\ IsProcess(run[r]) /\ IsState(work[r]) /\ At(r, "act")
      /\ work[r].rows[id] = "none" /\ UNCHANGED <<saved, account, session>>
      /\ id[1] = session /\ Quantity(r, id) > 0
  BY DEF Inv, Shaped, Reserve, Unused, NextOrder
<1>2. run' = [run EXCEPT ![r] = p] /\ work' = [work EXCEPT ![r] = d]
  BY DEF Reserve, Inv, Shaped
<1>3. /\ d.rows = [work[r].rows EXCEPT ![id] = "open"] /\ d.intents = work[r].intents
      /\ work[r].rows \in [Ids -> {"none", "open", "ended"}]
  BY <1>1, StateUpdates DEF IsState
<1> HIDE DEF d
<1>4. /\ IsProcess(p1) /\ p1.pc = "record" /\ p1.current = run[r].current
      /\ p1.orders = run[r].orders
  BY <1>1, SetPc DEF Phases
<1> HIDE DEF p1
<1>5. /\ p.pc = "record" /\ p.current = run[r].current /\ p.orders = run[r].orders /\ p.id = id
  BY <1>4, SetId
<1> HIDE DEF p
<1>6. Own(r, p, d)
  BY <1>1, <1>2, OwnLocal
<1>7. /\ Trader(work[r], run[r], broker, held, session)
      /\ run[r].orders \in [Tickers -> Int] /\ work[r].intents \in [Ids -> Nat]
  BY DEF TradeInv, Trader
<1>8. \A i \in Ids : Wants(p, i) = Wants(run[r], i)
  BY <1>5 DEF Wants
<1>9. Wants(p, id) > 0
  BY <1>1, <1>5 DEF Wants, Quantity
<1>10. \A i \in Ids : d.rows[i] = "none" => work[r].rows[i] = "none" /\ i # id
  BY <1>3
<1>11. ASSUME run[r].current
       PROVE  /\ Budget(d, broker) /\ d.intents[id] = 0 /\ Affords(d, p, session)
              /\ \A i \in Ahand(d, p, session) : Fits(i, Wants(p, i), broker, held, session)
  <2>1. Budget(work[r], broker) /\ Affords(work[r], run[r], session)
    BY <1>1, <1>7, <1>11 DEF Trader, At, Trading
  <2>2. Budget(d, broker)
    BY <1>3, <1>10, <2>1, SameBudget
  <2>3. d.intents[id] = 0
    BY <1>1, <1>3, <2>1 DEF Budget
  <2>4. \A t \in Tickers : Uncounted(p)[t] <= Uncounted(run[r])[t]
    BY <1>1, <1>5, <1>7 DEF Uncounted, At
  <2>5. Affords(d, p, session)
    BY <1>3, <1>5, <1>7, <2>1, <2>4, AffordsLess
  <2>6. Ahand(d, p, session) \subseteq Ahand(work[r], run[r], session)
    BY <1>1, <1>5, <1>8, <1>10 DEF Ahand
  <2>7. \A i \in Ahand(work[r], run[r], session) :
          Fits(i, Wants(run[r], i), broker, held, session)
    BY <1>1, <1>7, <1>11 DEF Trader, At, Trading
  <2>8. Ahand(d, p, session) \subseteq Ids
    BY DEF Ahand
  <2>9. QED
    BY <1>8, <2>2, <2>3, <2>5, <2>6, <2>7, <2>8
<1>12. Trader(d, p, broker, held, session)
  BY <1>1, <1>3, <1>5, <1>7, <1>9, <1>11 DEF Trader
<1>13. QED
  BY <1>6, <1>12, OwnKeeps

\* The intent of a buy takes from what is afforded what it adds to the day.
LEMMA IntentBudget ==
  ASSUME NEW c, NEW d, NEW p, NEW q, NEW b, NEW s \in Sessions, NEW id \in Ids, NEW n,
         p.pc = "record", q.pc = "persist", p.id = id, q.id = id, q.orders = p.orders,
         id[1] = s, n = Wants(p, id), n > 0, p.orders \in [Tickers -> Int],
         Budget(c, b), Affords(c, p, s), c.intents[id] = 0, c.rows[id] # "none",
         d.rows = c.rows, d.intents = [c.intents EXCEPT ![id] = n]
  PROVE  Budget(d, b) /\ Affords(d, q, s)
<1> DEFINE Day(f, u) == SumFunctionOnSet(f, Buys(u))
           Rest(g)   == SumFunctionOnSet(Uncounted(g), Tickers)
<1>1. id[2] \in Tickers /\ id[3] \in {"buy", "sell"} /\ DailyCap \in Nat /\ IsFiniteSet(Tickers)
  BY IdParts, PaperAssumption
<1>2. n \in Nat /\ n = IF id[3] = "buy" THEN p.orders[id[2]] ELSE -p.orders[id[2]]
  BY <1>1 DEF Wants, Signed
<1>3. c.intents \in [Ids -> Nat]
  BY DEF Budget
<1>4. /\ d.intents \in [Ids -> Nat] /\ d.intents[id] = n
      /\ \A i \in Ids \ {id} : d.intents[i] = c.intents[i]
  BY <1>2, <1>3
<1>5. /\ Rest(p) \in Int /\ Rest(q) \in Int /\ Day(c.intents, s) \in Int
      /\ \A t \in Tickers : Uncounted(p)[t] \in Nat /\ Uncounted(q)[t] \in Nat
  BY <1>3, UncountedSum, DeployedIsInt
<1>6. /\ \A t \in Tickers \ {id[2]} : Uncounted(q)[t] = Uncounted(p)[t]
      /\ Uncounted(q)[id[2]] = 0
      /\ Uncounted(p)[id[2]] = IF id[3] = "buy" THEN n ELSE 0
  BY <1>1, <1>2 DEF Uncounted
<1>7. Rest(q) = Rest(p) + 0 - Uncounted(p)[id[2]]
  <2>1. \A t \in Tickers : Uncounted(p)[t] \in Int /\ Uncounted(q)[t] \in Int
    BY <1>5
  <2>2. Rest(q) = Rest(p) + Uncounted(q)[id[2]] - Uncounted(p)[id[2]]
    BY <1>1, <1>6, <2>1, SumChange
  <2>3. QED
    BY <1>6, <2>2
<1>8. Rest(q) >= 0
  <2>1. SumFunctionOnSet([t \in Tickers |-> 0], Tickers) = 0
    BY <1>1, SumZero
  <2>2. \A t \in Tickers : Uncounted(q)[t] \in Int /\ 0 <= Uncounted(q)[t]
    BY <1>5
  <2>3. SumFunctionOnSet([t \in Tickers |-> 0], Tickers) <= Rest(q)
    BY <1>1, <2>2, SumOrder
  <2>4. QED
    BY <2>1, <2>3
<1>9. ASSUME NEW u, u # s PROVE Day(d.intents, u) = Day(c.intents, u)
  <2>1. \A i \in Buys(u) : d.intents[i] = c.intents[i]
    BY <1>4, <1>9 DEF Buys
  <2>2. IsFiniteSet(Buys(u))
    BY BuysAreFinite
  <2>3. QED
    BY ONLY <2>1, <2>2, SumSame
<1>10. Day(d.intents, s) = Day(c.intents, s) + (IF id[3] = "buy" THEN n ELSE 0)
  <2>1. CASE id[3] = "buy"
    <3>0. IsFiniteSet(Buys(s)) /\ Buys(s) \subseteq Ids
      BY BuysAreFinite
    <3>1. id \in Buys(s) /\ IsFiniteSet(Buys(s)) /\ Buys(s) \subseteq Ids
      BY <2>1, <3>0 DEF Buys
    <3>2. \A i \in Buys(s) : c.intents[i] \in Int /\ d.intents[i] \in Int
      BY <1>3, <1>4, <3>1
    <3>3. \A i \in Buys(s) \ {id} : c.intents[i] = d.intents[i]
      BY <1>4, <3>1
    <3>4. Day(d.intents, s) = Day(c.intents, s) + d.intents[id] - c.intents[id]
      BY ONLY <3>1, <3>2, <3>3, SumChange
    <3>5. QED
      BY <1>2, <1>4, <1>5, <2>1, <3>4
  <2>2. CASE id[3] # "buy"
    <3>1. \A i \in Buys(s) : d.intents[i] = c.intents[i]
      BY <1>4, <2>2 DEF Buys
    <3>0. IsFiniteSet(Buys(s))
      BY BuysAreFinite
    <3>2. Day(d.intents, s) = Day(c.intents, s)
      BY ONLY <3>0, <3>1, SumSame
    <3>3. QED
      BY <1>5, <2>2, <3>2
  <2>3. QED
    BY <2>1, <2>2
<1>11. Day(c.intents, s) + Rest(p) <= DailyCap
  BY DEF Affords
<1>12. Day(d.intents, s) + Rest(q) = Day(c.intents, s) + Rest(p)
  BY <1>2, <1>5, <1>6, <1>7, <1>10
<1>13. Affords(d, q, s)
  BY <1>11, <1>12 DEF Affords
<1>14. ASSUME NEW u \in Sessions PROVE Day(d.intents, u) <= DailyCap
  <2>1. CASE u = s
    <3>1. Day(d.intents, s) \in Int
      BY <1>4, DeployedIsInt
    <3>2. QED
      BY <1>1, <1>5, <1>8, <1>11, <1>12, <2>1, <3>1
  <2>2. CASE u # s
    BY <1>9, <2>2 DEF Budget
  <2>3. QED
    BY <2>1, <2>2
<1>15. ASSUME NEW i \in Ids
       PROVE  /\ d.rows[i] = "none" => d.intents[i] = 0
              /\ b[i].quantity # 0 => d.intents[i] = b[i].quantity
  BY <1>4 DEF Budget
<1>16. QED
  BY <1>4, <1>13, <1>14, <1>15 DEF Budget

LEMMA RecordIntentTrades ==
  ASSUME Inv, TradeInv, NEW r \in Runners, RecordIntent(r)
  PROVE  TradeInv'
<1> DEFINE id == run[r].id
           n  == Quantity(r, id)
           d  == [work[r] EXCEPT !.intents[id] = n]
           p  == [run[r] EXCEPT !.pc = "persist"]
<1>1. /\ IsProcess(run[r]) /\ IsState(work[r]) /\ run[r].pc = "record" /\ id \in Ids
      /\ work[r].rows[id] = "open" /\ UNCHANGED <<saved, account, session>>
  BY DEF Inv, Shaped, Safe, AtOrder, At, RecordIntent
<1>2. run' = [run EXCEPT ![r] = p] /\ work' = [work EXCEPT ![r] = d]
  BY DEF RecordIntent, Goto, Inv, Shaped
<1>3. n = Wants(run[r], id)
  BY DEF Quantity, Wants
<1> HIDE DEF n
<1>4. d.rows = work[r].rows /\ d.intents = [work[r].intents EXCEPT ![id] = n]
  BY <1>1 DEF IsState
<1> HIDE DEF d
<1>5. /\ p.pc = "persist" /\ p.current = run[r].current /\ p.orders = run[r].orders
      /\ p.id = id
  BY <1>1, SetPc DEF Phases
<1> HIDE DEF p
<1>6. Own(r, p, d)
  BY <1>1, <1>2, OwnLocal
<1>7. /\ Trader(work[r], run[r], broker, held, session) /\ session \in Sessions
      /\ run[r].orders \in [Tickers -> Int] /\ work[r].intents \in [Ids -> Nat]
      /\ id[1] = session /\ n > 0
  BY <1>1, <1>3 DEF TradeInv, Trader, Promised
<1>8. \A i : Wants(p, i) = Wants(run[r], i)
  BY <1>5 DEF Wants
<1>9. n \in Nat /\ d.intents \in [Ids -> Nat]
  <2>1. id[2] \in Tickers
    BY <1>1, IdParts
  <2>2. n \in Nat
    BY <1>3, <1>7, <2>1 DEF Wants, Signed
  <2>3. QED
    BY <1>4, <1>7, <2>2
<1>10. ASSUME run[r].current
       PROVE  /\ Budget(d, broker) /\ Affords(d, p, session)
              /\ \A i \in Ahand(d, p, session) : Fits(i, Wants(p, i), broker, held, session)
  <2>1. /\ Budget(work[r], broker) /\ Affords(work[r], run[r], session)
        /\ work[r].intents[id] = 0
        /\ \A i \in Ahand(work[r], run[r], session) :
             Fits(i, Wants(run[r], i), broker, held, session)
    BY <1>1, <1>7, <1>10 DEF Trader, Trading
  <2>2. work[r].rows[id] # "none" /\ run[r].id = id
    BY <1>1
  <2> HIDE DEF id
  <2>3. Budget(d, broker) /\ Affords(d, p, session)
    BY <1>1, <1>3, <1>4, <1>5, <1>7, <2>1, <2>2, IntentBudget
  <2>4. Ahand(d, p, session) = Ahand(work[r], run[r], session)
    BY <1>1, <1>4, <1>5, <1>8, <2>2 DEF Ahand, Promised
  <2>5. QED
    BY <1>8, <2>1, <2>3, <2>4
<1>11. Trader(d, p, broker, held, session)
  BY <1>3, <1>5, <1>7, <1>8, <1>9, <1>10 DEF Trader
<1>12. QED
  BY <1>6, <1>11, OwnKeeps

LEMMA PersistIntentTrades ==
  ASSUME Inv, TradeInv, NEW r \in Runners, PersistIntent(r)
  PROVE  TradeInv'
<1> DEFINE p == [run[r] EXCEPT !.pc = "send"]
<1>0. IsProcess(run[r])
  BY DEF Inv, Shaped
<1>1. /\ run[r].pc = "persist" /\ run[r].id \in Ids
      /\ Push(r, p) /\ run[r].current /\ UNCHANGED <<work, account, session>>
  BY DEF Inv, Safe, AtOrder, At, PersistIntent, Push
<1>2. /\ IsProcess(p) /\ p.pc = "send" /\ p.current = run[r].current /\ p.id = run[r].id
      /\ p.orders = run[r].orders
  BY <1>0, SetPc DEF Phases
<1> HIDE DEF p
<1>3. work' = [work EXCEPT ![r] = work[r]]
  BY <1>1 DEF Inv, Shaped
<1>4. Own(r, p, work[r])
  BY <1>1, <1>2, <1>3, OwnPush
<1>5. Trader(work[r], run[r], broker, held, session)
  BY DEF TradeInv
<1>6. \A i : Wants(p, i) = Wants(run[r], i)
  BY <1>2 DEF Wants
<1>7. /\ run[r].id[1] = session /\ Wants(run[r], run[r].id) > 0
      /\ Budget(work[r], broker) /\ Affords(work[r], run[r], session)
      /\ \A i \in Ahand(work[r], run[r], session) :
           Fits(i, Wants(run[r], i), broker, held, session)
  BY <1>1, <1>5 DEF Trader, Promised, Trading
<1>8. run[r].id \in Ahand(work[r], run[r], session)
  BY <1>1, <1>7 DEF Ahand, Promised
<1>9. Ahand(work[r], p, session) = Ahand(work[r], run[r], session)
  BY <1>1, <1>2, <1>6 DEF Ahand, Promised
<1>10. Uncounted(p) = Uncounted(run[r])
  BY <1>1, <1>2 DEF Uncounted
<1>11. Affords(work[r], p, session)
  BY <1>7, <1>10 DEF Affords
<1>12. Trader(work[r], p, broker, held, session)
  BY <1>2, <1>5, <1>6, <1>7, <1>8, <1>9, <1>11 DEF Trader
<1>13. QED
  BY <1>4, <1>12, OwnKeeps

-----------------------------------------------------------------------------
\* Sent, whatever r learns of it: nobody else trades on what it knows.
LEMMA SentTrades ==
  ASSUME Inv, TradeInv, NEW r \in Runners, At(r, "send"), NEW state \in {"none", "delayed", "working"},
         NEW submitted, Sent(r, run[r].id, state), UNCHANGED <<saved, work, held, session>>,
         run' = [run EXCEPT ![r] = Dealt(r, run[r].id, TRUE, submitted)]
  PROVE  TradeInv'
<1> DEFINE id == run[r].id
           n  == Quantity(r, id)
           o  == [state |-> state, quantity |-> n, filled |-> 0]
           p  == Dealt(r, id, TRUE, submitted)
<1>1. id \in Ids /\ \A q \in Runners : At(q, "send") => q = r
  BY DEF Inv, Safe, AtOrder, At
<1>2. broker' = [broker EXCEPT ![id] = o] /\ broker = [i \in Ids |-> broker[i]]
  BY DEF Sent, Inv, Shaped
<1>3. Known(saved) /\ \A q \in Runners : run[q].current => Known(work[q])
  BY DEF Inv, Safe
<1>4. \A q \in Runners : run[q].current => run[q].pc \notin Planning
  BY DEF Inv, Safe, Aware
<1>5. Trader(work[r], run[r], broker, held, session) /\ session \in Sessions
  BY DEF TradeInv
<1>6. n = Wants(run[r], id)
  BY DEF Quantity, Wants
<1>7. At(r, "send") /\ run[r].id = id /\ run' = [run EXCEPT ![r] = p]
  OBVIOUS
<1> HIDE DEF id, n
<1>8. /\ p.pc = "act" /\ p.current = run[r].current /\ p.id = NoId
      /\ p.orders = [run[r].orders EXCEPT ![id[2]] = 0]
  <2>1. id \in Ids /\ TRUE \in BOOLEAN
    BY <1>1
  <2>2. ASSUME NEW sent \in BOOLEAN
        PROVE  LET g == Dealt(r, id, sent, submitted)
               IN  /\ g.pc = "act" /\ g.current = run[r].current /\ g.id = NoId
                   /\ g.orders = [run[r].orders EXCEPT ![id[2]] = 0]
    BY ONLY Inv, r \in Runners, <2>1, sent \in BOOLEAN, DealtMemory
  <2>3. QED
    BY <2>1, <2>2, Zenon
<1> HIDE DEF p
<1>9. run'[r] = p /\ \A q \in Runners \ {r} : run'[q] = run[q]
  BY <1>7 DEF Inv, Shaped
<1>10. id[1] = session /\ n > 0 /\ n \in Nat /\ Fits(id, n, broker, held, session)
  <2>1. id[1] = session /\ n > 0 /\ Fits(id, n, broker, held, session)
    BY <1>5, <1>6, <1>7 DEF At, Trader, Promised
  <2>2. n \in Int
    <3>1. id[2] \in Tickers /\ run[r].orders \in [Tickers -> Int]
      BY <1>1, <1>5, IdParts DEF Trader
    <3>2. QED
      BY <1>6, <3>1 DEF Wants, Signed
  <2>3. QED
    BY <2>1, <2>2
<1>11. o.state = state /\ o.quantity = n /\ o.filled = 0
  OBVIOUS
<1> HIDE DEF o
<1>12. broker'[id] = o /\ \A i \in Ids \ {id} : broker'[i] = broker[i]
  BY <1>1, <1>2
<1>13. ASSUME NEW c, Known(c), Budget(c, broker) PROVE Budget(c, broker')
  <2>1. c.intents[id] = n
    BY <1>1, <1>7, <1>13 DEF Known, n
  <2>2. \A i \in Ids : broker'[i].quantity # 0 => c.intents[i] = broker'[i].quantity
    BY <1>11, <1>12, <1>13, <2>1 DEF Budget
  <2>3. QED
    BY <1>13, <2>2 DEF Budget
<1>14. Budget(saved, broker')
  BY <1>3, <1>13 DEF TradeInv
<1>15. Orderly(broker', held, session)
  <2>1. Orderly(broker, held, session)
    BY DEF TradeInv
  <2>2. \A i \in Ids : i[2] = id[2] => broker[i].state \notin InFlight
    BY <1>10 DEF Fits
  <2>3. n - 0 = n /\ Room(id, n, held, session)
    BY <1>10 DEF Fits
  <2>4. \A i \in Ids :
          /\ broker'[i].quantity \in Nat /\ broker'[i].filled \in Nat
          /\ broker'[i].state \in InFlight =>
               /\ i[1] = session /\ broker'[i].filled < broker'[i].quantity
               /\ Room(i, broker'[i].quantity - broker'[i].filled, held, session)
    <3> SUFFICES ASSUME NEW i \in Ids
                 PROVE  /\ broker'[i].quantity \in Nat /\ broker'[i].filled \in Nat
                        /\ broker'[i].state \in InFlight =>
                             /\ i[1] = session /\ broker'[i].filled < broker'[i].quantity
                             /\ Room(i, broker'[i].quantity - broker'[i].filled, held, session)
      OBVIOUS
    <3>1. CASE i = id
      BY <1>10, <1>11, <1>12, <2>3, <3>1
    <3>2. CASE i # id
      BY <1>12, <2>1, <3>2 DEF Orderly
    <3>3. QED
      BY <3>1, <3>2
  <2>5. \A i, j \in Ids :
          broker'[i].state \in InFlight /\ broker'[j].state \in InFlight /\ i[2] = j[2] => i = j
    BY <1>12, <2>1, <2>2 DEF Orderly
  <2>6. QED
    BY <2>4, <2>5 DEF Orderly
<1>16. ASSUME NEW q \in Runners PROVE Trader(work[q], run'[q], broker', held, session)
  <2>1. run[q].current => Budget(work[q], broker')
    BY <1>3, <1>13 DEF TradeInv, Trader
  <2>2. CASE q = r
    <3>1. run[r].pc \in {"act", "send"}
      BY <1>7 DEF At
    <3>2. \A i \in Ids : work[r].rows[i] = "none" => work[r].rows[i] = "none"
      OBVIOUS
    <3>3. Trader(work[r], p, broker', held, session)
      BY <1>1, <1>7, <1>8, <1>12, <2>1, <2>2, <3>1, <3>2, DealtTrades
    <3>4. QED
      BY <1>9, <2>2, <3>3
  <2>3. CASE q # r
    <3>1. Trader(work[q], run[q], broker, held, session)
      BY DEF TradeInv
    <3>2. run[q].pc # "send" /\ ~(run[q].current /\ run[q].pc \in Trading)
      BY <1>1, <1>4, <2>3 DEF At, Trading, Planning
    <3>3. Trader(work[q], run[q], broker', held, session)
      BY <2>1, <3>1, <3>2 DEF Trader
    <3>4. QED
      BY <1>9, <2>3, <3>3
  <2>4. QED
    BY <2>2, <2>3
<1>17. QED
  BY <1>14, <1>15, <1>16 DEF TradeInv

LEMMA SendTrades ==
  ASSUME Inv, TradeInv, NEW r \in Runners,
         Accept(r) \/ \E arrives \in {"none", "delayed", "working"} : TimeOut(r, arrives)
  PROVE  TradeInv'
<1>1. CASE Accept(r)
  BY <1>1, SentTrades DEF Accept
<1>2. ASSUME NEW arrives \in {"none", "delayed", "working"}, TimeOut(r, arrives)
      PROVE  TradeInv'
  <2>1. At(r, "send") /\ broker[run[r].id].state = "none"
    BY <1>2 DEF TimeOut, Inv, Safe, AtOrder
  <2>2. QED
    BY <1>2, <2>1, SentTrades DEF TimeOut
<1>3. QED
  BY <1>1, <1>2

\* The broker's steps: an order in flight keeps its quantity, and its room where
\* it stays in flight; nobody else counts on its ticker.
LEMMA OrderTrades ==
  ASSUME Inv, TradeInv, NEW id \in Ids, broker[id].state \in InFlight,
         NEW o, broker' = [broker EXCEPT ![id] = o],
         o.quantity = broker[id].quantity, o.filled \in Nat, held' \in [Tickers -> Int],
         \A t \in Tickers : t # id[2] => held'[t] = held[t],
         o.state \in InFlight =>
           o.filled < o.quantity /\ Room(id, o.quantity - o.filled, held', session),
         UNCHANGED <<saved, work, run, session>>
  PROVE  TradeInv'
<1>1. broker'[id] = o /\ \A i \in Ids \ {id} : broker'[i] = broker[i]
  BY DEF Inv, Shaped
<1>2. Orderly(broker, held, session) /\ session \in Sessions
  BY DEF TradeInv
<1>3. ASSUME NEW c, Budget(c, broker) PROVE Budget(c, broker')
  BY <1>1, <1>3 DEF Budget
<1>4. ASSUME NEW i \in Ids, NEW n, i[2] # id[2], Room(i, n, held, session)
      PROVE  Room(i, n, held', session)
  <2>1. held'[i[2]] = held[i[2]]
    BY <1>4, IdParts
  <2>2. QED
    BY <1>4, <2>1 DEF Room
<1>5. ASSUME NEW i \in Ids, NEW n, Fits(i, n, broker, held, session)
      PROVE  Fits(i, n, broker', held', session)
  <2>1. i[2] # id[2] /\ Room(i, n, held, session)
    BY <1>5 DEF Fits
  <2>2. Fits(i, n, broker', held, session)
    BY <1>1, <1>5, <2>1 DEF Fits
  <2>3. QED
    BY <1>4, <2>1, <2>2 DEF Fits
<1>6. Orderly(broker', held', session)
  <2>1. ASSUME NEW i \in Ids
        PROVE  /\ broker'[i].quantity \in Nat /\ broker'[i].filled \in Nat
               /\ broker'[i].state \in InFlight =>
                    /\ i[1] = session /\ broker'[i].filled < broker'[i].quantity
                    /\ Room(i, broker'[i].quantity - broker'[i].filled, held', session)
    <3>1. CASE i = id
      BY <1>1, <1>2, <3>1 DEF Orderly
    <3>2. CASE i # id
      <4>1. broker'[i] = broker[i] /\ (broker[i].state \in InFlight => i[2] # id[2])
        BY <1>1, <1>2, <3>2 DEF Orderly
      <4>2. QED
        BY <1>2, <1>4, <4>1 DEF Orderly
    <3>3. QED
      BY <3>1, <3>2
  <2>2. \A i, j \in Ids :
          broker'[i].state \in InFlight /\ broker'[j].state \in InFlight /\ i[2] = j[2] => i = j
    BY <1>1, <1>2 DEF Orderly
  <2>3. QED
    BY <2>1, <2>2 DEF Orderly
<1>7. ASSUME NEW q \in Runners PROVE Trader(work[q], run[q], broker', held', session)
  <2>1. Trader(work[q], run[q], broker, held, session)
    BY DEF TradeInv
  <2>2. run[q].pc = "send" => run[q].id \in Ids
    BY DEF Inv, Safe, AtOrder
  <2>3. Ahand(work[q], run[q], session) \subseteq Ids
    BY DEF Ahand
  <2>4. QED
    BY <1>3, <1>5, <2>1, <2>2, <2>3 DEF Trader
<1>8. QED
  BY <1>2, <1>3, <1>6, <1>7 DEF TradeInv

LEMMA BrokerTrades ==
  ASSUME Inv, TradeInv, NEW id \in Ids, Broker(id)
  PROVE  TradeInv'
<1> DEFINE q == broker[id].quantity
           f == broker[id].filled
<1>1. /\ broker[id].state \in InFlight /\ q \in Nat /\ f \in Nat /\ f < q
      /\ Room(id, q - f, held, session)
  <2>1. broker[id].state \in InFlight
    BY DEF Broker, Arrive, Vanish, FillOne, Expire, InFlight
  <2>2. QED
    BY <2>1 DEF TradeInv, Orderly
<1>2. broker[id] = [state |-> broker[id].state, quantity |-> q, filled |-> f]
  BY DEF Inv, Shaped, IsOrder
<1>3. held \in [Tickers -> Int] /\ broker = [i \in Ids |-> broker[i]]
  BY DEF TradeInv, Inv, Shaped
<1>4. CASE Arrive(id) \/ Vanish(id) \/ Expire(id)
  <2>1. PICK s \in {"none", "working", "ended"} : broker' = [broker EXCEPT ![id].state = s]
    BY <1>4 DEF Arrive, Vanish, Expire
  <2> DEFINE o == [state |-> s, quantity |-> q, filled |-> f]
  <2>2. broker' = [broker EXCEPT ![id] = o]
    <3>1. [broker[id] EXCEPT !.state = s] = o
      BY <1>2
    <3>2. QED
      BY <1>3, <2>1, <3>1
  <2>3. o.state = s /\ o.quantity = q /\ o.filled = f
    OBVIOUS
  <2> HIDE DEF o
  <2>4. UNCHANGED <<saved, work, run, held, session>>
    BY <1>4 DEF Arrive, Vanish, Expire
  <2>5. QED
    BY <1>1, <1>3, <2>2, <2>3, <2>4, OrderTrades
<1>5. CASE FillOne(id)
  <2> DEFINE s == IF f + 1 = q THEN "ended" ELSE broker[id].state
             o == [state |-> s, quantity |-> q, filled |-> f + 1]
             t == id[2]
  <2>1. broker' = [broker EXCEPT ![id] = o]
    <3> DEFINE more == [broker[id] EXCEPT !.filled = f + 1]
    <3>0. more = [state |-> broker[id].state, quantity |-> q, filled |-> f + 1]
      BY <1>2
    <3>2. broker' = [broker EXCEPT ![id] = [more EXCEPT !.state = s]]
      BY <1>3, <1>5 DEF FillOne
    <3> HIDE DEF more, s
    <3>1. [more EXCEPT !.state = s] = o
      BY <3>0
    <3> HIDE DEF o
    <3>3. QED
      BY <3>1, <3>2
  <2>2. t \in Tickers /\ id[3] \in {"buy", "sell"}
    BY IdParts
  <2>3. /\ held' = [held EXCEPT ![t] = held[t] + (IF id[3] = "buy" THEN 1 ELSE -1)]
        /\ UNCHANGED <<saved, work, run, session>>
    BY <1>5, <2>2 DEF FillOne, Signed
  <2>4. o.state = s /\ o.quantity = q /\ o.filled = f + 1
    OBVIOUS
  <2> HIDE DEF o
  <2>5. held' \in [Tickers -> Int] /\ \A u \in Tickers : u # t => held'[u] = held[u]
    BY <1>3, <2>2, <2>3
  <2>6. o.state \in InFlight => o.filled < o.quantity
    BY <1>1, <2>4 DEF InFlight
  <2>7. Room(id, q - (f + 1), held', session)
    <3>1. held'[t] = held[t] + (IF id[3] = "buy" THEN 1 ELSE -1) /\ held[t] \in Int
      BY <1>3, <2>2, <2>3
    <3>2. Target[DecisionAt[session]][t] \in Nat
      BY <2>2, GoalIsNat DEF Goal, TradeInv
    <3>3. QED
      BY <1>1, <2>2, <3>1, <3>2 DEF Room
  <2>8. o.quantity = broker[id].quantity /\ o.filled \in Nat
    <3>1. f + 1 \in Nat
      BY <1>1
    <3>2. QED
      BY <2>4, <3>1
  <2>9. o.state \in InFlight =>
          o.filled < o.quantity /\ Room(id, o.quantity - o.filled, held', session)
    BY <2>4, <2>6, <2>7
  <2> HIDE DEF s, q, f
  <2>10. QED
    BY <1>1, <2>1, <2>3, <2>5, <2>8, <2>9, OrderTrades
<1>6. QED
  BY <1>4, <1>5 DEF Broker

LEMMA NextSessionTrades ==
  ASSUME Inv, TradeInv, NextSession
  PROVE  TradeInv'
<1>1. /\ UNCHANGED <<saved, work, run, broker, held>> /\ session' = session + 1
      /\ session < LastSession /\ \A r \in Runners : run[r].pc = "idle"
      /\ \A id \in Ids : broker[id].state \notin InFlight
  BY DEF NextSession, account, At, InFlight
<1>2. session' \in Sessions
  BY <1>1, PaperAssumption DEF TradeInv, Sessions
<1>3. Orderly(broker, held, session')
  BY <1>1 DEF TradeInv, Orderly
<1>4. ASSUME NEW r \in Runners PROVE Trader(work[r], run[r], broker, held, session')
  <2>1. /\ run[r].orders \in [Tickers -> Int] /\ work[r].intents \in [Ids -> Nat]
        /\ run[r].current => Budget(work[r], broker)
    BY DEF TradeInv, Trader
  <2>2. run[r].pc \notin Trading
    BY <1>1 DEF Trading
  <2>3. QED
    BY <2>1, <2>2, RestingTrader
<1>5. QED
  BY <1>1, <1>2, <1>3, <1>4 DEF TradeInv

LEMMA TradeInit == Init => TradeInv
<1> SUFFICES ASSUME Init PROVE TradeInv
  OBVIOUS
<1>1. /\ session \in Sessions /\ held \in [Tickers -> Int]
  BY PaperAssumption DEF Init, Sessions
<1>2. \A id \in Ids : broker[id].state = "none" /\ broker[id].quantity = 0 /\ broker[id].filled = 0
  BY DEF Init
<1>3. Orderly(broker, held, session)
  BY <1>2 DEF Orderly, InFlight
<1>4. EmptyState.intents = [id \in Ids |-> 0]
  BY DEF EmptyState
<1>5. ASSUME NEW s PROVE SumFunctionOnSet(EmptyState.intents, Buys(s)) = 0
  <2>1. IsFiniteSet(Buys(s)) /\ Buys(s) \subseteq Ids
    BY BuysAreFinite
  <2>2. \A id \in Buys(s) : EmptyState.intents[id] = 0
    BY <1>4, <2>1
  <2>3. QED
    BY ONLY <2>1, <2>2, SumZero
<1>6. Budget(EmptyState, broker)
  BY <1>2, <1>4, <1>5, PaperAssumption DEF Budget
<1>7. ASSUME NEW r \in Runners PROVE Trader(work[r], run[r], broker, held, session)
  <2>1. work[r] = EmptyState /\ run[r] = Idle
    BY DEF Init
  <2>2. Idle.pc = "idle" /\ Idle.orders \in [Tickers -> Int] /\ ~Idle.current
    BY DEF Idle
  <2>3. Idle.pc \notin Trading
    BY <2>2 DEF Trading
  <2>4. EmptyState.intents \in [Ids -> Nat]
    BY <1>4
  <2>5. QED
    BY <2>1, <2>2, <2>3, <2>4, RestingTrader
<1>8. QED
  BY <1>1, <1>3, <1>6, <1>7 DEF TradeInv, Init

LEMMA TradeStep == Inv /\ TradeInv /\ [Next]_vars => TradeInv'
<1> SUFFICES ASSUME Inv, TradeInv, [Next]_vars PROVE TradeInv'
  OBVIOUS
<1>1. ASSUME NEW r \in Runners, Prepare(r) PROVE TradeInv'
  BY <1>1, CheckingTrades, PlanTrades DEF Prepare
<1>2. ASSUME NEW r \in Runners, Act(r) PROVE TradeInv'
  BY <1>2, DenyTrades, ReserveTrades, RecordIntentTrades, PersistIntentTrades, SendTrades,
     RefuseTrades, EndingTrades DEF Act
<1>3. ASSUME NEW r \in Runners, KillProcess(r) \/ LoseRunner(r) PROVE TradeInv'
  BY <1>3, EndingTrades
<1>4. CASE UNCHANGED vars
  BY <1>4 DEF TradeInv, vars, account
<1>5. QED
  BY <1>1, <1>2, <1>3, <1>4, BrokerTrades, NextSessionTrades DEF Next

LEMMA TradeInvariance == Spec => [](Inv /\ TradeInv)
<1>1. Init => Inv /\ TradeInv
  BY InvInit, TradeInit
<1>2. (Inv /\ TradeInv) /\ [Next]_vars => (Inv /\ TradeInv)'
  BY InvStep, TradeStep
<1>3. QED
  BY <1>1, <1>2, PTL DEF Spec

\* Nothing was sent that the branch does not count.
LEMMA BudgetIsTheCap == TradeInv => WithinDailyCap
<1> SUFFICES ASSUME TradeInv, NEW s \in Sessions
             PROVE  SumFunctionOnSet([id \in Ids |-> broker[id].quantity], Buys(s)) <= DailyCap
  BY DEF WithinDailyCap
<1> DEFINE q == [id \in Ids |-> broker[id].quantity]
<1>1. IsFiniteSet(Buys(s)) /\ Buys(s) \subseteq Ids
  BY BuysAreFinite
<1>2. /\ saved.intents \in [Ids -> Nat] /\ SumFunctionOnSet(saved.intents, Buys(s)) <= DailyCap
      /\ \A id \in Ids : broker[id].quantity # 0 => saved.intents[id] = broker[id].quantity
  BY DEF TradeInv, Budget
<1>3. \A id \in Ids : broker[id].quantity \in Nat
  BY DEF TradeInv, Orderly
<1>4. \A id \in Buys(s) : q[id] \in Int /\ saved.intents[id] \in Int /\ q[id] <= saved.intents[id]
  BY <1>1, <1>2, <1>3
<1> HIDE DEF q
<1>5. SumFunctionOnSet(q, Buys(s)) <= SumFunctionOnSet(saved.intents, Buys(s))
  BY ONLY <1>1, <1>4, SumOrder
<1>6. SumFunctionOnSet(q, Buys(s)) \in Int
  BY ONLY <1>1, <1>4, SumType
<1>7. SumFunctionOnSet(saved.intents, Buys(s)) \in Int
  BY <1>2, DeployedIsInt
<1>8. QED
  BY <1>2, <1>5, <1>6, <1>7, PaperAssumption DEF q

\* All that may still be traded of the ticker is the order itself.
LEMMA SentWithinTarget ==
  ASSUME Inv, TradeInv, NEW r \in Runners, At(r, "send"),
         NEW state \in {"none", "delayed", "working"}, Sent(r, run[r].id, state)
  PROVE  NotPastTarget(run[r].id)
<1> DEFINE id   == run[r].id
           n    == Quantity(r, id)
           t    == id[2]
           left == [o \in Ids |-> Signed(o, Unfilled(broker'[o]))]
           T    == {o \in Ids : o[2] = t}
           goal == Target[DecisionAt[session]][t]
<1>1. id \in Ids
  BY DEF Inv, Safe, AtOrder, At
<1>2. broker' = [broker EXCEPT ![id] = [state |-> state, quantity |-> n, filled |-> 0]]
  BY DEF Sent
<1>3. broker = [o \in Ids |-> broker[o]]
  BY DEF Inv, Shaped
<1>4. n = Wants(run[r], id)
  BY DEF Quantity, Wants
<1>5. /\ Fits(id, n, broker, held, session) /\ n > 0 /\ run[r].orders \in [Tickers -> Int]
      /\ session \in Sessions /\ held \in [Tickers -> Int]
  BY <1>4 DEF At, TradeInv, Trader, Promised
<1> HIDE DEF n, id
<1>6. t \in Tickers /\ id[3] \in {"buy", "sell"}
  BY <1>1, IdParts
<1>7. n \in Nat
  BY <1>4, <1>5, <1>6 DEF Wants, Signed
<1>8. goal \in Nat /\ held[t] \in Int
  BY <1>5, <1>6, GoalIsNat DEF Goal
<1>9. /\ \A o \in T : broker[o].state \notin InFlight
      /\ IF id[3] = "buy" THEN held[t] + n <= goal ELSE goal <= held[t] - n
  BY <1>5 DEF Fits, Room
<1> HIDE DEF goal
<1>10. \A o \in T \ {id} : left[o] = 0
  <2>1. ASSUME NEW o \in T \ {id} PROVE left[o] = 0
    <3>1. o \in Ids /\ broker'[o] = broker[o]
      BY <1>2, <1>3
    <3>2. Unfilled(broker'[o]) = 0
      BY <1>9, <3>1 DEF Unfilled, InFlight
    <3>3. QED
      BY <3>1, <3>2 DEF Signed
  <2>2. QED
    BY <2>1
<1>11. left[id] = IF state = "none" THEN 0 ELSE IF id[3] = "buy" THEN n ELSE -n
  <2>1. broker'[id] = [state |-> state, quantity |-> n, filled |-> 0]
    BY <1>1, <1>2, <1>3
  <2>2. Unfilled(broker'[id]) = IF state = "none" THEN 0 ELSE n
    BY <1>7, <2>1 DEF Unfilled
  <2>3. QED
    BY <1>1, <1>7, <2>2 DEF Signed
<1> HIDE DEF left
<1>12. id \in T /\ IsFiniteSet(T)
  <2>1. T \subseteq Ids
    OBVIOUS
  <2>2. QED
    BY <1>1, <2>1, IdsAreFinite, FS_Subset
<1> HIDE DEF T
<1>13. SumFunctionOnSet(left, T) = left[id]
  <2>1. \A o \in T : left[o] \in Int
    BY <1>7, <1>10, <1>11
  <2>2. SumFunctionOnSet(left, T) = left[id] + SumFunctionOnSet(left, T \ {id})
    BY ONLY <1>12, <2>1, SumElement
  <2>3. IsFiniteSet(T \ {id})
    BY <1>12, FS_RemoveElement
  <2>4. SumFunctionOnSet(left, T \ {id}) = 0
    BY ONLY <1>10, <2>3, SumZero
  <2>5. QED
    BY <1>12, <2>1, <2>2, <2>4
<1>14. IF id[3] = "buy" THEN held[t] + SumFunctionOnSet(left, T) <= goal
                        ELSE held[t] + SumFunctionOnSet(left, T) >= goal
  BY <1>7, <1>8, <1>9, <1>11, <1>13
<1>15. QED
  BY <1>14 DEF NotPastTarget, goal, left, T, id

\* The buys the broker was ever sent in a session, by whichever runs, stay within
\* the daily deploy cap: the branch counts every one of them, and a run plans on
\* what the branch it checked out leaves.
THEOREM DayStaysWithinCap == Spec => []WithinDailyCap
<1>1. QED
  BY BudgetIsTheCap, TradeInvariance, PTL

\* All the runs together, overlapping, dying and overtaken, send no order that
\* could lead past the decision with what is still under way, nor more in a day
\* than the cap.
THEOREM TradesOnce == Spec => TradesTheDecisionOnce
<1>1. ASSUME Inv, TradeInv, [Next]_vars, TradeInv', NEW r \in Runners, NEW id \in Ids, Sends(r, id)
      PROVE  NotPastTarget(id) /\ WithinDailyCap'
  <2>1. NotPastTarget(id)
    BY <1>1, SendIsOfOrder, SentWithinTarget
  <2>2. WithinDailyCap'
    <3>1. (TradeInv => WithinDailyCap)'
      BY BudgetIsTheCap, PTL
    <3>2. QED
      BY <1>1, <3>1
  <2>3. QED
    BY <2>1, <2>2
<1>2. (Inv /\ TradeInv) /\ [Next]_vars /\ (Inv /\ TradeInv)' =>
        [\A r \in Runners, id \in Ids : Sends(r, id) => NotPastTarget(id) /\ WithinDailyCap']_vars
  BY <1>1
<1>3. QED
  BY <1>2, TradeInvariance, PTL DEF Spec, TradesTheDecisionOnce
=============================================================================
