------------------------------ MODULE GateProofs ------------------------------
(***************************************************************************)
(* What holds of the order gateway for every set of processes, orders,     *)
(* configurations, snapshots and transfer batches.  The latches and the    *)
(* order table need only the types of the control rows; the equity series  *)
(* also needs that its numbers are integers, and that the journal applies  *)
(* a transfer when it settles and then only (BreakerInv).  The kill switch *)
(* is followed with its log: a stored confirmation has an entry there that *)
(* nothing has overtaken (SwitchInv).                                      *)
(*                                                                         *)
(* Then the gateway with its traders and the broker.  Spec 032 REQ-004 for *)
(* every number of traders and orders: an order the broker is working, or  *)
(* that may still be sent, is reserved.  The claim alone is not inductive: *)
(* a release is harmless only because at most one trader ever sends an id, *)
(* and the broker has not seen it before.                                  *)
(*                                                                         *)
(* Last the caps of the real account, for one trader: the gate sums        *)
(* reservations over a snapshot, and what the broker did since the         *)
(* snapshot is still reserved, so the gate's worst case covers the real    *)
(* one.  Two traders would not do: each may decide on a snapshot older     *)
(* than the other's fill and release.  Every step but an admitted buy lets *)
(* the worst case stay or shrink, which is all that is left under a kill.  *)
(***************************************************************************)
EXTENDS GateTrading, KillSwitch, SumTheorems, SequenceTheorems

-----------------------------------------------------------------------------
\* A snapshot is never from a day that is not a positive session label.
LEMMA SnapshotDay ==
  ASSUME clock \in Nat, NEW s \in Snapshots
  PROVE  Day(s.at) \in Nat
<1>1. s.at \in Int /\ s.at >= 1
  BY GateAssumption DEF Snapshots
<1>2. QED
  BY <1>1, GateAssumption DEF Day

\* The session of the breaker stays a natural number through an observation.
LEMMA ObservedSession ==
  ASSUME ControlTypeOK, NEW s \in Snapshots, NEW cfg, NEW flow
  PROVE  NextBreaker(cfg, s, flow).session \in Nat
<1>1. Day(s.at) \in Nat
  BY SnapshotDay DEF ControlTypeOK
<1>2. breaker.session \in Nat
  BY DEF ControlTypeOK
<1>3. CASE breaker.session = NoSession
  BY <1>1, <1>3 DEF NextBreaker, Observed
<1>4. CASE breaker.session # NoSession /\ Day(s.at) # breaker.session
  BY <1>1, <1>4 DEF NextBreaker, Observed
<1>5. CASE breaker.session # NoSession /\ Day(s.at) = breaker.session
  BY <1>2, <1>5 DEF NextBreaker, Observed
<1>6. QED
  BY <1>3, <1>4, <1>5

\* A reservation is a row of the table.
LEMMA ReserveTyped ==
  ASSUME ControlTypeOK, NEW i \in Intents
  PROVE  Reserve(i) \in [OrderIds -> Rows]
<1>1. [instrument |-> i.instrument, quantity |-> i.delta, terminal |-> FALSE] \in Rows
  BY GateAssumption DEF Rows
<1>2. QED
  BY <1>1 DEF Reserve, ControlTypeOK

-----------------------------------------------------------------------------
\* The control rows keep their types through every transaction.
LEMMA ControlTypeStep == ControlTypeOK /\ [Next]_vars => ControlTypeOK'
<1> SUFFICES ASSUME ControlTypeOK, [Next]_vars PROVE ControlTypeOK'
  OBVIOUS
<1>1. ASSUME NEW p \in Procs, NEW c \in Configs, Open(p, c) \/ AdoptNewConfig(p, c)
      PROVE  ControlTypeOK'
  BY <1>1 DEF ControlTypeOK, Open, AdoptNewConfig, kill, loss, flows
<1>2. ASSUME NEW p \in Procs, Close(p) \/ RequestKill(p)
      PROVE  ControlTypeOK'
  BY <1>2 DEF ControlTypeOK, Close, RequestKill, kill, loss, flows, setting
<1>3. ASSUME NEW p \in Procs, NEW s \in Snapshots, NEW i \in Intents, EvaluateOrder(p, s, i)
      PROVE  ControlTypeOK'
  <2>1. Reserve(i) \in [OrderIds -> Rows]
    BY ReserveTyped
  <2>2. NextBreaker(held[p], s, s.flow).session \in Nat
    BY ObservedSession
  <2>3. CASE Distrust
    BY <1>3, <2>3 DEF ControlTypeOK, EvaluateOrder, Distrust, kill, loss, flows, setting
  <2>4. CASE /\ RecordEquity(held[p], s, s.flow)
             /\ pending' = IF Admitted(held[p], s, i) THEN Reserve(i) ELSE pending
             /\ UNCHANGED reconHalt
    <3>1. breaker'.session \in Nat /\ dailyHalt' \in Nat /\ rollingHalt' \in BOOLEAN
      BY <2>2, <2>4 DEF RecordEquity, ControlTypeOK
    <3>2. pending' \in [OrderIds -> Rows]
      BY <2>1, <2>4 DEF ControlTypeOK
    <3>3. UNCHANGED <<setting, kill, flows, clock, reconHalt>>
      BY <1>3, <2>4 DEF EvaluateOrder
    <3>4. QED
      BY <3>1, <3>2, <3>3 DEF ControlTypeOK, kill, flows, setting
  <2>5. QED
    BY <1>3, <2>3, <2>4 DEF EvaluateOrder
<1>4. ASSUME NEW p \in Procs, NEW s \in Snapshots, NEW i \in Intents,
             OperatorOverrideReduce(p, s, i)
      PROVE  ControlTypeOK'
  <2>1. Reserve(i) \in [OrderIds -> Rows]
    BY ReserveTyped
  <2>2. QED
    BY <1>4, <2>1 DEF ControlTypeOK, OperatorOverrideReduce, Distrust, kill, loss, flows, setting
<1>5. ASSUME NEW p \in Procs, NEW s \in Snapshots, ObserveEquity(p, s)
      PROVE  ControlTypeOK'
  <2>1. NextBreaker(held[p], s, s.flow).session \in Nat
    BY ObservedSession
  <2>2. CASE Distrust
    BY <1>5, <2>2 DEF ControlTypeOK, ObserveEquity, Distrust, kill, loss, flows, setting
  <2>3. CASE RecordEquity(held[p], s, s.flow) /\ UNCHANGED <<reconHalt, pending>>
    <3>1. breaker'.session \in Nat /\ dailyHalt' \in Nat /\ rollingHalt' \in BOOLEAN
      BY <2>1, <2>3 DEF RecordEquity, ControlTypeOK
    <3>2. QED
      BY <1>5, <2>3, <3>1 DEF ObserveEquity, ControlTypeOK, kill, flows, setting
  <2>4. QED
    BY <1>5, <2>2, <2>3 DEF ObserveEquity
<1>6. ASSUME NEW p \in Procs, NEW s \in Snapshots, ResetRollingHalt(p, s)
      PROVE  ControlTypeOK'
  <2>1. NextBreaker(held[p], s, s.flow).session \in Nat
    BY ObservedSession
  <2>2. breaker'.session \in Nat /\ dailyHalt' \in Nat /\ rollingHalt' \in BOOLEAN
    BY <1>6, <2>1 DEF ResetRollingHalt, ControlTypeOK
  <2>3. QED
    BY <1>6, <2>2 DEF ResetRollingHalt, ControlTypeOK, kill, flows, setting
<1>7. ASSUME NEW p \in Procs, NEW s \in Snapshots, ClearReconciliationHalt(p, s)
      PROVE  ControlTypeOK'
  BY <1>7 DEF ControlTypeOK, ClearReconciliationHalt, kill, loss, flows, setting
<1>8. ASSUME NEW p \in Procs, NEW id \in ObservationIds, NEW s \in Snapshots,
             NEW batch \in Batches, ObserveEquityWithFlows(p, id, s, batch)
      PROVE  ControlTypeOK'
  <2> DEFINE net == NetFlow(journal, batch, s.at)
  <2>1. NextBreaker(held[p], s, net).session \in Nat
    BY ObservedSession
  <2>2. CASE Distrust /\ UNCHANGED flows
    BY <1>8, <2>2 DEF ControlTypeOK, ObserveEquityWithFlows, Distrust, kill, loss, flows, setting
  <2>3. CASE /\ quarantine' = (quarantine \/ Blocks(journal, batch, s.at))
             /\ RecordEquity(held[p], s, net)
             /\ flowSeen' = flowSeen \cup {id}
             /\ UNCHANGED <<reconHalt, pending>>
    <3>1. breaker'.session \in Nat /\ dailyHalt' \in Nat /\ rollingHalt' \in BOOLEAN
      BY <2>1, <2>3 DEF RecordEquity, ControlTypeOK
    <3>2. quarantine' \in BOOLEAN
      BY <2>3
    <3>3. QED
      BY <1>8, <2>3, <3>1, <3>2 DEF ObserveEquityWithFlows, ControlTypeOK, kill, setting
  <2>4. QED
    BY <1>8, <2>2, <2>3 DEF ObserveEquityWithFlows
<1>9. ASSUME NEW p \in Procs, NEW q \in KillQueries, ConfirmKill(p, q)
      PROVE  ControlTypeOK'
  BY <1>9 DEF ControlTypeOK, ConfirmKill, Confirms, kill, loss, flows, setting
<1>10. ASSUME NEW p \in Procs, NEW attested \in BOOLEAN, ResetKill(p, attested)
       PROVE  ControlTypeOK'
  BY <1>10 DEF ControlTypeOK, ResetKill, kill, loss, flows, setting
<1>11. ASSUME NEW p \in Procs, NEW id \in OrderIds, NEW terminal \in BOOLEAN,
              RecordOrderOutcome(p, id, terminal)
       PROVE  ControlTypeOK'
  <2>1. [pending EXCEPT ![id].terminal = terminal] \in [OrderIds -> Rows]
    BY DEF ControlTypeOK, Rows
  <2>2. QED
    BY <1>11, <2>1 DEF ControlTypeOK, RecordOrderOutcome, kill, loss, flows, setting
<1>12. CASE Tick
  BY <1>12 DEF ControlTypeOK, Tick, kill, loss, flows, setting
<1>13. CASE UNCHANGED vars
  BY <1>13 DEF ControlTypeOK, vars, kill, loss, flows, setting
<1>14. QED
  BY <1>1, <1>2, <1>3, <1>4, <1>5, <1>6, <1>7, <1>8, <1>9, <1>10, <1>11, <1>12, <1>13
     DEF Next

LEMMA ControlTypeInit == Init => ControlTypeOK
<1> SUFFICES ASSUME Init PROVE ControlTypeOK
  OBVIOUS
<1>1. NoRow \in Rows
  BY DEF NoRow, Rows
<1>2. Unobserved.session \in Nat
  BY DEF Unobserved, NoSession
<1>3. pending \in [OrderIds -> Rows]
  BY <1>1 DEF Init
<1>4. breaker.session \in Nat /\ dailyHalt \in Nat
  BY <1>2 DEF Init, NoSession
<1>5. held \in [Procs -> Configs \cup {NoConfig}]
  BY DEF Init
<1>6. QED
  BY <1>3, <1>4, <1>5 DEF Init, ControlTypeOK

\* The gate's durable control rows are well typed in every reachable state.
THEOREM ControlTypeCorrect == Spec => []ControlTypeOK
BY ControlTypeInit, ControlTypeStep, PTL DEF Spec

-----------------------------------------------------------------------------
(* ---- The kill switch and its log ---------------------------------------- *)
KillEntries ==
  [event: {"KILL_REQUESTED", "KILL_STATUS", "KILL_CONFIRMATION_REVOKED", "KILL_CONFIRMED",
           "KILL_RESET"},
   attested: BOOLEAN]

\* The stored confirmation is not enough to go by: the log has the entry it came
\* from, and nothing in the log has overtaken that entry yet.
SwitchInv ==
  /\ log \in Seq(KillEntries)
  /\ answer \in [Procs -> {NoAnswer} \cup KillQueries]
  /\ killConfirmed => \E m \in 1..Len(log) : InForce(m, Len(log) + 1)
  /\ ResetsAreJustified

\* The log is only ever added to.
LEMMA LogGrows ==
  ASSUME log \in Seq(KillEntries), NEW entries \in Seq(KillEntries), Log(entries)
  PROVE  /\ log' \in Seq(KillEntries) /\ Len(log') = Len(log) + Len(entries)
         /\ \A k \in 1..Len(log) : log'[k] = log[k]
         /\ \A k \in 1..Len(entries) : log'[Len(log) + k] = entries[k]
BY DEF Log

\* What the log says of its entries so far, it goes on saying.
LEMMA OldEntries ==
  ASSUME SwitchInv, NEW entries \in Seq(KillEntries), Log(entries)
  PROVE  /\ \A n \in 1..(Len(log) + 1) : \A m \in 1..(n - 1) : InForce(m, n) => InForce(m, n)'
         /\ \A n \in 1..Len(log) : RestsOnConfirmation(n)' => \E m \in 1..(n - 1) : InForce(m, n)'
<1>1. Len(log) \in Nat /\ DOMAIN log = 1..Len(log)
  BY DEF SwitchInv
<1>2. \A k \in 1..Len(log) : log'[k] = log[k]
  BY LogGrows DEF SwitchInv
<1>3. ASSUME NEW n \in 1..(Len(log) + 1), NEW m \in 1..(n - 1), InForce(m, n)
      PROVE  InForce(m, n)'
  <2>1. m \in 1..Len(log) /\ \A k \in (m + 1)..(n - 1) : k \in 1..Len(log)
    BY <1>1, <1>3
  <2>2. QED
    BY <1>2, <1>3, <2>1 DEF InForce, Overtakes
<1>4. ASSUME NEW n \in 1..Len(log), RestsOnConfirmation(n)'
      PROVE  \E m \in 1..(n - 1) : InForce(m, n)'
  <2>1. RestsOnConfirmation(n)
    BY <1>2, <1>4 DEF RestsOnConfirmation
  <2>2. PICK m \in 1..(n - 1) : InForce(m, n)
    BY <1>1, <2>1 DEF SwitchInv, ResetsAreJustified
  <2>3. n \in 1..(Len(log) + 1)
    BY <1>1
  <2>4. QED
    BY <1>3, <2>2, <2>3
<1>5. QED
  BY <1>3, <1>4

\* Entries that are no reset on a confirmation need no justification.
LEMMA OtherEntries ==
  ASSUME SwitchInv, NEW entries \in Seq(KillEntries), Log(entries),
         \A k \in 1..Len(entries) : entries[k].event # "KILL_RESET"
  PROVE  ResetsAreJustified'
<1>1. /\ Len(log) \in Nat /\ Len(entries) \in Nat /\ DOMAIN log' = 1..(Len(log) + Len(entries))
      /\ \A k \in 1..Len(entries) : log'[Len(log) + k] = entries[k]
  <2>1. log \in Seq(KillEntries)
    BY DEF SwitchInv
  <2>2. /\ log' \in Seq(KillEntries) /\ Len(log') = Len(log) + Len(entries)
        /\ \A k \in 1..Len(entries) : log'[Len(log) + k] = entries[k]
    BY <2>1, LogGrows
  <2>3. Len(log) \in Nat /\ Len(entries) \in Nat /\ DOMAIN log' = 1..Len(log')
    BY <2>1, <2>2
  <2>4. QED
    BY <2>2, <2>3
<1>2. ASSUME NEW n \in DOMAIN log', RestsOnConfirmation(n)'
      PROVE  n \in 1..Len(log)
  <2>1. CASE n > Len(log)
    <3>1. n - Len(log) \in 1..Len(entries) /\ n = Len(log) + (n - Len(log))
      BY <1>1, <2>1
    <3>2. log'[n] = entries[n - Len(log)]
      BY <1>1, <3>1
    <3>3. QED
      BY <1>2, <3>1, <3>2 DEF RestsOnConfirmation
  <2>2. QED
    BY <1>1, <2>1
<1>3. QED
  BY <1>2, OldEntries DEF ResetsAreJustified

\* One entry is written.
LEMMA LogOne ==
  ASSUME log \in Seq(KillEntries), NEW e \in KillEntries, Log(<<e>>)
  PROVE  /\ \E entries \in Seq(KillEntries) : /\ Log(entries) /\ Len(entries) = 1
                                             /\ entries[1] = e
         /\ log' \in Seq(KillEntries)
         /\ Len(log') = Len(log) + 1 /\ log'[Len(log) + 1] = e
<1> DEFINE entries == <<e>>
<1>1. entries \in Seq(KillEntries) /\ Len(entries) = 1 /\ entries[1] = e /\ Log(entries)
  OBVIOUS
<1> HIDE DEF entries
<1>2. Len(log) \in Nat /\ 1 \in 1..Len(entries)
  BY <1>1
<1>3. QED
  BY <1>1, <1>2, LogGrows

LEMMA SwitchStep == SwitchInv /\ [SwitchNext]_switchVars => SwitchInv'
<1> SUFFICES ASSUME SwitchInv, [SwitchNext]_switchVars PROVE SwitchInv'
  OBVIOUS
<1> USE DEF KillEntries
<1>1. Len(log) \in Nat
  BY DEF SwitchInv
<1>2. CASE UNCHANGED <<log, answer, killConfirmed>>
  BY <1>2 DEF SwitchInv, InForce, Overtakes, ResetsAreJustified, RestsOnConfirmation
<1>3. ASSUME NEW p \in Procs, AskBroker(p)
      PROVE  SwitchInv'
  <2>1. PICK q \in Answers : answer' = [answer EXCEPT ![p] = q]
    BY <1>3 DEF AskBroker
  <2>2. answer' \in [Procs -> {NoAnswer} \cup KillQueries]
    BY <1>1, <2>1, KillSwitchAssumption DEF SwitchInv
  <2>3. UNCHANGED <<log, killConfirmed>>
    BY <1>3 DEF AskBroker, vars, kill
  <2>4. QED
    BY <2>2, <2>3 DEF SwitchInv, InForce, Overtakes, ResetsAreJustified, RestsOnConfirmation
<1>4. ASSUME NEW p \in Procs, RequestSwitch(p)
      PROVE  SwitchInv'
  <2> DEFINE entries == <<Plain("KILL_REQUESTED")>>
  <2>1. entries \in Seq(KillEntries) /\ \A k \in 1..Len(entries) : entries[k].event # "KILL_RESET"
    BY DEF Plain, Entry
  <2>2. Log(entries) /\ killConfirmed' = FALSE /\ answer' = answer
    BY <1>4 DEF RequestSwitch, RequestKill
  <2> HIDE DEF entries
  <2>3. log' \in Seq(KillEntries)
    BY <2>1, <2>2, LogGrows DEF SwitchInv
  <2>4. QED
    BY <2>1, <2>2, <2>3, OtherEntries DEF SwitchInv
<1>5. ASSUME NEW p \in Procs, HandIn(p)
      PROVE  SwitchInv'
  <2>1. PICK q : q = answer[p]
    OBVIOUS
  <2>2. answer' = answer /\ killConfirmed' = Confirms(q)
    BY <1>5, <2>1 DEF HandIn, ConfirmKill
  <2>3. CASE Confirms(q)
    <3> DEFINE e == Plain("KILL_CONFIRMED")
    <3>1. e \in KillEntries /\ e.event = "KILL_CONFIRMED"
      BY DEF Plain, Entry
    <3>2. Log(<<e>>)
      BY <1>5, <2>1, <2>3 DEF HandIn
    <3> HIDE DEF e
    <3>3. log' \in Seq(KillEntries) /\ Len(log') = Len(log) + 1 /\ log'[Len(log) + 1] = e
      BY <3>1, <3>2, LogOne DEF SwitchInv
    <3>4. PICK entries \in Seq(KillEntries) :
            Log(entries) /\ Len(entries) = 1 /\ entries[1] = e
      BY <3>1, <3>2, LogOne DEF SwitchInv
    <3>5. ResetsAreJustified'
      <4>1. \A k \in 1..Len(entries) : entries[k].event # "KILL_RESET"
        BY <3>1, <3>4
      <4>2. QED
        BY <3>4, <4>1, OtherEntries
    <3>6. (\E m \in 1..Len(log) : InForce(m, Len(log) + 1))'
      BY <1>1, <3>1, <3>3 DEF InForce
    <3>7. QED
      BY <2>2, <3>3, <3>5, <3>6 DEF SwitchInv
  <2>4. CASE ~Confirms(q)
    <3>1. PICK a, b : a = Plain("KILL_STATUS") /\ b = Plain("KILL_CONFIRMATION_REVOKED")
      OBVIOUS
    <3>2. PICK entries \in Seq(KillEntries) :
            Log(entries) /\ \A k \in 1..Len(entries) : entries[k].event # "KILL_RESET"
      <4>1. /\ a \in KillEntries /\ a.event # "KILL_RESET"
            /\ b \in KillEntries /\ b.event # "KILL_RESET"
        BY <3>1 DEF Plain, Entry
      <4>2. Log(<<a>>) \/ Log(<<a, b>>)
        BY <1>5, <2>1, <2>4, <3>1 DEF HandIn
      <4> HIDE DEF KillEntries
      <4>3. <<a>> \in Seq(KillEntries) /\ \A k \in 1..Len(<<a>>) : <<a>>[k].event # "KILL_RESET"
        BY <4>1
      <4>4. <<a, b>> \in Seq(KillEntries)
            /\ \A k \in 1..Len(<<a, b>>) : <<a, b>>[k].event # "KILL_RESET"
        BY <4>1
      <4>5. QED
        BY <4>2, <4>3, <4>4, Zenon
    <3>3. log' \in Seq(KillEntries)
      BY <3>2, LogGrows DEF SwitchInv
    <3>4. QED
      BY <2>2, <2>4, <3>2, <3>3, OtherEntries DEF SwitchInv
  <2>5. QED
    BY <2>3, <2>4
<1>6. ASSUME NEW p \in Procs, NEW attested \in BOOLEAN, ResetSwitch(p, attested)
      PROVE  SwitchInv'
  <2> DEFINE e == Entry("KILL_RESET", attested)
  <2>1. e \in KillEntries /\ e.event = "KILL_RESET" /\ e.attested = attested
    BY DEF Entry
  <2>2. /\ Log(<<e>>) /\ killConfirmed' = FALSE /\ answer' = answer
        /\ killConfirmed \/ attested
    BY <1>6 DEF ResetSwitch, ResetKill
  <2> HIDE DEF e
  <2>3. log' \in Seq(KillEntries) /\ Len(log') = Len(log) + 1 /\ log'[Len(log) + 1] = e
    BY <2>1, <2>2, LogOne DEF SwitchInv
  <2>4. PICK entries \in Seq(KillEntries) : Log(entries)
    BY <2>1, <2>2, LogOne DEF SwitchInv
  <2>5. PICK n : n = Len(log) + 1
    OBVIOUS
  <2>6. RestsOnConfirmation(n)' => \E m \in 1..(n - 1) : InForce(m, n)'
    <3>1. SUFFICES ASSUME RestsOnConfirmation(n)' PROVE \E m \in 1..(n - 1) : InForce(m, n)'
      OBVIOUS
    <3>2. ~attested
      BY <2>1, <2>3, <2>5, <3>1 DEF RestsOnConfirmation
    <3>3. PICK m \in 1..Len(log) : InForce(m, Len(log) + 1)
      BY <2>2, <3>2 DEF SwitchInv
    <3>4. InForce(m, n) /\ n \in 1..(Len(log) + 1) /\ m \in 1..(n - 1)
      BY <1>1, <2>5, <3>3
    <3>5. QED
      BY <2>4, <3>4, OldEntries
  <2>7. \A k \in DOMAIN log' : k \in 1..Len(log) \/ k = n
    BY <1>1, <2>3, <2>5
  <2>8. ResetsAreJustified'
    BY <2>4, <2>6, <2>7, OldEntries DEF ResetsAreJustified
  <2>9. QED
    BY <2>2, <2>3, <2>8 DEF SwitchInv
<1>7. ASSUME NEW p \in Procs, (\E c \in Configs : OpenGate(p, c)) \/ CloseGate(p)
      PROVE  UNCHANGED <<log, answer, killConfirmed>>
  BY <1>7 DEF OpenGate, CloseGate, Open, Close, kill
<1>8. CASE UNCHANGED switchVars
  BY <1>2, <1>8 DEF switchVars, vars, kill
<1>9. QED
  BY <1>2, <1>3, <1>4, <1>5, <1>6, <1>7, <1>8 DEF SwitchNext

\* However many operators ask, request, hand in late answers and reset, in whichever
\* order: a kill is reset without an attestation only on a confirmation that the log
\* has, and that nothing logged since overtook.
THEOREM ResetsAreJustifiedCorrect == SwitchSpec => []ResetsAreJustified
<1>1. SwitchInit => SwitchInv
  <2>1. ASSUME SwitchInit PROVE SwitchInv
    <3>1. log = <<>> /\ answer = [p \in Procs |-> NoAnswer] /\ killConfirmed = FALSE
      BY <2>1 DEF SwitchInit, Init
    <3>2. QED
      BY <3>1 DEF SwitchInv, ResetsAreJustified
  <2>2. QED
    BY <2>1
<1>2. SwitchInv => ResetsAreJustified
  BY DEF SwitchInv
<1>3. QED
  BY <1>1, <1>2, SwitchStep, PTL DEF SwitchSpec

-----------------------------------------------------------------------------
\* Who writes the reservation table: an order evaluation that admits, an
\* operator override, or an order outcome.
LEMMA PendingWriters ==
  ASSUME [Next]_vars, pending' # pending
  PROVE  \/ \E p \in Procs, s \in Snapshots, i \in Intents :
              /\ Admitted(held[p], s, i)
              /\ RecordEquity(held[p], s, s.flow)
              /\ pending' = Reserve(i)
              /\ UNCHANGED <<kill, reconHalt, flows>>
         \/ \E i \in Intents : ReduceOnly(i) /\ Unused(i.id) /\ pending' = Reserve(i)
         \/ \E id \in OrderIds, terminal \in BOOLEAN :
              pending[id] # NoRow /\ pending' = [pending EXCEPT ![id].terminal = terminal]
<1>1. CASE \E p \in Procs, s \in Snapshots, i \in Intents : EvaluateOrder(p, s, i)
  BY <1>1 DEF EvaluateOrder, Distrust
<1>2. CASE \E p \in Procs, s \in Snapshots, i \in Intents : OperatorOverrideReduce(p, s, i)
  BY <1>2 DEF OperatorOverrideReduce, Distrust
<1>3. CASE \E p \in Procs, id \in OrderIds, terminal \in BOOLEAN :
             RecordOrderOutcome(p, id, terminal)
  BY <1>3 DEF RecordOrderOutcome
<1>4. QED
  BY <1>1, <1>2, <1>3
  DEF Next, vars, Open, Close, AdoptNewConfig, RequestKill, ObserveEquity, ResetRollingHalt,
      ClearReconciliationHalt, ObserveEquityWithFlows, Distrust, ConfirmKill, ResetKill, Tick

Clear ==
  /\ ~killLatched /\ ~reconHalt /\ ~quarantine
  /\ ~rollingHalt'
  /\ dailyHalt' # breaker'.session

LEMMA AddsStep ==
  ASSUME ControlTypeOK, [Next]_vars, NEW id \in OrderIds, Added(id)
  PROVE  Clear
<1>1. pending \in [OrderIds -> Rows] /\ pending' # pending
  BY DEF Added, ControlTypeOK
<1>2. ASSUME NEW i \in Intents, pending' = Reserve(i)
      PROVE  ~ReduceOnly(i)
  <2>1. id = i.id
    BY <1>1, <1>2 DEF Reserve, Added
  <2>2. pending'[id].quantity = i.delta
    BY <1>1, <1>2, <2>1 DEF Reserve
  <2>3. QED
    BY <1>1, <2>2, GateAssumption DEF Added, ReduceOnly
<1>3. ASSUME NEW p \in Procs, NEW s \in Snapshots, NEW i \in Intents,
             Admitted(held[p], s, i), pending' = Reserve(i)
      PROVE  Clear
  BY <1>2, <1>3 DEF Admitted, AddsPermitted, Clear
<1>4. ASSUME NEW i \in Intents, ReduceOnly(i), pending' = Reserve(i)
      PROVE  FALSE
  BY <1>2, <1>4
<1>5. ASSUME NEW o \in OrderIds, NEW terminal \in BOOLEAN, pending[o] # NoRow,
             pending' = [pending EXCEPT ![o].terminal = terminal]
      PROVE  FALSE
  BY <1>1, <1>5 DEF Added
<1>6. QED
  BY <1>1, <1>3, <1>4, <1>5, PendingWriters

\* An add is never reserved under a latch, nor on the observation that sets one.
THEOREM AddsOnlyWhenClearCorrect == Spec => AddsOnlyWhenClear
<1>1. ControlTypeOK /\ [Next]_vars => [(\E id \in OrderIds : Added(id)) => Clear]_vars
  BY AddsStep
<1>2. QED
  BY <1>1, ControlTypeCorrect, PTL DEF Spec, AddsOnlyWhenClear, Clear

\* A reservation row is written once: no later call of any process replaces
\* the order a client id was reserved for.
THEOREM IdsAreNeverReusedCorrect == Spec => IdsAreNeverReused
<1> DEFINE Kept(id) == /\ pending'[id].instrument = pending[id].instrument
                       /\ pending'[id].quantity = pending[id].quantity
<1>1. ASSUME ControlTypeOK, [Next]_vars, NEW id \in OrderIds, pending[id] # NoRow
      PROVE  Kept(id)
  <2>1. pending \in [OrderIds -> Rows]
    BY <1>1 DEF ControlTypeOK
  <2>2. ASSUME NEW i \in Intents, Unused(i.id), pending' = Reserve(i)
        PROVE  Kept(id)
    BY <1>1, <2>1, <2>2 DEF Unused, Reserve
  <2>3. ASSUME NEW o \in OrderIds, NEW terminal \in BOOLEAN,
               pending' = [pending EXCEPT ![o].terminal = terminal]
        PROVE  Kept(id)
    BY <2>1, <2>3 DEF Rows
  <2>4. CASE pending' = pending
    BY <2>4
  <2>5. CASE pending' # pending
    BY <1>1, <2>2, <2>3, <2>5, PendingWriters DEF Admitted
  <2>6. QED
    BY <2>4, <2>5
<1>2. ControlTypeOK /\ [Next]_vars =>
        [\A id \in OrderIds : pending[id] # NoRow => Kept(id)]_vars
  BY <1>1
<1>3. QED
  BY <1>2, ControlTypeCorrect, PTL DEF Spec, IdsAreNeverReused

-----------------------------------------------------------------------------
\* Who writes the journal and the quarantine flag: a cash-flow observation.
LEMMA JournalWriters ==
  ASSUME [Next]_vars, <<journal, quarantine>>' # <<journal, quarantine>>
  PROVE  \E s \in Snapshots, batch \in Batches :
           /\ journal' = Reconciled(journal, batch, s.at)
           /\ quarantine' = (quarantine \/ Blocks(journal, batch, s.at))
<1>1. CASE \E p \in Procs, id \in ObservationIds, s \in Snapshots, batch \in Batches :
             ObserveEquityWithFlows(p, id, s, batch)
  BY <1>1 DEF ObserveEquityWithFlows, flows
<1>2. QED
  BY <1>1
  DEF Next, vars, flows, Open, Close, AdoptNewConfig, RequestKill, EvaluateOrder,
      OperatorOverrideReduce, ObserveEquity, ResetRollingHalt, ClearReconciliationHalt,
      ConfirmKill, ResetKill, RecordOrderOutcome, Tick

\* The quarantine flag of the gate is the blocked latch of the journal.
THEOREM QuarantineCorrect == Spec => []QuarantineIsJournals
<1>1. Init => QuarantineIsJournals
  BY DEF Init, QuarantineIsJournals, EmptyJournal
<1>2. ASSUME QuarantineIsJournals, [Next]_vars PROVE QuarantineIsJournals'
  <2>1. CASE UNCHANGED <<journal, quarantine>>
    BY <1>2, <2>1 DEF QuarantineIsJournals
  <2>2. ASSUME NEW s \in Snapshots, NEW batch \in Batches,
               journal' = Reconciled(journal, batch, s.at),
               quarantine' = (quarantine \/ Blocks(journal, batch, s.at))
        PROVE  QuarantineIsJournals'
    BY <1>2, <2>2 DEF QuarantineIsJournals, Reconciled, Blocks
  <2>3. QED
    BY <1>2, <2>1, <2>2, JournalWriters
<1>3. QED
  BY <1>1, <1>2, PTL DEF Spec

\* Reconciling any batch keeps an applied transfer applied, with its amount.
LEMMA ReconcileKeepsApplied ==
  \A j, batch, asOf : \A t \in Transfers : j.entries[t].applied = TRUE =>
    /\ Reconciled(j, batch, asOf).entries[t].applied = TRUE
    /\ Reconciled(j, batch, asOf).entries[t].amount = j.entries[t].amount
<1> SUFFICES ASSUME NEW j, NEW batch, NEW asOf, NEW t \in Transfers, j.entries[t].applied = TRUE
             PROVE  /\ Reconciled(j, batch, asOf).entries[t].applied = TRUE
                    /\ Reconciled(j, batch, asOf).entries[t].amount = j.entries[t].amount
  OBVIOUS
<1> DEFINE entry == j.entries[t]
           events == {e \in batch : e.id = t}
<1>1. CASE Blocks(j, batch, asOf)
  BY <1>1 DEF Reconciled
<1>2. CASE ~Blocks(j, batch, asOf) /\ events = {}
  BY <1>2 DEF Reconciled, Settle
<1>3. CASE ~Blocks(j, batch, asOf) /\ events # {}
  <2> DEFINE e == CHOOSE e \in events : TRUE
  <2>1. e \in batch /\ e.id = t
    BY <1>3
  <2>2. entry # NoEntry
    BY DEF NoEntry
  <2>3. ~Conflicts(j, batch, asOf, e)
    BY <1>3, <2>1 DEF Blocks, Quarantined
  <2>4. entry.amount = e.amount
    BY <2>1, <2>2, <2>3 DEF Conflicts, SameIdentity
  <2>5. /\ Settle(entry, events).applied = TRUE
        /\ Settle(entry, events).amount = e.amount
    BY <1>3 DEF Settle
  <2>6. Reconciled(j, batch, asOf).entries[t] = Settle(entry, events)
    BY <1>3 DEF Reconciled
  <2>7. QED
    BY <2>4, <2>5, <2>6
<1>4. QED
  BY <1>1, <1>2, <1>3

\* Every transfer is marked applied or not applied.
JournalMarks == \A t \in Transfers : journal.entries[t].applied \in BOOLEAN

LEMMA JournalMarksStep == JournalMarks /\ [Next]_vars => JournalMarks'
<1> SUFFICES ASSUME JournalMarks, [Next]_vars PROVE JournalMarks'
  OBVIOUS
<1>1. CASE UNCHANGED <<journal, quarantine>>
  BY <1>1 DEF JournalMarks
<1>2. ASSUME NEW s \in Snapshots, NEW batch \in Batches,
             journal' = Reconciled(journal, batch, s.at)
      PROVE  JournalMarks'
  <2>1. ASSUME NEW t \in Transfers PROVE journal'.entries[t].applied \in BOOLEAN
    <3>1. CASE Blocks(journal, batch, s.at)
      BY <1>2, <3>1 DEF Reconciled, JournalMarks
    <3>2. CASE ~Blocks(journal, batch, s.at)
      <4> DEFINE events == {e \in batch : e.id = t}
      <4>1. journal'.entries[t] = Settle(journal.entries[t], events)
        BY <1>2, <3>2 DEF Reconciled
      <4>2. Settle(journal.entries[t], events).applied \in BOOLEAN
        BY DEF Settle, JournalMarks
      <4>3. QED
        BY <4>1, <4>2
    <3>3. QED
      BY <3>1, <3>2
  <2>2. QED
    BY <2>1 DEF JournalMarks
<1>3. QED
  BY <1>1, <1>2, JournalWriters

\* A transfer's money is never withdrawn from, nor changed in, the boundary.
THEOREM AppliedForeverCorrect == Spec => AppliedForever
<1> DEFINE Kept(t) == /\ journal'.entries[t].applied
                      /\ journal'.entries[t].amount = journal.entries[t].amount
<1>1. ASSUME Init PROVE JournalMarks
  <2>1. ASSUME NEW t \in Transfers PROVE journal.entries[t] = NoEntry
    BY <1>1, <2>1 DEF Init, EmptyJournal
  <2>2. NoEntry.applied \in BOOLEAN
    BY DEF NoEntry
  <2>3. QED
    BY <2>1, <2>2 DEF JournalMarks
<1>2. ASSUME JournalMarks, [Next]_vars, NEW t \in Transfers, journal.entries[t].applied
      PROVE  Kept(t)
  <2>1. journal.entries[t].applied = TRUE
    BY <1>2 DEF JournalMarks
  <2>2. CASE UNCHANGED <<journal, quarantine>>
    <3>1. journal' = journal
      BY <2>2
    <3>2. QED
      BY <1>2, <3>1, Zenon
  <2>3. ASSUME NEW s \in Snapshots, NEW batch \in Batches,
               journal' = Reconciled(journal, batch, s.at)
        PROVE  Kept(t)
    <3>1. /\ Reconciled(journal, batch, s.at).entries[t].applied = TRUE
          /\ Reconciled(journal, batch, s.at).entries[t].amount = journal.entries[t].amount
      BY <2>1, ReconcileKeepsApplied
    <3>2. QED
      BY <2>3, <3>1, Zenon
  <2>4. QED
    BY <1>2, <2>2, <2>3, JournalWriters
<1>3. JournalMarks /\ [Next]_vars =>
        [\A t \in Transfers : journal.entries[t].applied => Kept(t)]_vars
  BY <1>2
<1>4. QED
  BY <1>1, <1>3, JournalMarksStep, PTL DEF Spec, AppliedForever

-----------------------------------------------------------------------------
(* ---- The loss breaker -------------------------------------------------- *)

\* An observation moves the series and latches what it breaches.
Observes(cfg, s, flow) ==
  /\ breaker' = NextBreaker(cfg, s, flow)
  /\ dailyHalt' = IF DailyBreach(breaker', cfg) THEN breaker'.session ELSE dailyHalt
  /\ Measurable(breaker')
  /\ RollingBreach(breaker', cfg) => rollingHalt'

\* Where the flow of an observation comes from: the snapshot, which is no
\* order's business once there is a journal, or a batch for the journal.
Attributed(s, flow) ==
  \/ flow = s.flow /\ journal' = journal
  \/ \E batch \in Batches : /\ flow = NetFlow(journal, batch, s.at)
                            /\ journal' = Reconciled(journal, batch, s.at)

LEMMA BreakerWriters ==
  ASSUME [Next]_vars, <<breaker, dailyHalt, journal>>' # <<breaker, dailyHalt, journal>>
  PROVE  \E p, s, flow :
           /\ p \in Procs /\ s \in Snapshots
           /\ Running(p) /\ Trusted(held[p], s)
           /\ Observes(held[p], s, flow) /\ Attributed(s, flow)
           /\ UNCHANGED setting
<1>1. ASSUME NEW p \in Procs, NEW s \in Snapshots, NEW i \in Intents, EvaluateOrder(p, s, i)
      PROVE  /\ Running(p) /\ Trusted(held[p], s)
             /\ Observes(held[p], s, s.flow) /\ Attributed(s, s.flow)
             /\ UNCHANGED setting
  BY <1>1 DEF EvaluateOrder, Distrust, RecordEquity, Observes, Attributed, flows, loss
<1>2. ASSUME NEW p \in Procs, NEW s \in Snapshots, ObserveEquity(p, s) \/ ResetRollingHalt(p, s)
      PROVE  /\ Running(p) /\ Trusted(held[p], s)
             /\ Observes(held[p], s, s.flow) /\ Attributed(s, s.flow)
             /\ UNCHANGED setting
  BY <1>2 DEF ObserveEquity, ResetRollingHalt, Distrust, RecordEquity, Observes, Attributed,
              flows, loss
<1>3. ASSUME NEW p \in Procs, NEW id \in ObservationIds, NEW s \in Snapshots,
             NEW batch \in Batches, ObserveEquityWithFlows(p, id, s, batch)
      PROVE  /\ Running(p) /\ Trusted(held[p], s)
             /\ Observes(held[p], s, NetFlow(journal, batch, s.at))
             /\ Attributed(s, NetFlow(journal, batch, s.at))
             /\ UNCHANGED setting
  BY <1>3 DEF ObserveEquityWithFlows, Distrust, RecordEquity, Observes, Attributed,
              flows, loss
<1>4. QED
  BY <1>1, <1>2, <1>3
  DEF Next, vars, Open, Close, AdoptNewConfig, RequestKill, ClearReconciliationHalt,
      ConfirmKill, ResetKill, RecordOrderOutcome, OperatorOverrideReduce, Distrust, Tick, loss, flows

\* Spec 032, reset behaviour: whatever is observed, reset or adopted, a daily halt holds
\* for its day, and with it the ban on adds (a snapshot of an earlier day apart).
THEOREM HaltLastsTheDayCorrect == Spec => HaltLastsTheDay
<1> DEFINE Premise == /\ dailyHalt = Day(clock)
                      /\ Day(clock') = Day(clock)
                      /\ breaker'.session = Day(clock)
           Lasts == dailyHalt' = dailyHalt /\ ~\E id \in OrderIds : Added(id)
<1>1. ASSUME ControlTypeOK, [Next]_vars, Premise
      PROVE  Lasts
  <2>1. dailyHalt' = dailyHalt
    BY <1>1, BreakerWriters DEF Observes
  <2>2. ASSUME NEW id \in OrderIds, Added(id) PROVE FALSE
    BY <1>1, <2>1, <2>2, AddsStep DEF Clear
  <2>3. QED
    BY <2>1, <2>2
<1>2. ControlTypeOK /\ [Next]_vars => [Premise => Lasts]_vars
  BY <1>1
<1>3. QED
  BY <1>2, ControlTypeCorrect, PTL DEF Spec, HaltLastsTheDay

-----------------------------------------------------------------------------
(* ---- The series and its limits ----------------------------------------- *)

Series == [session: Nat, dayStart: Int, adjusted: Int, raw: Int, high: Int, closes: Seq(Int)]

LEMMA HighWaterType ==
  ASSUME NEW b \in Series
  PROVE  /\ HighWater(b) \in Int /\ b.high <= HighWater(b)
         /\ \A i \in DOMAIN b.closes : b.closes[i] <= HighWater(b)
<1> DEFINE C == {b.closes[i] : i \in DOMAIN b.closes}
           S == {b.high} \cup C
<1>1. DOMAIN b.closes = 1..Len(b.closes) /\ Len(b.closes) \in Nat
  BY DEF Series
<1>2. IsFiniteSet(1..Len(b.closes))
  BY <1>1, FS_Interval
<1>3. IsFiniteSet(C)
  <2> DEFINE f == [i \in 1..Len(b.closes) |-> b.closes[i]]
  <2>1. f \in Surjection(1..Len(b.closes), C)
    <3>1. f \in [1..Len(b.closes) -> C]
      BY <1>1
    <3>2. \A c \in C : \E i \in 1..Len(b.closes) : f[i] = c
      BY <1>1
    <3> HIDE DEF f, C
    <3>3. QED
      BY <3>1, <3>2 DEF Surjection
  <2> HIDE DEF f, C
  <2>2. QED
    BY <1>2, <2>1, FS_Surjection
<1>4. IsFiniteSet(S) /\ S # {}
  BY <1>3, FS_AddElement
<1>5. S \subseteq Int
  BY <1>1 DEF Series
<1> HIDE DEF S
<1>6. Max(S) \in S /\ \A x \in S : x <= Max(S)
  BY <1>4, <1>5, MaxOfFinite
<1> USE DEF S
<1>7. HighWater(b) = Max(S)
  BY DEF HighWater
<1>8. QED
  BY <1>5, <1>6, <1>7

LEMMA PushCloseType ==
  ASSUME NEW closes \in Seq(Int), NEW close \in Int, NEW window \in Nat \ {0}
  PROVE  PushClose(closes, close, window) \in Seq(Int)
<1> DEFINE seq == Append(closes, close)
<1>1. seq \in Seq(Int) /\ Len(seq) \in Nat /\ Len(seq) = Len(closes) + 1
  OBVIOUS
<1> HIDE DEF seq
<1>2. CASE Len(seq) > window
  <2>1. Len(seq) - window + 1 \in 1..Len(seq) + 1
    BY <1>1, <1>2
  <2>2. SubSeq(seq, Len(seq) - window + 1, Len(seq)) \in Seq(Int)
    BY <1>1, <2>1, SubSeqProperties
  <2>3. QED
    BY <1>2, <2>2 DEF PushClose, seq
<1>3. CASE ~(Len(seq) > window)
  BY <1>1, <1>3 DEF PushClose, seq
<1>4. QED
  BY <1>2, <1>3

LEMMA ObservedType ==
  ASSUME NEW b \in Series, NEW day \in Nat, NEW equity \in Int, NEW flow \in Int,
         NEW window \in Nat \ {0}
  PROVE  /\ Observed(b, day, equity, flow, window) \in Series
         /\ Observed(b, day, equity, flow, window).session = day
<1> DEFINE level == b.adjusted + (equity - b.raw) - flow
<1>1. b.session \in Nat /\ b.dayStart \in Int /\ b.high \in Int /\ b.adjusted \in Int
      /\ b.closes \in Seq(Int) /\ level \in Int
  BY DEF Series
<1> HIDE DEF level
<1>2. CASE b.session = NoSession
  BY <1>2, EmptySeq DEF Observed, Series
<1>3. CASE b.session # NoSession /\ day # b.session
  <2>1. PushClose(b.closes, b.adjusted, window) \in Seq(Int)
    BY <1>1, PushCloseType
  <2>2. QED
    BY <1>1, <1>3, <2>1 DEF Observed, Series, level
<1>4. CASE b.session # NoSession /\ day = b.session
  <2> DEFINE S == {b.high, level}
  <2>1. IsFiniteSet({b.high} \cup {level}) /\ S = {b.high} \cup {level}
    BY FS_Singleton, FS_AddElement
  <2>2. Max(S) \in Int
    <3>1. S \subseteq Int /\ S # {} /\ IsFiniteSet(S)
      BY <1>1, <2>1
    <3> HIDE DEF S
    <3>2. QED
      BY <3>1, MaxOfFinite
  <2>3. QED
    BY <1>1, <1>4, <2>2 DEF Observed, Series, level
<1>5. QED
  BY <1>2, <1>3, <1>4

\* A transfer is applied when it is settled, and then only.
Booked == \A t \in Transfers :
  /\ journal.entries[t].applied \in BOOLEAN /\ journal.entries[t].amount \in Int
  /\ journal.entries[t].applied <=> journal.entries[t].status = "settled"

BreakerInv == ControlTypeOK /\ breaker \in Series /\ Booked

\* Events of one transfer in an accepted batch say the same of it.
LEMMA EventsAgree ==
  ASSUME NEW j, NEW batch \in Batches, NEW asOf, ~Blocks(j, batch, asOf), NEW t \in Transfers,
         NEW e \in batch, e.id = t
  PROVE  /\ (CHOOSE f \in batch : f.id = t) \in batch /\ (CHOOSE f \in batch : f.id = t).id = t
         /\ (CHOOSE f \in batch : f.id = t).amount = e.amount /\ e.amount \in Int
         /\ (CHOOSE f \in {f \in batch : f.id = t} : TRUE).amount = e.amount
<1> DEFINE one == CHOOSE f \in batch : f.id = t
           any == CHOOSE f \in {f \in batch : f.id = t} : TRUE
<1>1. one \in batch /\ one.id = t /\ any \in batch /\ any.id = t
  OBVIOUS
<1> HIDE DEF one, any
<1>2. \A f \in batch : Valid(f, asOf) /\ ~Conflicts(j, batch, asOf, f)
  BY DEF Blocks, Quarantined
<1>3. one.amount = e.amount /\ any.amount = e.amount
  BY <1>1, <1>2 DEF Conflicts, SameIdentity
<1>4. QED
  BY <1>1, <1>3, MoneyAssumption DEF one, any

\* What an accepted batch leaves of a transfer.
LEMMA BookedAfter ==
  ASSUME Booked, NEW batch \in Batches, NEW asOf, ~Blocks(journal, batch, asOf), NEW t \in Transfers
  PROVE  LET old == journal.entries[t]
             new == Reconciled(journal, batch, asOf).entries[t]
         IN  /\ new.applied \in BOOLEAN /\ new.amount \in Int
             /\ new.applied <=> new.status = "settled"
             /\ new.applied <=> old.applied \/ t \in Settling(journal, batch)
             /\ old.applied => new.amount = old.amount
             /\ t \in Settling(journal, batch) =>
                  ~old.applied /\ new.amount = (CHOOSE f \in batch : f.id = t).amount
<1> DEFINE old == journal.entries[t]
           events == {f \in batch : f.id = t}
           new == Settle(old, events)
<1>1. Reconciled(journal, batch, asOf).entries[t] = new
  BY DEF Reconciled
<1>2. old.applied \in BOOLEAN /\ old.amount \in Int /\ (old.applied <=> old.status = "settled")
  BY DEF Booked
<1>3. t \in Settling(journal, batch) <=> ~old.applied /\ \E e \in events : e.status = "settled"
  BY DEF Settling
<1>4. CASE events = {}
  BY <1>1, <1>2, <1>3, <1>4 DEF Settle
<1>5. CASE events # {}
  <2>1. PICK e \in events : TRUE
    BY <1>5
  <2>2. (CHOOSE f \in events : TRUE).amount = (CHOOSE f \in batch : f.id = t).amount
        /\ (CHOOSE f \in events : TRUE).amount \in Int
    BY <2>1, EventsAgree
  <2>3. new.amount = (CHOOSE f \in events : TRUE).amount
        /\ (new.applied <=> old.applied \/ \E f \in events : f.status = "settled")
        /\ new.applied \in BOOLEAN
        /\ (new.status = "settled" <=> old.status = "settled" \/ \E f \in events : f.status = "settled")
    BY <1>2, <1>5 DEF Settle
  <2>4. old.applied => new.amount = old.amount
    <3>1. old.applied = TRUE => Reconciled(journal, batch, asOf).entries[t].amount = old.amount
      BY ReconcileKeepsApplied
    <3>2. QED
      BY <1>1, <1>2, <3>1
  <2> HIDE DEF new, old, events
  <2>5. QED
    BY <1>1, <1>2, <1>3, <2>2, <2>3, <2>4 DEF old
<1>6. QED
  BY <1>4, <1>5

\* The flow of a batch is what it adds to the transfers applied.
LEMMA NetFlowIsApplied ==
  ASSUME Booked, NEW batch \in Batches, NEW asOf, journal' = Reconciled(journal, batch, asOf)
  PROVE  /\ NetFlow(journal, batch, asOf) \in Int
         /\ Applied(journal) \in Int
         /\ Applied(journal') = Applied(journal) + NetFlow(journal, batch, asOf)
<1> DEFINE A == {t \in Transfers : journal.entries[t].applied}
           N == Settling(journal, batch)
           f == [t \in Transfers |-> journal.entries[t].amount]
           g == [t \in Transfers |-> journal'.entries[t].amount]
           h == [t \in N |-> (CHOOSE e \in batch : e.id = t).amount]
<1>0. A \subseteq Transfers /\ N \subseteq Transfers
  BY DEF Settling
<1>1. IsFiniteSet(A) /\ IsFiniteSet(N)
  BY <1>0, MoneyAssumption, FS_Subset
<1>2. Applied(journal) = SumFunctionOnSet(f, A)
  BY DEF Applied
<1>3. \A t \in A : f[t] \in Int
  BY DEF Booked
<1>4. SumFunctionOnSet(f, A) \in Int
  BY <1>1, <1>3, SumType
<1>5. CASE Blocks(journal, batch, asOf)
  <2>1. journal'.entries = journal.entries
    BY <1>5 DEF Reconciled
  <2>2. Applied(journal') = Applied(journal)
    BY <2>1 DEF Applied
  <2>3. NetFlow(journal, batch, asOf) = 0
    BY <1>5 DEF NetFlow
  <2>4. QED
    BY <1>2, <1>4, <2>2, <2>3
<1>6. CASE ~Blocks(journal, batch, asOf)
  <2>1. NetFlow(journal, batch, asOf) = SumFunctionOnSet(h, N)
    BY <1>6 DEF NetFlow, SumFunction
  <2>2. \A t \in N : h[t] \in Int /\ g[t] = h[t] /\ t \notin A
    <3>1. ASSUME NEW t \in N PROVE h[t] \in Int /\ g[t] = h[t] /\ t \notin A
      <4>1. t \in Transfers
        BY <1>0
      <4>2. journal'.entries[t] = Reconciled(journal, batch, asOf).entries[t]
        OBVIOUS
      <4>3. g[t] \in Int /\ g[t] = (CHOOSE e \in batch : e.id = t).amount
            /\ ~journal.entries[t].applied
        BY <1>6, <4>1, <4>2, BookedAfter
      <4>4. QED
        BY <4>3
    <3>2. QED
      BY <3>1
  <2>3. \A t \in A : g[t] = f[t]
    <3>1. ASSUME NEW t \in A PROVE g[t] = f[t]
      BY <1>6, BookedAfter
    <3>2. QED
      BY <3>1
  <2>4. {t \in Transfers : journal'.entries[t].applied} = A \cup N
    <3>1. ASSUME NEW t \in Transfers
          PROVE  journal'.entries[t].applied <=> t \in A \/ t \in N
      BY <1>6, BookedAfter
    <3>2. QED
      BY <1>0, <3>1
  <2>5. Applied(journal') = SumFunctionOnSet(g, A \cup N)
    BY <2>4 DEF Applied
  <2> HIDE DEF A, N, f, g, h
  <2>6. SumFunctionOnSet(g, A \cup N) = SumFunctionOnSet(g, A) + SumFunctionOnSet(g, N)
    <3>1. A \cap N = {} /\ \A t \in A \cup N : g[t] \in Int
      BY <1>3, <2>2, <2>3
    <3>2. QED
      BY <1>1, <3>1, SumUnion
  <2>7. SumFunctionOnSet(g, A) = SumFunctionOnSet(f, A)
    BY <1>1, <2>3, SumSame
  <2>8. SumFunctionOnSet(g, N) = SumFunctionOnSet(h, N) /\ SumFunctionOnSet(h, N) \in Int
    BY <1>1, <2>2, SumSame, SumType
  <2>9. QED
    BY <1>2, <1>4, <2>1, <2>5, <2>6, <2>7, <2>8
<1>7. QED
  BY <1>5, <1>6

LEMMA RunningConfig ==
  ASSUME ControlTypeOK, NEW p \in Procs, Running(p)
  PROVE  /\ held[p] \in Configs
         /\ held[p].window \in Nat \ {0}
         /\ held[p].dailyPct \in 1..99 /\ held[p].rollingPct \in 1..99
BY GateAssumption DEF ControlTypeOK, Running, ValidConfig, Fraction, AtLeast

\* What an observation does to the series.
LEMMA SeriesStep ==
  ASSUME ControlTypeOK, breaker \in Series, NEW p \in Procs, NEW s \in Snapshots, NEW flow \in Int,
         Running(p), breaker' = NextBreaker(held[p], s, flow)
  PROVE  /\ breaker' \in Series /\ breaker'.session # NoSession
         /\ breaker.session # NoSession =>
              (breaker'.raw - breaker'.adjusted) - (breaker.raw - breaker.adjusted) = flow
<1>1. Day(s.at) \in Nat \ {0} /\ s.equity \in Int
  <2>1. s.at \in Nat \ {0} /\ s.equity \in Equities
    BY GateAssumption DEF Snapshots, ControlTypeOK
  <2>2. s.at \div DayLength \in Nat
    BY <2>1, GateAssumption
  <2>3. Day(s.at) \in Nat \ {0}
    BY <2>2 DEF Day
  <2>4. s.equity \in Int
    BY <2>1, MoneyAssumption
  <2>5. QED
    BY <2>3, <2>4
<1>2. held[p].window \in Nat \ {0}
  BY RunningConfig
<1> DEFINE b == Observed(breaker, Day(s.at), s.equity, flow, held[p].window)
<1>3. b \in Series /\ b.session = Day(s.at)
  BY <1>1, <1>2, ObservedType
<1>4. breaker.session # NoSession =>
        b.raw = s.equity /\ b.adjusted = breaker.adjusted + (s.equity - breaker.raw) - flow
  BY DEF Observed
<1>5. breaker.raw \in Int /\ breaker.adjusted \in Int
  BY DEF Series
<1>6. breaker' = b
  BY DEF NextBreaker
<1> HIDE DEF b
<1>7. QED
  BY <1>1, <1>3, <1>4, <1>5, <1>6 DEF NoSession

LEMMA AttributedIsInt ==
  ASSUME Booked, NEW s \in Snapshots, NEW flow, Attributed(s, flow)
  PROVE  flow \in Int
<1>1. CASE flow = s.flow
  BY <1>1, MoneyAssumption DEF Snapshots
<1>2. ASSUME NEW batch \in Batches, flow = NetFlow(journal, batch, s.at),
             journal' = Reconciled(journal, batch, s.at)
      PROVE  flow \in Int
  BY <1>2, NetFlowIsApplied
<1>3. QED
  BY <1>1, <1>2 DEF Attributed

LEMMA BookedStep ==
  ASSUME Booked, [Next]_vars
  PROVE  Booked'
<1>1. CASE journal' = journal
  BY <1>1 DEF Booked
<1>2. ASSUME NEW s \in Snapshots, NEW batch \in Batches,
             journal' = Reconciled(journal, batch, s.at)
      PROVE  Booked'
  <2>1. CASE Blocks(journal, batch, s.at)
    <3>1. journal'.entries = journal.entries
      BY <1>2, <2>1 DEF Reconciled
    <3>2. QED
      BY <3>1 DEF Booked
  <2>2. CASE ~Blocks(journal, batch, s.at)
    <3>1. ASSUME NEW t \in Transfers
          PROVE  /\ journal'.entries[t].applied \in BOOLEAN /\ journal'.entries[t].amount \in Int
                 /\ journal'.entries[t].applied <=> journal'.entries[t].status = "settled"
      BY <1>2, <2>2, BookedAfter
    <3>2. QED
      BY <3>1 DEF Booked
  <2>3. QED
    BY <2>1, <2>2
<1>3. QED
  BY <1>1, <1>2, JournalWriters

LEMMA BreakerInvInit == Init => BreakerInv
<1> SUFFICES ASSUME Init PROVE BreakerInv
  OBVIOUS
<1>1. ControlTypeOK
  BY ControlTypeInit
<1>2. breaker \in Series
  BY EmptySeq DEF Init, Unobserved, Series, NoSession
<1>3. Booked
  <2>1. ASSUME NEW t \in Transfers PROVE journal.entries[t] = NoEntry
    BY DEF Init, EmptyJournal
  <2>2. NoEntry.applied = FALSE /\ NoEntry.amount = 0 /\ NoEntry.status = "absent"
    BY DEF NoEntry
  <2>3. ASSUME NEW t \in Transfers
        PROVE  /\ journal.entries[t].applied \in BOOLEAN /\ journal.entries[t].amount \in Int
               /\ journal.entries[t].applied <=> journal.entries[t].status = "settled"
    <3>1. /\ journal.entries[t].applied = FALSE /\ journal.entries[t].amount = 0
          /\ journal.entries[t].status = "absent"
      BY <2>1, <2>2
    <3>2. journal.entries[t].applied \in BOOLEAN
      BY <3>1
    <3>3. journal.entries[t].applied <=> journal.entries[t].status = "settled"
      BY <3>1
    <3>4. QED
      BY <3>1, <3>2, <3>3
  <2>4. QED
    BY <2>3 DEF Booked
<1>4. QED
  BY <1>1, <1>2, <1>3 DEF BreakerInv

LEMMA BreakerInvStep == BreakerInv /\ [Next]_vars => BreakerInv'
<1> SUFFICES ASSUME BreakerInv, [Next]_vars PROVE BreakerInv'
  OBVIOUS
<1>1. ControlTypeOK' /\ Booked'
  BY ControlTypeStep, BookedStep DEF BreakerInv
<1>2. CASE breaker' = breaker
  BY <1>1, <1>2 DEF BreakerInv
<1>3. CASE breaker' # breaker
  <2>1. PICK p, s, flow :
          /\ p \in Procs /\ s \in Snapshots
          /\ Running(p) /\ Observes(held[p], s, flow) /\ Attributed(s, flow)
    BY <1>3, BreakerWriters
  <2>2. flow \in Int
    BY <2>1, AttributedIsInt DEF BreakerInv
  <2>3. breaker' \in Series
    BY <2>1, <2>2, SeriesStep DEF BreakerInv, Observes
  <2>4. QED
    BY <1>1, <2>3 DEF BreakerInv
<1>4. QED
  BY <1>2, <1>3

LEMMA BreakerInvCorrect == Spec => []BreakerInv
BY BreakerInvInit, BreakerInvStep, PTL DEF Spec

\* 052 cash flows: for every batch in every order and retry, what separates the adjusted
\* series from the raw equity is what the journal applied, if no aggregate flow is reported
\* beside it (the heartbeat would take one, a note of the README).
THEOREM BoundaryMovesWithJournalCorrect ==
  ASSUME Flows \subseteq {0}
  PROVE  Spec => BoundaryMovesWithJournal
<1> DEFINE Moved == (breaker'.raw - breaker'.adjusted) - (breaker.raw - breaker.adjusted)
           Premise == breaker.session # NoSession /\ journal'.asOf # 0
<1>1. ASSUME BreakerInv, [Next]_vars, Premise
      PROVE  Moved = Applied(journal') - Applied(journal)
  <2>0. /\ breaker.raw \in Int /\ breaker.adjusted \in Int
        /\ Applied(journal) \in Int
    <3>1. Applied(journal) \in Int
      <4> DEFINE A == {t \in Transfers : journal.entries[t].applied}
                 f == [t \in Transfers |-> journal.entries[t].amount]
      <4>1. IsFiniteSet(A)
        BY MoneyAssumption, FS_Subset
      <4>2. \A t \in A : f[t] \in Int
        BY <1>1 DEF BreakerInv, Booked
      <4>3. Applied(journal) = SumFunctionOnSet(f, A)
        BY DEF Applied
      <4> HIDE DEF A, f
      <4>4. QED
        BY <4>1, <4>2, <4>3, SumType
    <3>2. QED
      BY <1>1, <3>1 DEF BreakerInv, Series
  <2>1. CASE UNCHANGED <<breaker, dailyHalt, journal>>
    <3>1. Applied(journal') = Applied(journal) /\ breaker' = breaker
      BY <2>1
    <3>2. QED
      BY <2>0, <3>1
  <2>2. ASSUME NEW p \in Procs, NEW s \in Snapshots, NEW flow,
               Running(p), Observes(held[p], s, flow), Attributed(s, flow)
        PROVE  Moved = Applied(journal') - Applied(journal)
    <3>1. flow \in Int
      BY <1>1, <2>2, AttributedIsInt DEF BreakerInv
    <3>2. Moved = flow
      BY <1>1, <2>2, <3>1, SeriesStep DEF BreakerInv, Observes
    <3>3. CASE flow = s.flow /\ journal' = journal
      <4>1. flow = 0
        BY <3>3 DEF Snapshots
      <4>2. Applied(journal') = Applied(journal)
        BY <3>3
      <4>3. QED
        BY <2>0, <3>2, <4>1, <4>2
    <3>4. ASSUME NEW batch \in Batches, flow = NetFlow(journal, batch, s.at),
                 journal' = Reconciled(journal, batch, s.at)
          PROVE  Applied(journal') = Applied(journal) + flow
      BY <1>1, <3>4, NetFlowIsApplied DEF BreakerInv
    <3>5. QED
      BY <2>0, <2>2, <3>1, <3>2, <3>3, <3>4 DEF Attributed
  <2>3. QED
    BY <1>1, <2>1, <2>2, BreakerWriters
<1>2. BreakerInv /\ [Next]_vars =>
        [Premise => Moved = Applied(journal') - Applied(journal)]_vars
  BY <1>1
<1>3. QED
  BY <1>2, BreakerInvCorrect, PTL DEF Spec, BoundaryMovesWithJournal

-----------------------------------------------------------------------------
\* On a positive base the quotients of the code say what the limits mean.
LEMMA FallsByMeans ==
  ASSUME NEW level \in Int, NEW base \in Int, base > 0, NEW pct \in Int
  PROVE  FellTooFar(level, base, pct) => FallsBy(level, base, pct)
<1>1. (100 - pct) * base = 100 * base - pct * base
  OBVIOUS
<1>2. 100 * (base - level) = 100 * base - 100 * level
  OBVIOUS
<1>3. Magnitude(base) = base /\ pct * base \in Int
  BY DEF Magnitude
<1>4. QED
  BY <1>1, <1>2, <1>3 DEF FellTooFar, FallsBy

\* Whoever runs has the one configuration, and it is recorded.
Adopted == \A p \in Procs : Running(p) => config \in Configs

LEMMA AdoptedStep == ControlTypeOK /\ Adopted /\ [Next]_vars => Adopted'
<1> SUFFICES ASSUME ControlTypeOK, Adopted, [Next]_vars PROVE Adopted'
  OBVIOUS
<1>1. CASE UNCHANGED setting
  BY <1>1 DEF Adopted, Running, setting
<1>2. ASSUME NEW p \in Procs, NEW c \in Configs, Open(p, c) \/ AdoptNewConfig(p, c)
      PROVE  Adopted'
  BY <1>2 DEF Adopted, Open, AdoptNewConfig
<1>3. ASSUME NEW p \in Procs, Close(p)
      PROVE  Adopted'
  BY <1>3 DEF Adopted, Close, Running, ControlTypeOK
<1>4. QED
  BY <1>1, <1>2, <1>3
  DEF Next, vars, RequestKill, EvaluateOrder, OperatorOverrideReduce, ObserveEquity,
      ResetRollingHalt, ClearReconciliationHalt, ObserveEquityWithFlows, ConfirmKill,
      ResetKill, RecordOrderOutcome, Tick

\* The equity series stands above zero.
PositiveBase ==
  breaker.session # NoSession => breaker.dayStart > 0 /\ HighWater(breaker) > 0

\* Spec 032, loss halts: under one configuration no step moves the series past a limit
\* without its halt, as long as the adjusted equity, less withdrawals, has a positive base.
THEOREM BreachesLatchCorrect ==
  ASSUME \A c, d \in Configs : c = d
  PROVE  Spec /\ []PositiveBase => BreachesLatch
<1> DEFINE Latches ==
             /\ FellTooFar(breaker'.adjusted, breaker'.dayStart, config.dailyPct)
                  => dailyHalt' = breaker'.session
             /\ FellTooFar(breaker'.adjusted, HighWater(breaker'), config.rollingPct)
                  => rollingHalt'
<1>1. ASSUME BreakerInv, Adopted, [Next]_vars, PositiveBase', breaker' # breaker
      PROVE  Latches
  <2>1. PICK p, s, flow :
          /\ p \in Procs /\ s \in Snapshots
          /\ Running(p) /\ Observes(held[p], s, flow) /\ Attributed(s, flow)
    BY <1>1, BreakerWriters
  <2>2. flow \in Int
    BY <1>1, <2>1, AttributedIsInt DEF BreakerInv
  <2>3. breaker' \in Series /\ breaker'.session # NoSession
    BY <1>1, <2>1, <2>2, SeriesStep DEF BreakerInv, Observes
  <2>4. held[p] = config /\ config.dailyPct \in Int /\ config.rollingPct \in Int
    BY <1>1, <2>1, RunningConfig DEF BreakerInv, Adopted
  <2>5. HighWater(breaker') \in Int
    BY <2>3, HighWaterType
  <2>6. breaker'.dayStart > 0 /\ HighWater(breaker') > 0
    BY <1>1, <2>3 DEF PositiveBase
  <2>7. breaker'.adjusted \in Int /\ breaker'.dayStart \in Int
    BY <2>3 DEF Series
  <2>8. FellTooFar(breaker'.adjusted, breaker'.dayStart, config.dailyPct)
          => DailyBreach(breaker', config)
    BY <2>4, <2>6, <2>7, FallsByMeans DEF DailyBreach
  <2>9. FellTooFar(breaker'.adjusted, HighWater(breaker'), config.rollingPct)
          => RollingBreach(breaker', config)
    BY <2>4, <2>5, <2>6, <2>7, FallsByMeans DEF RollingBreach
  <2>10. QED
    BY <2>1, <2>4, <2>8, <2>9 DEF Observes
<1>2. BreakerInv /\ Adopted /\ [Next]_vars /\ PositiveBase' => [breaker' # breaker => Latches]_vars
  BY <1>1
<1>3. Init => Adopted
  BY DEF Init, Adopted, Running
<1>4. BreakerInv => ControlTypeOK
  BY DEF BreakerInv
<1>5. QED
  BY <1>2, <1>3, <1>4, AdoptedStep, BreakerInvCorrect, PTL DEF Spec, BreachesLatch

-----------------------------------------------------------------------------
(* ---- The gateway, its traders and the broker ---------------------------- *)

Reserved(id) == pending[id] # NoRow /\ ~pending[id].terminal

ReservationInv ==
  /\ pending \in [OrderIds -> Rows]
  /\ orders \in [OrderIds -> [state: {"unknown", "working", "terminal"},
                              instrument: Instruments \cup {"none"}, left: Int]]
  /\ sending \in [Procs -> Intents \cup {NoIntent}]
  /\ \A id \in OrderIds : pending[id] # NoRow => pending[id].quantity # 0
  /\ \A id \in OrderIds : orders[id] # NoOrder => pending[id] # NoRow
  /\ \A id \in OrderIds : orders[id].state = "working" => Reserved(id)
  /\ \A p \in Procs : sending[p] # NoIntent =>
       Reserved(sending[p].id) /\ orders[sending[p].id] = NoOrder
  /\ \A p, q \in Procs :
       sending[p] # NoIntent /\ sending[q] # NoIntent /\ p # q => sending[p].id # sending[q].id
  /\ delayed \subseteq OrderIds
  /\ \A id \in delayed : Reserved(id) /\ orders[id] = NoOrder
  /\ \A p \in Procs : sending[p] # NoIntent => sending[p].id \notin delayed

-----------------------------------------------------------------------------
\* A decision either changes no reservation or makes exactly one new one.
LEMMA DecideWrites ==
  ASSUME NEW p \in Procs, NEW i \in Intents, Decide(p, i), pending' # pending
  PROVE  pending[i.id] = NoRow /\ pending' = Reserve(i)
  BY DEF Decide, EvaluateOrder, OperatorOverrideReduce, Distrust, Admitted, Unused

\* The reservation an intent makes is open and is of a nonzero quantity.
LEMMA ReserveOpens ==
  ASSUME pending \in [OrderIds -> Rows], NEW i \in Intents
  PROVE  /\ i.id \in OrderIds
         /\ Reserve(i) \in [OrderIds -> Rows]
         /\ Reserve(i)[i.id] # NoRow
         /\ ~Reserve(i)[i.id].terminal
         /\ Reserve(i)[i.id].quantity # 0
         /\ \A id \in OrderIds \ {i.id} : Reserve(i)[id] = pending[id]
<1> DEFINE row == [instrument |-> i.instrument, quantity |-> i.delta, terminal |-> FALSE]
<1>1. i.id \in OrderIds
  BY DEF OrderIds
<1>2. row \in Rows /\ row.quantity # 0 /\ row # NoRow
  BY GateAssumption DEF Rows, NoRow
<1>3. Reserve(i) = [pending EXCEPT ![i.id] = row]
  BY DEF Reserve
<1>4. QED
  BY <1>1, <1>2, <1>3

\* The invariant survives every step of a trader or of the broker.
LEMMA ReservationStep == ReservationInv /\ [TradingNext]_all => ReservationInv'
<1> SUFFICES ASSUME ReservationInv, [TradingNext]_all PROVE ReservationInv'
  OBVIOUS
<1>1. ASSUME NEW p \in Procs, NEW c \in Configs, Start(p, c) PROVE ReservationInv'
  BY <1>1 DEF Start, Open, ReservationInv, Reserved, broker, traders
<1>2. ASSUME NEW p \in Procs, TakeSnapshot(p) PROVE ReservationInv'
  BY <1>2 DEF TakeSnapshot, ReservationInv, Reserved, broker, vars
<1>3. ASSUME NEW p \in Procs, Deliver(p) PROVE ReservationInv'
  <2> DEFINE i == sending[p]
  <2>1. i \in Intents /\ i.id \in OrderIds /\ i.delta \in Int /\ i.instrument \in Instruments
    BY <1>3, GateAssumption DEF Deliver, Received, ReservationInv, OrderIds
  <2>2. UNCHANGED pending
    BY <1>3 DEF Deliver, Received, vars
  <2>3. orders' \in [OrderIds -> [state: {"unknown", "working", "terminal"},
                                  instrument: Instruments \cup {"none"}, left: Int]]
    BY <1>3, <2>1 DEF Deliver, Received, ReservationInv
  <2>4. NoIntent \notin {i} /\ sending' \in [Procs -> Intents \cup {NoIntent}]
    BY <1>3 DEF Deliver, Received, ReservationInv
  <2>5. \A id \in OrderIds : id # i.id => orders'[id] = orders[id]
    BY <1>3 DEF Deliver, Received, ReservationInv
  <2>6. Reserved(i.id)
    BY <1>3 DEF Deliver, Received, ReservationInv
  <2>7. \A q \in Procs : sending'[q] # NoIntent => q # p /\ sending'[q] = sending[q]
    BY <1>3 DEF Deliver, Received, ReservationInv
  <2>8. \A q \in Procs : sending'[q] # NoIntent => sending[q].id # i.id
    BY <1>3, <2>7 DEF Deliver, Received, ReservationInv
  <2>9. \A q \in Procs : sending'[q] # NoIntent => sending[q].id \in OrderIds
    BY <2>7 DEF ReservationInv, OrderIds
  <2>10. (\A q \in Procs : sending[q] # NoIntent =>
            Reserved(sending[q].id) /\ orders[sending[q].id] = NoOrder)'
    BY <2>2, <2>5, <2>7, <2>8, <2>9 DEF ReservationInv, Reserved
  <2>11. (\A q, r \in Procs :
            sending[q] # NoIntent /\ sending[r] # NoIntent /\ q # r
              => sending[q].id # sending[r].id)'
    BY <2>7 DEF ReservationInv
  <2>12. (\A id \in OrderIds : orders[id] # NoOrder => pending[id] # NoRow)'
    BY <2>2, <2>5, <2>6 DEF ReservationInv, Reserved
  <2>13. (\A id \in OrderIds : orders[id].state = "working" => Reserved(id))'
    BY <2>2, <2>5, <2>6 DEF ReservationInv, Reserved
  <2>14. /\ (pending \in [OrderIds -> Rows])'
         /\ (\A id \in OrderIds : pending[id] # NoRow => pending[id].quantity # 0)'
    BY <2>2 DEF ReservationInv
  <2>15. /\ (delayed \subseteq OrderIds)'
         /\ (\A id \in delayed : Reserved(id) /\ orders[id] = NoOrder)'
    BY <1>3, <2>2, <2>5 DEF Deliver, ReservationInv, Reserved
  <2>16. (\A q \in Procs : sending[q] # NoIntent => sending[q].id \notin delayed)'
    BY <1>3, <2>7 DEF Deliver, ReservationInv
  <2>17. QED
    BY <2>3, <2>4, <2>10, <2>11, <2>12, <2>13, <2>14, <2>15, <2>16, Zenon DEF ReservationInv
<1>4. ASSUME NEW p \in Procs, TimeOut(p) PROVE ReservationInv'
  <2>1. sending[p].id \in OrderIds
    BY <1>4 DEF TimeOut, ReservationInv, OrderIds
  <2>2. UNCHANGED <<pending, orders>>
    BY <1>4 DEF TimeOut, broker, vars
  <2>3. delayed' = delayed \cup {sending[p].id} /\ sending[p] # NoIntent
    BY <1>4 DEF TimeOut
  <2>4. sending' = [sending EXCEPT ![p] = NoIntent]
    BY <1>4 DEF TimeOut
  <2>5. \A q \in Procs : sending'[q] # NoIntent => q # p /\ sending'[q] = sending[q]
    BY <2>4 DEF ReservationInv
  <2>6. (sending \in [Procs -> Intents \cup {NoIntent}])'
    BY <2>4 DEF ReservationInv
  <2>7. /\ (delayed \subseteq OrderIds)'
        /\ (\A id \in delayed : Reserved(id) /\ orders[id] = NoOrder)'
    BY <2>1, <2>2, <2>3 DEF ReservationInv, Reserved
  <2>8. \A q \in Procs : sending'[q] # NoIntent => sending'[q].id \notin delayed'
    BY <2>3, <2>5 DEF ReservationInv
  <2>9. QED
    BY <2>2, <2>5, <2>6, <2>7, <2>8 DEF ReservationInv, Reserved
<1>5. ASSUME NEW p \in Procs, ReleaseUnsent(p) PROVE ReservationInv'
  <2> DEFINE o == sending[p].id
  <2>1. o \in OrderIds /\ pending[o] # NoRow /\ orders[o] = NoOrder
    BY <1>5 DEF ReleaseUnsent, RecordOrderOutcome, ReservationInv, OrderIds
  <2>2. pending' = [pending EXCEPT ![o].terminal = TRUE] /\ UNCHANGED orders
    BY <1>5 DEF ReleaseUnsent, RecordOrderOutcome, broker
  <2>3. pending' \in [OrderIds -> Rows]
    BY <2>2 DEF ReservationInv, Rows
  <2>4. \A id \in OrderIds : /\ pending'[id].quantity = pending[id].quantity
                             /\ id # o => pending'[id] = pending[id]
    BY <2>2 DEF ReservationInv, Rows
  <2>5. \A id \in OrderIds : pending'[id] # NoRow => pending'[id].quantity # 0
    BY <2>1, <2>4 DEF ReservationInv
  <2>6. pending'[o] # NoRow
    <3>1. pending'[o].quantity # 0
      BY <2>1, <2>4 DEF ReservationInv
    <3>2. NoRow.quantity = 0
      BY DEF NoRow
    <3>3. QED
      BY <3>1, <3>2
  <2>7. NoOrder.state # "working"
    BY DEF NoOrder
  <2>8. sending' \in [Procs -> Intents \cup {NoIntent}]
    BY <1>5 DEF ReleaseUnsent, ReservationInv
  <2>9. \A q \in Procs : sending'[q] # NoIntent =>
          q # p /\ sending'[q] = sending[q] /\ sending[q].id # o /\ sending[q].id \in OrderIds
    BY <1>5 DEF ReleaseUnsent, ReservationInv, OrderIds
  <2>10. UNCHANGED delayed /\ o \notin delayed
    BY <1>5 DEF ReleaseUnsent, ReservationInv
  <2>11. QED
    BY <2>1, <2>2, <2>3, <2>4, <2>5, <2>6, <2>7, <2>8, <2>9, <2>10 DEF ReservationInv, Reserved
<1>6. ASSUME NEW p \in Procs, Crash(p) PROVE ReservationInv'
  BY <1>6 DEF Crash, Close, ReservationInv, Reserved, broker
<1>7. ASSUME NEW p \in Procs, Kill(p) \/ Reenable(p) PROVE ReservationInv'
  BY <1>7 DEF Kill, RequestKill, Reenable, ResetKill, ReservationInv, Reserved, broker, traders
<1>8. ASSUME NEW p \in Procs, NEW i \in Intents, Decide(p, i) PROVE ReservationInv'
  <2>1. UNCHANGED <<orders, delayed>>
    BY <1>8 DEF Decide, broker
  <2>2. CASE pending' = pending
    BY <1>8, <2>1, <2>2 DEF Decide, ReservationInv, Reserved
  <2>3. CASE pending' # pending
    <3>1. pending[i.id] = NoRow /\ pending' = Reserve(i)
      BY <1>8, <2>3, DecideWrites
    <3>2. /\ i.id \in OrderIds
          /\ pending' \in [OrderIds -> Rows]
          /\ Reserved(i.id)'
          /\ pending'[i.id].quantity # 0
          /\ \A id \in OrderIds \ {i.id} : pending'[id] = pending[id]
      BY <3>1, ReserveOpens DEF ReservationInv, Reserved
    <3>3. orders[i.id] = NoOrder
      BY <3>1, <3>2 DEF ReservationInv
    <3>4. sending' = [sending EXCEPT ![p] = i]
      BY <1>8, <2>3 DEF Decide
    <3>5. sending' \in [Procs -> Intents \cup {NoIntent}]
      BY <3>4 DEF ReservationInv
    <3>6. \A q \in Procs : q # p /\ sending[q] # NoIntent =>
            /\ sending'[q] = sending[q] /\ sending[q].id \in OrderIds
            /\ sending[q].id # i.id
      <4>1. ASSUME NEW q \in Procs, q # p, sending[q] # NoIntent
            PROVE  /\ sending'[q] = sending[q] /\ sending[q] \in Intents
                   /\ pending[sending[q].id] # NoRow
        BY <3>4, <4>1 DEF ReservationInv, Reserved
      <4>2. QED
        BY <3>1, <4>1 DEF OrderIds
    <3>7. sending'[p] = i /\ \A q \in Procs : q # p => sending'[q] = sending[q]
      BY <3>4 DEF ReservationInv
    <3>8. \A id \in OrderIds : orders[id] # NoOrder => pending[id] # NoRow /\ id # i.id
      BY <3>3 DEF ReservationInv
    <3>9. NoOrder.state # "working"
      BY DEF NoOrder
    <3>10. \A id \in OrderIds : orders[id].state = "working" => Reserved(id) /\ id # i.id
      BY <3>3, <3>9 DEF ReservationInv
    <3>11. \A q \in Procs : sending'[q] # NoIntent =>
             Reserved(sending[q].id)' /\ orders'[sending'[q].id] = NoOrder
      BY <2>1, <3>2, <3>3, <3>6, <3>7 DEF ReservationInv, Reserved
    <3>12. \A q, r \in Procs :
             sending'[q] # NoIntent /\ sending'[r] # NoIntent /\ q # r
               => sending'[q].id # sending'[r].id
      BY <3>6, <3>7 DEF ReservationInv
    <3>13. i.id \notin delayed
      BY <3>1 DEF ReservationInv, Reserved
    <3>14. /\ \A id \in delayed : Reserved(id)' /\ orders'[id] = NoOrder
           /\ \A q \in Procs : sending'[q] # NoIntent => sending'[q].id \notin delayed'
      BY <2>1, <3>2, <3>7, <3>13 DEF ReservationInv, Reserved
    <3>15. QED
      BY <2>1, <3>2, <3>5, <3>8, <3>10, <3>11, <3>12, <3>14 DEF ReservationInv, Reserved
  <2>4. QED
    BY <2>2, <2>3
<1>9. ASSUME NEW p \in Procs, NEW id \in OrderIds, Reconcile(p, id) PROVE ReservationInv'
  <2>1. /\ pending[id] # NoRow
        /\ pending' = [pending EXCEPT ![id].terminal = TRUE]
        /\ UNCHANGED <<orders, sending, delayed>>
        /\ orders[id].state = "terminal"
    BY <1>9 DEF Reconcile, RecordOrderOutcome, broker, traders
  <2>2. pending' \in [OrderIds -> Rows]
    BY <2>1 DEF ReservationInv, Rows
  <2>3. \A o \in OrderIds : /\ pending'[o].quantity = pending[o].quantity
                            /\ o # id => pending'[o] = pending[o]
    BY <2>1 DEF ReservationInv, Rows
  <2>4. \A o \in OrderIds : pending'[o] # NoRow => pending'[o].quantity # 0
    BY <2>1, <2>3 DEF ReservationInv
  <2>5. pending'[id] # NoRow
    <3>1. pending'[id].quantity # 0
      BY <2>1, <2>3 DEF ReservationInv
    <3>2. NoRow.quantity = 0
      BY DEF NoRow
    <3>3. QED
      BY <3>1, <3>2
  <2>6. NoOrder.state # "terminal"
    BY DEF NoOrder
  <2>7. \A q \in Procs : sending[q] # NoIntent => sending[q].id \in OrderIds \ {id}
    BY <2>1, <2>6 DEF ReservationInv, OrderIds
  <2>8. id \notin delayed
    BY <2>1, <2>6 DEF ReservationInv
  <2>9. QED
    BY <2>1, <2>2, <2>3, <2>4, <2>5, <2>7, <2>8 DEF ReservationInv, Reserved
<1>10. ASSUME NEW id \in OrderIds, Fill(id) \/ Expire(id) PROVE ReservationInv'
  <2>1. UNCHANGED <<pending, sending, delayed>> /\ orders[id].state = "working"
    BY <1>10 DEF Fill, Expire, vars, traders
  <2>2. /\ orders' \in [OrderIds -> [state: {"unknown", "working", "terminal"},
                                      instrument: Instruments \cup {"none"}, left: Int]]
        /\ \A o \in OrderIds : o # id => orders'[o] = orders[o]
    <3>1. orders[id] \in [state: {"unknown", "working", "terminal"},
                           instrument: Instruments \cup {"none"}, left: Int]
      BY DEF ReservationInv
    <3>2. CASE Fill(id)
      <4> DEFINE unit  == IF orders[id].left > 0 THEN 1 ELSE -1
                 left  == orders[id].left - unit
                 state == IF orders[id].left = unit THEN "terminal" ELSE "working"
      <4>1. left \in Int /\ state \in {"working", "terminal"}
        BY <3>1
      <4>2. orders' = [orders EXCEPT ![id] = [orders[id] EXCEPT !.left = left, !.state = state]]
        BY <3>2 DEF Fill
      <4> HIDE DEF left, state
      <4>3. [orders[id] EXCEPT !.left = left, !.state = state]
              \in [state: {"unknown", "working", "terminal"},
                   instrument: Instruments \cup {"none"}, left: Int]
        BY <3>1, <4>1
      <4>4. QED
        BY <4>2, <4>3 DEF ReservationInv
    <3>3. CASE Expire(id)
      <4> DEFINE row == [orders[id] EXCEPT !.state = "terminal"]
      <4>1. row \in [state: {"unknown", "working", "terminal"},
                     instrument: Instruments \cup {"none"}, left: Int]
        BY <3>1
      <4>2. orders' = [orders EXCEPT ![id] = row]
        BY <3>3 DEF Expire
      <4> HIDE DEF row
      <4>3. QED
        BY <4>1, <4>2 DEF ReservationInv
    <3>4. QED
      BY <1>10, <3>2, <3>3
  <2>3. NoOrder.state # "working"
    BY DEF NoOrder
  <2>4. \A q \in Procs : sending[q] # NoIntent => sending[q].id \in OrderIds \ {id}
    BY <2>1, <2>3 DEF ReservationInv, OrderIds
  <2>5. id \notin delayed
    BY <2>1, <2>3 DEF ReservationInv
  <2>6. QED
    BY <2>1, <2>2, <2>4, <2>5 DEF ReservationInv, Reserved
<1>11. CASE UNCHANGED all
  BY <1>11 DEF all, vars, broker, traders, ReservationInv, Reserved
<1>12. ASSUME NEW id \in OrderIds, Arrive(id) PROVE ReservationInv'
  <2>1. /\ UNCHANGED <<pending, sending>> /\ id \in delayed
        /\ delayed' = delayed \ {id}
    BY <1>12 DEF Arrive, vars, traders
  <2>2. pending[id].instrument \in Instruments \cup {"none"} /\ pending[id].quantity \in Int
    BY DEF ReservationInv, Rows
  <2>3. /\ orders' \in [OrderIds -> [state: {"unknown", "working", "terminal"},
                                      instrument: Instruments \cup {"none"}, left: Int]]
        /\ \A o \in OrderIds : o # id => orders'[o] = orders[o]
    BY <1>12, <2>2 DEF Arrive, Received, ReservationInv
  <2>4. Reserved(id)
    BY <2>1 DEF ReservationInv
  <2>5. \A q \in Procs : sending[q] # NoIntent => sending[q].id \in OrderIds \ {id}
    BY <2>1 DEF ReservationInv, OrderIds
  <2>6. QED
    BY <2>1, <2>3, <2>4, <2>5 DEF ReservationInv, Reserved
<1>13. QED
  BY <1>1, <1>2, <1>3, <1>4, <1>5, <1>6, <1>7, <1>8, <1>9, <1>10, <1>11, <1>12 DEF TradingNext

LEMMA ReservationInit ==
  ASSUME TradingInit
  PROVE  ReservationInv
<1>1. NoRow \in Rows /\ NoOrder.state = "unknown"
      /\ NoOrder \in [state: {"unknown", "working", "terminal"},
                       instrument: Instruments \cup {"none"}, left: Int]
  BY DEF NoRow, Rows, NoOrder
<1>2. /\ pending = [id \in OrderIds |-> NoRow]
      /\ orders = [id \in OrderIds |-> NoOrder]
      /\ sending = [p \in Procs |-> NoIntent]
      /\ delayed = {}
  BY DEF TradingInit, Init
<1>3. QED
  BY <1>1, <1>2 DEF ReservationInv

\* REQ-004: whatever the broker is working, and whatever may still be sent to
\* it, counts against the caps as an open reservation.
THEOREM WorkingIsReservedCorrect == TradingSpec => []WorkingIsReserved
<1>1. TradingInit => ReservationInv
  BY ReservationInit
<1>2. ReservationInv => WorkingIsReserved
  BY DEF ReservationInv, WorkingIsReserved, Reserved
<1>3. QED
  BY <1>1, <1>2, ReservationStep, PTL DEF TradingSpec

-----------------------------------------------------------------------------
(* ---- The caps of the real account ------------------------------------- *)

\* What can still fill of an order: at the broker, or on its way there.
Left(id) ==
  IF orders[id].state = "working" THEN orders[id].left
  ELSE IF id \in delayed \/ \E p \in Procs : sending[p] # NoIntent /\ sending[p].id = id
         THEN pending[id].quantity ELSE 0

\* The buys of an instrument among them, and what the gate keeps free for them.
Owed(name, id) == IF pending[id].instrument = name /\ Left(id) > 0 THEN Left(id) ELSE 0

Kept(name, id) ==
  IF pending[id].instrument = name /\ ~pending[id].terminal /\ pending[id].quantity > 0
    THEN pending[id].quantity ELSE 0

OwedSum(name) == SumFunctionOnSet([id \in OrderIds |-> Owed(name, id)], OrderIds)

Worst(name) == position[name] + OwedSum(name)

\* One configuration, and nothing reserved before there is one.
OneConfig ==
  /\ config \in Configs \cup {NoConfig}
  /\ held \in [Procs -> {NoConfig, config}]
  /\ config = NoConfig => \A id \in OrderIds : pending[id] = NoRow

\* An order on its way, or at work, is the one its reservation describes.
RowsAgree ==
  /\ \A id \in OrderIds : orders[id].state = "working" =>
       /\ orders[id].instrument = pending[id].instrument
       /\ orders[id].left # 0 /\ (orders[id].left > 0 => orders[id].left <= pending[id].quantity)
  /\ \A p \in Procs : sending[p] # NoIntent =>
       /\ pending[sending[p].id].instrument = sending[p].instrument
       /\ pending[sending[p].id].quantity = sending[p].delta

\* The snapshot a decision is about to use, with the reservations, covers the account
\* as it is now: what filled since is still reserved.
SnapshotCovers ==
  /\ taken = [p \in Procs |-> taken[p]]
  /\ \A p \in Procs : taken[p] # NoSnapshot =>
       /\ sending[p] = NoIntent
       /\ taken[p].equity = Equity /\ taken[p].prices = Price
       /\ taken[p].positions \in [Instruments -> Int]
       /\ \A name \in Instruments : Worst(name) <= taken[p].positions[name] + ReservedBuys(name)

\* No step that settles lets the account's worst case grow.
Shrinks == \A name \in Instruments : Worst(name)' <= Worst(name)

Capped ==
  config # NoConfig =>
    /\ \A name \in Instruments :
         OwedSum(name) > 0 => 100 * (Worst(name) * Price[name]) < config.positionPct * Equity
    /\ (\E name \in Instruments : OwedSum(name) > 0) =>
         100 * SumFunctionOnSet([name \in Instruments |-> Worst(name) * Price[name]], Instruments)
           < config.grossPct * Equity

ExposureInv ==
  /\ ReservationInv
  /\ position \in [Instruments -> Int]
  /\ OneConfig /\ RowsAgree /\ SnapshotCovers /\ Capped

LEMMA OrderIdsAreFinite == IsFiniteSet(OrderIds)
<1> DEFINE f == [i \in Intents |-> i.id]
<1>1. f \in Surjection(Intents, OrderIds)
  <2>1. f \in [Intents -> OrderIds] /\ \A id \in OrderIds : \E i \in Intents : f[i] = id
    BY DEF OrderIds
  <2> HIDE DEF f
  <2>2. QED
    BY <2>1 DEF Surjection
<1> HIDE DEF f
<1>2. QED
  BY <1>1, FS_Surjection, TradingAssumption

LEMMA Grows ==
  ASSUME NEW a \in Int, NEW b \in Int, NEW p \in Nat, a <= b
  PROVE  a * p <= b * p
BY SMT

\* What can still fill is reserved, with its quantity or more.
LEMMA LeftIsKept ==
  ASSUME ReservationInv, RowsAgree, NEW id \in OrderIds
  PROVE  /\ Left(id) \in Int /\ pending[id].quantity \in Int
         /\ Left(id) # 0 => Reserved(id)
         /\ Left(id) > 0 => Left(id) <= pending[id].quantity
         /\ \A name : Owed(name, id) \in Nat /\ Kept(name, id) \in Nat /\ Owed(name, id) <= Kept(name, id)
<1>1. pending[id].quantity \in Int /\ orders[id].left \in Int
  BY DEF ReservationInv, Rows
<1>2. Left(id) \in Int
  BY <1>1 DEF Left
<1>3. Left(id) # 0 => Reserved(id)
  BY DEF Left, ReservationInv
<1>4. Left(id) > 0 => Left(id) <= pending[id].quantity
  BY <1>1 DEF Left, RowsAgree
<1>5. QED
  BY <1>1, <1>2, <1>3, <1>4 DEF Owed, Kept, Reserved

LEMMA OwedIsInt ==
  ASSUME ReservationInv, RowsAgree, NEW name
  PROVE  OwedSum(name) \in Int
<1> DEFINE f == [id \in OrderIds |-> Owed(name, id)]
<1>1. \A id \in OrderIds : f[id] \in Int
  BY LeftIsKept
<1> HIDE DEF f
<1>2. SumFunctionOnSet(f, OrderIds) \in Int
  BY <1>1, OrderIdsAreFinite, SumType
<1>3. QED
  BY <1>2 DEF OwedSum, f

\* The reservations cover what is outstanding.
LEMMA ReservedCovers ==
  ASSUME ReservationInv, RowsAgree, NEW name
  PROVE  OwedSum(name) <= ReservedBuys(name) /\ ReservedBuys(name) \in Int
<1> DEFINE f == [id \in OrderIds |-> Owed(name, id)]
           g == [id \in OrderIds |-> Kept(name, id)]
           q == [id \in OrderIds |-> pending[id].quantity]
           T == {id \in OrderIds : /\ ~pending[id].terminal
                                   /\ pending[id].instrument = name
                                   /\ pending[id].quantity > 0}
<1>1. \A id \in OrderIds : f[id] \in Int /\ g[id] \in Int /\ f[id] <= g[id]
  BY LeftIsKept
<1>2. /\ \A id \in T : q[id] \in Int /\ g[id] = q[id]
      /\ \A id \in OrderIds \ T : g[id] = 0
      /\ T \in SUBSET OrderIds
  BY LeftIsKept DEF Kept
<1>3. ReservedBuys(name) = SumFunctionOnSet(q, T)
  BY DEF ReservedBuys
<1>4. OwedSum(name) = SumFunctionOnSet(f, OrderIds)
  BY DEF OwedSum
<1> HIDE DEF f, g, q, T
<1>5. SumFunctionOnSet(f, OrderIds) <= SumFunctionOnSet(g, OrderIds)
  BY <1>1, OrderIdsAreFinite, SumOrder
<1>6. SumFunctionOnSet(g, OrderIds) = SumFunctionOnSet(q, T)
  BY <1>2, OrderIdsAreFinite, SumPart
<1>7. SumFunctionOnSet(g, OrderIds) \in Int
  BY <1>1, OrderIdsAreFinite, SumType
<1>8. QED
  BY <1>3, <1>4, <1>5, <1>6, <1>7

\* With one trader, the three parts of Outstanding are parts of one sum over the orders.
LEMMA OutstandingIsOwed ==
  ASSUME ReservationInv, RowsAgree, \A p, q \in Procs : p = q, NEW name
  PROVE  Outstanding(name) = OwedSum(name)
<1> DEFINE f == [id \in OrderIds |-> Owed(name, id)]
           a == [id \in OrderIds |-> orders[id].left]
           b == [p \in Procs |-> IF sending[p] = NoIntent THEN 0 ELSE sending[p].delta]
           d == [id \in OrderIds |-> pending[id].quantity]
           A == {id \in OrderIds : /\ orders[id].state = "working"
                                   /\ orders[id].instrument = name
                                   /\ orders[id].left > 0}
           P == {p \in Procs : /\ sending[p] # NoIntent
                               /\ sending[p].instrument = name
                               /\ sending[p].delta > 0}
           D == {id \in delayed : pending[id].instrument = name /\ pending[id].quantity > 0}
           B == {id \in OrderIds : \E p \in P : sending[p].id = id}
<1>1. \A id \in OrderIds :
        /\ f[id] \in Int /\ d[id] \in Int /\ a[id] \in Int
        /\ f[id] = IF pending[id].instrument = name /\ Left(id) > 0 THEN Left(id) ELSE 0
  BY LeftIsKept DEF Owed, ReservationInv
<1>2. A \subseteq OrderIds /\ B \subseteq OrderIds /\ D \subseteq OrderIds
  BY DEF ReservationInv
<1>3. NoOrder.state # "working"
  BY DEF NoOrder
<1>4. \A p \in P : /\ sending[p].id \in OrderIds /\ sending[p].id \in B /\ sending[p].id \notin delayed
                   /\ orders[sending[p].id].state # "working"
                   /\ sending[p].delta \in Int /\ Left(sending[p].id) = sending[p].delta
                   /\ pending[sending[p].id].instrument = name
  <2>1. TAKE p \in P
  <2>2. sending[p] \in Intents /\ sending[p].id \in OrderIds /\ sending[p].delta \in Int
    BY GateAssumption DEF ReservationInv, OrderIds
  <2>3. orders[sending[p].id] = NoOrder /\ sending[p].id \notin delayed
    BY DEF ReservationInv
  <2>4. pending[sending[p].id].quantity = sending[p].delta /\ pending[sending[p].id].instrument = name
    BY DEF RowsAgree
  <2>5. QED
    BY <1>3, <2>2, <2>3, <2>4 DEF Left
<1>5. \A id \in A : f[id] = a[id] /\ pending[id].instrument = name
  BY <1>1 DEF Left, RowsAgree
<1>6. \A id \in D : f[id] = d[id] /\ orders[id].state # "working"
  BY <1>1, <1>2, <1>3 DEF Left, ReservationInv
<1>7. A \cap B = {} /\ (A \cup B) \cap D = {}
  <2>1. \A id \in A : orders[id].state = "working"
    OBVIOUS
  <2>2. \A id \in B : orders[id].state # "working" /\ id \notin delayed
    BY <1>4
  <2>3. \A id \in D : orders[id].state # "working" /\ id \in delayed
    BY <1>6
  <2> HIDE DEF A, B, D
  <2>4. QED
    BY <2>1, <2>2, <2>3
<1>8. \A id \in OrderIds \ ((A \cup B) \cup D) : f[id] = 0
  <2>1. SUFFICES ASSUME NEW id \in OrderIds, f[id] # 0 PROVE id \in (A \cup B) \cup D
    OBVIOUS
  <2>2. pending[id].instrument = name /\ Left(id) > 0 /\ Left(id) \in Int
    BY <1>1, <2>1, LeftIsKept
  <2>3. CASE orders[id].state = "working"
    BY <2>2, <2>3 DEF Left, RowsAgree
  <2>4. CASE orders[id].state # "working" /\ id \in delayed
    BY <2>2, <2>4 DEF Left
  <2>5. CASE orders[id].state # "working" /\ id \notin delayed
    <3>1. PICK p \in Procs : sending[p] # NoIntent /\ sending[p].id = id
      BY <2>2, <2>5 DEF Left
    <3>2. Left(id) = pending[id].quantity
      BY <2>5, <3>1 DEF Left
    <3>3. p \in P
      BY <2>2, <3>1, <3>2 DEF RowsAgree
    <3>4. QED
      BY <3>1, <3>3
  <2>6. QED
    BY <2>3, <2>4, <2>5
<1>9. SumFunctionOnSet(b, P) = SumFunctionOnSet(f, B) /\ IsFiniteSet(P)
  <2>1. CASE P = {}
    <3>1. B = {}
      BY <2>1
    <3> HIDE DEF b, f, P, B
    <3>2. QED
      BY <2>1, <3>1, SumEmpty, FS_EmptySet
  <2>2. ASSUME NEW p \in P
        PROVE  SumFunctionOnSet(b, P) = SumFunctionOnSet(f, B) /\ IsFiniteSet(P)
    <3>1. PICK e : e = sending[p].id
      OBVIOUS
    <3>2. P = {p} /\ B = {e} /\ e \in OrderIds
      BY <1>4, <2>2, <3>1
    <3>3. b[p] = f[e] /\ b[p] \in Int
      BY <1>1, <1>4, <2>2, <3>1
    <3> HIDE DEF b, f, P, B
    <3>4. IsFiniteSet({p}) /\ IsFiniteSet({e})
      BY FS_Singleton
    <3>5. {p} \ {p} = {} /\ {e} \ {e} = {}
      OBVIOUS
    <3>6. SumFunctionOnSet(b, {p}) = b[p] + SumFunctionOnSet(b, {p} \ {p})
      BY <3>3, <3>4, SumElement
    <3>7. SumFunctionOnSet(f, {e}) = f[e] + SumFunctionOnSet(f, {e} \ {e})
      BY <3>3, <3>4, SumElement
    <3>8. QED
      BY <3>2, <3>3, <3>4, <3>5, <3>6, <3>7, SumEmpty
  <2>3. QED
    BY <2>1, <2>2
<1>10. Outstanding(name) = SumFunctionOnSet(a, A) + SumFunctionOnSet(b, P) + SumFunctionOnSet(d, D)
  BY DEF Outstanding
<1>11. OwedSum(name) = SumFunctionOnSet(f, OrderIds)
  BY DEF OwedSum
<1> HIDE DEF f, a, b, d, A, B, P, D
<1>12. IsFiniteSet(A) /\ IsFiniteSet(B) /\ IsFiniteSet(D) /\ IsFiniteSet(A \cup B)
  <2>1. A \cup B \subseteq OrderIds
    BY <1>2
  <2>2. QED
    BY <1>2, <2>1, OrderIdsAreFinite, FS_Subset
<1>13. SumFunctionOnSet(f, A) = SumFunctionOnSet(a, A) /\ SumFunctionOnSet(f, D) = SumFunctionOnSet(d, D)
  BY <1>5, <1>6, <1>12, SumSame
<1>14. SumFunctionOnSet(f, A \cup B) = SumFunctionOnSet(f, A) + SumFunctionOnSet(f, B)
  <2>1. \A id \in A \cup B : f[id] \in Int
    BY <1>1, <1>2
  <2>2. QED
    BY <1>7, <1>12, <2>1, SumUnion
<1>15. SumFunctionOnSet(f, (A \cup B) \cup D) = SumFunctionOnSet(f, A \cup B) + SumFunctionOnSet(f, D)
  <2>1. \A id \in (A \cup B) \cup D : f[id] \in Int
    BY <1>1, <1>2
  <2>2. PICK U : U = A \cup B
    OBVIOUS
  <2>3. SumFunctionOnSet(f, U \cup D) = SumFunctionOnSet(f, U) + SumFunctionOnSet(f, D)
    BY <1>7, <1>12, <2>1, <2>2, SumUnion
  <2>4. QED
    BY <2>2, <2>3
<1>16. SumFunctionOnSet(f, OrderIds) = SumFunctionOnSet(f, (A \cup B) \cup D)
  <2>1. PICK U : U = (A \cup B) \cup D
    OBVIOUS
  <2>2. U \in SUBSET OrderIds /\ (\A x \in U : f[x] \in Int /\ f[x] = f[x]) /\ (\A x \in OrderIds \ U : f[x] = 0)
    BY <1>1, <1>2, <1>8, <2>1
  <2>3. SumFunctionOnSet(f, OrderIds) = SumFunctionOnSet(f, U)
    BY <2>2, OrderIdsAreFinite, SumPart
  <2>4. QED
    BY <2>1, <2>3
<1>17. QED
  <2>1. SumFunctionOnSet(f, A) \in Int /\ SumFunctionOnSet(f, B) \in Int /\ SumFunctionOnSet(f, D) \in Int
    BY <1>1, <1>2, <1>12, SumType
  <2>2. QED
    BY <1>9, <1>10, <1>11, <1>13, <1>14, <1>15, <1>16, <2>1

-----------------------------------------------------------------------------
LEMMA LessOwed ==
  ASSUME ReservationInv, RowsAgree, ReservationInv', RowsAgree', NEW name,
         \A id \in OrderIds : Owed(name, id)' <= Owed(name, id)
  PROVE  OwedSum(name)' <= OwedSum(name)
<1> DEFINE f == [id \in OrderIds |-> Owed(name, id)]
           g == [id \in OrderIds |-> Owed(name, id)']
<1>1. \A id \in OrderIds : f[id] \in Int
  BY LeftIsKept
<1>2. \A id \in OrderIds : Owed(name, id)' \in Int
  <2>1. SUFFICES ASSUME NEW id \in OrderIds PROVE Owed(name, id)' \in Int
    OBVIOUS
  <2>2. Left(id)' \in Int
    BY DEF Left, ReservationInv, Rows
  <2>3. QED
    BY <2>2 DEF Owed
<1>3. \A id \in OrderIds : g[id] \in Int /\ g[id] <= f[id]
  BY <1>2
<1>4. OwedSum(name) = SumFunctionOnSet(f, OrderIds) /\ OwedSum(name)' = SumFunctionOnSet(g, OrderIds)
  BY DEF OwedSum
<1> HIDE DEF f, g
<1>5. QED
  BY <1>1, <1>3, <1>4, OrderIdsAreFinite, SumOrder

\* A step after which no more can fill than before, and which takes no snapshot.
Settles ==
  /\ config' = config /\ held' \in [Procs -> {NoConfig, config}]
  /\ position' \in [Instruments -> Int]
  /\ taken' = [p \in Procs |-> taken'[p]]
  /\ \A p \in Procs : taken'[p] # NoSnapshot =>
       taken'[p] = taken[p] /\ sending'[p] = NoIntent /\ pending' = pending
  /\ pending' = pending \/ config # NoConfig
  /\ RowsAgree'
  /\ \A name \in Instruments : OwedSum(name)' <= OwedSum(name) /\ Worst(name)' <= Worst(name)

LEMMA CapsLast ==
  ASSUME ExposureInv, ReservationInv', RowsAgree', position' \in [Instruments -> Int], config' = config,
         \A name \in Instruments : OwedSum(name)' <= OwedSum(name) /\ Worst(name)' <= Worst(name)
  PROVE  Capped'
<1>1. \A name \in Instruments : OwedSum(name) \in Int /\ OwedSum(name)' \in Int
  <2>1. \A name : OwedSum(name) \in Int
    BY OwedIsInt DEF ExposureInv
  <2>2. \A name : OwedSum(name)' \in Int
    <3>1. SUFFICES ASSUME NEW name PROVE OwedSum(name)' \in Int
      OBVIOUS
    <3> DEFINE g == [id \in OrderIds |-> Owed(name, id)']
    <3>2. \A id \in OrderIds : g[id] \in Int
      BY DEF Owed, Left, ReservationInv, Rows
    <3>3. OwedSum(name)' = SumFunctionOnSet(g, OrderIds)
      BY DEF OwedSum
    <3> HIDE DEF g
    <3>4. QED
      BY <3>2, <3>3, OrderIdsAreFinite, SumType
  <2>3. QED
    BY <2>1, <2>2
<1>2. \A name \in Instruments : Worst(name) \in Int /\ Worst(name)' \in Int /\ Price[name] \in Nat
  BY <1>1, TradingAssumption DEF Worst, ExposureInv
<1>3. \A name \in Instruments : Worst(name)' * Price[name] <= Worst(name) * Price[name]
  BY <1>2, Grows
<1> DEFINE f == [name \in Instruments |-> Worst(name)' * Price[name]]
           g == [name \in Instruments |-> Worst(name) * Price[name]]
<1>4. \A name \in Instruments : f[name] \in Int /\ g[name] \in Int /\ f[name] <= g[name]
  BY <1>2, <1>3
<1> HIDE DEF f, g
<1>5. SumFunctionOnSet(f, Instruments) <= SumFunctionOnSet(g, Instruments)
  BY <1>4, TradingAssumption, SumOrder
<1>6. SumFunctionOnSet(f, Instruments) \in Int /\ SumFunctionOnSet(g, Instruments) \in Int
  BY <1>4, TradingAssumption, SumType
<1>7. config # NoConfig => config.positionPct * Equity \in Int /\ config.grossPct * Equity \in Int
  BY GateAssumption, TradingAssumption DEF ExposureInv, OneConfig, ValidConfig, Fraction
<1>8. SUFFICES ASSUME config # NoConfig
               PROVE  /\ \A name \in Instruments : OwedSum(name)' > 0 =>
                           100 * (Worst(name)' * Price[name]) < config.positionPct * Equity
                      /\ (\E name \in Instruments : OwedSum(name)' > 0) =>
                           100 * SumFunctionOnSet(f, Instruments) < config.grossPct * Equity
  BY DEF Capped, f
<1>9. ASSUME NEW name \in Instruments, OwedSum(name)' > 0
      PROVE  /\ 100 * (Worst(name)' * Price[name]) < config.positionPct * Equity
             /\ 100 * SumFunctionOnSet(f, Instruments) < config.grossPct * Equity
  <2>1. OwedSum(name) > 0
    BY <1>1, <1>9
  <2>2. /\ 100 * (Worst(name) * Price[name]) < config.positionPct * Equity
        /\ 100 * SumFunctionOnSet(g, Instruments) < config.grossPct * Equity
    BY <1>8, <2>1 DEF ExposureInv, Capped, g
  <2>3. PICK x, y : x = Worst(name) * Price[name] /\ y = Worst(name)' * Price[name]
    OBVIOUS
  <2>4. x \in Int /\ y \in Int /\ y <= x
    BY <1>2, <1>3, <2>3
  <2>5. QED
    BY <1>5, <1>6, <1>7, <1>8, <2>2, <2>3, <2>4
<1>10. QED
  BY <1>9

LEMMA SettlesKeeps ==
  ASSUME ExposureInv, ReservationInv', Settles
  PROVE  ExposureInv'
<1>1. Capped'
  BY CapsLast DEF Settles
<1>2. OneConfig'
  BY DEF Settles, ExposureInv, OneConfig
<1>3. SnapshotCovers'
  <2>1. ASSUME NEW p \in Procs, taken'[p] # NoSnapshot
        PROVE  /\ sending'[p] = NoIntent
               /\ taken'[p].equity = Equity /\ taken'[p].prices = Price
               /\ taken'[p].positions \in [Instruments -> Int]
               /\ \A name \in Instruments :
                    Worst(name)' <= taken'[p].positions[name] + ReservedBuys(name)'
    <3>1. taken'[p] = taken[p] /\ sending'[p] = NoIntent /\ pending' = pending
      BY <2>1 DEF Settles
    <3>2. \A name \in Instruments : ReservedBuys(name)' = ReservedBuys(name)
      BY <3>1 DEF ReservedBuys
    <3>3. /\ taken[p].equity = Equity /\ taken[p].prices = Price
          /\ taken[p].positions \in [Instruments -> Int]
          /\ \A name \in Instruments : Worst(name) <= taken[p].positions[name] + ReservedBuys(name)
      BY <2>1, <3>1 DEF ExposureInv, SnapshotCovers
    <3>4. ASSUME NEW name \in Instruments
          PROVE  Worst(name)' <= taken[p].positions[name] + ReservedBuys(name)
      <4>1. PICK x, y, z : x = Worst(name)' /\ y = Worst(name) /\ z = taken[p].positions[name] + ReservedBuys(name)
        OBVIOUS
      <4>2. y \in Int /\ z \in Int
        BY <3>3, <4>1, OwedIsInt, ReservedCovers DEF Worst, ExposureInv
      <4>3. x \in Int
        <5> DEFINE g == [id \in OrderIds |-> Owed(name, id)']
        <5>1. \A id \in OrderIds : g[id] \in Int
          BY DEF Owed, Left, ReservationInv, Rows
        <5>2. OwedSum(name)' = SumFunctionOnSet(g, OrderIds)
          BY DEF OwedSum
        <5> HIDE DEF g
        <5>3. OwedSum(name)' \in Int
          BY <5>1, <5>2, OrderIdsAreFinite, SumType
        <5>4. QED
          BY <4>1, <5>3 DEF Worst, Settles
      <4>4. x <= y /\ y <= z
        BY <3>3, <4>1 DEF Settles
      <4>5. QED
        BY <4>1, <4>2, <4>3, <4>4
    <3>5. QED
      BY <3>1, <3>2, <3>3, <3>4
  <2>2. taken' = [p \in Procs |-> taken'[p]]
    BY DEF Settles
  <2>3. QED
    BY <2>1, <2>2 DEF SnapshotCovers
<1>4. QED
  BY <1>1, <1>2, <1>3 DEF ExposureInv, Settles

\* The account stays, and of no order can more fill than before.
LEMMA StillSettles ==
  ASSUME ExposureInv, ReservationInv', RowsAgree', config' = config, position' = position,
         held' \in [Procs -> {NoConfig, config}],
         taken' = [p \in Procs |-> taken'[p]],
         \A p \in Procs : taken'[p] # NoSnapshot =>
           taken'[p] = taken[p] /\ sending'[p] = NoIntent /\ pending' = pending,
         pending' = pending \/ config # NoConfig,
         \A id \in OrderIds : \A name : Owed(name, id)' <= Owed(name, id)
  PROVE  ExposureInv' /\ Shrinks
<1>1. \A name \in Instruments : OwedSum(name)' <= OwedSum(name)
  BY LessOwed DEF ExposureInv
<1>2. \A name \in Instruments : OwedSum(name) \in Int /\ OwedSum(name)' \in Int
  <2>1. ASSUME NEW name PROVE OwedSum(name)' \in Int
    <3> DEFINE g == [id \in OrderIds |-> Owed(name, id)']
    <3>1. \A id \in OrderIds : g[id] \in Int
      BY DEF Owed, Left, ReservationInv, Rows
    <3>2. OwedSum(name)' = SumFunctionOnSet(g, OrderIds)
      BY DEF OwedSum
    <3> HIDE DEF g
    <3>3. QED
      BY <3>1, <3>2, OrderIdsAreFinite, SumType
  <2>2. QED
    BY <2>1, OwedIsInt DEF ExposureInv
<1>3. \A name \in Instruments : Worst(name)' <= Worst(name)
  BY <1>1, <1>2 DEF Worst, ExposureInv
<1>4. Settles
  BY <1>1, <1>3 DEF Settles, ExposureInv
<1>5. QED
  BY <1>3, <1>4, SettlesKeeps DEF Shrinks

\* Requests on their way: what can still fill of an order does not change as it goes.
LEMMA RequestSteps ==
  ASSUME ExposureInv, ReservationInv', \A p, q \in Procs : p = q,
         \/ \E p \in Procs : Deliver(p) \/ TimeOut(p)
         \/ \E id \in OrderIds : Arrive(id)
  PROVE  ExposureInv' /\ Shrinks
<1>0. /\ UNCHANGED <<vars, position, taken>> /\ UNCHANGED pending
      /\ taken = [p \in Procs |-> taken[p]]
  BY DEF Deliver, TimeOut, Arrive, broker, traders, vars, ExposureInv, SnapshotCovers
<1>1. config' = config /\ held' \in [Procs -> {NoConfig, config}]
  BY <1>0 DEF vars, setting, ExposureInv, OneConfig
<1>2. sending \in [Procs -> Intents \cup {NoIntent}] /\ NoOrder.state # "working"
  BY DEF ExposureInv, ReservationInv, NoOrder
<1>3. ASSUME NEW p \in Procs, Deliver(p)
      PROVE  RowsAgree' /\ (\A id \in OrderIds : Left(id)' = Left(id))
             /\ \A q \in Procs : sending'[q] = NoIntent
  <2> DEFINE i == sending[p]
             o == [state |-> "working", instrument |-> i.instrument, left |-> i.delta]
  <2>1. i # NoIntent /\ i \in Intents /\ i.id \in OrderIds /\ i.delta \in Int \ {0}
    BY <1>2, <1>3, GateAssumption DEF Deliver, OrderIds
  <2>2. /\ orders[i.id] = NoOrder /\ orders' = [orders EXCEPT ![i.id] = o]
        /\ sending' = [sending EXCEPT ![p] = NoIntent] /\ delayed' = delayed
    BY <1>3 DEF Deliver, Received
  <2>3. /\ pending[i.id].instrument = i.instrument /\ pending[i.id].quantity = i.delta
        /\ i.id \notin delayed
    BY <2>1 DEF ExposureInv, RowsAgree, ReservationInv
  <2>4. \A q \in Procs : q = p /\ sending'[q] = NoIntent
    BY <1>2, <2>2
  <2>5. o.state = "working" /\ o.instrument = i.instrument /\ o.left = i.delta
    OBVIOUS
  <2> HIDE DEF o
  <2>6. /\ orders'[i.id] = o
        /\ \A id \in OrderIds \ {i.id} : orders'[id] = orders[id]
    BY <2>1, <2>2 DEF ExposureInv, ReservationInv
  <2>7. RowsAgree'
    BY <1>0, <2>1, <2>3, <2>4, <2>5, <2>6 DEF ExposureInv, RowsAgree
  <2>8. PICK e : e = i.id
    OBVIOUS
  <2>9. Left(e)' = Left(e)
    BY <1>2, <2>1, <2>2, <2>3, <2>5, <2>6, <2>8 DEF Left
  <2>10. \A id \in OrderIds \ {e} : Left(id)' = Left(id)
    BY <1>0, <2>1, <2>2, <2>4, <2>6, <2>8 DEF Left
  <2>11. QED
    BY <2>4, <2>7, <2>9, <2>10
<1>4. ASSUME NEW p \in Procs, TimeOut(p)
      PROVE  RowsAgree' /\ (\A id \in OrderIds : Left(id)' = Left(id))
             /\ \A q \in Procs : sending'[q] = NoIntent
  <2>1. /\ sending[p] # NoIntent /\ delayed' = delayed \cup {sending[p].id}
        /\ sending' = [sending EXCEPT ![p] = NoIntent] /\ orders' = orders
    BY <1>4 DEF TimeOut, broker
  <2>2. \A q \in Procs : q = p /\ sending'[q] = NoIntent
    BY <1>2, <2>1
  <2>3. RowsAgree'
    BY <1>0, <2>1, <2>2 DEF ExposureInv, RowsAgree
  <2>4. \A id \in OrderIds : Left(id)' = Left(id)
    BY <1>0, <2>1, <2>2 DEF Left
  <2>5. QED
    BY <2>2, <2>3, <2>4
<1>5. ASSUME NEW e \in OrderIds, Arrive(e)
      PROVE  RowsAgree' /\ (\A id \in OrderIds : Left(id)' = Left(id)) /\ sending' = sending
  <2> DEFINE o == [state |-> "working", instrument |-> pending[e].instrument, left |-> pending[e].quantity]
  <2>1. /\ e \in delayed /\ delayed' = delayed \ {e} /\ sending' = sending
        /\ orders[e] = NoOrder /\ orders' = [orders EXCEPT ![e] = o]
    BY <1>5 DEF Arrive, Received, traders
  <2>2. o.state = "working" /\ o.instrument = pending[e].instrument /\ o.left = pending[e].quantity
    OBVIOUS
  <2> HIDE DEF o
  <2>3. /\ orders'[e] = o
        /\ \A id \in OrderIds \ {e} : orders'[id] = orders[id]
    BY <2>1 DEF ExposureInv, ReservationInv
  <2>4. pending[e].quantity \in Int /\ pending[e].quantity # 0
    BY <2>1 DEF ExposureInv, ReservationInv, Reserved, Rows
  <2>5. RowsAgree'
    BY <1>0, <2>1, <2>2, <2>3, <2>4 DEF ExposureInv, RowsAgree
  <2>6. Left(e)' = Left(e)
    BY <1>2, <2>1, <2>2, <2>3 DEF Left
  <2>7. \A id \in OrderIds \ {e} : Left(id)' = Left(id)
    BY <1>0, <2>1, <2>3 DEF Left
  <2>8. QED
    BY <2>1, <2>5, <2>6, <2>7
<1>6. /\ RowsAgree' /\ \A id \in OrderIds : Left(id)' = Left(id)
      /\ \A p \in Procs : taken[p] # NoSnapshot => sending'[p] = NoIntent
  BY <1>3, <1>4, <1>5 DEF ExposureInv, SnapshotCovers
<1>7. \A id \in OrderIds : \A name : Owed(name, id)' <= Owed(name, id)
  <2>1. ASSUME NEW id \in OrderIds, NEW name PROVE Owed(name, id)' <= Owed(name, id)
    <3>1. Owed(name, id)' = Owed(name, id) /\ Owed(name, id) \in Nat
      BY <1>0, <1>6, <2>1, LeftIsKept DEF Owed, ExposureInv
    <3>2. QED
      BY <3>1
  <2>2. QED
    BY <2>1
<1>8. position' = position /\ taken' = taken
  BY <1>0
<1>9. QED
  BY <1>0, <1>1, <1>6, <1>7, <1>8, StillSettles

LEMMA SnapshotStep ==
  ASSUME ExposureInv, ReservationInv', NEW p \in Procs, TakeSnapshot(p), \A q \in Procs : q = p
  PROVE  ExposureInv' /\ Shrinks
<1>1. /\ taken' = [taken EXCEPT ![p] = View] /\ sending[p] = NoIntent
      /\ UNCHANGED <<config, held, pending, position, orders, sending, delayed>>
  BY DEF TakeSnapshot, Idle, broker, vars, setting
<1>2. /\ OneConfig' /\ RowsAgree' /\ Capped' /\ position' \in [Instruments -> Int]
      /\ \A name : Worst(name)' = Worst(name) /\ ReservedBuys(name)' = ReservedBuys(name)
  <2>1. \A name : /\ OwedSum(name)' = OwedSum(name) /\ Worst(name)' = Worst(name)
                  /\ ReservedBuys(name)' = ReservedBuys(name)
    BY <1>1 DEF Worst, OwedSum, Owed, Left, ReservedBuys
  <2>2. OneConfig' /\ RowsAgree' /\ position' \in [Instruments -> Int]
    BY <1>1 DEF ExposureInv, OneConfig, RowsAgree
  <2>3. Capped'
    BY <1>1, <2>1 DEF ExposureInv, Capped
  <2>4. QED
    BY <2>1, <2>2, <2>3
<1>3. View.equity = Equity /\ View.prices = Price /\ View.positions = position
  BY DEF View
<1>4. taken' = [q \in Procs |-> taken'[q]] /\ \A q \in Procs : taken'[q] = View
  <2>1. PICK v : v = View
    OBVIOUS
  <2>2. taken' = [taken EXCEPT ![p] = v] /\ taken = [q \in Procs |-> taken[q]]
    BY <1>1, <2>1 DEF ExposureInv, SnapshotCovers
  <2>3. QED
    BY <2>1, <2>2
<1>5. ASSUME NEW name \in Instruments
      PROVE  Worst(name) <= position[name] + ReservedBuys(name)
  BY OwedIsInt, ReservedCovers DEF Worst, ExposureInv
<1>6. SnapshotCovers'
  <2>1. PICK v : v = View
    OBVIOUS
  <2>2. \A q \in Procs : sending'[q] = NoIntent /\ taken'[q] = v
    BY <1>1, <1>4, <2>1
  <2>3. v.equity = Equity /\ v.prices = Price /\ v.positions = position /\ position \in [Instruments -> Int]
    BY <1>3, <2>1 DEF ExposureInv
  <2>4. \A name \in Instruments : Worst(name)' <= v.positions[name] + ReservedBuys(name)'
    BY <1>2, <1>5, <2>3
  <2>5. QED
    BY <1>4, <2>2, <2>3, <2>4 DEF SnapshotCovers
<1>7. QED
  BY <1>2, <1>6, OwedIsInt DEF ExposureInv, Shrinks, Worst

\* Processes come and go; a reservation is released when nothing of its order can fill.
LEMMA ProcessSteps ==
  ASSUME ExposureInv, ReservationInv', NEW p \in Procs, \A q \in Procs : q = p,
         \/ Crash(p) \/ Kill(p) \/ Reenable(p) \/ ReleaseUnsent(p)
         \/ \E id \in OrderIds : Reconcile(p, id)
  PROVE  ExposureInv' /\ Shrinks
<1>0. /\ taken = [q \in Procs |-> taken[q]] /\ sending \in [Procs -> Intents \cup {NoIntent}]
      /\ held \in [Procs -> {NoConfig, config}] /\ NoOrder.state \notin {"working", "terminal"}
      /\ pending \in [OrderIds -> Rows]
  BY DEF ExposureInv, SnapshotCovers, OneConfig, ReservationInv, NoOrder
<1>1. /\ UNCHANGED <<config, position, orders, delayed>>
      /\ held' \in [Procs -> {NoConfig, config}]
  BY <1>0 DEF Crash, Close, Kill, RequestKill, Reenable, ResetKill, ReleaseUnsent, Reconcile, RecordOrderOutcome, broker, setting
<1>2. /\ taken' = [q \in Procs |-> taken'[q]]
      /\ taken'[p] \in {taken[p], NoSnapshot} /\ sending'[p] \in {sending[p], NoIntent}
  <2>1. taken' \in {taken, [taken EXCEPT ![p] = NoSnapshot]} /\ sending' \in {sending, [sending EXCEPT ![p] = NoIntent]}
    BY DEF Crash, Kill, Reenable, ReleaseUnsent, Reconcile, traders
  <2>2. PICK n : n = NoSnapshot
    OBVIOUS
  <2>3. QED
    BY <1>0, <2>1, <2>2
<1>3. \A id \in OrderIds : pending'[id].quantity = pending[id].quantity /\ pending'[id].instrument = pending[id].instrument
  <2>1. CASE pending' = pending
    BY <2>1
  <2>2. ASSUME NEW e, pending' = [pending EXCEPT ![e].terminal = TRUE]
        PROVE  \A id \in OrderIds : pending'[id].quantity = pending[id].quantity
                                    /\ pending'[id].instrument = pending[id].instrument
    BY <1>0, <2>2 DEF Rows
  <2>3. QED
    BY <2>1, <2>2 DEF Crash, Close, Kill, RequestKill, Reenable, ResetKill, ReleaseUnsent, Reconcile, RecordOrderOutcome
<1>4. RowsAgree'
  <2>1. \A id \in OrderIds : orders[id].state = "working" =>
          /\ orders[id].instrument = pending[id].instrument
          /\ orders[id].left # 0 /\ (orders[id].left > 0 => orders[id].left <= pending[id].quantity)
    BY DEF ExposureInv, RowsAgree
  <2>2. \A q \in Procs : sending'[q] # NoIntent =>
          /\ sending'[q] = sending[q] /\ sending[q].id \in OrderIds
          /\ pending[sending[q].id].instrument = sending[q].instrument
          /\ pending[sending[q].id].quantity = sending[q].delta
    BY <1>0, <1>2 DEF ExposureInv, RowsAgree, OrderIds
  <2>3. QED
    BY <1>1, <1>3, <2>1, <2>2 DEF RowsAgree
<1>5. \A id \in OrderIds : Left(id)' \in {Left(id), 0}
  BY <1>1, <1>2, <1>3 DEF Left
<1>6. \A id \in OrderIds : \A name : Owed(name, id)' <= Owed(name, id)
  <2>1. ASSUME NEW id \in OrderIds, NEW name PROVE Owed(name, id)' <= Owed(name, id)
    <3>1. Owed(name, id)' \in {Owed(name, id), 0} /\ Owed(name, id) \in Nat
      BY <1>3, <1>5, LeftIsKept DEF Owed, ExposureInv
    <3>2. QED
      BY <3>1
  <2>2. QED
    BY <2>1
<1>7. taken'[p] # NoSnapshot => taken'[p] = taken[p] /\ sending'[p] = NoIntent /\ pending' = pending
  <2>1. taken[p] # NoSnapshot => sending[p] = NoIntent
    BY DEF ExposureInv, SnapshotCovers
  <2>2. CASE Crash(p)
    BY <1>0, <2>2 DEF Crash
  <2>3. CASE Kill(p) \/ Reenable(p)
    BY <1>2, <2>1, <2>3 DEF Kill, RequestKill, Reenable, ResetKill, traders
  <2>4. CASE ReleaseUnsent(p)
    BY <2>1, <2>4 DEF ReleaseUnsent
  <2>5. ASSUME NEW id, Reconcile(p, id)
        PROVE  taken'[p] = NoSnapshot
    BY <2>5 DEF Reconcile, Idle, traders
  <2>6. QED
    BY <2>2, <2>3, <2>4, <2>5
<1>8. pending' = pending \/ config # NoConfig
  <2>1. CASE held[p] # NoConfig
    BY <1>0, <2>1
  <2>2. CASE held[p] = NoConfig
    BY <2>2 DEF Crash, Close, Kill, RequestKill, Reenable, ResetKill, ReleaseUnsent, Reconcile, RecordOrderOutcome, Running
  <2>3. QED
    BY <2>1, <2>2
<1>9. \A q \in Procs : taken'[q] # NoSnapshot => taken'[q] = taken[q] /\ sending'[q] = NoIntent /\ pending' = pending
  BY <1>7
<1>10. QED
  BY <1>1, <1>2, <1>4, <1>6, <1>8, <1>9, StillSettles

\* The first process brings the configuration: before, nothing is reserved or at work.
LEMMA StartStep ==
  ASSUME ExposureInv, ReservationInv', NEW p \in Procs, NEW c \in Configs, Start(p, c), \A q \in Procs : q = p
  PROVE  ExposureInv' /\ Shrinks
<1>1. /\ UNCHANGED <<pending, position, orders, taken, sending, delayed>>
      /\ config \in {NoConfig, c} /\ config' = c /\ held' = [held EXCEPT ![p] = c]
  BY DEF Start, Open, broker, traders
<1>2. /\ RowsAgree' /\ SnapshotCovers' /\ position' \in [Instruments -> Int]
      /\ \A name : OwedSum(name)' = OwedSum(name) /\ Worst(name)' = Worst(name)
  <2>1. RowsAgree' /\ position' \in [Instruments -> Int]
    BY <1>1 DEF ExposureInv, RowsAgree
  <2>2. \A name : /\ OwedSum(name)' = OwedSum(name) /\ Worst(name)' = Worst(name)
                  /\ ReservedBuys(name)' = ReservedBuys(name)
    BY <1>1 DEF Worst, OwedSum, Owed, Left, ReservedBuys
  <2>3. SnapshotCovers'
    BY <1>1, <2>2 DEF ExposureInv, SnapshotCovers
  <2>4. QED
    BY <2>1, <2>2, <2>3
<1>3. OneConfig'
  BY <1>1, GateAssumption DEF ExposureInv, OneConfig
<1>4. Capped'
  <2>1. CASE config = c
    BY <1>1, <1>2, <2>1 DEF ExposureInv, Capped
  <2>2. CASE config = NoConfig
    <3>1. \A id \in OrderIds : pending[id] = NoRow
      BY <2>2 DEF ExposureInv, OneConfig
    <3>2. ASSUME NEW name
          PROVE  OwedSum(name) = 0
      <4> DEFINE f == [id \in OrderIds |-> Owed(name, id)]
      <4>1. \A id \in OrderIds : f[id] = 0
        BY <3>1, LeftIsKept DEF ExposureInv, Owed, Reserved
      <4>2. OwedSum(name) = SumFunctionOnSet(f, OrderIds)
        BY DEF OwedSum
      <4> HIDE DEF f
      <4>3. QED
        BY <4>1, <4>2, OrderIdsAreFinite, SumZero
    <3>3. \A name \in Instruments : ~ (OwedSum(name)' > 0)
      BY <1>2, <3>2
    <3>4. QED
      BY <3>3 DEF Capped
  <2>3. QED
    BY <1>1, <2>1, <2>2
<1>5. Shrinks
  BY <1>2, OwedIsInt DEF ExposureInv, Shrinks, Worst
<1>6. QED
  BY <1>2, <1>3, <1>4, <1>5 DEF ExposureInv

\* A fill moves a share from what can still fill into the position, or out of it.
LEMMA FillStep ==
  ASSUME ExposureInv, ReservationInv', NEW e \in OrderIds, Fill(e)
  PROVE  ExposureInv' /\ Shrinks
<1>1. PICK o, x, k : o = orders[e] /\ x = o.left /\ k = o.instrument
  OBVIOUS
<1> DEFINE unit == IF x > 0 THEN 1 ELSE -1
           state == IF x = unit THEN "terminal" ELSE "working"
           row == [o EXCEPT !.left = x - unit, !.state = state]
<1>2. /\ o.state = "working" /\ x \in Int /\ x # 0 /\ k = pending[e].instrument
      /\ x > 0 => x <= pending[e].quantity
      /\ o \in [state: {"unknown", "working", "terminal"}, instrument: Instruments \cup {"none"}, left: Int]
  BY <1>1 DEF Fill, ExposureInv, ReservationInv, RowsAgree
<1>3. /\ orders' = [orders EXCEPT ![e] = row] /\ position' = [position EXCEPT ![k] = @ + unit]
      /\ UNCHANGED <<config, held, pending, taken, sending, delayed>>
  BY <1>1 DEF Fill, vars, setting, traders
<1>4. row.left = x - unit /\ row.state = state /\ row.instrument = k
  BY <1>1, <1>2
<1> HIDE DEF row
<1>5. /\ orders'[e] = row /\ \A id \in OrderIds \ {e} : orders'[id] = orders[id]
  BY <1>3 DEF ExposureInv, ReservationInv
<1>6. /\ e \notin delayed /\ \A p \in Procs : sending[p] # NoIntent => sending[p].id # e
      /\ NoOrder.state # "working"
  BY <1>1, <1>2 DEF ExposureInv, ReservationInv, NoOrder
<1>7. Left(e) = x /\ Left(e)' = x - unit
  BY <1>1, <1>2, <1>3, <1>4, <1>5, <1>6 DEF Left
<1>8. \A id \in OrderIds \ {e} : Left(id)' = Left(id)
  BY <1>3, <1>5 DEF Left
<1>9. RowsAgree'
  <2>1. \A p \in Procs : sending[p] # NoIntent =>
          /\ pending[sending[p].id].instrument = sending[p].instrument
          /\ pending[sending[p].id].quantity = sending[p].delta
    BY DEF ExposureInv, RowsAgree
  <2>2. \A id \in OrderIds \ {e} : orders[id].state = "working" =>
          /\ orders[id].instrument = pending[id].instrument
          /\ orders[id].left # 0 /\ (orders[id].left > 0 => orders[id].left <= pending[id].quantity)
    BY DEF ExposureInv, RowsAgree
  <2>3. row.state = "working" =>
          row.instrument = pending[e].instrument /\ row.left # 0 /\ (row.left > 0 => row.left <= pending[e].quantity)
    <3>1. pending[e].quantity \in Int
      BY DEF ExposureInv, ReservationInv, Rows
    <3>2. QED
      BY <1>2, <1>4, <3>1
  <2>4. QED
    BY <1>3, <1>5, <2>1, <2>2, <2>3 DEF RowsAgree
<1>10. position' \in [Instruments -> Int] /\ position \in [Instruments -> Int]
       /\ \A name \in Instruments : position'[name] = IF name = k THEN position[name] + unit ELSE position[name]
  <2>1. unit \in Int
    OBVIOUS
  <2> HIDE DEF unit
  <2>2. position \in [Instruments -> Int] /\ position' = [position EXCEPT ![k] = position[k] + unit]
    BY <1>3 DEF ExposureInv
  <2>3. CASE k \in Instruments
    BY <2>1, <2>2, <2>3
  <2>4. CASE k \notin Instruments
    <3>1. position' = position
      BY <2>2, <2>4
    <3>2. QED
      BY <2>2, <2>4, <3>1
  <2>5. QED
    BY <2>3, <2>4
<1>11. ASSUME NEW name \in Instruments
       PROVE  OwedSum(name)' <= OwedSum(name) /\ Worst(name)' <= Worst(name)
  <2> DEFINE f == [id \in OrderIds |-> Owed(name, id)]
             g == [id \in OrderIds |-> Owed(name, id)']
  <2>1. \A id \in OrderIds : f[id] \in Int /\ (id # e => g[id] = f[id])
    BY <1>3, <1>8, LeftIsKept DEF Owed, ExposureInv
  <2>2. /\ f[e] = IF name = k /\ x > 0 THEN x ELSE 0
        /\ g[e] = IF name = k /\ x > 0 THEN x - 1 ELSE 0
    BY <1>2, <1>3, <1>7 DEF Owed
  <2>3. OwedSum(name) = SumFunctionOnSet(f, OrderIds) /\ OwedSum(name)' = SumFunctionOnSet(g, OrderIds)
    BY DEF OwedSum
  <2> HIDE DEF f, g
  <2>4. \A id \in OrderIds : f[id] \in Int /\ g[id] \in Int
    BY <1>2, <2>1, <2>2
  <2>5. SumFunctionOnSet(g, OrderIds) = SumFunctionOnSet(f, OrderIds) + g[e] - f[e]
    BY <2>1, <2>4, OrderIdsAreFinite, SumChange
  <2>6. SumFunctionOnSet(f, OrderIds) \in Int
    BY <2>4, OrderIdsAreFinite, SumType
  <2>7. QED
    BY <1>2, <1>10, <2>2, <2>3, <2>4, <2>5, <2>6 DEF Worst
<1>12. Settles
  BY <1>3, <1>9, <1>10, <1>11 DEF Settles, ExposureInv, OneConfig, SnapshotCovers
<1>13. QED
  BY <1>11, <1>12, SettlesKeeps DEF Shrinks

LEMMA ExpireStep ==
  ASSUME ExposureInv, ReservationInv', NEW e \in OrderIds, Expire(e)
  PROVE  ExposureInv' /\ Shrinks
<1>1. /\ orders[e].state = "working" /\ orders' = [orders EXCEPT ![e].state = "terminal"]
      /\ UNCHANGED <<config, held, pending, taken, position, sending, delayed>>
  BY DEF Expire, vars, setting, traders
<1>2. orders'[e].state = "terminal" /\ \A id \in OrderIds \ {e} : orders'[id] = orders[id]
  BY <1>1 DEF ExposureInv, ReservationInv
<1>3. /\ e \notin delayed /\ \A p \in Procs : sending[p] # NoIntent => sending[p].id # e
      /\ NoOrder.state # "working"
  BY <1>1 DEF ExposureInv, ReservationInv, NoOrder
<1>4. \A id \in OrderIds : Left(id)' \in {Left(id), 0}
  BY <1>1, <1>2, <1>3 DEF Left
<1>5. RowsAgree'
  BY <1>1, <1>2 DEF ExposureInv, RowsAgree
<1>6. \A id \in OrderIds : \A name : Owed(name, id)' <= Owed(name, id)
  <2>1. ASSUME NEW id \in OrderIds, NEW name PROVE Owed(name, id)' <= Owed(name, id)
    <3>1. Owed(name, id)' \in {Owed(name, id), 0} /\ Owed(name, id) \in Nat
      BY <1>1, <1>4, LeftIsKept DEF Owed, ExposureInv
    <3>2. QED
      BY <3>1
  <2>2. QED
    BY <2>1
<1>7. held' \in [Procs -> {NoConfig, config}] /\ taken' = [p \in Procs |-> taken'[p]]
  BY <1>1 DEF ExposureInv, OneConfig, SnapshotCovers
<1>8. \A p \in Procs : taken'[p] # NoSnapshot => taken'[p] = taken[p] /\ sending'[p] = NoIntent /\ pending' = pending
  BY <1>1 DEF ExposureInv, SnapshotCovers
<1>9. QED
  BY <1>1, <1>5, <1>6, <1>7, <1>8, StillSettles

\* The one step that lets more fill than before: a buy is admitted, against a snapshot
\* that with the reservations covers the account.
LEMMA AdmitCaps ==
  ASSUME ExposureInv, NEW p \in Procs, NEW i \in Intents, taken[p] # NoSnapshot, i.delta > 0,
         held[p] = config, config' = config, config # NoConfig, WithinCaps(held[p], taken[p], i),
         \A name \in Instruments :
           /\ OwedSum(name)' \in Int
           /\ Worst(name)' \in Int
           /\ Worst(name)' <= Worst(name) + (IF name = i.instrument THEN i.delta ELSE 0)
           /\ name # i.instrument => OwedSum(name)' = OwedSum(name) /\ Worst(name)' = Worst(name)
  PROVE  Capped'
<1>1. PICK s, k, q : s = taken[p] /\ k = i.instrument /\ q = i.delta
  OBVIOUS
<1>2. /\ s.equity = Equity /\ s.prices = Price /\ s.positions \in [Instruments -> Int]
      /\ \A name \in Instruments : Worst(name) <= s.positions[name] + ReservedBuys(name)
  BY <1>1 DEF ExposureInv, SnapshotCovers
<1>3. k \in Instruments /\ q \in Int /\ Price \in [Instruments -> Nat] /\ Equity \in Int
  BY <1>1, GateAssumption, TradingAssumption
<1>4. \A name \in Instruments : ReservedBuys(name) \in Int /\ Worst(name) \in Int
  BY ReservedCovers, OwedIsInt DEF ExposureInv, Worst
<1> DEFINE v(name) == WorstCase(s, i, name)
           n(name) == Notional(s, i, name)
           E == {name \in Instruments : v(name) # 0}
<1>5. ASSUME NEW name \in Instruments
      PROVE  v(name) \in Int /\ Worst(name)' <= v(name)
  <2>1. v(name) = s.positions[name] + ReservedBuys(name) + (IF name = k THEN q ELSE 0)
    BY <1>1 DEF WorstCase
  <2>2. QED
    BY <1>1, <1>2, <1>3, <1>4, <2>1
<1>6. /\ 100 * n(k) < config.positionPct * Equity
      /\ 100 * SumFunctionOnSet([name \in Instruments |-> n(name)], E) < config.grossPct * Equity
  BY <1>1, <1>2 DEF WithinCaps
<1>7. \A name \in Instruments : n(name) = (IF v(name) >= 0 THEN v(name) ELSE -v(name)) * Price[name]
  BY <1>2 DEF Notional
<1> HIDE DEF v, n
<1>8. ASSUME NEW name \in Instruments
      PROVE  /\ n(name) \in Int /\ Worst(name)' * Price[name] <= n(name)
             /\ Worst(name)' * Price[name] \in Int /\ (v(name) = 0 => Worst(name)' * Price[name] <= 0)
  <2>1. PICK a, b, c, r : a = Worst(name)' /\ b = v(name) /\ c = (IF b >= 0 THEN b ELSE -b) /\ r = Price[name]
    OBVIOUS
  <2>2. a \in Int /\ b \in Int /\ c \in Int /\ r \in Nat /\ a <= c /\ (b = 0 => a <= 0)
    BY <1>3, <1>5, <2>1
  <2>3. a * r <= c * r /\ c * r \in Int /\ a * r \in Int
    BY <2>2, Grows
  <2>4. b = 0 => a * r <= 0 * r
    BY <2>2, Grows
  <2>5. 0 * r = 0
    BY <2>2
  <2>6. QED
    BY <1>7, <2>1, <2>3, <2>4, <2>5
<1> DEFINE f == [name \in Instruments |-> Worst(name)' * Price[name]]
           h == [name \in Instruments |-> IF name \in E THEN n(name) ELSE 0]
           m == [name \in Instruments |-> n(name)]
<1>9. \A name \in Instruments : f[name] \in Int /\ h[name] \in Int /\ f[name] <= h[name]
  BY <1>8
<1>10. /\ E \in SUBSET Instruments /\ \A name \in E : m[name] \in Int /\ h[name] = m[name]
       /\ \A name \in Instruments \ E : h[name] = 0
  BY <1>8
<1>11. SumFunctionOnSet(f, Instruments) \in Int /\ SumFunctionOnSet(m, E) \in Int
       /\ SumFunctionOnSet(f, Instruments) <= SumFunctionOnSet(m, E)
  <2> HIDE DEF f, h, m, E
  <2>1. SumFunctionOnSet(f, Instruments) <= SumFunctionOnSet(h, Instruments)
    BY <1>9, TradingAssumption, SumOrder
  <2>2. SumFunctionOnSet(h, Instruments) = SumFunctionOnSet(m, E)
    BY <1>10, TradingAssumption, SumPart
  <2>3. SumFunctionOnSet(f, Instruments) \in Int /\ SumFunctionOnSet(h, Instruments) \in Int
    BY <1>9, TradingAssumption, SumType
  <2>4. QED
    BY <2>1, <2>2, <2>3
<1>12. config.positionPct * Equity \in Int /\ config.grossPct * Equity \in Int
  BY <1>3, GateAssumption DEF ExposureInv, OneConfig, ValidConfig, Fraction
<1>13. 100 * SumFunctionOnSet(f, Instruments) < config.grossPct * Equity
  <2> HIDE DEF f, E
  <2>1. QED
    BY <1>6, <1>11, <1>12
<1>14. ASSUME NEW name \in Instruments, OwedSum(name)' > 0
       PROVE  100 * (Worst(name)' * Price[name]) < config.positionPct * Equity
  <2>1. CASE name = k
    BY <1>6, <1>8, <1>12, <2>1
  <2>2. CASE name # k
    BY <1>1, <1>14, <2>2 DEF ExposureInv, Capped
  <2>3. QED
    BY <2>1, <2>2
<1>15. QED
  BY <1>13, <1>14 DEF Capped

LEMMA DecideStep ==
  ASSUME ExposureInv, ReservationInv', NEW p \in Procs, NEW i \in Intents, Decide(p, i), \A q \in Procs : q = p
  PROVE  ExposureInv' /\ (killLatched => Shrinks)
<1>1. /\ taken[p] # NoSnapshot /\ held[p] # NoConfig /\ held[p] = config
      /\ taken' = [taken EXCEPT ![p] = NoSnapshot]
      /\ sending' = [sending EXCEPT ![p] = IF pending' # pending THEN i ELSE NoIntent]
      /\ UNCHANGED <<config, held, position, orders, delayed>>
  BY DEF Decide, EvaluateOrder, OperatorOverrideReduce, Running, broker, setting
<1>2. /\ sending \in [Procs -> Intents \cup {NoIntent}] /\ sending[p] = NoIntent
      /\ taken = [q \in Procs |-> taken[q]] /\ held \in [Procs -> {NoConfig, config}]
  BY <1>1 DEF ExposureInv, ReservationInv, SnapshotCovers, OneConfig
<1>3. taken' = [q \in Procs |-> taken'[q]] /\ \A q \in Procs : taken'[q] = NoSnapshot
  <2>1. PICK n : n = NoSnapshot
    OBVIOUS
  <2>2. QED
    BY <1>1, <1>2, <2>1
<1>4. CASE pending' = pending
  <2>1. sending' = sending
    BY <1>1, <1>2, <1>4
  <2>2. RowsAgree' /\ \A id \in OrderIds : \A name : Owed(name, id)' = Owed(name, id) /\ Owed(name, id) \in Nat
    BY <1>1, <1>4, <2>1, LeftIsKept DEF ExposureInv, RowsAgree, Owed, Left
  <2>3. \A id \in OrderIds : \A name : Owed(name, id)' <= Owed(name, id)
    BY <2>2
  <2>4. QED
    BY <1>1, <1>2, <1>3, <1>4, <2>2, <2>3, StillSettles
<1>5. CASE pending' # pending
  <2>1. PICK e, k, q : e = i.id /\ k = i.instrument /\ q = i.delta
    OBVIOUS
  <2>2. e \in OrderIds /\ k \in Instruments /\ q \in Int
    BY <2>1, GateAssumption DEF OrderIds
  <2>3. /\ pending[e] = NoRow /\ pending' = Reserve(i)
    BY <1>5, <2>1, DecideWrites
  <2>4. /\ pending'[e].instrument = k /\ pending'[e].quantity = q
        /\ \A id \in OrderIds \ {e} : pending'[id] = pending[id]
    <3> DEFINE row == [instrument |-> k, quantity |-> q, terminal |-> FALSE]
    <3>1. pending' = [pending EXCEPT ![e] = row] /\ row.instrument = k /\ row.quantity = q
      BY <2>1, <2>3 DEF Reserve
    <3> HIDE DEF row
    <3>2. QED
      BY <2>2, <3>1 DEF ExposureInv, ReservationInv
  <2>5. sending'[p] = i /\ \A r \in Procs : sending'[r] # NoIntent => r = p
    BY <1>1, <1>2, <1>5
  <2>6. /\ orders[e] = NoOrder /\ e \notin delayed /\ NoOrder.state # "working"
    BY <2>2, <2>3 DEF ExposureInv, ReservationInv, Reserved, NoOrder
  <2>7. Left(e) = 0
    BY <1>2, <2>6 DEF Left
  <2>8. Left(e)' \in {q, 0}
    BY <1>1, <2>4, <2>6 DEF Left
  <2>9. \A id \in OrderIds \ {e} : Left(id)' = Left(id)
    BY <1>1, <1>2, <2>1, <2>4, <2>5 DEF Left
  <2>10. RowsAgree'
    <3>1. \A id \in OrderIds : orders[id].state = "working" =>
            /\ id # e /\ orders[id].instrument = pending[id].instrument
            /\ orders[id].left # 0 /\ (orders[id].left > 0 => orders[id].left <= pending[id].quantity)
      BY <2>6 DEF ExposureInv, RowsAgree
    <3>2. QED
      BY <1>1, <2>1, <2>4, <2>5, <3>1 DEF RowsAgree
  <2>11. CASE q <= 0
    <3>1. ASSUME NEW id \in OrderIds, NEW name PROVE Owed(name, id)' <= Owed(name, id)
      <4>1. Owed(name, id) \in Nat
        BY LeftIsKept DEF ExposureInv
      <4>2. CASE id = e
        <5>1. Owed(name, id)' = 0
          BY <2>2, <2>8, <2>11, <4>2 DEF Owed
        <5>2. QED
          BY <4>1, <5>1
      <4>3. CASE id # e
        <5>1. Owed(name, id)' = Owed(name, id)
          BY <2>4, <2>9, <4>3 DEF Owed
        <5>2. QED
          BY <4>1, <5>1
      <4>4. QED
        BY <4>2, <4>3
    <3>2. config # NoConfig
      BY <1>1
    <3>3. QED
      BY <1>1, <1>2, <1>3, <2>10, <3>1, <3>2, StillSettles
  <2>12. CASE q > 0
    <3>1. ASSUME NEW name \in Instruments
          PROVE  /\ OwedSum(name)' \in Int
                 /\ Worst(name)' \in Int
                 /\ Worst(name)' <= Worst(name) + (IF name = k THEN q ELSE 0)
                 /\ name # k => OwedSum(name)' = OwedSum(name) /\ Worst(name)' = Worst(name)
      <4> DEFINE f == [id \in OrderIds |-> Owed(name, id)]
                 g == [id \in OrderIds |-> Owed(name, id)']
      <4>1. \A id \in OrderIds : f[id] \in Int /\ (id # e => g[id] = f[id])
        BY <2>4, <2>9, LeftIsKept DEF Owed, ExposureInv
      <4>2. f[e] = 0 /\ g[e] \in {0, q} /\ (name # k => g[e] = 0)
        BY <2>2, <2>4, <2>7, <2>8 DEF Owed
      <4>3. OwedSum(name) = SumFunctionOnSet(f, OrderIds) /\ OwedSum(name)' = SumFunctionOnSet(g, OrderIds)
        BY DEF OwedSum
      <4> HIDE DEF f, g
      <4>4. \A id \in OrderIds : f[id] \in Int /\ g[id] \in Int
        BY <2>2, <4>1, <4>2
      <4>5. SumFunctionOnSet(g, OrderIds) = SumFunctionOnSet(f, OrderIds) + g[e] - f[e]
        BY <2>2, <4>1, <4>4, OrderIdsAreFinite, SumChange
      <4>6. SumFunctionOnSet(f, OrderIds) \in Int
        BY <4>4, OrderIdsAreFinite, SumType
      <4>7. position[name] \in Int /\ position' = position
        BY <1>1 DEF ExposureInv
      <4>8. QED
        BY <2>2, <2>12, <4>2, <4>3, <4>5, <4>6, <4>7 DEF Worst
    <3>2. WithinCaps(held[p], taken[p], i) /\ ~killLatched
      <4>1. ~ReduceOnly(i)
        BY <2>1, <2>2, <2>12 DEF ReduceOnly
      <4>2. EvaluateOrder(p, taken[p], i)
        BY <4>1 DEF Decide, OperatorOverrideReduce
      <4>3. pending' = IF Admitted(held[p], taken[p], i) THEN Reserve(i) ELSE pending
        BY <1>5, <4>2 DEF EvaluateOrder, Distrust
      <4>4. QED
        BY <1>5, <4>1, <4>3 DEF Admitted
    <3>3. Capped'
      BY <1>1, <2>1, <2>12, <3>1, <3>2, AdmitCaps
    <3>4. SnapshotCovers'
      BY <1>3 DEF SnapshotCovers
    <3>5. OneConfig' /\ position' \in [Instruments -> Int]
      BY <1>1, <1>2 DEF ExposureInv, OneConfig
    <3>6. QED
      BY <2>10, <3>2, <3>3, <3>4, <3>5 DEF ExposureInv
  <2>13. QED
    BY <2>2, <2>11, <2>12
<1>6. QED
  BY <1>4, <1>5

LEMMA ExposureStep ==
  ASSUME ExposureInv, [TradingNext]_all, \A p, q \in Procs : p = q
  PROVE  ExposureInv' /\ (killLatched => Shrinks)
<1>1. ReservationInv'
  BY ReservationStep DEF ExposureInv
<1>2. CASE UNCHANGED all
  <2>1. UNCHANGED <<config, held, pending, position, orders, taken, sending, delayed>>
    BY <1>2 DEF all, vars, setting, broker, traders
  <2>2. \A name : /\ OwedSum(name)' = OwedSum(name) /\ Worst(name)' = Worst(name)
                  /\ ReservedBuys(name)' = ReservedBuys(name)
    BY <2>1 DEF Worst, OwedSum, Owed, Left, ReservedBuys
  <2>3. RowsAgree' /\ OneConfig' /\ position' \in [Instruments -> Int]
    BY <2>1 DEF ExposureInv, RowsAgree, OneConfig
  <2>4. SnapshotCovers'
    BY <2>1, <2>2 DEF ExposureInv, SnapshotCovers
  <2>5. Capped'
    BY <2>1, <2>2 DEF ExposureInv, Capped
  <2>6. Shrinks
    BY <2>2, OwedIsInt DEF ExposureInv, Shrinks, Worst
  <2>7. QED
    BY <1>1, <2>3, <2>4, <2>5, <2>6 DEF ExposureInv
<1>3. QED
  BY <1>1, <1>2, StartStep, SnapshotStep, RequestSteps, ProcessSteps, FillStep, ExpireStep, DecideStep
     DEF TradingNext

LEMMA ExposureInit ==
  ASSUME TradingInit
  PROVE  ExposureInv
<1>1. ReservationInv
  BY ReservationInit
<1>2. /\ config = NoConfig /\ held = [p \in Procs |-> NoConfig] /\ pending = [id \in OrderIds |-> NoRow]
      /\ position = StartPosition /\ orders = [id \in OrderIds |-> NoOrder]
      /\ taken = [p \in Procs |-> NoSnapshot] /\ sending = [p \in Procs |-> NoIntent]
  BY DEF TradingInit, Init
<1>3. NoOrder.state # "working"
  BY DEF NoOrder
<1>4. QED
  BY <1>1, <1>2, <1>3, TradingAssumption DEF ExposureInv, OneConfig, RowsAgree, SnapshotCovers, Capped

\* Spec 032, "two individually acceptable orders must not jointly cross a limit": with one
\* trader, whatever fills, expires, times out or arrives late, and in whichever order, the
\* position and gross caps hold for the account itself, not only for what the gate saw.
THEOREM JointExposureCorrect ==
  ASSUME \A p, q \in Procs : p = q
  PROVE  TradingSpec => []JointExposureCapped
<1>1. TradingInit => ExposureInv
  BY ExposureInit
<1>2. ExposureInv /\ [TradingNext]_all => ExposureInv'
  BY ExposureStep
<1>3. ASSUME ExposureInv PROVE JointExposureCapped
  <2>1. \A name : Outstanding(name) = OwedSum(name)
    BY <1>3, OutstandingIsOwed DEF ExposureInv
  <2>2. \A name : Exposure(name) = Worst(name) * Price[name]
    BY <2>1 DEF Exposure, Worst
  <2>3. SumFunction([name \in Instruments |-> Exposure(name)])
          = SumFunctionOnSet([name \in Instruments |-> Worst(name) * Price[name]], Instruments)
    <3> DEFINE f == [name \in Instruments |-> Exposure(name)]
    <3>1. f = [name \in Instruments |-> Worst(name) * Price[name]] /\ DOMAIN f = Instruments
      BY <2>2
    <3> HIDE DEF f
    <3>2. SumFunction(f) = SumFunctionOnSet(f, DOMAIN f)
      BY DEF SumFunction
    <3>3. QED
      BY <3>1, <3>2 DEF f
  <2>4. QED
    BY <1>3, <2>1, <2>2, <2>3 DEF ExposureInv, Capped, JointExposureCapped
<1>4. QED
  BY <1>1, <1>2, <1>3, PTL DEF TradingSpec

-----------------------------------------------------------------------------
\* While the kill is latched the account's exposure only shrinks: with one trader, what
\* was decided before the kill and is sent, arrives or fills after it was counted then.
THEOREM ExposureShrinksCorrect ==
  ASSUME \A p, q \in Procs : p = q
  PROVE  TradingSpec => ExposureShrinksUnderKill
<1> DEFINE Settled == ExposureInv /\ \A name \in Instruments : Outstanding(name) = OwedSum(name)
<1>1. TradingInit => ExposureInv
  BY ExposureInit
<1>2. ExposureInv /\ [TradingNext]_all => ExposureInv'
  BY ExposureStep
<1>3. ExposureInv => Settled
  BY OutstandingIsOwed DEF ExposureInv
<1>4. ASSUME Settled, Settled', [TradingNext]_all
      PROVE  killLatched /\ killLatched' =>
               \A name \in Instruments :
                 position'[name] + Outstanding(name)' <= position[name] + Outstanding(name)
  <2>1. killLatched => Shrinks
    BY <1>4, ExposureStep
  <2>2. \A name \in Instruments : /\ Outstanding(name) = OwedSum(name)
                                  /\ Outstanding(name)' = OwedSum(name)'
    BY <1>4
  <2>3. QED
    BY <2>1, <2>2 DEF Shrinks, Worst
<1>5. Settled /\ Settled' /\ [TradingNext]_all =>
        [killLatched /\ killLatched' =>
           \A name \in Instruments :
             position'[name] + Outstanding(name)' <= position[name] + Outstanding(name)]_all
  BY <1>4
<1>6. QED
  BY <1>1, <1>2, <1>3, <1>5, PTL DEF TradingSpec, ExposureShrinksUnderKill
=============================================================================
