-------------------------- MODULE OpsRunnerProofs --------------------------
(***************************************************************************)
(* For every set of workflow jobs and operators: the wrapped command       *)
(* starts at most once per session, and its lease stays on the branch.     *)
(* The argument is optimistic concurrency: a checkout that may still push  *)
(* knows every lease of a session some process may have started.           *)
(* And no missed session is overwritten, no alert dropped: a job that      *)
(* writes a run record carries the incidents of every session it passes,   *)
(* until they are in the checkout it pushes.                               *)
(***************************************************************************)
EXTENDS OpsRunner, SumTheorems

LEMMA TodayType ==
  ASSUME clock \in 0..(3 * LastDay - 1)
  PROVE  Today \in Days
<1>1. clock \in Nat /\ LastDay \in Nat /\ clock < 3 * LastDay
  BY OpsAssumption
<1>2. clock \div 3 \in Nat /\ clock \div 3 < LastDay
  BY <1>1
<1>3. QED
  BY <1>1, <1>2 DEF Today, Days

LEMMA MissedType ==
  \A completed, since : Missed(completed, since) \in SUBSET Days
  BY OpsAssumption DEF Missed

LEMMA SkippedType ==
  \A copy : SkippedWhileKilled(copy) \in SUBSET Days
  BY MissedType DEF SkippedWhileKilled

LEMMA MessageType ==
  \A kind \in Kinds \cup {"summary", "none"}, at \in Nat, about \in SUBSET Days :
    Message(kind, at, about) \in Messages
  BY DEF Message, Messages

LEMMA NextIsOne ==
  ASSUME NEW j \in Jobs, job[j].incidents # {}
  PROVE  NextIncident(j) \in job[j].incidents
BY DEF NextIncident

LEMMA NothingType == Nothing \in Messages
  BY MessageType DEF Nothing

LEMMA MissedIncidentType ==
  \A copy : MissedIncident(copy) \in SUBSET Messages
<1>1. \A copy : MissedByNow(copy) \in SUBSET Days
  BY MissedType DEF MissedByNow
<1>2. \A copy : Message("missed_run", 0, MissedByNow(copy)) \in Messages
  BY <1>1, MessageType DEF Kinds
<1>3. QED
  BY <1>2 DEF MissedIncident

LEMMA FreshType ==
  \A copy, incidents : incidents \in SUBSET Messages => Fresh(copy, incidents) \in SUBSET Messages
  BY DEF Fresh

LEMMA EmptyStateType == EmptyState \in States
  BY NothingType DEF EmptyState, States, NoKill

LEMMA AsleepType == Asleep \in Processes
  BY NothingType DEF Asleep, Processes

LEMMA FirstSeenType ==
  ASSUME clock \in 0..(3 * LastDay - 1)
  PROVE  \A copy \in States : FirstSeen(copy) \in Days
  BY TodayType DEF FirstSeen, States

\* What changes of one field do to a copy of the state.
LEMMA StateUpdates ==
  /\ \A c \in States, s \in Days, l \in {"none", "running", "completed"} :
       /\ [c EXCEPT !.leases[s] = l] \in States
       /\ [c EXCEPT !.leases[s] = l].leases = [c.leases EXCEPT ![s] = l]
  /\ \A c \in States, x \in Days :
       [c EXCEPT !.firstSeen = x] \in States /\ [c EXCEPT !.firstSeen = x].leases = c.leases
  BY DEF States

\* The states a push produces.
LEMMA PushType ==
  ASSUME OpsTypeOK, NEW j \in Jobs, NEW next \in Processes, Push(j, next)
  PROVE  saved' \in States /\ job' \in [Jobs -> Processes]
<1>1. saved' \in States
  BY DEF Push, OpsTypeOK
<1>2. \A k \in Jobs : [job[k] EXCEPT !.current = @ /\ saved' = saved] \in Processes
  BY DEF OpsTypeOK, Processes
<1>3. QED
  BY <1>1, <1>2 DEF Push

LEMMA GotoType ==
  ASSUME OpsTypeOK, NEW j \in Jobs, NEW pc, Goto(j, pc),
         pc \in InRunner \cup {"idle", "ready", "deliver", "posting", "moving", "push"}
  PROVE  job' \in [Jobs -> Processes]
  BY DEF OpsTypeOK, Goto, Processes

LEMMA ReportType ==
  ASSUME OpsTypeOK, NEW j \in Jobs, NEW pc, NEW incidents \in SUBSET Messages,
         Report(j, pc, incidents), pc \in InRunner
  PROVE  job' \in [Jobs -> Processes]
<1> DEFINE fresh == Fresh(work[j], incidents)
           next  == [job[j] EXCEPT !.pc = pc, !.incidents = fresh, !.batch = fresh,
                                   !.item = Nothing]
<1>1. fresh \in SUBSET Messages
  BY FreshType
<1>2. job[j] \in Processes
  BY DEF OpsTypeOK
<1> HIDE DEF fresh
<1>3. next \in Processes
  BY <1>1, <1>2, NothingType DEF Processes
<1>4. job' = [job EXCEPT ![j] = next]
  BY <1>2 DEF Report, fresh, OpsTypeOK, Processes
<1>5. QED
  BY <1>3, <1>4 DEF OpsTypeOK

-----------------------------------------------------------------------------
\* A process that has claimed a session names it.
HasSession ==
  \A j \in Jobs : job[j].pc \in {"persist", "command", "running"} => job[j].session \in Days

LEMMA OpsTypeInit == Init => OpsTypeOK
<1> SUFFICES ASSUME Init PROVE OpsTypeOK
  OBVIOUS
<1>1. saved \in States /\ work \in [Jobs -> States]
  BY EmptyStateType DEF Init
<1>2. job \in [Jobs -> Processes]
  BY AsleepType DEF Init
<1>3. clock \in 0..(3 * LastDay - 1)
  BY OpsAssumption DEF Init
<1>4. QED
  BY <1>1, <1>2, <1>3 DEF Init, OpsTypeOK

LEMMA OpsTypeStep == OpsTypeOK /\ HasSession /\ [Next]_vars => OpsTypeOK'
<1> SUFFICES ASSUME OpsTypeOK, HasSession, [Next]_vars PROVE OpsTypeOK'
  OBVIOUS
<1> USE DEF OpsTypeOK
<1>1. ASSUME NEW j \in Jobs, Checkout(j) PROVE OpsTypeOK'
  <2>1. [job[j] EXCEPT !.pc = "ready", !.current = TRUE] \in Processes
    BY DEF Processes
  <2>2. job' = [job EXCEPT ![j] = [job[j] EXCEPT !.pc = "ready", !.current = TRUE]]
    BY <1>1 DEF Checkout, Processes
  <2>3. QED
    BY <1>1, <2>1, <2>2 DEF Checkout, world, budget
<1>2. ASSUME NEW j \in Jobs, DispatchKill(j) PROVE OpsTypeOK'
  <2>1. [work[j] EXCEPT !.killFile = TRUE] \in States
    BY DEF States
  <2>2. QED
    BY <1>2, <2>1 DEF DispatchKill, Intervention
<1>3. ASSUME NEW j \in Jobs, StopOnKillFile(j) PROVE OpsTypeOK'
  BY <1>3, GotoType DEF StopOnKillFile, world, budget
<1>4. ASSUME NEW j \in Jobs, HaltKilled(j) PROVE OpsTypeOK'
  <2>1. work[j].kill.at \in Nat
    BY DEF States
  <2>2. Message("halt", work[j].kill.at, SkippedWhileKilled(work[j])) \in Messages
    BY <2>1, MessageType, SkippedType DEF Kinds
  <2>3. QED
    BY <1>4, <2>2, ReportType DEF HaltKilled, world, budget, InRunner
<1>5. ASSUME NEW j \in Jobs, FindNothingDue(j) PROVE OpsTypeOK'
  <2>1. [work[j] EXCEPT !.firstSeen = FirstSeen(work[j])] \in States
    BY FirstSeenType, StateUpdates
  <2>2. QED
    BY <1>5, <2>1, MissedIncidentType, ReportType DEF FindNothingDue, world, budget, InRunner
<1>6. ASSUME NEW j \in Jobs, Claim(j) PROVE OpsTypeOK'
  <2> DEFINE seen  == [work[j] EXCEPT !.firstSeen = FirstSeen(work[j])]
             owned == [seen EXCEPT !.leases[Today] = "running"]
             next  == [job[j] EXCEPT !.pc = "persist", !.session = Today,
                                     !.incidents = MissedIncident(work[j])]
  <2>1. seen \in States
    BY FirstSeenType, StateUpdates
  <2>2. Today \in Days
    BY TodayType
  <2> HIDE DEF seen
  <2>3. owned \in States
    BY <2>1, <2>2, StateUpdates
  <2>4. work' = [work EXCEPT ![j] = owned]
    BY <1>6 DEF Claim, States, seen
  <2>5. next \in Processes
    BY <2>2, MissedIncidentType DEF Processes, InRunner
  <2>6. job' = [job EXCEPT ![j] = next]
    BY <1>6 DEF Claim, Processes
  <2> HIDE DEF owned, next
  <2>7. UNCHANGED <<saved, world>>
    BY <1>6 DEF Claim
  <2>8. QED
    BY <2>3, <2>4, <2>5, <2>6, <2>7 DEF world, budget
<1>7. ASSUME NEW j \in Jobs, FindLeaseHeld(j) PROVE OpsTypeOK'
  <2>1. [work[j] EXCEPT !.firstSeen = FirstSeen(work[j])] \in States
    BY FirstSeenType, StateUpdates
  <2>2. Message("lease_held", Today, {}) \in Messages
    BY TodayType, MessageType DEF Kinds, Days
  <2>3. QED
    BY <1>7, <2>1, <2>2, MissedIncidentType, ReportType DEF FindLeaseHeld, world, budget, InRunner
<1>8. ASSUME NEW j \in Jobs, PersistLease(j) PROVE OpsTypeOK'
  <2>1. [job[j] EXCEPT !.pc = "command"] \in Processes
    BY DEF Processes, InRunner
  <2>2. QED
    BY <1>8, <2>1, PushType DEF PersistLease, world, budget
<1>9. ASSUME NEW j \in Jobs, FailToPersistLease(j) PROVE OpsTypeOK'
  <2> DEFINE s     == job[j].session
             now   == job[j].incidents \cup {Message("persist_failed", s, {})}
             fresh == Fresh(work[j], now)
             gone  == [job[j] EXCEPT !.pc = "report", !.incidents = fresh, !.batch = fresh,
                                     !.item = Nothing]
  <2>1. s \in Days \cup {0}
    BY DEF Processes
  <2>2. s \in Nat
    BY <2>1 DEF Days
  <2>3. fresh \in SUBSET Messages
    BY <2>2, MessageType, FreshType DEF Processes, Kinds
  <2> HIDE DEF fresh
  <2>4. gone \in Processes
    BY <2>3, NothingType DEF Processes, InRunner
  <2>5. [work[j] EXCEPT !.leases[s] = "none"] \in States
    BY DEF States
  <2>6. work' = [work EXCEPT ![j] = [work[j] EXCEPT !.leases[s] = "none"]]
    BY <1>9 DEF FailToPersistLease, States
  <2>7. saved' \in States /\ job' \in [Jobs -> Processes]
    <3>1. CASE job' = [job EXCEPT ![j] = gone] /\ UNCHANGED saved
      BY <2>4, <3>1
    <3>2. CASE Push(j, gone)
      BY <2>4, <3>2, PushType
    <3>3. QED
      BY <1>9, <3>1, <3>2 DEF FailToPersistLease, fresh
  <2>8. faults' \in Nat /\ interventions' \in Nat
    BY <1>9 DEF FailToPersistLease, Fault, budget
  <2>9. QED
    BY <1>9, <2>5, <2>6, <2>7, <2>8 DEF FailToPersistLease
<1>10. ASSUME NEW j \in Jobs, StartCommand(j) PROVE OpsTypeOK'
  <2>1. job[j].session \in Days
    BY <1>10 DEF StartCommand, At, HasSession
  <2>2. started' \in [Days -> Nat]
    BY <1>10, <2>1 DEF StartCommand
  <2>3. job' \in [Jobs -> Processes]
    BY <1>10, GotoType DEF StartCommand, InRunner
  <2>4. QED
    BY <1>10, <2>2, <2>3 DEF StartCommand, budget
<1>11. ASSUME NEW j \in Jobs, CommandPersists(j) PROVE OpsTypeOK'
  BY <1>11, PushType DEF CommandPersists, world, budget
<1>12. ASSUME NEW j \in Jobs, NEW failed \in BOOLEAN, RecordRun(j, failed) PROVE OpsTypeOK'
  <2> DEFINE s    == job[j].session
             own  == IF failed THEN {Message("failure", s, {})} ELSE {}
             now  == job[j].incidents \cup own
             note == Message("summary", s, {})
             done == [work[j] EXCEPT !.leases[s] = "completed", !.ran = @ \cup {s},
                                     !.outbox = @ \cup {note}]
  <2>1. s \in Days
    BY <1>12 DEF RecordRun, At, HasSession
  <2>2. note \in Messages /\ own \in SUBSET Messages
    BY <2>1, MessageType DEF Days, Kinds
  <2>3. now \in SUBSET Messages
    BY <2>2 DEF Processes
  <2>4. Report(j, "report", now) /\ work' = [work EXCEPT ![j] = done] /\ UNCHANGED <<saved, world>>
    BY <1>12 DEF RecordRun, States
  <2> HIDE DEF note, now
  <2>5. done \in States
    BY <2>1, <2>2 DEF States
  <2>6. job' \in [Jobs -> Processes]
    BY <2>3, <2>4, ReportType DEF InRunner
  <2> HIDE DEF done
  <2>7. QED
    BY <2>4, <2>5, <2>6 DEF world, budget
<1>13. ASSUME NEW j \in Jobs, QueueIncident(j) PROVE OpsTypeOK'
  <2> DEFINE i    == job[j].item
             c    == [work[j] EXCEPT !.outbox = @ \cup {i}]
             rest == job[j].incidents \ {i}
             next == [job[j] EXCEPT !.incidents = rest, !.item = Nothing]
  <2>1. i \in Messages
    BY DEF Processes
  <2>2. work' = [work EXCEPT ![j] = c] /\ job' = [job EXCEPT ![j] = next] /\ UNCHANGED <<saved, world>>
    BY <1>13 DEF QueueIncident, States, Processes
  <2> HIDE DEF i
  <2>3. c \in States
    BY <2>1 DEF States
  <2>4. rest \in SUBSET Messages
    BY DEF Processes
  <2> HIDE DEF rest
  <2>5. next \in Processes
    BY <2>4, NothingType DEF Processes
  <2> HIDE DEF c, next
  <2>6. QED
    BY <2>2, <2>3, <2>5 DEF world, budget
<1>14. ASSUME NEW j \in Jobs, MarkSent(j) PROVE OpsTypeOK'
  <2> DEFINE last(k) == CHOOSE i \in job[j].batch : i.kind = k
             sent == [k \in Kinds |-> IF \E i \in job[j].batch : i.kind = k
                                        THEN last(k) ELSE work[j].sent[k]]
             c    == [work[j] EXCEPT !.sent = sent]
             next == [job[j] EXCEPT !.pc = IF @ = "report" THEN "deliver" ELSE "unlink"]
  <2>1. \A k \in Kinds : (\E i \in job[j].batch : i.kind = k) => last(k) \in Messages
    BY DEF Processes
  <2>2. work' = [work EXCEPT ![j] = c] /\ job' = [job EXCEPT ![j] = next] /\ UNCHANGED <<saved, world>>
    BY <1>14 DEF MarkSent, States, Processes
  <2> HIDE DEF last
  <2>3. sent \in [Kinds -> Messages]
    BY <2>1 DEF States
  <2> HIDE DEF sent
  <2>4. c \in States
    BY <2>3 DEF States
  <2>5. next \in Processes
    BY DEF Processes, InRunner
  <2> HIDE DEF c, next
  <2>6. QED
    BY <2>2, <2>4, <2>5 DEF world, budget
<1>15. ASSUME NEW j \in Jobs, OpenOutbox(j) PROVE OpsTypeOK'
  <2> DEFINE all  == work[j].outbox
             next == [job[j] EXCEPT !.pc = "posting", !.batch = all]
  <2>1. job' = [job EXCEPT ![j] = next]
    BY <1>15 DEF OpenOutbox, Processes
  <2>2. all \in SUBSET Messages
    BY DEF States
  <2>3. job[j] \in Processes
    OBVIOUS
  <2> HIDE DEF all
  <2>4. next \in Processes
    BY <2>2, <2>3 DEF Processes
  <2> HIDE DEF next
  <2>5. QED
    BY <1>15, <2>1, <2>4 DEF OpenOutbox, world, budget
<1>16. ASSUME NEW j \in Jobs, Post(j) \/ FailToPost(j) PROVE OpsTypeOK'
  <2> DEFINE m    == NextItem(j)
             sent == [job[j] EXCEPT !.pc = "moving", !.item = m, !.batch = @ \ {m}]
             kept == [job[j] EXCEPT !.batch = @ \ {m}]
  <2>1. m \in Messages
    BY <1>16 DEF Post, FailToPost, NextItem, Processes
  <2>2. job' = [job EXCEPT ![j] = sent] \/ job' = [job EXCEPT ![j] = kept]
    BY <1>16 DEF Post, FailToPost, Processes
  <2> HIDE DEF m
  <2>3. sent \in Processes /\ kept \in Processes
    BY <2>1 DEF Processes
  <2> HIDE DEF sent, kept
  <2>4. job' \in [Jobs -> Processes]
    BY <2>2, <2>3
  <2>5. posted' \subseteq Messages /\ faults' \in Nat /\ interventions' \in Nat
    BY <1>16, <2>1 DEF Post, FailToPost, Fault, budget, m
  <2>6. QED
    BY <1>16, <2>4, <2>5 DEF Post, FailToPost
<1>17. ASSUME NEW j \in Jobs, MoveToDelivered(j) PROVE OpsTypeOK'
  <2> DEFINE m    == job[j].item
             c    == [work[j] EXCEPT !.outbox = @ \ {m}]
             next == [job[j] EXCEPT !.pc = "posting", !.item = Nothing]
  <2>1. work' = [work EXCEPT ![j] = c] /\ job' = [job EXCEPT ![j] = next] /\ UNCHANGED <<saved, world>>
    BY <1>17 DEF MoveToDelivered, States, Processes
  <2>2. c \in States
    BY DEF States
  <2>3. next \in Processes
    BY NothingType DEF Processes
  <2> HIDE DEF c, next
  <2>4. QED
    BY <2>1, <2>2, <2>3 DEF world, budget
<1>18. ASSUME NEW j \in Jobs, PersistState(j) PROVE OpsTypeOK'
  <2>1. saved' \in States /\ job' \in [Jobs -> Processes]
    BY <1>18, PushType, AsleepType DEF PersistState
  <2>2. faults' \in Nat /\ interventions' \in Nat
    BY <1>18 DEF PersistState, Fault, budget
  <2>3. QED
    BY <1>18, <2>1, <2>2, EmptyStateType DEF PersistState
<1>19. ASSUME NEW j \in Jobs, UnlinkKill(j) PROVE OpsTypeOK'
  <2>1. [work[j] EXCEPT !.kill = NoKill] \in States
    BY DEF States, NoKill
  <2>2. QED
    BY <1>19, <2>1, GotoType DEF UnlinkKill, world, budget
<1>20. ASSUME NEW j \in Jobs, NEW copy \in States, NEW next \in Processes, Edit(j, copy, next)
       PROVE  OpsTypeOK'
  BY <1>20 DEF Edit, Intervention
<1>21. ToPush \in Processes
  BY AsleepType DEF ToPush, Processes
<1>22. ASSUME NEW j \in Jobs, SetKill(j) PROVE OpsTypeOK'
  <2> DEFINE set == [set |-> TRUE, at |-> clock]
  <2>0. clock \in Nat
    BY OpsAssumption
  <2>9. set \in [set: BOOLEAN, at: Nat]
    BY <2>0
  <2> HIDE DEF set
  <2>1. [saved EXCEPT !.kill = set] \in States
    BY <2>9 DEF States
  <2>2. QED
    BY <1>20, <1>21, <1>22, <2>1 DEF SetKill, set
<1>23. ASSUME NEW j \in Jobs, ResetKill(j) PROVE OpsTypeOK'
  <2> DEFINE skips == SkippedWhileKilled(saved)
             fresh == Fresh(saved, {Message("halt_reset", clock, skips)})
             next  == [ToPush EXCEPT !.pc = "reportReset", !.incidents = fresh, !.batch = fresh]
  <2>1. skips \in SUBSET Days
    BY SkippedType
  <2>2. fresh \in SUBSET Messages
    BY <2>1, MessageType, FreshType DEF Kinds
  <2>3. Edit(j, [saved EXCEPT !.skipped = @ \cup skips], next)
    BY <1>23 DEF ResetKill
  <2> HIDE DEF fresh, skips
  <2>4. [saved EXCEPT !.skipped = @ \cup skips] \in States
    BY <2>1 DEF States
  <2>5. next \in Processes
    BY <1>21, <2>2 DEF Processes, InRunner
  <2> HIDE DEF next
  <2>6. QED
    BY <1>20, <2>3, <2>4, <2>5
<1>24. ASSUME NEW j \in Jobs, ClearKillFile(j) PROVE OpsTypeOK'
  <2>1. [saved EXCEPT !.killFile = FALSE] \in States
    BY DEF States
  <2>2. QED
    BY <1>20, <1>21, <1>24, <2>1 DEF ClearKillFile
<1>25. ASSUME NEW j \in Jobs, LoseRunner(j) PROVE OpsTypeOK'
  BY <1>25, EmptyStateType, AsleepType DEF LoseRunner, Fault
<1>26. ASSUME NEW j \in Jobs, KillProcess(j) PROVE OpsTypeOK'
  <2> DEFINE pc   == IF At(j, "posting") \/ At(j, "moving") \/ j \in Operators
                       THEN "push" ELSE "deliver"
             next == [Asleep EXCEPT !.pc = pc, !.current = job[j].current]
             lost == UNION {i.about : i \in {i \in job[j].incidents :
                       /\ i.kind = "missed_run"
                       /\ At(j, "report") /\ job[j].session \in work[j].ran}}
  <2>1. next \in Processes
    BY AsleepType DEF Processes
  <2>2. job[j].incidents \in SUBSET Messages
    BY DEF Processes
  <2>3. lost \subseteq Days
    BY <2>2 DEF Messages
  <2>4. job' = [job EXCEPT ![j] = next] /\ forgotten' = forgotten \cup lost
    BY <1>26 DEF KillProcess
  <2>5. UNCHANGED <<saved, work, clock, started, posted>> /\ Fault
    BY <1>26 DEF KillProcess
  <2> HIDE DEF next, lost
  <2>6. QED
    BY <2>1, <2>3, <2>4, <2>5 DEF Fault
<1>27. ASSUME Tick PROVE OpsTypeOK'
  BY <1>27, OpsAssumption DEF Tick, budget
<1>28. CASE UNCHANGED vars
  BY <1>28 DEF vars, world, budget
<1>29. ASSUME NEW j \in Jobs, LogIncident(j) PROVE OpsTypeOK'
  <2> DEFINE i    == NextIncident(j)
             c    == [work[j] EXCEPT !.reports = @ \cup {i}]
             next == [job[j] EXCEPT !.item = i]
  <2>1. i \in Messages
    BY <1>29, NextIsOne DEF LogIncident, Processes
  <2>2. work' = [work EXCEPT ![j] = c] /\ job' = [job EXCEPT ![j] = next] /\ UNCHANGED <<saved, world>>
    BY <1>29 DEF LogIncident, States, Processes
  <2> HIDE DEF i
  <2>3. c \in States
    BY <2>1 DEF States
  <2>4. next \in Processes
    BY <2>1 DEF Processes
  <2> HIDE DEF c, next
  <2>5. QED
    BY <2>2, <2>3, <2>4 DEF world, budget
<1>30. QED
  BY <1>1, <1>2, <1>3, <1>4, <1>5, <1>6, <1>7, <1>8, <1>9, <1>10, <1>11, <1>12, <1>13, <1>14,
     <1>15, <1>16, <1>17, <1>18, <1>19, <1>22, <1>23, <1>24, <1>25, <1>26, <1>27, <1>28,
     <1>29 DEF Next, Step, Disturb

-----------------------------------------------------------------------------
\* The session s was started, or some process is about to start it.
Claimed(s) ==
  started[s] > 0 \/ \E k \in Jobs : job[k].pc = "command" /\ job[k].session = s

LeaseInv ==
  /\ \A s \in Days : started[s] <= 1
  /\ \A s \in Days : Claimed(s) => saved.leases[s] # "none"
  /\ \A j \in Jobs : job[j].pc = "command" => started[job[j].session] = 0
  /\ \A j, k \in Jobs :
       job[j].pc = "command" /\ job[k].pc = "command" /\ job[j].session = job[k].session => j = k
  /\ \A j \in Jobs : job[j].current =>
       \A s \in Days : Claimed(s) => work[j].leases[s] # "none"
  /\ \A j \in Jobs : job[j].current /\ job[j].pc = "ready" => work[j].leases = saved.leases
  /\ \A j \in Jobs : job[j].pc = "persist" =>
       /\ work[j].leases[job[j].session] # "none"
       /\ job[j].current => saved.leases[job[j].session] = "none"

Inv == OpsTypeOK /\ HasSession /\ LeaseInv

\* A step of j that moves no lease on the branch, claims nothing and keeps
\* every lease that a checkout which may still push has to know.
Quiet(j) ==
  /\ saved'.leases = saved.leases
  /\ started' = started
  /\ \A k \in Jobs \ {j} : job'[k] = job[k] /\ work'[k] = work[k]
  /\ job'[j].pc \in {"ready", "persist", "command", "running"} =>
       /\ job'[j].pc = job[j].pc /\ job'[j].session = job[j].session
       /\ job'[j].current = job[j].current /\ work'[j].leases = work[j].leases
  /\ job'[j].current =>
       /\ job[j].current
       /\ \A s \in Days : work'[j].leases[s] = "none" => work[j].leases[s] = "none" \/ ~Claimed(s)

LEMMA QuietStep ==
  ASSUME Inv, NEW j \in Jobs, Quiet(j)
  PROVE  HasSession' /\ LeaseInv'
<1> USE DEF Inv, Quiet
<1>1. HasSession'
  BY DEF HasSession
<1>2. \A s \in Days : Claimed(s)' => Claimed(s)
  BY DEF Claimed
<1>3. \A s \in Days : started'[s] <= 1 /\ (Claimed(s)' => saved'.leases[s] # "none")
  BY <1>2 DEF LeaseInv
<1>4. \A k, l \in Jobs :
        /\ job'[k].pc = "command" => started'[job'[k].session] = 0
        /\ (/\ job'[k].pc = "command" /\ job'[l].pc = "command"
            /\ job'[k].session = job'[l].session) => k = l
  BY DEF LeaseInv
<1>5. \A k \in Jobs : job'[k].current =>
        \A s \in Days : Claimed(s)' => work'[k].leases[s] # "none"
  BY <1>2 DEF LeaseInv
<1>6. \A k \in Jobs : job'[k].current /\ job'[k].pc = "ready" => work'[k].leases = saved'.leases
  BY DEF LeaseInv
<1>7. \A k \in Jobs : job'[k].pc = "persist" =>
        /\ work'[k].leases[job'[k].session] # "none"
        /\ job'[k].current => saved'.leases[job'[k].session] = "none"
  BY DEF LeaseInv
<1>8. QED
  BY <1>1, <1>3, <1>4, <1>5, <1>6, <1>7 DEF LeaseInv

\* A push by a process that has nothing to claim.
LEMMA PushStep ==
  ASSUME Inv, NEW j \in Jobs, NEW next \in Processes, Push(j, next),
         started' = started, work' \in [Jobs -> States],
         \A k \in Jobs \ {j} : work'[k] = work[k],
         next.pc \notin {"ready", "persist", "command"},
         next.pc = "running" => next.session \in Days,
         next.current => \A s \in Days : Claimed(s)' => work'[j].leases[s] # "none",
         \A s \in Days : Claimed(s)' => work[j].leases[s] # "none"
  PROVE  HasSession' /\ LeaseInv'
<1> USE DEF Inv
<1>1. /\ job[j].current /\ saved' = work[j] /\ job'[j] = next
      /\ \A k \in Jobs \ {j} : /\ job'[k].pc = job[k].pc /\ job'[k].session = job[k].session
                               /\ job'[k].current => job[k].current /\ saved' = saved
  BY DEF Push, OpsTypeOK, Processes
<1>2. HasSession'
  BY <1>1 DEF HasSession
<1>3. \A s \in Days : Claimed(s)' => Claimed(s)
  BY <1>1 DEF Claimed
<1>4. \A s \in Days : started'[s] <= 1 /\ (Claimed(s)' => saved'.leases[s] # "none")
  BY <1>1 DEF LeaseInv
<1>5. \A k, l \in Jobs :
        /\ job'[k].pc = "command" => started'[job'[k].session] = 0
        /\ (/\ job'[k].pc = "command" /\ job'[l].pc = "command"
            /\ job'[k].session = job'[l].session) => k = l
  BY <1>1 DEF LeaseInv
<1>6. \A k \in Jobs : job'[k].current =>
        \A s \in Days : Claimed(s)' => work'[k].leases[s] # "none"
  BY <1>1, <1>3 DEF LeaseInv
<1>7. \A k \in Jobs : job'[k].current /\ job'[k].pc = "ready" => work'[k].leases = saved'.leases
  BY <1>1 DEF LeaseInv
<1>8. \A k \in Jobs : job'[k].pc = "persist" =>
        /\ work'[k].leases[job'[k].session] # "none"
        /\ job'[k].current => saved'.leases[job'[k].session] = "none"
  BY <1>1 DEF LeaseInv
<1>9. QED
  BY <1>2, <1>4, <1>5, <1>6, <1>7, <1>8 DEF LeaseInv

\* The push of a lease: the branch had none, so nobody had claimed the
\* session, and every other checkout is now behind.
LEMMA PersistLeaseStep ==
  ASSUME Inv, NEW j \in Jobs, PersistLease(j)
  PROVE  HasSession' /\ LeaseInv'
<1> USE DEF Inv
<1> DEFINE s == job[j].session
<1>1. /\ job[j].current /\ job[j].pc = "persist" /\ s \in Days
      /\ saved' = work[j] /\ work' = work /\ started' = started
  BY DEF PersistLease, Push, At, HasSession, world
<1>2. saved.leases[s] = "none" /\ work[j].leases[s] # "none" /\ ~Claimed(s)
  BY <1>1 DEF LeaseInv
<1>3. saved' # saved
  BY <1>1, <1>2
<1>4. /\ job'[j].pc = "command" /\ job'[j].session = s
      /\ \A k \in Jobs \ {j} : /\ job'[k].pc = job[k].pc /\ job'[k].session = job[k].session
                               /\ ~job'[k].current
  BY <1>3 DEF PersistLease, Push, OpsTypeOK, Processes
<1>5. HasSession'
  BY <1>1, <1>4 DEF HasSession
<1>6. \A t \in Days : Claimed(t)' => Claimed(t) \/ t = s
  BY <1>1, <1>4 DEF Claimed
<1>7. \A t \in Days : Claimed(t)' => work[j].leases[t] # "none"
  BY <1>1, <1>2, <1>6 DEF LeaseInv
<1>8. started[s] = 0 /\ \A k \in Jobs : job[k].pc = "command" => job[k].session # s
  BY <1>1, <1>2 DEF Claimed, OpsTypeOK
<1>9. \A k, l \in Jobs :
        /\ job'[k].pc = "command" => started'[job'[k].session] = 0
        /\ (/\ job'[k].pc = "command" /\ job'[l].pc = "command"
            /\ job'[k].session = job'[l].session) => k = l
  BY <1>1, <1>4, <1>8 DEF LeaseInv
<1>10. QED
  BY <1>1, <1>4, <1>5, <1>7, <1>9 DEF LeaseInv

\* The lease is released: in the checkout only, and nobody has claimed the
\* session when the checkout may still push.
LEMMA FailToPersistLeaseStep ==
  ASSUME Inv, NEW j \in Jobs, FailToPersistLease(j)
  PROVE  HasSession' /\ LeaseInv'
<1> USE DEF Inv
<1> DEFINE s     == job[j].session
           fresh == Fresh(work[j], job[j].incidents \cup {Message("persist_failed", s, {})})
           gone  == [job[j] EXCEPT !.pc = "report", !.incidents = fresh, !.batch = fresh,
                                   !.item = Nothing]
<1>1. /\ job[j].pc = "persist" /\ s \in Days /\ started' = started
      /\ work' = [work EXCEPT ![j].leases[s] = "none"]
  BY DEF FailToPersistLease, At, HasSession
<1>2. job[j].current => ~Claimed(s)
  BY <1>1 DEF LeaseInv
<1>3. /\ \A k \in Jobs \ {j} : work'[k] = work[k]
      /\ \A t \in Days \ {s} : work'[j].leases[t] = work[j].leases[t]
      /\ work' \in [Jobs -> States]
  BY <1>1 DEF OpsTypeOK, States
<1>4. fresh \in SUBSET Messages
  <2>1. s \in Nat
    BY <1>1 DEF Days
  <2>2. QED
    BY <2>1, MessageType, FreshType DEF OpsTypeOK, Processes, Kinds
<1>5. \/ job' = [job EXCEPT ![j] = gone] /\ UNCHANGED saved
      \/ Push(j, gone)
  BY DEF FailToPersistLease
<1> HIDE DEF fresh
<1>6. /\ gone \in Processes /\ gone.pc = "report"
      /\ gone.current = job[j].current /\ gone.session = s
  BY <1>4, NothingType DEF OpsTypeOK, Processes, InRunner
<1> HIDE DEF gone
<1>7. CASE job' = [job EXCEPT ![j] = gone] /\ UNCHANGED saved
  <2>1. Quiet(j)
    BY <1>1, <1>2, <1>3, <1>6, <1>7 DEF Quiet, OpsTypeOK
  <2>2. QED
    BY <2>1, QuietStep
<1>8. CASE Push(j, gone)
  <2>1. job'[j] = gone /\ job[j].current
        /\ \A k \in Jobs \ {j} : job'[k].pc = job[k].pc /\ job'[k].session = job[k].session
    BY <1>8 DEF Push, OpsTypeOK, Processes
  <2>2. \A t \in Days : Claimed(t)' => Claimed(t)
    BY <1>1, <1>6, <2>1 DEF Claimed
  <2>3. \A t \in Days : Claimed(t)' => t # s /\ work[j].leases[t] # "none"
    BY <1>2, <2>1, <2>2 DEF LeaseInv
  <2>4. QED
    BY <1>1, <1>3, <1>6, <1>8, <2>3, PushStep
<1>9. QED
  BY <1>5, <1>7, <1>8

LEMMA ClaimStep ==
  ASSUME Inv, NEW j \in Jobs, Claim(j)
  PROVE  HasSession' /\ LeaseInv'
<1> USE DEF Inv
<1>1. /\ job[j].pc = "ready" /\ work[j].leases[Today] = "none" /\ Today \in Days
      /\ saved' = saved /\ started' = started
  BY TodayType DEF Claim, Alive, At, world, OpsTypeOK
<1>2. /\ job'[j].pc = "persist" /\ job'[j].session = Today /\ job'[j].current = job[j].current
      /\ \A k \in Jobs \ {j} : job'[k] = job[k] /\ work'[k] = work[k]
  BY DEF Claim, OpsTypeOK, Processes
<1>3. /\ work'[j].leases[Today] = "running"
      /\ \A t \in Days \ {Today} : work'[j].leases[t] = work[j].leases[t]
  <2> DEFINE seen == [work[j] EXCEPT !.firstSeen = FirstSeen(work[j])]
  <2>1. seen \in States /\ seen.leases = work[j].leases
    BY FirstSeenType, StateUpdates DEF OpsTypeOK
  <2>2. work' = [work EXCEPT ![j] = [seen EXCEPT !.leases[Today] = "running"]]
    BY DEF Claim, OpsTypeOK, States
  <2> HIDE DEF seen
  <2>3. QED
    BY <1>1, <2>1, <2>2 DEF OpsTypeOK, States
<1>4. job[j].current => saved.leases[Today] = "none"
  BY <1>1 DEF LeaseInv
<1>5. HasSession'
  BY <1>1, <1>2 DEF HasSession
<1>6. \A t \in Days : Claimed(t)' => Claimed(t)
  BY <1>1, <1>2 DEF Claimed
<1>7. \A k \in Jobs : job'[k].current =>
        \A t \in Days : Claimed(t)' => work'[k].leases[t] # "none"
  BY <1>2, <1>3, <1>6 DEF LeaseInv
<1>8. \A k \in Jobs : job'[k].pc = "persist" =>
        /\ work'[k].leases[job'[k].session] # "none"
        /\ job'[k].current => saved'.leases[job'[k].session] = "none"
  BY <1>1, <1>2, <1>3, <1>4 DEF LeaseInv
<1>9. QED
  BY <1>1, <1>2, <1>5, <1>6, <1>7, <1>8 DEF LeaseInv

LEMMA StartCommandStep ==
  ASSUME Inv, NEW j \in Jobs, StartCommand(j)
  PROVE  HasSession' /\ LeaseInv'
<1> USE DEF Inv
<1> DEFINE s == job[j].session
<1>1. /\ job[j].pc = "command" /\ s \in Days /\ started[s] = 0
      /\ saved' = saved /\ work' = work
  BY DEF StartCommand, At, HasSession, LeaseInv
<1>2. started' = [started EXCEPT ![s] = started[s] + 1]
  BY DEF StartCommand
<1>3. started'[s] = 1 /\ \A t \in Days \ {s} : started'[t] = started[t]
  BY <1>1, <1>2 DEF OpsTypeOK
<1>4. /\ job'[j] = [job[j] EXCEPT !.pc = "running"]
      /\ \A k \in Jobs \ {j} : job'[k] = job[k]
  BY DEF StartCommand, Goto, OpsTypeOK, Processes
<1>5. job'[j].pc = "running" /\ job'[j].session = s /\ job'[j].current = job[j].current
  BY <1>4 DEF OpsTypeOK, Processes
<1>6. \A k \in Jobs \ {j} : job[k].pc = "command" => job[k].session \in Days \ {s}
  BY <1>1 DEF LeaseInv, HasSession
<1>7. \A t \in Days : Claimed(t)' => Claimed(t)
  BY <1>1, <1>3, <1>4, <1>5 DEF Claimed
<1>8. HasSession'
  BY <1>1, <1>4, <1>5 DEF HasSession
<1>9. \A t \in Days : started'[t] <= 1
  BY <1>3 DEF LeaseInv
<1>10. \A k \in Jobs : job'[k].pc = "command" => k # j /\ job'[k] = job[k]
  BY <1>4, <1>5
<1>11. \A k, l \in Jobs :
        /\ job'[k].pc = "command" => started'[job'[k].session] = 0
        /\ (/\ job'[k].pc = "command" /\ job'[l].pc = "command"
            /\ job'[k].session = job'[l].session) => k = l
  BY <1>3, <1>6, <1>10 DEF LeaseInv
<1>12. \A k \in Jobs : job'[k].current => job[k].current
  BY <1>4, <1>5
<1>13. \A k \in Jobs : job'[k].current =>
        \A t \in Days : Claimed(t)' => work'[k].leases[t] # "none"
  BY <1>1, <1>7, <1>12 DEF LeaseInv
<1>14. \A k \in Jobs : job'[k].pc \in {"ready", "persist"} => job'[k] = job[k]
  BY <1>4, <1>5
<1>15. \A k \in Jobs : job'[k].pc = "persist" =>
        /\ work'[k].leases[job'[k].session] # "none"
        /\ job'[k].current => saved'.leases[job'[k].session] = "none"
  BY <1>1, <1>14 DEF LeaseInv
<1>16. \A k \in Jobs : job'[k].current /\ job'[k].pc = "ready" => work'[k].leases = saved'.leases
  BY <1>1, <1>14 DEF LeaseInv
<1>17. \A t \in Days : Claimed(t)' => saved'.leases[t] # "none"
  BY <1>1, <1>7 DEF LeaseInv
<1>18. QED
  BY <1>8, <1>9, <1>11, <1>13, <1>15, <1>16, <1>17 DEF LeaseInv

\* A checkout that holds the leases of the branch and claims nothing.
LEMMA CheckoutStep ==
  ASSUME Inv, NEW j \in Jobs, saved' = saved, started' = started,
         \A k \in Jobs \ {j} : job'[k] = job[k] /\ work'[k] = work[k],
         work'[j].leases = saved.leases,
         job'[j].pc \notin {"persist", "command", "running"}, job[j].pc = "idle"
  PROVE  HasSession' /\ LeaseInv'
<1> USE DEF Inv
<1>1. \A t \in Days : Claimed(t)' => Claimed(t)
  BY DEF Claimed
<1>2. \A k \in Jobs : job'[k].current =>
        \A t \in Days : Claimed(t)' => work'[k].leases[t] # "none"
  BY <1>1 DEF LeaseInv
<1>3. QED
  BY <1>1, <1>2 DEF LeaseInv, HasSession

-----------------------------------------------------------------------------
LEMMA InvInit == Init => Inv
<1> SUFFICES ASSUME Init PROVE Inv
  OBVIOUS
<1>1. /\ \A j \in Jobs : job[j].pc = "idle" /\ ~job[j].current
      /\ \A s \in Days : started[s] = 0
  BY DEF Init, Asleep
<1>2. HasSession /\ \A s \in Days : ~Claimed(s)
  BY <1>1 DEF HasSession, Claimed
<1>3. LeaseInv
  BY <1>1, <1>2 DEF LeaseInv
<1>4. QED
  BY <1>2, <1>3, OpsTypeInit DEF Inv

LEMMA InvStep == Inv /\ [Next]_vars => Inv'
<1> SUFFICES ASSUME Inv, [Next]_vars PROVE HasSession' /\ LeaseInv'
  BY OpsTypeStep DEF Inv
<1>0. OpsTypeOK
  BY DEF Inv
<1>1. ASSUME NEW j \in Jobs, Checkout(j) PROVE HasSession' /\ LeaseInv'
  <2>1. work'[j] = saved /\ job'[j].pc = "ready" /\ job[j].pc = "idle"
    BY <1>0, <1>1 DEF Checkout, At, OpsTypeOK, Processes
  <2>2. QED
    BY <1>0, <1>1, <2>1, CheckoutStep DEF Checkout, world, OpsTypeOK
<1>2. ASSUME NEW j \in Jobs, DispatchKill(j) PROVE Quiet(j)
  BY <1>0, <1>2 DEF DispatchKill, Intervention, Quiet, OpsTypeOK, States
<1>3. ASSUME NEW j \in Jobs, StopOnKillFile(j) PROVE Quiet(j)
  BY <1>0, <1>3 DEF StopOnKillFile, Goto, Quiet, world, OpsTypeOK, Processes
<1>4. ASSUME NEW j \in Jobs, HaltKilled(j) PROVE Quiet(j)
  BY <1>0, <1>4 DEF HaltKilled, Report, Quiet, world, OpsTypeOK, Processes
<1>5. ASSUME NEW j \in Jobs, FindNothingDue(j) \/ FindLeaseHeld(j) PROVE Quiet(j)
  <2> DEFINE seen == [work[j] EXCEPT !.firstSeen = FirstSeen(work[j])]
  <2>1. seen.leases = work[j].leases
    BY <1>0, FirstSeenType, StateUpdates DEF OpsTypeOK
  <2>2. work' = [work EXCEPT ![j] = seen] /\ UNCHANGED <<saved, started>>
    BY <1>5 DEF FindNothingDue, FindLeaseHeld, world
  <2>3. /\ job'[j].pc = "report" /\ job'[j].current = job[j].current
        /\ \A k \in Jobs \ {j} : job'[k] = job[k]
    BY <1>0, <1>5 DEF FindNothingDue, FindLeaseHeld, Report, OpsTypeOK, Processes
  <2> HIDE DEF seen
  <2>4. QED
    BY <1>0, <2>1, <2>2, <2>3 DEF Quiet, OpsTypeOK
<1>6. ASSUME NEW j \in Jobs, CommandPersists(j) PROVE HasSession' /\ LeaseInv'
  <2>1. /\ Push(j, job[j]) /\ job[j].pc = "running" /\ job[j] \in Processes /\ job[j].current
        /\ work' = work /\ started' = started
    BY <1>0, <1>6 DEF CommandPersists, At, Push, world, OpsTypeOK
  <2>2. \A k \in Jobs : job'[k].pc = job[k].pc /\ job'[k].session = job[k].session
    BY <1>0, <2>1 DEF Push, OpsTypeOK, Processes
  <2>3. \A s \in Days : Claimed(s)' => work[j].leases[s] # "none"
    BY <2>1, <2>2 DEF Claimed, Inv, LeaseInv
  <2>4. job[j].session \in Days
    BY <2>1 DEF Inv, HasSession
  <2>5. QED
    BY <1>0, <2>1, <2>3, <2>4, PushStep DEF OpsTypeOK
<1>7. ASSUME NEW j \in Jobs, NEW failed \in BOOLEAN, RecordRun(j, failed) PROVE Quiet(j)
  <2> DEFINE s    == job[j].session
             note == Message("summary", s, {})
             now  == job[j].incidents \cup (IF failed THEN {Message("failure", s, {})} ELSE {})
             done == [work[j] EXCEPT !.leases[s] = "completed", !.ran = @ \cup {s},
                                     !.outbox = @ \cup {note}]
  <2>1. /\ Report(j, "report", now) /\ work' = [work EXCEPT ![j] = done]
        /\ UNCHANGED <<saved, started>> /\ s \in Days
    BY <1>0, <1>7 DEF RecordRun, At, world, Inv, HasSession, OpsTypeOK, States
  <2> HIDE DEF note, now
  <2>2. \A t \in Days : done.leases[t] = "none" => work[j].leases[t] = "none"
    BY <1>0, <2>1 DEF OpsTypeOK, States
  <2>3. /\ job'[j].pc = "report" /\ job'[j].current = job[j].current
        /\ \A k \in Jobs \ {j} : job'[k] = job[k]
    BY <1>0, <2>1 DEF Report, OpsTypeOK, Processes
  <2> HIDE DEF done
  <2>4. QED
    BY <1>0, <2>1, <2>2, <2>3 DEF Quiet, OpsTypeOK
<1>8. ASSUME NEW j \in Jobs, LogIncident(j) \/ QueueIncident(j) PROVE Quiet(j)
  <2>1. CASE LogIncident(j)
    BY <1>0, <2>1 DEF LogIncident, Reporting, Quiet, world, OpsTypeOK, States, Processes
  <2>2. CASE QueueIncident(j)
    BY <1>0, <2>2 DEF QueueIncident, Reporting, Quiet, world, OpsTypeOK, States, Processes
  <2>3. QED
    BY <1>8, <2>1, <2>2
<1>9. ASSUME NEW j \in Jobs, MarkSent(j) PROVE Quiet(j)
  BY <1>0, <1>9 DEF MarkSent, Reporting, Quiet, world, OpsTypeOK, States, Processes
<1>10. ASSUME NEW j \in Jobs, OpenOutbox(j) PROVE Quiet(j)
  BY <1>0, <1>10 DEF OpenOutbox, Quiet, world, OpsTypeOK, Processes
<1>11. ASSUME NEW j \in Jobs, Post(j) \/ FailToPost(j) PROVE Quiet(j)
  BY <1>0, <1>11 DEF Post, FailToPost, At, Quiet, OpsTypeOK, Processes
<1>12. ASSUME NEW j \in Jobs, MoveToDelivered(j) PROVE Quiet(j)
  BY <1>0, <1>12 DEF MoveToDelivered, Quiet, world, OpsTypeOK, States, Processes
<1>13. ASSUME NEW j \in Jobs, PersistState(j) PROVE HasSession' /\ LeaseInv'
  <2>1. Asleep \in Processes /\ Asleep.pc = "idle" /\ ~Asleep.current
    BY AsleepType DEF Asleep
  <2>2. /\ work' = [work EXCEPT ![j] = EmptyState] /\ started' = started
        /\ work' \in [Jobs -> States]
    BY <1>0, <1>13, EmptyStateType DEF PersistState, OpsTypeOK
  <2>3. CASE Push(j, Asleep)
    <3>1. job[j].current /\ \A k \in Jobs :
            job'[k].pc \in {job[k].pc, "idle"}
            /\ (job'[k].pc # "idle" => job'[k].session = job[k].session)
      BY <1>0, <2>1, <2>3 DEF Push, OpsTypeOK, Processes
    <3>2. \A s \in Days : Claimed(s)' => work[j].leases[s] # "none"
      BY <2>2, <3>1 DEF Claimed, Inv, LeaseInv
    <3>3. QED
      BY <1>0, <2>1, <2>2, <2>3, <3>2, PushStep DEF OpsTypeOK
  <2>4. CASE job' = [job EXCEPT ![j] = Asleep] /\ UNCHANGED saved
    <3>1. Quiet(j)
      BY <1>0, <2>1, <2>2, <2>4 DEF Quiet, OpsTypeOK
    <3>2. QED
      BY <3>1, QuietStep
  <2>5. QED
    BY <1>13, <2>3, <2>4 DEF PersistState
<1>14. ASSUME NEW j \in Jobs, NEW copy \in States, NEW next \in Processes, Edit(j, copy, next),
              copy.leases = saved.leases, next.pc \in {"push", "reportReset"}
       PROVE  HasSession' /\ LeaseInv'
  BY <1>0, <1>14, CheckoutStep DEF Edit, Intervention, At, OpsTypeOK
<1>15. ToPush \in Processes /\ ToPush.pc = "push"
  BY AsleepType DEF ToPush, Asleep, Processes
<1>16. ASSUME NEW j \in Jobs, SetKill(j) PROVE HasSession' /\ LeaseInv'
  <2> DEFINE set  == [set |-> TRUE, at |-> clock]
             copy == [saved EXCEPT !.kill = set]
  <2>1. set \in [set: BOOLEAN, at: Nat]
    BY <1>0, OpsAssumption DEF OpsTypeOK
  <2>2. Edit(j, copy, ToPush)
    BY <1>16 DEF SetKill
  <2> HIDE DEF set
  <2>3. copy \in States /\ copy.leases = saved.leases
    BY <1>0, <2>1 DEF OpsTypeOK, States
  <2> HIDE DEF copy
  <2>4. QED
    BY <1>14, <1>15, <2>2, <2>3
<1>17. ASSUME NEW j \in Jobs, ResetKill(j) PROVE HasSession' /\ LeaseInv'
  <2> DEFINE skips == SkippedWhileKilled(saved)
             fresh == Fresh(saved, {Message("halt_reset", clock, skips)})
             next  == [ToPush EXCEPT !.pc = "reportReset", !.incidents = fresh, !.batch = fresh]
             copy  == [saved EXCEPT !.skipped = @ \cup skips]
  <2>1. skips \in SUBSET Days
    BY SkippedType
  <2>2. clock \in Nat
    BY <1>0, OpsAssumption DEF OpsTypeOK
  <2>3. fresh \in SUBSET Messages
    BY <2>1, <2>2, MessageType, FreshType DEF Kinds
  <2>4. Edit(j, copy, next)
    BY <1>17 DEF ResetKill
  <2> HIDE DEF fresh, skips
  <2>5. copy \in States /\ copy.leases = saved.leases
    BY <1>0, <2>1 DEF OpsTypeOK, States
  <2>6. next \in Processes /\ next.pc = "reportReset"
    BY <1>15, <2>3 DEF Processes, InRunner
  <2> HIDE DEF next, copy
  <2>7. QED
    BY <1>14, <2>4, <2>5, <2>6
<1>18. ASSUME NEW j \in Jobs, ClearKillFile(j) PROVE HasSession' /\ LeaseInv'
  <2> DEFINE copy == [saved EXCEPT !.killFile = FALSE]
  <2>1. Edit(j, copy, ToPush)
    BY <1>18 DEF ClearKillFile
  <2>2. copy \in States /\ copy.leases = saved.leases
    BY <1>0 DEF OpsTypeOK, States
  <2> HIDE DEF copy
  <2>3. QED
    BY <1>14, <1>15, <2>1, <2>2
<1>19. ASSUME NEW j \in Jobs, UnlinkKill(j) PROVE Quiet(j)
  BY <1>0, <1>19 DEF UnlinkKill, Goto, Quiet, world, OpsTypeOK, States, Processes
<1>20. ASSUME NEW j \in Jobs, LoseRunner(j) PROVE Quiet(j)
  <2>1. Asleep.pc = "idle" /\ ~Asleep.current
    BY DEF Asleep
  <2>2. QED
    BY <1>0, <1>20, <2>1 DEF LoseRunner, Quiet, OpsTypeOK
<1>21. ASSUME NEW j \in Jobs, KillProcess(j) PROVE Quiet(j)
  <2> DEFINE pc   == IF At(j, "posting") \/ At(j, "moving") \/ j \in Operators
                       THEN "push" ELSE "deliver"
             next == [Asleep EXCEPT !.pc = pc, !.current = job[j].current]
  <2>1. pc \in {"push", "deliver"} /\ next.pc = pc /\ next.current = job[j].current
    BY DEF Asleep
  <2>2. /\ job' = [job EXCEPT ![j] = next]
        /\ UNCHANGED <<saved, work, started>>
    BY <1>21 DEF KillProcess
  <2> HIDE DEF next, pc
  <2>3. QED
    BY <1>0, <2>1, <2>2 DEF Quiet, OpsTypeOK
<1>22. CASE UNCHANGED <<saved, work, job, started>>
  BY <1>22 DEF Inv, HasSession, LeaseInv, Claimed
<1>23. Tick \/ UNCHANGED vars => UNCHANGED <<saved, work, job, started>>
  BY DEF Tick, vars, world
<1>24. (\E j \in Jobs : Quiet(j)) => HasSession' /\ LeaseInv'
  BY QuietStep
<1>25. QED
  BY <1>1, <1>2, <1>3, <1>4, <1>5, <1>6, <1>7, <1>8, <1>9, <1>10, <1>11, <1>12, <1>13,
     <1>16, <1>17, <1>18, <1>19, <1>20, <1>21, <1>22, <1>23, <1>24,
     ClaimStep, PersistLeaseStep, FailToPersistLeaseStep, StartCommandStep
     DEF Next, Step, Disturb

LEMMA InvCorrect == Spec => []Inv
<1>1. Init => Inv
  BY InvInit
<1>2. Inv /\ [Next]_vars => Inv'
  BY InvStep
<1>3. QED
  BY <1>1, <1>2, PTL DEF Spec

\* The branch and every checkout hold what the code writes there.
THEOREM OpsTypeCorrect == Spec => []OpsTypeOK
<1>1. Inv => OpsTypeOK
  BY DEF Inv
<1>2. QED
  BY <1>1, InvCorrect, PTL

\* FR-002: whatever runner is lost, process killed, push refused or answer
\* lost, the command that trades starts at most once per session.
THEOREM CommandAtMostOnceCorrect == Spec => []CommandAtMostOnce
<1>1. Inv => CommandAtMostOnce
  BY DEF Inv, LeaseInv, CommandAtMostOnce
<1>2. QED
  BY <1>1, InvCorrect, PTL

\* FR-003: no push takes the lease of a started session off the branch.
THEOREM LeaseOutlivesCommandCorrect == Spec => []LeaseOutlivesCommand
<1>1. Inv => LeaseOutlivesCommand
  BY DEF Inv, LeaseInv, Claimed, LeaseOutlivesCommand
<1>2. QED
  BY <1>1, InvCorrect, PTL

-----------------------------------------------------------------------------
(* ---- What was found is told ------------------------------------------- *)

\* A missed-run incident among these names the session s.
Names(incidents, s) == \E i \in incidents : i.kind = "missed_run" /\ s \in i.about

\* The copy c still has to tell of s: since it watches, s neither ran nor was skipped.
Owed(c, s, lost) == s \notin c.ran \cup c.skipped \cup lost /\ c.firstSeen <= s

\* What was told or is about to be: queued, or out.
Told(c, out) == c.outbox \cup out

\* What sent.json suppresses was told; what is queued was logged.
Kept(c, out) ==
  /\ \A k \in Kinds : c.sent[k] # Nothing => c.sent[k] \in Told(c, out)
  /\ \A m \in c.outbox : m.kind = "summary" \/ m \in c.reports

\* A process p and its checkout c: the sessions that a run record has passed are told
\* of, or are in the hands of the process that wrote the record; the process that is
\* to run a session holds all the earlier ones.  What a process has logged it holds
\* until it is queued.
Honest(c, p, out, lost) ==
  /\ Kept(c, out)
  /\ \A s \in TradingDays :
       Owed(c, s, lost) /\ (\E later \in c.ran : s < later) =>
         Names(Told(c, out), s) \/ (p.pc = "report" /\ p.session \in c.ran /\ Names(p.incidents, s))
  /\ p.pc \in {"persist", "command", "running"} =>
       \A s \in TradingDays :
         Owed(c, s, lost) /\ s < p.session => Names(Told(c, out), s) \/ Names(p.incidents, s)
  /\ p.pc \in {"report", "reportReset"} =>
       /\ p.batch \subseteq Told(c, out) \cup p.incidents
       /\ p.item # Nothing => p.item \in p.incidents \cap c.reports
  /\ p.pc = "moving" => p.item \in out

ReportInv ==
  /\ Honest(saved, Asleep, posted, forgotten)
  /\ \A j \in Jobs : Honest(work[j], job[j], posted, forgotten)

SameMemory(p, q) ==
  /\ p.pc = q.pc /\ p.session = q.session
  /\ p.incidents = q.incidents /\ p.batch = q.batch /\ p.item = q.item

LEMMA HonestStays ==
  ASSUME NEW c, NEW p, NEW q, NEW out, NEW lost, NEW more, NEW further,
         Honest(c, p, out, lost), SameMemory(p, q), out \subseteq more, lost \subseteq further
  PROVE  Honest(c, q, more, further)
BY DEF Honest, SameMemory, Kept, Owed, Told, Names

\* A step of j: what it leaves in its checkout is all there is to look at.
LEMMA OwnStep ==
  ASSUME ReportInv, NEW j \in Jobs,
         \A k \in Jobs \ {j} : work'[k] = work[k] /\ SameMemory(job[k], job'[k]),
         saved' = saved \/ (saved' = work[j] /\ job[j].pc # "report"),
         posted \subseteq posted', forgotten \subseteq forgotten',
         Honest(work'[j], job'[j], posted', forgotten')
  PROVE  ReportInv'
<1>1. ASSUME NEW k \in Jobs \ {j}
      PROVE  Honest(work'[k], job'[k], posted', forgotten')
  BY <1>1, HonestStays DEF ReportInv
<1>2. Honest(saved, Asleep, posted', forgotten')
  BY HonestStays DEF ReportInv, SameMemory
<1>3. ASSUME job[j].pc # "report"
      PROVE  Honest(work[j], Asleep, posted', forgotten')
  <2>1. Honest(work[j], job[j], posted', forgotten')
    <3>1. Honest(work[j], job[j], posted, forgotten)
      BY DEF ReportInv
    <3>2. SameMemory(job[j], job[j])
      BY DEF SameMemory
    <3>3. QED
      BY <3>1, <3>2, HonestStays
  <2>2. Asleep.pc = "idle"
    BY DEF Asleep
  <2>3. QED
    BY <1>3, <2>1, <2>2 DEF Honest, Owed
<1>4. Honest(saved', Asleep, posted', forgotten')
  BY <1>2, <1>3
<1>5. QED
  BY <1>1, <1>4 DEF ReportInv

\* The process p becomes q, its checkout c becomes d, and no run is recorded.
LEMMA CarriedOn ==
  ASSUME NEW c, NEW d, NEW p, NEW q, NEW out, NEW lost,
         Honest(c, p, out, lost), p.pc # "report",
         d.sent = c.sent, d.reports = c.reports, d.outbox = c.outbox, d.ran = c.ran,
         c.skipped \subseteq d.skipped, \A s \in Days : d.firstSeen <= s => c.firstSeen <= s,
         q.pc # "moving",
         q.pc \in {"report", "reportReset"} => q.batch \subseteq q.incidents /\ q.item = Nothing,
         q.pc \in {"persist", "command", "running"} =>
           /\ p.pc \in {"persist", "command", "running"}
           /\ q.session = p.session /\ q.incidents = p.incidents
  PROVE  Honest(d, q, out, lost)
<1>0. TradingDays \subseteq Days
  BY OpsAssumption
<1>1. Kept(d, out) /\ Told(d, out) = Told(c, out)
  BY DEF Honest, Kept, Told
<1>2. \A s \in TradingDays : Owed(d, s, lost) => Owed(c, s, lost)
  BY <1>0 DEF Owed
<1>3. QED
  BY <1>1, <1>2 DEF Honest

LEMMA AsleepHonest ==
  ASSUME NEW out, NEW lost
  PROVE  Honest(EmptyState, Asleep, out, lost)
BY DEF Honest, Kept, EmptyState, Asleep

\* What a push does to the others.
LEMMA PushOthers ==
  ASSUME OpsTypeOK, NEW j \in Jobs, NEW next, Push(j, next)
  PROVE  /\ saved' = work[j] /\ job'[j] = next
         /\ \A k \in Jobs \ {j} : SameMemory(job[k], job'[k])
BY DEF Push, OpsTypeOK, Processes, SameMemory

LEMMA UpdateOthers ==
  ASSUME NEW j \in Jobs, NEW f, NEW x, NEW g \in [Jobs -> f], NEW h, h = [g EXCEPT ![j] = x]
  PROVE  h[j] = x /\ \A k \in Jobs \ {j} : h[k] = g[k]
OBVIOUS

LEMMA SameIsSame == \A p : SameMemory(p, p)
BY DEF SameMemory

\* A step within the runner that posts nothing and records no run.
LEMMA LocalStep ==
  ASSUME OpsTypeOK, ReportInv, NEW j \in Jobs, NEW d, NEW q,
         UNCHANGED <<saved, posted, forgotten>>,
         work' = [work EXCEPT ![j] = d], job' = [job EXCEPT ![j] = q],
         Honest(d, q, posted, forgotten)
  PROVE  ReportInv'
<1>1. work'[j] = d /\ job'[j] = q
  BY DEF OpsTypeOK
<1>2. \A k \in Jobs \ {j} : work'[k] = work[k] /\ SameMemory(job[k], job'[k])
  BY SameIsSame DEF OpsTypeOK
<1>3. QED
  BY <1>1, <1>2, OwnStep

-----------------------------------------------------------------------------
LEMMA ReportedAs ==
  ASSUME OpsTypeOK, NEW j \in Jobs, NEW pc, NEW incidents, Report(j, pc, incidents)
  PROVE  \E q : /\ job' = [job EXCEPT ![j] = q] /\ q.pc = pc /\ q.session = job[j].session
                /\ q.incidents = Fresh(work[j], incidents) /\ q.batch = q.incidents
                /\ q.item = Nothing
<1> DEFINE fresh == Fresh(work[j], incidents)
           q == [job[j] EXCEPT !.pc = pc, !.incidents = fresh, !.batch = fresh, !.item = Nothing]
<1>1. job' = [job EXCEPT ![j] = q]
  BY DEF Report, OpsTypeOK, Processes
<1> HIDE DEF fresh
<1>2. /\ q.pc = pc /\ q.session = job[j].session /\ q.incidents = fresh /\ q.batch = fresh
      /\ q.item = Nothing
  BY DEF OpsTypeOK, Processes
<1>3. QED
  BY <1>1, <1>2 DEF fresh

\* A checkout that differs by nothing the reports depend on, or watches from later on.
LEMMA QuietUpdates ==
  ASSUME OpsTypeOK, NEW c \in States
  PROVE  /\ \A x, s : LET d == [c EXCEPT !.leases[s] = x] IN
              d.sent = c.sent /\ d.reports = c.reports /\ d.outbox = c.outbox /\ d.ran = c.ran
              /\ d.skipped = c.skipped /\ d.firstSeen = c.firstSeen
         /\ \A x : LET d == [c EXCEPT !.firstSeen = x] IN
              d.sent = c.sent /\ d.reports = c.reports /\ d.outbox = c.outbox /\ d.ran = c.ran
              /\ d.skipped = c.skipped /\ d.firstSeen = x
         /\ \A x : LET d == [c EXCEPT !.killFile = x] IN
              d.sent = c.sent /\ d.reports = c.reports /\ d.outbox = c.outbox /\ d.ran = c.ran
              /\ d.skipped = c.skipped /\ d.firstSeen = c.firstSeen
         /\ \A x : LET d == [c EXCEPT !.kill = x] IN
              d.sent = c.sent /\ d.reports = c.reports /\ d.outbox = c.outbox /\ d.ran = c.ran
              /\ d.skipped = c.skipped /\ d.firstSeen = c.firstSeen
         /\ \A x : LET d == [c EXCEPT !.skipped = x] IN
              d.sent = c.sent /\ d.reports = c.reports /\ d.outbox = c.outbox /\ d.ran = c.ran
              /\ d.skipped = x /\ d.firstSeen = c.firstSeen
BY DEF States

LEMMA SeenFrom ==
  ASSUME OpsTypeOK, NEW c \in States
  PROVE  /\ FirstSeen(c) \in Days
         /\ \A s \in Days : FirstSeen(c) <= s => c.firstSeen <= s
<1>1. FirstSeen(c) \in Days
  BY FirstSeenType DEF OpsTypeOK
<1>2. c.firstSeen \in Days \cup {0}
  BY DEF States
<1>3. QED
  BY <1>1, <1>2, OpsAssumption DEF FirstSeen, Days

\* The steps before a session is claimed, other than the claim.
LEMMA ReadySteps ==
  ASSUME OpsTypeOK, ReportInv, NEW j \in Jobs,
         \/ Checkout(j) \/ DispatchKill(j) \/ StopOnKillFile(j)
         \/ HaltKilled(j) \/ FindNothingDue(j) \/ FindLeaseHeld(j)
  PROVE  ReportInv'
<1>0. /\ saved \in States /\ work[j] \in States /\ job[j] \in Processes
      /\ Honest(work[j], job[j], posted, forgotten) /\ Honest(saved, Asleep, posted, forgotten)
  BY DEF OpsTypeOK, ReportInv
<1>1. CASE Checkout(j)
  <2> DEFINE q == [job[j] EXCEPT !.pc = "ready", !.current = TRUE]
  <2>1. job' = [job EXCEPT ![j] = q] /\ work' = [work EXCEPT ![j] = saved] /\ UNCHANGED <<saved, posted, forgotten>>
    BY <1>1 DEF Checkout, world, OpsTypeOK, Processes
  <2>2. q.pc = "ready" /\ Asleep.pc = "idle"
    BY <1>0 DEF Processes, Asleep
  <2> HIDE DEF q
  <2>3. Honest(saved, q, posted, forgotten)
    BY <1>0, <2>2, CarriedOn
  <2>4. QED
    BY <2>1, <2>3, LocalStep
<1>2. CASE DispatchKill(j)
  <2> DEFINE d == [work[j] EXCEPT !.killFile = TRUE]
  <2>1. /\ job' = [job EXCEPT ![j] = job[j]] /\ work' = [work EXCEPT ![j] = d] /\ job[j].pc = "ready"
        /\ UNCHANGED <<saved, posted, forgotten>>
    BY <1>2 DEF DispatchKill, Intervention, At, OpsTypeOK
  <2>2. d.sent = work[j].sent /\ d.reports = work[j].reports /\ d.outbox = work[j].outbox /\ d.ran = work[j].ran
        /\ d.skipped = work[j].skipped /\ d.firstSeen = work[j].firstSeen
    BY <1>0, QuietUpdates
  <2> HIDE DEF d
  <2>3. Honest(d, job[j], posted, forgotten)
    BY <1>0, <2>1, <2>2, CarriedOn
  <2>4. QED
    BY <2>1, <2>3, LocalStep
<1>3. CASE StopOnKillFile(j)
  <2> DEFINE q == [job[j] EXCEPT !.pc = "deliver"]
  <2>1. /\ job' = [job EXCEPT ![j] = q] /\ work' = [work EXCEPT ![j] = work[j]] /\ job[j].pc = "ready"
        /\ UNCHANGED <<saved, posted, forgotten>>
    BY <1>3 DEF StopOnKillFile, Goto, At, OpsTypeOK, world
  <2>2. q.pc = "deliver"
    BY <1>0 DEF Processes
  <2> HIDE DEF q
  <2>3. Honest(work[j], q, posted, forgotten)
    BY <1>0, <2>1, <2>2, CarriedOn
  <2>4. QED
    BY <2>1, <2>3, LocalStep
<1>4. ASSUME NEW incidents, Report(j, "report", incidents), NEW d, work' = [work EXCEPT ![j] = d],
             UNCHANGED <<saved, posted, forgotten>>, At(j, "ready"),
             d.sent = work[j].sent, d.reports = work[j].reports, d.outbox = work[j].outbox, d.ran = work[j].ran,
             d.skipped = work[j].skipped, \A s \in Days : d.firstSeen <= s => work[j].firstSeen <= s
      PROVE  ReportInv'
  <2>1. PICK q : /\ job' = [job EXCEPT ![j] = q] /\ q.pc = "report"
                 /\ q.batch = q.incidents /\ q.item = Nothing
    BY <1>4, ReportedAs
  <2>2. Honest(d, q, posted, forgotten)
    BY <1>0, <1>4, <2>1, CarriedOn DEF At
  <2>3. QED
    BY <1>4, <2>1, <2>2, LocalStep
<1>5. CASE HaltKilled(j)
  <2>1. work' = [work EXCEPT ![j] = work[j]] /\ At(j, "ready") /\ UNCHANGED <<saved, posted, forgotten>>
    BY <1>5 DEF HaltKilled, world, OpsTypeOK
  <2>2. PICK incidents : Report(j, "report", incidents)
    BY <1>5 DEF HaltKilled
  <2>3. QED
    BY <1>4, <2>1, <2>2
<1>6. CASE FindNothingDue(j) \/ FindLeaseHeld(j)
  <2> DEFINE d == [work[j] EXCEPT !.firstSeen = FirstSeen(work[j])]
  <2>1. work' = [work EXCEPT ![j] = d] /\ At(j, "ready") /\ UNCHANGED <<saved, posted, forgotten>>
    BY <1>6 DEF FindNothingDue, FindLeaseHeld, Alive, world, OpsTypeOK
  <2>2. PICK incidents : Report(j, "report", incidents)
    BY <1>6 DEF FindNothingDue, FindLeaseHeld
  <2>3. d.sent = work[j].sent /\ d.reports = work[j].reports /\ d.outbox = work[j].outbox /\ d.ran = work[j].ran
        /\ d.skipped = work[j].skipped /\ d.firstSeen = FirstSeen(work[j])
    BY <1>0, QuietUpdates
  <2> HIDE DEF d
  <2>4. \A s \in Days : d.firstSeen <= s => work[j].firstSeen <= s
    BY <1>0, <2>3, SeenFrom
  <2>5. QED
    BY <1>4, <2>1, <2>2, <2>3, <2>4
<1>7. QED
  BY <1>1, <1>2, <1>3, <1>5, <1>6

-----------------------------------------------------------------------------
\* A claim finds every earlier session that is owed, or a run record told of it.
LEMMA FindsAll ==
  ASSUME OpsTypeOK, NEW c \in States, NEW p, p.pc = "ready", Honest(c, p, posted, forgotten),
         NEW s \in TradingDays, s \notin c.ran \cup c.skipped \cup forgotten,
         FirstSeen(c) <= s, s < Today
  PROVE  Names(Told(c, posted), s) \/ Names(MissedIncident(c), s)
<1> DEFINE S == {FirstSeen(c)} \cup c.ran
<1>0. s \in Days /\ Today \in Days /\ FirstSeen(c) \in Days /\ c.ran \subseteq Days /\ Days \subseteq Nat
      /\ clock \in Nat
  <2>1. FirstSeen(c) \in Days /\ s \in Days
    BY SeenFrom, OpsAssumption
  <2>2. clock \in 0..(3 * LastDay - 1) /\ c.ran \subseteq Days
    BY DEF OpsTypeOK, States
  <2>3. Today \in Days /\ Days \subseteq Nat /\ clock \in Nat
    BY <2>2, TodayType DEF Days
  <2>4. QED
    BY <2>1, <2>2, <2>3
<1>1. Max(S) \in S /\ S \subseteq Days
  <2>1. S \in SUBSET (0..LastDay) /\ S # {} /\ LastDay \in Nat
    BY <1>0, OpsAssumption DEF Days
  <2>2. QED
    BY <1>0, <2>1, MaxOfBounded
<1>2. PICK m : m = Max(S)
  OBVIOUS
<1> HIDE DEF S
<1>3. m \in S /\ m \in Nat /\ s \in Nat
  BY <1>0, <1>1, <1>2
<1>4. CASE m <= s
  <2>1. Cutoff(s) <= clock /\ s <= Today
    <3>1. s <= clock \div 3 /\ 3 * (clock \div 3) <= clock /\ clock \div 3 \in Nat
      BY <1>0, <1>3 DEF Today
    <3>2. QED
      BY <1>0, <1>3, <3>1 DEF Cutoff, Today
  <2>2. s \in MissedByNow(c)
    BY <1>2, <1>4, <2>1 DEF MissedByNow, Missed, S
  <2>3. MissedIncident(c) = {Message("missed_run", 0, MissedByNow(c))}
    BY <2>2 DEF MissedIncident
  <2>4. QED
    BY <2>2, <2>3 DEF Names, Message
<1>5. CASE s < m
  <2>1. m \in c.ran
    BY <1>0, <1>3, <1>5 DEF S
  <2>2. Owed(c, s, forgotten)
    BY <1>0, SeenFrom DEF Owed
  <2>3. QED
    BY <1>5, <2>1, <2>2 DEF Honest
<1>6. QED
  BY <1>3, <1>4, <1>5

LEMMA ClaimReports ==
  ASSUME OpsTypeOK, ReportInv, NEW j \in Jobs, Claim(j)
  PROVE  ReportInv'
<1> DEFINE c == work[j]
           f == FirstSeen(c)
           d1 == [c EXCEPT !.firstSeen = f]
           d == [d1 EXCEPT !.leases[Today] = "running"]
           now == MissedIncident(c)
           q == [job[j] EXCEPT !.pc = "persist", !.session = Today, !.incidents = now]
<1>0. c \in States /\ job[j] \in Processes /\ job[j].pc = "ready" /\ Honest(c, job[j], posted, forgotten)
  BY DEF OpsTypeOK, ReportInv, Claim, Alive, At
<1>1. work' = [work EXCEPT ![j] = d] /\ job' = [job EXCEPT ![j] = q] /\ UNCHANGED <<saved, posted, forgotten>>
  BY DEF Claim, world, OpsTypeOK, States, Processes
<1>2. f \in Days /\ \A s \in Days : f <= s => c.firstSeen <= s
  BY <1>0, SeenFrom
<1> HIDE DEF c, f, now
<1>3. d1 \in States
  BY <1>0, <1>2, StateUpdates
<1>4. /\ d.sent = c.sent /\ d.reports = c.reports /\ d.outbox = c.outbox /\ d.ran = c.ran
      /\ d.skipped = c.skipped /\ d.firstSeen = f
  <2>1. /\ d1.sent = c.sent /\ d1.reports = c.reports /\ d1.outbox = c.outbox /\ d1.ran = c.ran
        /\ d1.skipped = c.skipped /\ d1.firstSeen = f
    BY <1>0, QuietUpdates
  <2> HIDE DEF d1
  <2>2. QED
    BY <1>3, <2>1, QuietUpdates
<1> HIDE DEF d
<1>5. q.pc = "persist" /\ q.session = Today /\ q.incidents = now
  BY <1>0 DEF Processes
<1> HIDE DEF q
<1>6. \A s \in TradingDays : Owed(d, s, forgotten) => Owed(c, s, forgotten)
  BY <1>2, <1>4, OpsAssumption DEF Owed
<1>7. \A s \in TradingDays : Owed(d, s, forgotten) /\ s < Today => Names(Told(c, posted), s) \/ Names(now, s)
  BY <1>0, <1>4, FindsAll DEF Owed, f, now
<1>8. Honest(d, q, posted, forgotten)
  BY <1>0, <1>4, <1>5, <1>6, <1>7 DEF Honest, Kept, Told
<1>9. QED
  BY <1>1, <1>8, LocalStep

\* The lease goes out, or does not, and the command starts and pushes.
LEMMA RunSteps ==
  ASSUME OpsTypeOK, ReportInv, NEW j \in Jobs,
         PersistLease(j) \/ FailToPersistLease(j) \/ StartCommand(j) \/ CommandPersists(j)
  PROVE  ReportInv'
<1>0. /\ saved \in States /\ work[j] \in States /\ job[j] \in Processes
      /\ Honest(work[j], job[j], posted, forgotten)
      /\ job[j].pc \in {"persist", "command", "running"} /\ UNCHANGED <<posted, forgotten>>
  BY DEF OpsTypeOK, ReportInv, PersistLease, FailToPersistLease, StartCommand, CommandPersists, At, world
<1>1. ASSUME NEW next, Push(j, next), NEW d, work' = [work EXCEPT ![j] = d],
             Honest(d, next, posted, forgotten)
      PROVE  ReportInv'
  <2>1. /\ saved' = work[j] /\ job'[j] = next
        /\ \A k \in Jobs \ {j} : SameMemory(job[k], job'[k])
    BY <1>1, PushOthers
  <2>2. work'[j] = d /\ \A k \in Jobs \ {j} : work'[k] = work[k]
    BY <1>1 DEF OpsTypeOK
  <2>3. QED
    BY <1>0, <1>1, <2>1, <2>2, OwnStep
<1>2. CASE PersistLease(j)
  <2> DEFINE q == [job[j] EXCEPT !.pc = "command"]
  <2>1. Push(j, q) /\ work' = [work EXCEPT ![j] = work[j]]
    BY <1>2 DEF PersistLease, OpsTypeOK
  <2>2. q.pc = "command" /\ q.session = job[j].session /\ q.incidents = job[j].incidents
    BY <1>0 DEF Processes
  <2> HIDE DEF q
  <2>3. Honest(work[j], q, posted, forgotten)
    BY <1>0, <2>2, CarriedOn
  <2>4. QED
    BY <1>1, <2>1, <2>3
<1>3. CASE StartCommand(j)
  <2> DEFINE q == [job[j] EXCEPT !.pc = "running"]
  <2>1. job' = [job EXCEPT ![j] = q] /\ work' = [work EXCEPT ![j] = work[j]] /\ saved' = saved
    BY <1>3 DEF StartCommand, Goto, OpsTypeOK
  <2>2. q.pc = "running" /\ q.session = job[j].session /\ q.incidents = job[j].incidents
    BY <1>0 DEF Processes
  <2> HIDE DEF q
  <2>3. Honest(work[j], q, posted, forgotten)
    BY <1>0, <2>2, CarriedOn
  <2>4. QED
    BY <1>0, <2>1, <2>3, LocalStep
<1>4. CASE CommandPersists(j)
  <2>1. Push(j, job[j]) /\ work' = [work EXCEPT ![j] = work[j]]
    BY <1>4 DEF CommandPersists, OpsTypeOK
  <2>2. QED
    BY <1>0, <1>1, <2>1
<1>5. CASE FailToPersistLease(j)
  <2> DEFINE s == job[j].session
             d == [work[j] EXCEPT !.leases[s] = "none"]
             fresh == Fresh(work[j], job[j].incidents \cup {Message("persist_failed", s, {})})
             gone == [job[j] EXCEPT !.pc = "report", !.incidents = fresh, !.batch = fresh, !.item = Nothing]
  <2>1. /\ work' = [work EXCEPT ![j] = d]
        /\ \/ job' = [job EXCEPT ![j] = gone] /\ UNCHANGED saved
           \/ Push(j, gone)
    BY <1>5 DEF FailToPersistLease, OpsTypeOK, States
  <2> HIDE DEF fresh, s
  <2>2. gone.pc = "report" /\ gone.incidents = fresh /\ gone.batch = fresh /\ gone.item = Nothing
    BY <1>0 DEF Processes
  <2>3. d.sent = work[j].sent /\ d.reports = work[j].reports /\ d.outbox = work[j].outbox /\ d.ran = work[j].ran
        /\ d.skipped = work[j].skipped /\ d.firstSeen = work[j].firstSeen
    BY <1>0, QuietUpdates
  <2> HIDE DEF d, gone
  <2>4. Honest(d, gone, posted, forgotten)
    BY <1>0, <2>2, <2>3, CarriedOn
  <2>5. QED
    BY <1>0, <1>1, <2>1, <2>4, LocalStep
<1>6. QED
  BY <1>2, <1>3, <1>4, <1>5

-----------------------------------------------------------------------------
\* What sent.json suppresses was told, the rest is in the process's hands.
LEMMA FreshOrTold ==
  ASSUME NEW c, NEW out, Kept(c, out), NEW now, NEW s, Names(now, s)
  PROVE  Names(Told(c, out), s) \/ Names(Fresh(c, now), s)
<1>1. PICK i \in now : i.kind = "missed_run" /\ s \in i.about
  BY DEF Names
<1>2. CASE i \in Fresh(c, now)
  BY <1>1, <1>2 DEF Names
<1>3. CASE c.sent["missed_run"] = i
  <2>1. i # Nothing
    BY <1>1 DEF Nothing, Message
  <2>2. i \in Told(c, out)
    BY <1>3, <2>1 DEF Kept, Kinds
  <2>3. QED
    BY <1>1, <2>2 DEF Names
<1>4. QED
  BY <1>1, <1>2, <1>3 DEF Fresh

LEMMA RecordReports ==
  ASSUME OpsTypeOK, ReportInv, NEW j \in Jobs, NEW failed \in BOOLEAN, RecordRun(j, failed)
  PROVE  ReportInv'
<1> DEFINE c == work[j]
           p == job[j]
           s == p.session
           now == p.incidents \cup (IF failed THEN {Message("failure", s, {})} ELSE {})
           d == [c EXCEPT !.leases[s] = "completed", !.ran = @ \cup {s},
                          !.outbox = @ \cup {Message("summary", s, {})}]
<1>0. c \in States /\ p \in Processes /\ p.pc = "running" /\ Honest(c, p, posted, forgotten)
  BY DEF OpsTypeOK, ReportInv, RecordRun, At
<1>1. Report(j, "report", now) /\ UNCHANGED <<saved, posted, forgotten>> /\ work' = [work EXCEPT ![j] = d]
  BY DEF RecordRun, world, OpsTypeOK, States
<1>2. PICK q : /\ job' = [job EXCEPT ![j] = q] /\ q.pc = "report" /\ q.session = s
               /\ q.incidents = Fresh(c, now) /\ q.batch = q.incidents /\ q.item = Nothing
  BY <1>1, ReportedAs
<1>3. /\ d.sent = c.sent /\ d.reports = c.reports /\ d.ran = c.ran \cup {s}
      /\ d.outbox = c.outbox \cup {Message("summary", s, {})}
      /\ d.skipped = c.skipped /\ d.firstSeen = c.firstSeen
  BY <1>0 DEF States
<1> HIDE DEF d
<1>3a. \A x : Names(Told(c, posted), x) => Names(Told(d, posted), x)
  BY <1>3 DEF Told, Names
<1>4. ASSUME NEW x \in TradingDays, Owed(d, x, forgotten), \E later \in d.ran : x < later
      PROVE  Names(Told(d, posted), x) \/ (q.session \in d.ran /\ Names(q.incidents, x))
  <2>1. Owed(c, x, forgotten)
    BY <1>3, <1>4 DEF Owed
  <2>2. CASE \E later \in c.ran : x < later
    BY <1>0, <1>3a, <2>1, <2>2 DEF Honest
  <2>3. CASE x < s
    <3>1. Names(Told(c, posted), x) \/ Names(p.incidents, x)
      BY <1>0, <2>1, <2>3 DEF Honest
    <3>2. Names(p.incidents, x) => Names(now, x)
      BY DEF Names
    <3>3. Kept(c, posted)
      BY <1>0 DEF Honest
    <3>4. Names(Told(c, posted), x) \/ Names(Fresh(c, now), x)
      BY <3>1, <3>2, <3>3, FreshOrTold
    <3>5. QED
      BY <1>2, <1>3, <1>3a, <3>4
  <2>4. QED
    BY <1>3, <1>4, <2>2, <2>3
<1>5. Kept(d, posted)
  BY <1>0, <1>3 DEF Honest, Kept, Told, Message
<1>6. Honest(d, q, posted, forgotten)
  BY <1>2, <1>4, <1>5 DEF Honest
<1>7. QED
  BY <1>1, <1>2, <1>6, LocalStep

LEMMA LogReports ==
  ASSUME OpsTypeOK, ReportInv, NEW j \in Jobs, LogIncident(j)
  PROVE  ReportInv'
<1>1. PICK i : i = NextIncident(j)
  OBVIOUS
<1> DEFINE c == work[j]
           p == job[j]
           d == [c EXCEPT !.reports = @ \cup {i}]
           q == [p EXCEPT !.item = i]
<1>2. /\ c \in States /\ p \in Processes /\ p.pc \in {"report", "reportReset"}
      /\ Honest(c, p, posted, forgotten) /\ i \in p.incidents
  BY <1>1, NextIsOne DEF OpsTypeOK, ReportInv, LogIncident, Reporting
<1>3. work' = [work EXCEPT ![j] = d] /\ job' = [job EXCEPT ![j] = q] /\ UNCHANGED <<saved, posted, forgotten>>
  BY <1>1 DEF LogIncident, world, OpsTypeOK, States, Processes
<1>4. /\ d.sent = c.sent /\ d.reports = c.reports \cup {i} /\ d.outbox = c.outbox /\ d.ran = c.ran
      /\ d.skipped = c.skipped /\ d.firstSeen = c.firstSeen
  BY <1>2 DEF States
<1>5. /\ q.pc = p.pc /\ q.session = p.session /\ q.batch = p.batch /\ q.incidents = p.incidents
      /\ q.item = i
  BY <1>2 DEF Processes
<1> HIDE DEF d, q, c, p
<1>6. Kept(d, posted) /\ Told(d, posted) = Told(c, posted)
  BY <1>2, <1>4 DEF Honest, Kept, Told
<1>7. \A s : Owed(d, s, forgotten) => Owed(c, s, forgotten)
  BY <1>4 DEF Owed
<1>8. Honest(d, q, posted, forgotten)
  BY <1>2, <1>4, <1>5, <1>6, <1>7 DEF Honest
<1>9. QED
  BY <1>3, <1>8, LocalStep

LEMMA QueueReports ==
  ASSUME OpsTypeOK, ReportInv, NEW j \in Jobs, QueueIncident(j)
  PROVE  ReportInv'
<1>1. PICK i : i = job[j].item
  OBVIOUS
<1> DEFINE c == work[j]
           p == job[j]
           d == [c EXCEPT !.outbox = @ \cup {i}]
           q == [p EXCEPT !.incidents = @ \ {i}, !.item = Nothing]
<1>2. /\ c \in States /\ p \in Processes /\ p.pc \in {"report", "reportReset"}
      /\ Honest(c, p, posted, forgotten) /\ p.item # Nothing /\ p.item = i
  BY <1>1 DEF OpsTypeOK, ReportInv, QueueIncident, Reporting
<1>3. work' = [work EXCEPT ![j] = d] /\ job' = [job EXCEPT ![j] = q] /\ UNCHANGED <<saved, posted, forgotten>>
  BY <1>1 DEF QueueIncident, world, OpsTypeOK, States, Processes
<1>4. /\ d.sent = c.sent /\ d.reports = c.reports /\ d.outbox = c.outbox \cup {i} /\ d.ran = c.ran
      /\ d.skipped = c.skipped /\ d.firstSeen = c.firstSeen
  BY <1>2 DEF States
<1>5. /\ q.pc = p.pc /\ q.session = p.session /\ q.batch = p.batch /\ q.incidents = p.incidents \ {i}
      /\ q.item = Nothing
  BY <1>2 DEF Processes
<1> HIDE DEF d, q, c, p
<1>6. i \in c.reports
  BY <1>2 DEF Honest
<1>7. Kept(d, posted) /\ Told(d, posted) = Told(c, posted) \cup {i}
  BY <1>2, <1>4, <1>6 DEF Honest, Kept, Told
<1>8. \A s : Owed(d, s, forgotten) => Owed(c, s, forgotten)
  BY <1>4 DEF Owed
<1>9. \A s : /\ Names(Told(c, posted), s) => Names(Told(d, posted), s)
             /\ Names(p.incidents, s) => Names(Told(d, posted), s) \/ Names(q.incidents, s)
  BY <1>5, <1>7 DEF Names
<1>10. Honest(d, q, posted, forgotten)
  BY <1>2, <1>4, <1>5, <1>7, <1>8, <1>9 DEF Honest
<1>11. QED
  BY <1>3, <1>10, LocalStep

LEMMA SentReports ==
  ASSUME OpsTypeOK, ReportInv, NEW j \in Jobs, MarkSent(j)
  PROVE  ReportInv'
<1> DEFINE c == work[j]
           p == job[j]
           marks == [k \in Kinds |-> IF \E i \in p.batch : i.kind = k
                                       THEN CHOOSE i \in p.batch : i.kind = k ELSE c.sent[k]]
           pc == IF p.pc = "report" THEN "deliver" ELSE "unlink"
           d == [c EXCEPT !.sent = marks]
           q == [p EXCEPT !.pc = pc]
<1>1. /\ c \in States /\ p \in Processes /\ p.pc \in {"report", "reportReset"} /\ p.incidents = {}
      /\ Honest(c, p, posted, forgotten)
  BY DEF OpsTypeOK, ReportInv, MarkSent, Reporting
<1>2. work' = [work EXCEPT ![j] = d] /\ job' = [job EXCEPT ![j] = q] /\ UNCHANGED <<saved, posted, forgotten>>
  BY DEF MarkSent, world, OpsTypeOK, States, Processes
<1>3. \A k \in Kinds : marks[k] # Nothing => marks[k] \in Told(c, posted)
  <2>1. p.batch \subseteq Told(c, posted) /\ Kept(c, posted)
    BY <1>1 DEF Honest
  <2>2. \A k \in Kinds : marks[k] \in p.batch \/ marks[k] = c.sent[k]
    OBVIOUS
  <2>3. QED
    BY <2>1, <2>2 DEF Kept
<1>4. pc \in {"deliver", "unlink"}
  OBVIOUS
<1> HIDE DEF marks, pc
<1>5. /\ d.sent = marks /\ d.reports = c.reports /\ d.outbox = c.outbox /\ d.ran = c.ran
      /\ d.skipped = c.skipped /\ d.firstSeen = c.firstSeen
  BY <1>1 DEF States
<1>6. q.pc = pc
  BY <1>1 DEF Processes
<1> HIDE DEF d, q, c, p
<1>7. Kept(d, posted) /\ Told(d, posted) = Told(c, posted)
  BY <1>1, <1>3, <1>5 DEF Honest, Kept, Told
<1>8. \A s : (Owed(d, s, forgotten) => Owed(c, s, forgotten)) /\ ~Names(p.incidents, s)
  BY <1>1, <1>5 DEF Owed, Names
<1>9. Honest(d, q, posted, forgotten)
  BY <1>1, <1>4, <1>5, <1>6, <1>7, <1>8 DEF Honest
<1>10. QED
  BY <1>2, <1>9, LocalStep

-----------------------------------------------------------------------------
\* The outbox is gone through, and what was posted leaves it.
LEMMA PostReports ==
  ASSUME OpsTypeOK, ReportInv, NEW j \in Jobs,
         OpenOutbox(j) \/ Post(j) \/ FailToPost(j) \/ MoveToDelivered(j) \/ UnlinkKill(j)
  PROVE  ReportInv'
<1> DEFINE c == work[j]
           p == job[j]
<1>0. /\ c \in States /\ p \in Processes /\ Honest(c, p, posted, forgotten)
      /\ p.pc \in {"deliver", "posting", "moving", "unlink"} /\ UNCHANGED <<saved, forgotten>>
  BY DEF OpsTypeOK, ReportInv, OpenOutbox, Post, FailToPost, MoveToDelivered, UnlinkKill, At, world
<1>1. CASE OpenOutbox(j)
  <2> DEFINE q == [p EXCEPT !.pc = "posting", !.batch = c.outbox]
  <2>1. job' = [job EXCEPT ![j] = q] /\ work' = [work EXCEPT ![j] = c] /\ posted' = posted
    BY <1>1 DEF OpenOutbox, world, OpsTypeOK, Processes
  <2>2. q.pc = "posting"
    BY <1>0 DEF Processes
  <2> HIDE DEF q
  <2>3. Honest(c, q, posted, forgotten)
    BY <1>0, <2>2, CarriedOn
  <2>4. QED
    BY <1>0, <2>1, <2>3, LocalStep
<1>2. CASE Post(j)
  <2> DEFINE m == NextItem(j)
             b == p.batch \ {m}
             q == [p EXCEPT !.pc = "moving", !.item = m, !.batch = b]
  <2>1. job' = [job EXCEPT ![j] = q] /\ work' = work /\ posted' = posted \cup {m} /\ p.pc = "posting"
    BY <1>2 DEF Post, OpsTypeOK, Processes, At
  <2> HIDE DEF m, b
  <2>2. q.pc = "moving" /\ q.item = m
    BY <1>0 DEF Processes
  <2> HIDE DEF q
  <2>3. Honest(c, p, posted', forgotten)
    BY <1>0, <2>1, HonestStays, SameIsSame
  <2>4. Honest(c, q, posted', forgotten)
    BY <2>1, <2>2, <2>3 DEF Honest
  <2>5. work'[j] = c /\ job'[j] = q
    BY <2>1 DEF OpsTypeOK
  <2>6. \A k \in Jobs \ {j} : work'[k] = work[k] /\ SameMemory(job[k], job'[k])
    BY <2>1, SameIsSame DEF OpsTypeOK
  <2>7. QED
    BY <1>0, <2>1, <2>4, <2>5, <2>6, OwnStep
<1>3. CASE FailToPost(j)
  <2> DEFINE b == p.batch \ {NextItem(j)}
             q == [p EXCEPT !.batch = b]
  <2>1. /\ job' = [job EXCEPT ![j] = q] /\ work' = [work EXCEPT ![j] = c] /\ posted' = posted
        /\ p.pc = "posting"
    BY <1>3 DEF FailToPost, At, OpsTypeOK, Processes
  <2> HIDE DEF b
  <2>2. q.pc = "posting"
    BY <1>0, <2>1 DEF Processes
  <2> HIDE DEF q
  <2>3. Honest(c, q, posted, forgotten)
    BY <1>0, <2>2, CarriedOn
  <2>4. QED
    BY <1>0, <2>1, <2>3, LocalStep
<1>4. CASE MoveToDelivered(j)
  <2> DEFINE m == p.item
             o == c.outbox \ {m}
             d == [c EXCEPT !.outbox = o]
             q == [p EXCEPT !.pc = "posting", !.item = Nothing]
  <2>1. /\ job' = [job EXCEPT ![j] = q] /\ work' = [work EXCEPT ![j] = d] /\ posted' = posted
        /\ p.pc = "moving"
    BY <1>4 DEF MoveToDelivered, At, world, OpsTypeOK, Processes, States
  <2> HIDE DEF o
  <2>2. /\ d.sent = c.sent /\ d.reports = c.reports /\ d.outbox = o /\ d.ran = c.ran
        /\ d.skipped = c.skipped /\ d.firstSeen = c.firstSeen
    BY <1>0 DEF States
  <2>3. q.pc = "posting"
    BY <1>0 DEF Processes
  <2> HIDE DEF d, q
  <2>4. m \in posted /\ Kept(c, posted)
    BY <1>0, <2>1 DEF Honest
  <2>5. Kept(d, posted) /\ Told(d, posted) = Told(c, posted)
    BY <2>2, <2>4 DEF Kept, Told, o
  <2>6. \A s : Owed(d, s, forgotten) => Owed(c, s, forgotten)
    BY <2>2 DEF Owed
  <2>7. Honest(d, q, posted, forgotten)
    BY <1>0, <2>1, <2>2, <2>3, <2>5, <2>6 DEF Honest
  <2>8. QED
    BY <1>0, <2>1, <2>7, LocalStep
<1>5. CASE UnlinkKill(j)
  <2> DEFINE d == [c EXCEPT !.kill = NoKill]
             q == [p EXCEPT !.pc = "push"]
  <2>1. job' = [job EXCEPT ![j] = q] /\ work' = [work EXCEPT ![j] = d] /\ posted' = posted
    BY <1>5 DEF UnlinkKill, Goto, world, OpsTypeOK
  <2>2. /\ d.sent = c.sent /\ d.reports = c.reports /\ d.outbox = c.outbox /\ d.ran = c.ran
        /\ d.skipped = c.skipped /\ d.firstSeen = c.firstSeen
    BY <1>0, QuietUpdates
  <2>3. q.pc = "push"
    BY <1>0 DEF Processes
  <2> HIDE DEF d, q
  <2>4. Honest(d, q, posted, forgotten)
    BY <1>0, <2>2, <2>3, CarriedOn
  <2>5. QED
    BY <1>0, <2>1, <2>4, LocalStep
<1>6. QED
  BY <1>1, <1>2, <1>3, <1>4, <1>5

\* Jobs end, are lost or killed.
LEMMA EndReports ==
  ASSUME OpsTypeOK, ReportInv, NEW j \in Jobs,
         PersistState(j) \/ LoseRunner(j) \/ KillProcess(j)
  PROVE  ReportInv'
<1> DEFINE c == work[j]
           p == job[j]
<1>0. c \in States /\ p \in Processes /\ Honest(c, p, posted, forgotten) /\ posted' = posted
  BY DEF OpsTypeOK, ReportInv, PersistState, LoseRunner, KillProcess
<1>1. CASE PersistState(j) \/ LoseRunner(j)
  <2>1. /\ work' = [work EXCEPT ![j] = EmptyState] /\ forgotten' = forgotten
        /\ \/ job' = [job EXCEPT ![j] = Asleep] /\ saved' = saved
           \/ Push(j, Asleep) /\ p.pc # "report"
    BY <1>1 DEF PersistState, LoseRunner, Delivered, At
  <2>2. Honest(EmptyState, Asleep, posted, forgotten)
    BY AsleepHonest
  <2>3. CASE job' = [job EXCEPT ![j] = Asleep] /\ saved' = saved
    BY <1>0, <2>1, <2>2, <2>3, LocalStep
  <2>4. CASE Push(j, Asleep) /\ p.pc # "report"
    <3>1. /\ saved' = work[j] /\ job'[j] = Asleep
          /\ \A k \in Jobs \ {j} : SameMemory(job[k], job'[k])
      BY <2>4, PushOthers
    <3>2. work'[j] = EmptyState /\ \A k \in Jobs \ {j} : work'[k] = work[k]
      BY <2>1 DEF OpsTypeOK
    <3>3. QED
      BY <1>0, <2>1, <2>2, <2>4, <3>1, <3>2, OwnStep
  <2>5. QED
    BY <2>1, <2>3, <2>4
<1>2. CASE KillProcess(j)
  <2> DEFINE pc == IF At(j, "posting") \/ At(j, "moving") \/ j \in Operators THEN "push" ELSE "deliver"
             q == [Asleep EXCEPT !.pc = pc, !.current = p.current]
             dying == {i \in p.incidents : i.kind = "missed_run" /\ At(j, "report") /\ p.session \in c.ran}
  <2>1. /\ job' = [job EXCEPT ![j] = q] /\ work' = work /\ saved' = saved
        /\ forgotten' = forgotten \cup UNION {i.about : i \in dying}
    BY <1>2 DEF KillProcess
  <2>2. q.pc \in {"push", "deliver"}
    BY DEF Asleep
  <2> HIDE DEF q, pc
  <2>3. \A s : p.pc = "report" /\ p.session \in c.ran /\ Names(p.incidents, s) => s \in forgotten'
    <3>1. ASSUME NEW s, p.pc = "report", p.session \in c.ran, NEW i \in p.incidents,
                 i.kind = "missed_run", s \in i.about
          PROVE  s \in forgotten'
      <4>1. i \in dying
        BY <3>1 DEF At
      <4>2. s \in UNION {x.about : x \in dying}
        BY <3>1, <4>1
      <4>3. QED
        BY <2>1, <4>2
    <3>2. QED
      BY <3>1 DEF Names
  <2>4. forgotten \subseteq forgotten'
    BY <2>1
  <2> HIDE DEF dying
  <2>5. Honest(c, p, posted, forgotten')
    BY <1>0, <2>4, HonestStays, SameIsSame
  <2>6. \A s : Owed(c, s, forgotten') => s \notin forgotten'
    BY DEF Owed
  <2>7. Honest(c, q, posted, forgotten')
    BY <2>2, <2>3, <2>5, <2>6 DEF Honest
  <2>8. work'[j] = c /\ job'[j] = q
    BY <2>1 DEF OpsTypeOK
  <2>9. \A k \in Jobs \ {j} : work'[k] = work[k] /\ SameMemory(job[k], job'[k])
    BY <2>1, SameIsSame DEF OpsTypeOK
  <2>10. QED
    BY <1>0, <2>1, <2>4, <2>7, <2>8, <2>9, OwnStep
<1>3. QED
  BY <1>1, <1>2

\* Operators start from the branch.
LEMMA EditReports ==
  ASSUME OpsTypeOK, ReportInv, NEW j \in Jobs, SetKill(j) \/ ResetKill(j) \/ ClearKillFile(j)
  PROVE  ReportInv'
<1>0. saved \in States /\ Honest(saved, Asleep, posted, forgotten) /\ Asleep.pc = "idle"
  BY DEF OpsTypeOK, ReportInv, Asleep
<1>1. ASSUME NEW d, NEW q, Edit(j, d, q),
             d.sent = saved.sent, d.reports = saved.reports, d.outbox = saved.outbox, d.ran = saved.ran,
             saved.skipped \subseteq d.skipped, d.firstSeen = saved.firstSeen,
             q.pc = "push" \/ (q.pc = "reportReset" /\ q.batch = q.incidents /\ q.item = Nothing)
      PROVE  ReportInv'
  <2>1. work' = [work EXCEPT ![j] = d] /\ job' = [job EXCEPT ![j] = q] /\ UNCHANGED <<saved, posted, forgotten>>
    BY <1>1 DEF Edit, Intervention
  <2>2. Honest(d, q, posted, forgotten)
    BY <1>0, <1>1, CarriedOn
  <2>3. QED
    BY <2>1, <2>2, LocalStep
<1>2. ToPush.pc = "push"
  BY DEF ToPush, Asleep
<1>3. CASE SetKill(j)
  <2> DEFINE k == [set |-> TRUE, at |-> clock]
             d == [saved EXCEPT !.kill = k]
  <2>1. Edit(j, d, ToPush)
    BY <1>3 DEF SetKill
  <2> HIDE DEF k
  <2>2. /\ d.sent = saved.sent /\ d.reports = saved.reports /\ d.outbox = saved.outbox /\ d.ran = saved.ran
        /\ d.skipped = saved.skipped /\ d.firstSeen = saved.firstSeen
    BY <1>0, QuietUpdates
  <2> HIDE DEF d
  <2>3. PICK e : e = d
    OBVIOUS
  <2>4. PICK q : q = ToPush
    OBVIOUS
  <2>5. QED
    BY <1>1, <1>2, <2>1, <2>2, <2>3, <2>4
<1>4. CASE ClearKillFile(j)
  <2> DEFINE d == [saved EXCEPT !.killFile = FALSE]
  <2>1. Edit(j, d, ToPush)
    BY <1>4 DEF ClearKillFile
  <2>2. /\ d.sent = saved.sent /\ d.reports = saved.reports /\ d.outbox = saved.outbox /\ d.ran = saved.ran
        /\ d.skipped = saved.skipped /\ d.firstSeen = saved.firstSeen
    BY <1>0, QuietUpdates
  <2> HIDE DEF d
  <2>3. PICK e : e = d
    OBVIOUS
  <2>4. PICK q : q = ToPush
    OBVIOUS
  <2>5. QED
    BY <1>1, <1>2, <2>1, <2>2, <2>3, <2>4
<1>5. CASE ResetKill(j)
  <2> DEFINE skips == SkippedWhileKilled(saved)
             fresh == Fresh(saved, {Message("halt_reset", clock, skips)})
             k == saved.skipped \cup skips
             d == [saved EXCEPT !.skipped = k]
             r == [ToPush EXCEPT !.pc = "reportReset", !.incidents = fresh, !.batch = fresh]
  <2>1. Edit(j, d, r)
    BY <1>0, <1>5 DEF ResetKill, States
  <2>2. saved.skipped \subseteq k
    OBVIOUS
  <2> HIDE DEF fresh, k
  <2>3. /\ d.sent = saved.sent /\ d.reports = saved.reports /\ d.outbox = saved.outbox /\ d.ran = saved.ran
        /\ d.skipped = k /\ d.firstSeen = saved.firstSeen
    BY <1>0, QuietUpdates
  <2>4. r.pc = "reportReset" /\ r.batch = r.incidents /\ r.item = Nothing
    BY DEF ToPush, Asleep
  <2> HIDE DEF d, r
  <2>5. PICK e : e = d
    OBVIOUS
  <2>6. PICK q : q = r
    OBVIOUS
  <2>7. QED
    BY <1>1, <2>1, <2>2, <2>3, <2>4, <2>5, <2>6
<1>6. QED
  BY <1>3, <1>4, <1>5

LEMMA ReportsKept ==
  ASSUME OpsTypeOK, ReportInv, [Next]_vars
  PROVE  ReportInv'
<1>1. ASSUME UNCHANGED <<saved, work, job, posted, forgotten>>
      PROVE  ReportInv'
  BY <1>1 DEF ReportInv
<1>2. Tick \/ UNCHANGED vars => ReportInv'
  BY <1>1 DEF Tick, vars, world
<1>3. ASSUME NEW j \in Jobs, Checkout(j) \/ Step(j) \/ Disturb(j)
      PROVE  ReportInv'
  BY <1>3, ReadySteps, ClaimReports, RunSteps, RecordReports, LogReports, QueueReports,
     SentReports, PostReports, EndReports, EditReports DEF Step, Disturb
<1>4. QED
  BY <1>2, <1>3 DEF Next

\* What was missed is told before a later run record hides it, unless the process that
\* found it dies; and in every copy what counts as sent is queued or was posted, and what
\* is queued was logged.
THEOREM ReportsAreNeverLostCorrect == Spec => []ReportsAreNeverLost
<1>1. Init => ReportInv
  BY AsleepHonest DEF Init, ReportInv
<1>2. OpsTypeOK /\ ReportInv /\ [Next]_vars => ReportInv'
  BY ReportsKept
<1>3. ReportInv => ReportsAreNeverLost
  <2> SUFFICES ASSUME ReportInv PROVE ReportsAreNeverLost
    OBVIOUS
  <2>1. AlertsAreKept
    <3>1. \A c \in Copies : Kept(c, posted)
      BY DEF Copies, ReportInv, Honest
    <3>2. QED
      BY <3>1 DEF AlertsAreKept, Kept, Told
  <2>2. Asleep.pc = "idle"
    BY DEF Asleep
  <2>3. NoMissIsOverwritten
    BY <2>2 DEF ReportInv, Honest, NoMissIsOverwritten, Owed, Names, Told
  <2>4. QED
    BY <2>1, <2>3 DEF ReportsAreNeverLost
<1>4. QED
  BY <1>1, <1>2, <1>3, OpsTypeCorrect, PTL DEF Spec
=============================================================================
