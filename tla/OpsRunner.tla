----------------------------- MODULE OpsRunner -----------------------------
(***************************************************************************)
(* One profile's scheduled sessions: scripts/ops_runner.py and             *)
(* ops_runtime.py, ops_deliver.py and the workflow paper-loop.yml that     *)
(* runs them.  A job checks out the ops-state branch, works on its copy    *)
(* and pushes; a push is refused when the branch moved meanwhile, and what *)
(* is not pushed is lost with the runner.  Workflow jobs run the due       *)
(* session; operators kill, reset and clear from a checkout of their own.  *)
(*                                                                         *)
(* Everything the code writes below <state> is one record; kills.jsonl and *)
(* ops/delivered are left out, nothing reads them.                         *)
(***************************************************************************)
EXTENDS FiniteSetsExt

CONSTANTS
  Workflows, Operators,   \* jobs: scheduled ones, and operators' checkouts
  LastDay,                \* bound: calendar days explored
  TradingDays,            \* the NYSE sessions among them
  MaxFaults,              \* bound: runners lost, processes killed, calls failed
  MaxInterventions        \* bound: kills, resets and clearings

Days == 1..LastDay

ASSUME OpsAssumption ==
  /\ LastDay \in Nat \ {0} /\ TradingDays \subseteq Days
  /\ Workflows \cap Operators = {}

Jobs == Workflows \cup Operators

Kinds == {"missed_run", "lease_held", "persist_failed", "failure", "halt", "halt_reset"}

Message(kind, at, about) == [kind |-> kind, at |-> at, about |-> about]
Nothing == Message("none", 0, {})

NoKill == [set |-> FALSE, at |-> 0]

VARIABLES
  saved,      \* the ops-state branch
  work,       \* work[j]: the job's checkout
  job,        \* job[j]: where the job is and what its process holds in memory
  clock,
  started,    \* history: how often the wrapped command started, per session
  posted,     \* the issue tracker: messages posted
  forgotten,  \* history: missed sessions that died with a process's memory
  faults, interventions

budget == <<faults, interventions>>
world  == <<clock, started, posted, forgotten, budget>>
vars   == <<saved, work, job, world>>

\* Each day is before, in and after the submit window.
Today  == (clock \div 3) + 1
Phase  == clock % 3
Cutoff(day) == 3 * (day - 1) + 2

EmptyState ==
  [killFile |-> FALSE, kill |-> NoKill, leases |-> [s \in Days |-> "none"],
   ran |-> {}, skipped |-> {}, firstSeen |-> 0, sent |-> [k \in Kinds |-> Nothing],
   reports |-> {}, outbox |-> {}]

Asleep == [pc |-> "idle", current |-> FALSE, session |-> 0,
           incidents |-> {}, batch |-> {}, item |-> Nothing]

\* missed_sessions
Missed(completed, since) ==
  {s \in TradingDays : since <= s /\ s \notin completed /\ Cutoff(s) <= clock /\ s <= Today}

FirstSeen(copy) == IF copy.firstSeen = 0 THEN Today ELSE copy.firstSeen

\* run_once looks back to the last session with a run record.
MissedByNow(copy) ==
  Missed(copy.ran \cup copy.skipped, Max({FirstSeen(copy)} \cup copy.ran))

\* _skipped_while_killed
SkippedWhileKilled(copy) ==
  {s \in Missed(copy.ran, (copy.kill.at \div 3) + 1) :
     Cutoff(s) > copy.kill.at /\ copy.leases[s] = "none"}

MissedIncident(copy) ==
  IF MissedByNow(copy) = {} THEN {} ELSE {Message("missed_run", 0, MissedByNow(copy))}

\* due_run
Due(copy) == Today \in TradingDays /\ Today \notin copy.ran /\ Phase = 1

-----------------------------------------------------------------------------
At(j, pc) == job[j].pc = pc

Goto(j, pc) == job' = [job EXCEPT ![j].pc = pc]

\* incidents_to_send: what the last sent message of its kind does not say already.
Fresh(copy, incidents) == {i \in incidents : copy.sent[i.kind] # i}

\* The process goes on to _deliver with these incidents.
Report(j, pc, incidents) ==
  job' = [job EXCEPT ![j].pc = pc, ![j].incidents = Fresh(work[j], incidents),
                     ![j].batch = Fresh(work[j], incidents), ![j].item = Nothing]

Fault == faults < MaxFaults /\ faults' = faults + 1 /\ UNCHANGED interventions

Intervention ==
  /\ interventions < MaxInterventions
  /\ interventions' = interventions + 1
  /\ UNCHANGED <<clock, started, posted, forgotten, faults>>

Checkout(j) ==
  /\ j \in Workflows /\ At(j, "idle")
  /\ work' = [work EXCEPT ![j] = saved]
  /\ job' = [job EXCEPT ![j].pc = "ready", ![j].current = TRUE]
  /\ UNCHANGED <<saved, world>>

\* git push of j's checkout: refused unless the branch is where j found it;
\* the other checkouts are then behind.
Push(j, next) ==
  /\ job[j].current
  /\ saved' = work[j]
  /\ job' = [k \in Jobs |->
       IF k = j THEN next
       ELSE [job[k] EXCEPT !.current = @ /\ saved' = saved]]

-----------------------------------------------------------------------------
\* The workflow's kill input writes the file in the checkout.
DispatchKill(j) ==
  /\ At(j, "ready")
  /\ ~work[j].killFile
  /\ work' = [work EXCEPT ![j].killFile = TRUE]
  /\ UNCHANGED <<saved, job>>
  /\ Intervention

\* The step "Run if due" leaves before the runner starts.
StopOnKillFile(j) ==
  /\ At(j, "ready")
  /\ work[j].killFile
  /\ Goto(j, "deliver")
  /\ UNCHANGED <<saved, work, world>>

\* _killed
HaltKilled(j) ==
  /\ At(j, "ready")
  /\ ~work[j].killFile /\ work[j].kill.set
  /\ Report(j, "report",
            {Message("halt", work[j].kill.at, SkippedWhileKilled(work[j]))})
  /\ UNCHANGED <<saved, work, world>>

Alive(j) == At(j, "ready") /\ ~work[j].killFile /\ ~work[j].kill.set

\* Mutation: missed sessions are looked for by due runs only.
FindNothingDueSilently(j) ==
  /\ Alive(j)
  /\ ~Due(work[j])
  /\ work' = [work EXCEPT ![j].firstSeen = FirstSeen(work[j])]
  /\ Report(j, "report", {})
  /\ UNCHANGED <<saved, world>>

\* run_once when nothing is due.
FindNothingDue(j) ==
  /\ Alive(j)
  /\ ~Due(work[j])
  /\ work' = [work EXCEPT ![j].firstSeen = FirstSeen(work[j])]
  /\ Report(j, "report", MissedIncident(work[j]))
  /\ UNCHANGED <<saved, world>>

\* Mutation: a lease without a run record is taken over.
ClaimAgain(j) ==
  /\ Alive(j)
  /\ Due(work[j])
  /\ work' = [work EXCEPT ![j].firstSeen = FirstSeen(work[j]), ![j].leases[Today] = "running"]
  /\ job' = [job EXCEPT ![j].pc = "persist", ![j].session = Today,
                        ![j].incidents = MissedIncident(work[j])]
  /\ UNCHANGED <<saved, world>>

\* acquire_lease: O_EXCL on the lease file.
Claim(j) ==
  /\ Alive(j)
  /\ Due(work[j])
  /\ work[j].leases[Today] = "none"
  /\ work' = [work EXCEPT ![j].firstSeen = FirstSeen(work[j]), ![j].leases[Today] = "running"]
  /\ job' = [job EXCEPT ![j].pc = "persist", ![j].session = Today,
                        ![j].incidents = MissedIncident(work[j])]
  /\ UNCHANGED <<saved, world>>

\* LeaseHeld: an earlier run never finished.
FindLeaseHeld(j) ==
  /\ Alive(j)
  /\ Due(work[j])
  /\ work[j].leases[Today] # "none"
  /\ work' = [work EXCEPT ![j].firstSeen = FirstSeen(work[j])]
  /\ Report(j, "report",
            MissedIncident(work[j]) \cup {Message("lease_held", Today, {})})
  /\ UNCHANGED <<saved, world>>

\* Mutation: the command runs whether or not the lease was pushed.
PersistLeaseLater(j) ==
  /\ At(j, "persist")
  /\ Goto(j, "command")
  /\ UNCHANGED <<saved, work, world>>

PersistLease(j) ==
  /\ At(j, "persist")
  /\ Push(j, [job[j] EXCEPT !.pc = "command"])
  /\ UNCHANGED <<work, world>>

\* The push is refused, or fails, or its answer is lost after it was accepted:
\* the lease is released in the checkout and the command does not run.
FailToPersistLease(j) ==
  LET s     == job[j].session
      now   == job[j].incidents \cup {Message("persist_failed", s, {})}
      fresh == Fresh(work[j], now)
      gone  == [job[j] EXCEPT !.pc = "report", !.incidents = fresh, !.batch = fresh,
                              !.item = Nothing]
  IN  /\ At(j, "persist")
      /\ work' = [work EXCEPT ![j].leases[s] = "none"]
      /\ \/ ~job[j].current /\ job' = [job EXCEPT ![j] = gone] /\ UNCHANGED <<saved, budget>>
         \/ Fault /\ job' = [job EXCEPT ![j] = gone] /\ UNCHANGED saved
         \/ Fault /\ Push(j, gone)
      /\ UNCHANGED <<clock, started, posted, forgotten>>

StartCommand(j) ==
  /\ At(j, "command")
  /\ started' = [started EXCEPT ![job[j].session] = @ + 1]
  /\ Goto(j, "running")
  /\ UNCHANGED <<saved, work, clock, posted, forgotten, budget>>

\* The wrapped command pushes too, before each order it sends.
CommandPersists(j) ==
  /\ At(j, "running")
  /\ Push(j, job[j])
  /\ UNCHANGED <<work, world>>

\* Mutation: a run that took place reports itself only.
RecordRunAlone(j, failed) ==
  LET s   == job[j].session
      now == IF failed THEN {Message("failure", s, {})} ELSE {}
  IN  /\ At(j, "running")
      /\ work' = [work EXCEPT ![j].leases[s] = "completed", ![j].ran = @ \cup {s},
                              ![j].outbox = @ \cup {Message("summary", s, {})}]
      /\ Report(j, "report", now)
      /\ UNCHANGED <<saved, world>>

\* The command exits: complete_lease, the run record, the queued summary.
\* A process killed before the record leaves a lease without one, like a
\* process killed in the command; one killed after it dies as in "report"
\* (that its summary may be missing too is left out).
RecordRun(j, failed) ==
  LET s   == job[j].session
      now == job[j].incidents \cup (IF failed THEN {Message("failure", s, {})} ELSE {})
  IN  /\ At(j, "running")
      /\ work' = [work EXCEPT ![j].leases[s] = "completed", ![j].ran = @ \cup {s},
                              ![j].outbox = @ \cup {Message("summary", s, {})}]
      /\ Report(j, "report", now)
      /\ UNCHANGED <<saved, world>>

-----------------------------------------------------------------------------
Reporting(j) == job[j].pc \in {"report", "reportReset"}

\* run_once lists what was missed before its own incident.
NextIncident(j) ==
  LET missed == {i \in job[j].incidents : i.kind = "missed_run"} IN
  CHOOSE i \in (IF missed # {} THEN missed ELSE job[j].incidents) : TRUE

\* _deliver: each fresh incident is appended to incidents.jsonl ...
LogIncident(j) ==
  /\ Reporting(j) /\ job[j].item = Nothing
  /\ job[j].incidents # {}
  /\ work' = [work EXCEPT ![j].reports = @ \cup {NextIncident(j)}]
  /\ job' = [job EXCEPT ![j].item = NextIncident(j)]
  /\ UNCHANGED <<saved, world>>

\* ... then written to the outbox ...
QueueIncident(j) ==
  /\ Reporting(j) /\ job[j].item # Nothing
  /\ work' = [work EXCEPT ![j].outbox = @ \cup {job[j].item}]
  /\ job' = [job EXCEPT ![j].incidents = @ \ {job[j].item}, ![j].item = Nothing]
  /\ UNCHANGED <<saved, world>>

\* ... and sent.json is written last.
MarkSent(j) ==
  /\ Reporting(j)
  /\ job[j].incidents = {}
  /\ work' = [work EXCEPT ![j].sent = [k \in Kinds |->
       IF \E i \in job[j].batch : i.kind = k
         THEN CHOOSE i \in job[j].batch : i.kind = k ELSE @[k]]]
  /\ job' = [job EXCEPT ![j].pc = IF @ = "report" THEN "deliver" ELSE "unlink"]
  /\ UNCHANGED <<saved, world>>

\* ops_deliver.deliver takes the outbox as it is and goes through it, in the
\* order of the names: of the hashes, so any fixed order.
NextItem(j) == CHOOSE m \in job[j].batch : TRUE

OpenOutbox(j) ==
  /\ At(j, "deliver")
  /\ job' = [job EXCEPT ![j].pc = "posting", ![j].batch = work[j].outbox]
  /\ UNCHANGED <<saved, work, world>>

Post(j) ==
  LET m == NextItem(j) IN
  /\ At(j, "posting")
  /\ job[j].batch # {}
  /\ posted' = posted \cup {m}
  /\ job' = [job EXCEPT ![j].pc = "moving", ![j].item = m, ![j].batch = @ \ {m}]
  /\ UNCHANGED <<saved, work, clock, started, forgotten, budget>>

\* A failed post leaves its item queued for the next run.
FailToPost(j) ==
  LET m == NextItem(j) IN
  /\ At(j, "posting")
  /\ job[j].batch # {}
  /\ Fault
  /\ job' = [job EXCEPT ![j].batch = @ \ {m}]
  /\ UNCHANGED <<saved, work, clock, started, posted, forgotten>>

MoveToDelivered(j) ==
  LET m == job[j].item IN
  /\ At(j, "moving")
  /\ work' = [work EXCEPT ![j].outbox = @ \ {m}]
  /\ job' = [job EXCEPT ![j].pc = "posting", ![j].item = Nothing]
  /\ UNCHANGED <<saved, world>>

Delivered(j) == At(j, "posting") /\ job[j].batch = {}

\* The step "Persist state"; refused or failed, the runner ends with its copy.
PersistState(j) ==
  /\ Delivered(j) \/ At(j, "push")
  /\ \/ Push(j, Asleep) /\ UNCHANGED budget
     \/ ~job[j].current /\ job' = [job EXCEPT ![j] = Asleep] /\ UNCHANGED <<saved, budget>>
     \/ Fault /\ job' = [job EXCEPT ![j] = Asleep] /\ UNCHANGED saved
  /\ work' = [work EXCEPT ![j] = EmptyState]
  /\ UNCHANGED <<clock, started, posted, forgotten>>

-----------------------------------------------------------------------------
\* An operator edits a fresh checkout; whatever is pushed in between refuses
\* the operator's push.
Edit(j, copy, next) ==
  /\ j \in Operators /\ At(j, "idle")
  /\ work' = [work EXCEPT ![j] = copy]
  /\ job' = [job EXCEPT ![j] = next]
  /\ UNCHANGED saved
  /\ Intervention

ToPush == [Asleep EXCEPT !.pc = "push", !.current = TRUE]

\* set_kill
SetKill(j) ==
  /\ ~saved.kill.set
  /\ Edit(j, [saved EXCEPT !.kill = [set |-> TRUE, at |-> clock]], ToPush)

\* set_kill(reset=True): the skipped sessions and the incident first ...
ResetKill(j) ==
  LET skips == SkippedWhileKilled(saved)
      fresh == Fresh(saved, {Message("halt_reset", clock, skips)})
  IN  /\ saved.kill.set
      /\ Edit(j, [saved EXCEPT !.skipped = @ \cup skips],
              [ToPush EXCEPT !.pc = "reportReset", !.incidents = fresh, !.batch = fresh])

\* ... the kill last.
UnlinkKill(j) ==
  /\ At(j, "unlink")
  /\ work' = [work EXCEPT ![j].kill = NoKill]
  /\ Goto(j, "push")
  /\ UNCHANGED <<saved, world>>

\* The KILL file is cleared by a commit made by hand.
ClearKillFile(j) ==
  /\ saved.killFile
  /\ Edit(j, [saved EXCEPT !.killFile = FALSE], ToPush)

-----------------------------------------------------------------------------
\* The runner disappears with its checkout.
LoseRunner(j) ==
  /\ ~At(j, "idle")
  /\ Fault
  /\ work' = [work EXCEPT ![j] = EmptyState]
  /\ job' = [job EXCEPT ![j] = Asleep]
  /\ UNCHANGED <<saved, clock, started, posted, forgotten>>

InRunner == {"persist", "command", "running", "report", "reportReset", "unlink"}

\* A process dies alone: the steps marked always() still deliver and push
\* what it had written; an operator pushes what is there.
KillProcess(j) ==
  /\ job[j].pc \in InRunner \cup {"posting", "moving"}
  /\ Fault
  /\ job' = [job EXCEPT ![j] = [Asleep EXCEPT
       !.pc = IF At(j, "posting") \/ At(j, "moving") \/ j \in Operators THEN "push" ELSE "deliver",
       !.current = job[j].current]]
  /\ forgotten' = forgotten \cup
       UNION {i.about : i \in {i \in job[j].incidents :
                /\ i.kind = "missed_run"
                /\ At(j, "report") /\ job[j].session \in work[j].ran}}
  /\ UNCHANGED <<saved, work, clock, started, posted>>

Tick ==
  /\ clock < 3 * LastDay - 1
  /\ clock' = clock + 1
  /\ UNCHANGED <<saved, work, job, started, posted, forgotten, budget>>

-----------------------------------------------------------------------------
Init ==
  /\ saved = EmptyState
  /\ work = [j \in Jobs |-> EmptyState]
  /\ job = [j \in Jobs |-> Asleep]
  /\ clock = 0
  /\ started = [s \in Days |-> 0]
  /\ posted = {}
  /\ forgotten = {}
  /\ faults = 0 /\ interventions = 0

\* What a job does by itself, once checked out.
Step(j) ==
  \/ StopOnKillFile(j) \/ HaltKilled(j) \/ FindNothingDue(j) \/ Claim(j) \/ FindLeaseHeld(j)
  \/ PersistLease(j) \/ FailToPersistLease(j) \/ StartCommand(j)
  \/ \E failed \in BOOLEAN : RecordRun(j, failed)
  \/ LogIncident(j) \/ QueueIncident(j) \/ MarkSent(j) \/ OpenOutbox(j) \/ MoveToDelivered(j) \/ PersistState(j) \/ UnlinkKill(j)
  \/ Post(j) \/ FailToPost(j)

Disturb(j) ==
  \/ DispatchKill(j) \/ CommandPersists(j) \/ SetKill(j) \/ ResetKill(j) \/ ClearKillFile(j)
  \/ LoseRunner(j) \/ KillProcess(j)

Next == (\E j \in Jobs : Checkout(j) \/ Step(j) \/ Disturb(j)) \/ Tick

Spec == Init /\ [][Next]_vars

\* The scheduler keeps starting workflow jobs, and a job that runs goes on.
Fairness ==
  /\ \A j \in Workflows : WF_vars(Checkout(j))
  /\ \A j \in Jobs : WF_vars(Step(j))

LiveSpec == Spec /\ Fairness
-----------------------------------------------------------------------------
(***************************************************************************)
(* Properties.                                                             *)
(***************************************************************************)
Copies == {saved} \cup {work[j] : j \in {k \in Jobs : ~At(k, "idle")}}

Messages == [kind: Kinds \cup {"summary", "none"}, at: Nat, about: SUBSET Days]

States ==
  [killFile: BOOLEAN, kill: [set: BOOLEAN, at: Nat],
   leases: [Days -> {"none", "running", "completed"}], ran: SUBSET Days,
   skipped: SUBSET Days, firstSeen: Days \cup {0}, sent: [Kinds -> Messages],
   reports: SUBSET Messages, outbox: SUBSET Messages]

Processes ==
  [pc: InRunner \cup {"idle", "ready", "deliver", "posting", "moving", "push"},
   current: BOOLEAN, session: Days \cup {0}, incidents: SUBSET Messages,
   batch: SUBSET Messages, item: Messages]

\* Type invariant: the branch and every checkout hold what the code writes.
OpsTypeOK ==
  /\ saved \in States /\ work \in [Jobs -> States]
  /\ job \in [Jobs -> Processes]
  /\ clock \in 0..(3 * LastDay - 1)
  /\ started \in [Days -> Nat]
  /\ posted \subseteq Messages /\ forgotten \subseteq Days
  /\ faults \in Nat /\ interventions \in Nat

\* FR-002: the wrapped command starts at most once per session, through lost
\* runners, killed processes, refused pushes and any number of schedulers.
CommandAtMostOnce == \A s \in Days : started[s] <= 1

\* FR-003: a session whose command ever started keeps its lease on the
\* branch, so no later checkout can take it for one that was not run.
LeaseOutlivesCommand == \A s \in Days : started[s] > 0 => saved.leases[s] # "none"

\* A run record moves the missed-run search past every earlier session; by
\* then each of them that was missed is queued for posting, or was posted,
\* unless the process that wrote the record died with what it had found.
NoMissIsOverwritten ==
  \A s \in TradingDays :
    (/\ s \notin saved.ran \cup saved.skipped \cup forgotten
     /\ saved.firstSeen <= s
     /\ \E later \in saved.ran : s < later)
      => \E i \in saved.outbox \cup posted : i.kind = "missed_run" /\ s \in i.about

\* In every copy of the state: what sent.json suppresses is still queued or was
\* posted, and no alert is queued that was not logged.
AlertsAreKept ==
  \A c \in Copies :
    /\ \A k \in Kinds : c.sent[k] # Nothing => c.sent[k] \in c.outbox \cup posted
    /\ \A m \in c.outbox : m.kind = "summary" \/ m \in c.reports

\* No miss is passed over, and no alert that was given out as sent is lost.
ReportsAreNeverLost == NoMissIsOverwritten /\ AlertsAreKept

Unanswered(s) ==
  /\ saved.firstSeen # 0
  /\ s \in MissedByNow(saved)
  /\ ~saved.killFile /\ ~saved.kill.set

\* A missed session is posted as an incident sooner or later, or turns out to
\* have run, is skipped by a reset, or a kill stops the profile.
MissIsPosted ==
  \A s \in TradingDays :
    Unanswered(s) ~> \/ \E m \in posted : m.kind = "missed_run" /\ s \in m.about
                     \/ ~Unanswered(s)
=============================================================================
