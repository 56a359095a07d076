---------------------------- MODULE TrialLedger ----------------------------
(***************************************************************************)
(* The research trial ledger of one declared family (scripts/              *)
(* trial_registry.py) and the runs that write it: candidate trials         *)
(* (scripts/trial_runner.py), the one holdout run (scripts/run_058_t016.py *)
(* with the seal of scripts/data_sources.py), the declaration of the       *)
(* family and its amendments.                                              *)
(*                                                                         *)
(* Every run is a process of its own on one working tree.  An append is    *)
(* two writes, the event's line and the head anchor, under a lock file     *)
(* nobody ever removes for its owner; reads outside the lock see the two   *)
(* files as they are.  A record hash is the position of the record, so a   *)
(* line that names another predecessor is one whose hash is disconnected.  *)
(* Faults: a process dies, a write fails, or the holder of the lock is     *)
(* slower than a waiter's ten seconds.                                     *)
(***************************************************************************)
EXTENDS Naturals, Sequences, FiniteSets

CONSTANTS Procs,        \* the processes that may run at the same time
          Configs,      \* the configurations the family declares (RUN_ORDER)
          MaxRuns,      \* bound: runs begun
          MaxFaults,    \* bound: crashes, failed writes and slow holders
          MaxAdditions  \* bound: additions made to the declaration's source

ASSUME LedgerAssumption ==
    /\ Configs # {}
    /\ MaxRuns \in Nat /\ MaxFaults \in Nat /\ MaxAdditions \in Nat
    /\ {"free", "orphan"} \cap Procs = {}

VARIABLES
    lines,    \* trials.jsonl: its complete records
    torn,     \* a partial final record follows them
    anchor,   \* trials.head.json: the number of records it vouches for
    sidecars, \* the trials whose daily returns are published
    lock,     \* "free", the process that made the lock file, or "orphan"
    source,   \* additions in the committed declaration source
    declared, \* the family's declaration is recorded
    frozen,   \* the additions that the declaration and its amendments froze
    run,      \* each process: where it is and what it holds in memory
    begun,    \* runs begun so far (bound)
    faults,   \* faults so far (bound)
    looks,    \* history: results some run computed on research data
    opened    \* history: times the sealed holdout rows were parsed

files == <<lines, torn, anchor, sidecars>>
family == <<source, declared, frozen>>
history == <<looks, opened>>
vars == <<files, lock, family, run, begun, faults, history>>

NoTrial == 0
Roles == {"candidate", "holdout"}
Outcomes == {"completed", "errored"}

\* What a callback leaves: daily returns, rows that are none, or an exception.
Results == Outcomes \cup {"malformed"}

\* immutable_write: a name is linked once, whatever the temporary file holds.
Linkable(name, linked) == name \notin linked

(***************************************************************************)
(* What a reader of the files concludes.                                   *)
(***************************************************************************)
Starts(role) == {i \in DOMAIN lines : lines[i].type = "started" /\ lines[i].role = role}

EventsOf(t) == {i \in DOMAIN lines : lines[i].trial = t}

Terminated(t) == \E i \in EventsOf(t) : lines[i].type # "started"

Linked == \A i \in DOMAIN lines : lines[i].prev = i - 1

\* One start, then at most one terminal.
WholeLives ==
    \A i \in DOMAIN lines :
       LET earlier == {j \in EventsOf(lines[i].trial) : j < i} IN
       IF lines[i].type = "started" THEN earlier = {}
       ELSE Cardinality(earlier) = 1 /\ \A j \in earlier : lines[j].type = "started"

HasReturns == \A i \in DOMAIN lines : lines[i].type = "completed" => lines[i].trial \in sidecars

Anchored == anchor = Len(lines)

\* Mutation: the head anchor is not compared with the records read.
VerifiedUnanchored ==
    /\ ~torn /\ Linked /\ WholeLives /\ HasReturns
    /\ Cardinality(Starts("holdout")) <= 1

\* TrialLedger.verify returns; it raises in every other case.
Verified ==
    /\ ~torn /\ Linked /\ WholeLives /\ HasReturns /\ Anchored
    /\ Cardinality(Starts("holdout")) <= 1

\* verify_family: the source still is what the record and its amendments froze.
FamilyVerified == declared /\ source = frozen

\* Mutation: only the trials that were completed count.
FamilyCountCompleted ==
    Cardinality({i \in DOMAIN lines : lines[i].type = "completed" /\ lines[i].role = "candidate"})

\* trial_counts: every candidate start counts, whatever became of it.
FamilyCount == Cardinality(Starts("candidate"))

CompletedWith(c) ==
    {i \in DOMAIN lines : lines[i].type = "completed" /\ lines[i].role = "candidate" /\ lines[i].cfg = c}

\* preflight and selection of the holdout run.
Selectable ==
    /\ FamilyVerified /\ Verified
    /\ Starts("holdout") = {}
    /\ \A i \in DOMAIN lines : Terminated(lines[i].trial)
    /\ \A c \in Configs : Cardinality(CompletedWith(c)) = 1

\* _require_open_holdout: the one holdout start, bound to this run's configuration, still open.
HoldoutOpenFor(r) ==
    /\ Verified
    /\ Cardinality(Starts("holdout")) = 1
    /\ \A i \in Starts("holdout") : lines[i].cfg = r.cfg /\ ~Terminated(lines[i].trial)

(***************************************************************************)
(* A run's memory.  at: the statement it is at; op: the append it makes.   *)
(***************************************************************************)
Idle == [at |-> "idle", job |-> "none", op |-> "none", cfg |-> 0, trial |-> NoTrial,
         out |-> "none", base |-> 0, added |-> 0, recording |-> FALSE]

Goto(p, r) == run' = [run EXCEPT ![p] = r]

At(p, s) == run[p].at = s

\* The run p after an exception: a failed completion is finished as errored, all else ends it.
Raised(p) ==
    LET r == run[p] IN
    IF r.op = "finish" /\ r.out # "errored"
    THEN [r EXCEPT !.at = "enter", !.out = "errored"]
    ELSE Idle

Finishing(r, out) == [r EXCEPT !.at = "enter", !.op = "finish", !.out = out]

\* production_recording: permission of the whole run, or none.
Begin(p, job, c, recording) ==
    /\ At(p, "idle") /\ begun < MaxRuns
    /\ begun' = begun + 1
    /\ Goto(p, [Idle EXCEPT !.at = job, !.job = job, !.cfg = c, !.recording = recording])
    /\ UNCHANGED <<files, lock, family, faults, history>>

\* _require_production_enabled: no byte of the ledger without permission.
ProductionEnabled(r) == r.recording

\* start of a candidate trial: permission and the declaration, before the lock is taken.
StartCandidate(p) ==
    /\ At(p, "candidate")
    /\ Goto(p, IF ProductionEnabled(run[p]) /\ FamilyVerified THEN [run[p] EXCEPT !.at = "enter", !.op = "start"] ELSE Idle)
    /\ UNCHANGED <<files, lock, family, begun, faults, history>>

\* record_holdout up to the start: preflight, then the start's own verify_family.
StartHoldout(p) ==
    /\ At(p, "holdout")
    /\ Goto(p, IF Selectable THEN [run[p] EXCEPT !.at = "enter", !.op = "start"] ELSE Idle)
    /\ UNCHANGED <<files, lock, family, begun, faults, history>>

(***************************************************************************)
(* One append: serialized, verify, the line, the anchor.                   *)
(***************************************************************************)
Enter(p) ==
    /\ At(p, "enter") /\ lock = "free"
    /\ lock' = p
    /\ Goto(p, [run[p] EXCEPT !.at = "inside"])
    /\ UNCHANGED <<files, family, begun, faults, history>>

\* Mutation: a waiter has no deadline when it cannot tell who holds the lock.
GiveUpOnLiveOnly(p) ==
    /\ At(p, "enter") /\ lock \in Procs /\ faults < MaxFaults
    /\ faults' = faults + 1
    /\ Goto(p, Raised(p))
    /\ UNCHANGED <<files, lock, family, begun, history>>

\* The deadline: always met behind an orphan, behind a live holder when that one is slow.
GiveUp(p) ==
    /\ At(p, "enter") /\ lock # "free"
    /\ \/ lock = "orphan" /\ faults' = faults
       \/ lock \in Procs /\ faults < MaxFaults /\ faults' = faults + 1
    /\ Goto(p, Raised(p))
    /\ UNCHANGED <<files, lock, family, begun, history>>

\* validate_rows: a completion brings one finite return for each session, in order.
ValidRows(r) == r.out # "malformed"

\* Mutation: the second holdout start is refused by the run's preflight alone.
AllowedUnguarded(r) ==
    /\ Verified
    /\ r.op = "finish" =>
         /\ Cardinality(EventsOf(r.trial)) = 1 /\ ValidRows(r)
         /\ r.out = "completed" => Linkable(r.trial, sidecars)

\* The checks under the lock; the sidecar is linked exclusively.
Allowed(r) ==
    /\ Verified
    /\ r.op = "start" /\ r.job = "holdout" => Starts("holdout") = {}
    /\ r.op = "finish" =>
         /\ Cardinality(EventsOf(r.trial)) = 1 /\ ValidRows(r)
         /\ r.out = "completed" => Linkable(r.trial, sidecars)

Inside(p) ==
    /\ At(p, "inside")
    /\ LET r == run[p] IN
       IF Allowed(r)
       THEN /\ Goto(p, [r EXCEPT !.at = "line", !.base = Len(lines)])
            /\ sidecars' = IF r.op = "finish" /\ r.out = "completed" THEN sidecars \cup {r.trial} ELSE sidecars
            /\ UNCHANGED lock
       ELSE /\ Goto(p, Raised(p))
            /\ lock' = "free"
            /\ UNCHANGED sidecars
    /\ UNCHANGED <<lines, torn, anchor, family, begun, faults, history>>

Event(r) ==
    [type |-> IF r.op = "start" THEN "started" ELSE r.out,
     trial |-> IF r.op = "start" THEN r.base + 1 ELSE r.trial,
     role |-> r.job, cfg |-> r.cfg, prev |-> r.base]

WriteLine(p) ==
    /\ At(p, "line")
    /\ lines' = Append(lines, Event(run[p]))
    /\ Goto(p, [run[p] EXCEPT !.at = "anchor", !.trial = Event(run[p]).trial])
    /\ UNCHANGED <<torn, anchor, sidecars, lock, family, begun, faults, history>>

WriteAnchor(p) ==
    /\ At(p, "anchor")
    /\ anchor' = run[p].base + 1
    /\ Goto(p, [run[p] EXCEPT !.at = "leave"])
    /\ UNCHANGED <<lines, torn, sidecars, lock, family, begun, faults, history>>

\* The lock file is unlinked; a started trial goes on, a finished one is over.
Leave(p) ==
    /\ At(p, "leave")
    /\ lock' = "free"
    /\ Goto(p, IF run[p].op = "finish" THEN Idle
               ELSE [run[p] EXCEPT !.at = IF run[p].job = "holdout" THEN "spend" ELSE "look"])
    /\ UNCHANGED <<files, family, begun, faults, history>>

(***************************************************************************)
(* What a run does with its trial.                                         *)
(***************************************************************************)
\* run_trial, research_attempt: the callback, whose result or exception ends the trial.
Look(p, out) ==
    /\ At(p, "look")
    /\ looks' = looks + 1
    /\ Goto(p, Finishing(run[p], out))
    /\ UNCHANGED <<files, lock, family, begun, faults, opened>>

\* record_holdout reads its own start back, outside its try: an exception here ends the run.
ReadSpend(p) ==
    /\ At(p, "spend")
    /\ Goto(p, IF Verified THEN [run[p] EXCEPT !.at = "open"] ELSE Idle)
    /\ UNCHANGED <<files, lock, family, begun, faults, history>>

\* load_058_holdout_panel, then the run on it.
OpenPanel(p, out) ==
    /\ At(p, "open")
    /\ IF HoldoutOpenFor(run[p])
       THEN opened' = opened + 1 /\ Goto(p, Finishing(run[p], out))
       ELSE opened' = opened /\ Goto(p, Finishing(run[p], "errored"))
    /\ UNCHANGED <<files, lock, family, begun, faults, looks>>

(***************************************************************************)
(* The declaration of the family.                                          *)
(***************************************************************************)
\* The committed source gains keys.
EditSource ==
    /\ source < MaxAdditions
    /\ source' = source + 1
    /\ UNCHANGED <<files, lock, declared, frozen, run, begun, faults, history>>

\* No trial of the family in a ledger that reads as whole: what declare_family and
\* amend_family ask of it, without the lock.
Untouched == Verified /\ Starts("candidate") \cup Starts("holdout") = {}

\* declare_family: the source is read, then the ledger.
CheckDeclaration(p) ==
    /\ At(p, "declare")
    /\ Goto(p, IF Untouched THEN [run[p] EXCEPT !.at = "declaration", !.base = source] ELSE Idle)
    /\ UNCHANGED <<files, lock, family, begun, faults, history>>

\* The record, linked exclusively: a second declaration never replaces the first.
WriteDeclaration(p) ==
    /\ At(p, "declaration")
    /\ declared' = TRUE
    /\ frozen' = IF declared THEN frozen ELSE run[p].base
    /\ Goto(p, Idle)
    /\ UNCHANGED <<files, lock, source, begun, faults, history>>

\* _additions: keys are only ever added, so what is new is the difference.
Additions == source - frozen

\* amend_family: additions only, no trial of the family, read without the lock.
CheckAmendment(p) ==
    /\ At(p, "amend")
    /\ Goto(p, IF declared /\ Additions > 0 /\ Untouched
               THEN [run[p] EXCEPT !.at = "amendment", !.base = frozen, !.added = Additions] ELSE Idle)
    /\ UNCHANGED <<files, lock, family, begun, faults, history>>

\* The next record, linked exclusively: refused when that index is already taken.
WriteAmendment(p) ==
    /\ At(p, "amendment")
    /\ frozen' = IF frozen = run[p].base THEN frozen + run[p].added ELSE frozen
    /\ Goto(p, Idle)
    /\ UNCHANGED <<files, lock, source, declared, begun, faults, history>>

(***************************************************************************)
(* Faults and the operator.                                                *)
(***************************************************************************)
Crash(p) ==
    /\ ~At(p, "idle") /\ faults < MaxFaults
    /\ faults' = faults + 1
    /\ Goto(p, Idle)
    /\ lock' = IF lock = p THEN "orphan" ELSE lock
    /\ torn' \in IF At(p, "line") THEN BOOLEAN ELSE {torn}
    /\ UNCHANGED <<lines, anchor, sidecars, family, begun, history>>

\* A write of _append raises: the lock is released on the way out.
FailWrite(p) ==
    /\ run[p].at \in {"line", "anchor"} /\ faults < MaxFaults
    /\ faults' = faults + 1
    /\ torn' \in IF At(p, "line") THEN BOOLEAN ELSE {torn}
    /\ lock' = "free"
    /\ Goto(p, Raised(p))
    /\ UNCHANGED <<lines, anchor, sidecars, family, begun, history>>

\* "Explicit recovery": a person drops a partial record, anchors the complete ones and
\* removes the orphaned lock.
Recover ==
    /\ lock \notin Procs
    /\ lock = "orphan" \/ torn \/ ~Anchored
    /\ torn' = FALSE /\ anchor' = Len(lines) /\ lock' = "free"
    /\ UNCHANGED <<lines, sidecars, family, run, begun, faults, history>>

Init ==
    /\ lines = <<>> /\ torn = FALSE /\ anchor = 0 /\ sidecars = {}
    /\ lock = "free"
    /\ source = 0 /\ declared \in BOOLEAN /\ frozen = 0
    /\ run = [p \in Procs |-> Idle]
    /\ begun = 0 /\ faults = 0 /\ looks = 0 /\ opened = 0

Step(p) ==
    \/ StartCandidate(p) \/ StartHoldout(p)
    \/ Enter(p) \/ GiveUp(p) \/ Inside(p) \/ WriteLine(p) \/ WriteAnchor(p) \/ Leave(p)
    \/ \E out \in Results : Look(p, out) \/ OpenPanel(p, out)
    \/ ReadSpend(p)
    \/ CheckDeclaration(p) \/ WriteDeclaration(p) \/ CheckAmendment(p) \/ WriteAmendment(p)

Environment(p) ==
    \/ \E c \in Configs :
         \/ \E recording \in BOOLEAN : Begin(p, "candidate", c, recording)
         \/ Begin(p, "holdout", c, TRUE)
    \/ Begin(p, "declare", 0, TRUE) \/ Begin(p, "amend", 0, TRUE)
    \/ Crash(p) \/ FailWrite(p)

Next == Recover \/ EditSource \/ \E p \in Procs : Step(p) \/ Environment(p)

Spec == Init /\ [][Next]_vars

\* A process that neither dies nor waits keeps running.
FairSpec == Spec /\ \A p \in Procs : WF_vars(Step(p))
-----------------------------------------------------------------------------
Events ==
    [type : {"started"} \cup Outcomes, trial : 1..MaxRuns * 2, role : Roles,
     cfg : Configs, prev : 0..MaxRuns * 2]

Memories ==
    [at : {"idle", "candidate", "holdout", "declare", "amend", "enter", "inside", "line", "anchor", "leave",
           "look", "spend", "open", "declaration", "amendment"},
     job : {"none", "candidate", "holdout", "declare", "amend"}, op : {"none", "start", "finish"},
     cfg : Configs \cup {0}, trial : Nat, out : {"none"} \cup Results, base : Nat, added : Nat,
     recording : BOOLEAN]

\* Every file and every process's memory has its shape, and the anchor is never ahead of
\* the records nor more than one behind (_append writes the line first, then the anchor).
LedgerTypeOK ==
    /\ lines \in Seq(Events) /\ torn \in BOOLEAN
    /\ anchor \in {Len(lines), Len(lines) - 1} \cap Nat
    /\ sidecars \subseteq 1..MaxRuns * 2
    /\ lock \in {"free", "orphan"} \cup Procs
    /\ source \in 0..MaxAdditions /\ declared \in BOOLEAN /\ frozen \in 0..source
    /\ run \in [Procs -> Memories]
    /\ begun \in 0..MaxRuns /\ faults \in 0..MaxFaults
    /\ looks \in 0..MaxRuns /\ opened \in Nat

\* A family's holdout is spent once, and its sealed rows are never parsed more often than
\* it was spent, nor before (058 D-7), over concurrent and repeated holdout runs.
HoldoutSpentOnce ==
    /\ Cardinality(Starts("holdout")) <= 1
    /\ opened <= Cardinality(Starts("holdout"))

\* A ledger that reads as whole accounts for every result anyone computed on the research
\* window: dead, failed and repeated attempts raise the family's N like completed ones.
EveryLookCounts == Verified => looks <= FamilyCount

\* The chain is one chain, whatever processes append at once or die half-way: no two
\* records name one predecessor, no trial has two terminals, no completion lacks its
\* returns; and an append that stopped half way (no anchor, or a partial record) is
\* followed by nothing until a person has recovered it.
OneChain == Linked /\ WholeLives /\ HasReturns
OneChainBehindItsAnchor == []OneChain /\ [][lines' # lines => anchor = Len(lines) /\ ~torn]_vars

\* Every run that begins comes to an end unless its process dies, also behind a lock file
\* nobody will ever remove.
EveryRunEnds == \A p \in Procs : ~At(p, "idle") ~> At(p, "idle")
=============================================================================
