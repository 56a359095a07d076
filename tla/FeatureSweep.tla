---------------------------- MODULE FeatureSweep ----------------------------
(***************************************************************************)
(* The feature-set comparison: every registry entry is run under two       *)
(* feature sets, in this process or in a pool of spawned workers, and each *)
(* completed pair is tested and checkpointed.                              *)
(*                                                                         *)
(* One unit of work is <<entry, feature set>>.  A worker may fail on its   *)
(* unit or die; the machine may go down at any step.  What survives is the *)
(* checkpoint; "env" is the thread limit of the parent's environment.      *)
(***************************************************************************)
EXTENDS PairedTest, Positions, SequencesExt

CONSTANTS
  Entries,      \* ESTIMATOR_REGISTRY, sorted: [name, task]
  Datasets,     \* [dataset -> [task -> [feature set -> run]]]
  Cores,        \* os.cpu_count()
  MaxRuns, MaxSweepFaults

ASSUME SweepAssumption ==
  /\ Cores \in Nat \ {0}
  /\ Len(Entries) \in Nat \ {0} /\ DOMAIN Entries = 1..Len(Entries)

VARIABLES
  parent,       \* [at, data, max, collected, raised]
  queue,        \* units submitted and not taken yet
  workers,      \* [worker -> [unit, pinned]]
  done,         \* [unit -> "ok" or "failed"], of units with a finished future
  units,        \* the parent's results: [unit -> the unit it was computed for]
  pairs,        \* [entry -> verdict]
  checkpoint,   \* the file: [whole, run, data, results]
  temporary,    \* results being written to the sibling file
  env, report, runs, sweepFaults

sweepVars == <<parent, queue, workers, done, units, pairs, checkpoint, temporary, env, report,
          runs, sweepFaults>>

FeatureSets == <<"levels", "scale_free">>
Unit(entry, set) == <<entry, set>>
Index == DOMAIN Entries

\* build_tasks
Tasks == FlattenSeq([e \in Index |-> [s \in DOMAIN FeatureSets |-> Unit(e, FeatureSets[s])]])

\* None means a worker per core, never more than there is work.
None == 0
WorkerCount(asked) ==
  IF asked = None THEN Max({1, Min({Cores, Len(Tasks)})}) ELSE asked

Nothing == [x \in {} |-> 0]
NoUnit == Unit(0, "")
NotRunning == [at |-> "off", data |-> "", max |-> 0, collected |-> {}, raised |-> FALSE]
Gone == workers' = Nothing /\ queue' = <<>> /\ done' = Nothing

RunOf(data, unit) == Datasets[data][Entries[unit[1]].task][unit[2]]

\* pair_results of two runs under the task of an entry; no result where it raises.
NoResult == <<>>
PairResults ==
  [data \in DOMAIN Datasets, e \in Index, a \in Range(Tasks), b \in Range(Tasks) |->
     IF Scoreable(Entries[e].task, RunOf(data, a), RunOf(data, b))
       THEN Paired(Entries[e].task, RunOf(data, a), RunOf(data, b))
       ELSE NoResult]

\* The limits hold from before the pool is made until it is joined.
Pins(asked) == IF asked = 1 THEN env ELSE "pinned"

\* compare_all_entries_parallel, up to its first unit.
LaunchSweep(data, asked) ==
  /\ parent.at = "off" /\ runs < MaxRuns
  /\ runs' = runs + 1
  /\ parent' = [NotRunning EXCEPT !.at = IF asked = 1 THEN "serial" ELSE "submit",
                           !.data = data, !.max = WorkerCount(asked)]
  /\ env' = Pins(asked)
  /\ units' = Nothing /\ pairs' = Nothing /\ Gone
  /\ UNCHANGED <<checkpoint, temporary, report, sweepFaults>>

(* ---- The pool --------------------------------------------------------- *)

Submitted == Len(queue) + Cardinality({w \in DOMAIN workers : workers[w].unit # NoUnit})
               + Cardinality(DOMAIN done)
Waiting == {w \in DOMAIN workers : workers[w].unit = NoUnit}
Running == DOMAIN workers \ Waiting

\* The pool has lost its workers: it takes no more units.
Broken == Submitted > 0 /\ workers = Nothing

\* A worker is spawned when none waits, and inherits the environment of that moment.
Submit ==
  /\ parent.at = "submit"
  /\ IF Submitted = Len(Tasks)
       THEN parent' = [parent EXCEPT !.at = "collect"] /\ UNCHANGED <<queue, workers>>
       ELSE /\ ~Broken
            /\ queue' = Append(queue, Tasks[Submitted + 1])
            /\ workers' = IF Cardinality(Waiting) > Len(queue) \/ Cardinality(DOMAIN workers) = parent.max
                            THEN workers
                            ELSE (Cardinality(DOMAIN workers) + 1
                                    :> [unit |-> NoUnit, pinned |-> env = "pinned"]) @@ workers
            /\ UNCHANGED parent
  /\ UNCHANGED <<done, units, pairs, checkpoint, temporary, env, report, runs, sweepFaults>>

Take(w) ==
  /\ w \in Waiting /\ queue # <<>>
  /\ workers' = [workers EXCEPT ![w].unit = Head(queue)]
  /\ queue' = Tail(queue)
  /\ UNCHANGED <<parent, done, units, pairs, checkpoint, temporary, env, report, runs, sweepFaults>>

Ends(w, outcome) ==
  /\ w \in Running
  /\ done' = (workers[w].unit :> outcome) @@ done
  /\ workers' = [workers EXCEPT ![w].unit = NoUnit]
  /\ UNCHANGED <<parent, queue, units, pairs, checkpoint, temporary, env, report, runs>>

FinishUnit(w) == Ends(w, "ok") /\ UNCHANGED sweepFaults
Fail(w) == sweepFaults < MaxSweepFaults /\ sweepFaults' = sweepFaults + 1 /\ Ends(w, "failed")

\* A worker that dies breaks the pool: every unfinished future fails with it.
Breaks(w) ==
  [u \in {workers[v].unit : v \in Running} \cup Range(queue) |-> "failed"] @@ done

Die(w) ==
  /\ w \in DOMAIN workers
  /\ sweepFaults < MaxSweepFaults /\ sweepFaults' = sweepFaults + 1
  /\ done' = Breaks(w)
  /\ workers' = Nothing /\ queue' = <<>>
  /\ UNCHANGED <<parent, units, pairs, checkpoint, temporary, env, report, runs>>

(* ---- record and _checkpoint ------------------------------------------- *)

\* Mutation: a result is filed under the unit that was submitted at its rank.
FiledByRank(unit, so) == (Tasks[Cardinality(DOMAIN so) + 1] :> unit) @@ so

\* A result carries the identity it is filed under.
Filed(unit, so) == [u \in DOMAIN so \cup {unit} |-> IF u = unit THEN unit ELSE so[u]]

PairOf(e, so) ==
  PairResults[parent.data, e, so[Unit(e, FeatureSets[1])], so[Unit(e, FeatureSets[2])]]
BothIn(entry, so) == \A set \in Range(FeatureSets) : Unit(entry, set) \in DOMAIN so

\* In report order, whatever order the units were finished in.
InOrder(verdicts) ==
  LET known == Sorted(DOMAIN verdicts)
  IN [i \in DOMAIN known |-> [entry |-> known[i], verdict |-> verdicts[known[i]]]]

Return(next) == parent' = [parent EXCEPT !.at = next]
Raises == parent' = [parent EXCEPT !.at = IF @ = "serial" THEN "return" ELSE "join",
                                  !.raised = TRUE]

\* submit raises in the parent when the pool broke before every unit was handed in.
SubmitRefused ==
  /\ parent.at = "submit"
  /\ Broken /\ Submitted < Len(Tasks)
  /\ Raises
  /\ UNCHANGED <<queue, workers, done, units, pairs, checkpoint, temporary, env, report, runs, sweepFaults>>

\* One result reaches the parent; an entry's second one makes its pair, and the
\* pairs so far go to the sibling file.
RecordResult(unit) ==
  LET so == Filed(unit, units)
      completed == {e \in Index : BothIn(e, so) /\ e \notin DOMAIN pairs}
      collected == parent.collected \cup {unit}
  IN /\ units' = so
     /\ IF completed = {}
          THEN parent' = [parent EXCEPT !.collected = collected] /\ UNCHANGED <<pairs, temporary>>
        ELSE IF \A e \in completed : PairOf(e, so) # NoResult
          THEN /\ pairs' = [e \in completed \cup DOMAIN pairs |->
                              IF e \in completed THEN PairOf(e, so) ELSE pairs[e]]
               /\ temporary' = InOrder(pairs')
               /\ parent' = [parent EXCEPT !.collected = collected,
                               !.at = IF @ = "serial" THEN "serial write" ELSE "write"]
        ELSE Raises /\ UNCHANGED <<pairs, temporary>>

\* The synchronous path: the next unit on this stack.
RunUnit ==
  /\ parent.at = "serial" /\ Cardinality(parent.collected) < Len(Tasks)
  /\ RecordResult(Tasks[Cardinality(parent.collected) + 1])
  /\ UNCHANGED <<queue, workers, done, checkpoint, env, report, runs, sweepFaults>>

UnitRaises ==
  /\ parent.at = "serial" /\ Cardinality(parent.collected) < Len(Tasks)
  /\ sweepFaults < MaxSweepFaults /\ sweepFaults' = sweepFaults + 1
  /\ Raises
  /\ UNCHANGED <<queue, workers, done, units, pairs, checkpoint, temporary, env, report, runs>>

\* Mutation: the results are polled for, and a future that failed never has one.
CollectResults(unit) ==
  /\ parent.at = "collect"
  /\ unit \in DOMAIN done \ parent.collected
  /\ done[unit] = "ok" /\ RecordResult(unit)
  /\ UNCHANGED <<queue, workers, done, checkpoint, env, report, runs, sweepFaults>>

\* as_completed: any finished future that was not handed out yet.
Collect(unit) ==
  /\ parent.at = "collect"
  /\ unit \in DOMAIN done \ parent.collected
  /\ IF done[unit] = "ok" THEN RecordResult(unit)
     ELSE Raises /\ UNCHANGED <<units, pairs, temporary>>
  /\ UNCHANGED <<queue, workers, done, checkpoint, env, report, runs, sweepFaults>>

File(results) == [whole |-> TRUE, run |-> runs, data |-> parent.data, results |-> results]

\* Mutation: the file is truncated and written in place.
ReplacedInPlace ==
  \/ checkpoint.whole /\ checkpoint' = [checkpoint EXCEPT !.whole = FALSE] /\ UNCHANGED <<parent, temporary>>
  \/ /\ ~checkpoint.whole /\ checkpoint' = File(temporary) /\ temporary' = <<>>
     /\ Return(IF parent.at = "write" THEN "collect" ELSE "serial")

\* The sibling file, flushed and complete, takes the checkpoint's place at once.
Replaced ==
  /\ checkpoint' = File(temporary) /\ temporary' = <<>>
  /\ Return(IF parent.at = "write" THEN "collect" ELSE "serial")

Replace ==
  /\ parent.at \in {"write", "serial write"}
  /\ Replaced
  /\ UNCHANGED <<queue, workers, done, units, pairs, env, report, runs, sweepFaults>>

\* The disk refuses: the sibling file goes, the checkpoint stays.
WriteFails ==
  /\ parent.at \in {"write", "serial write"}
  /\ sweepFaults < MaxSweepFaults /\ sweepFaults' = sweepFaults + 1
  /\ temporary' = <<>>
  /\ parent' = [parent EXCEPT !.at = IF @ = "write" THEN "join" ELSE "return", !.raised = TRUE]
  /\ UNCHANGED <<queue, workers, done, units, pairs, checkpoint, env, report, runs>>

(* ---- Leaving ---------------------------------------------------------- *)

\* Every future was handed out.
Exhausted ==
  /\ parent.at = "collect" /\ parent.collected = Range(Tasks)
  /\ Return("join")
  /\ UNCHANGED <<queue, workers, done, units, pairs, checkpoint, temporary, env, report, runs, sweepFaults>>

\* shutdown(wait=True) cancels nothing: queued units are still taken and run.
Drained == queue = <<>> /\ Running = {}

\* The pool is joined inside the pinned environment, which is restored after it.
Join ==
  /\ parent.at = "join" /\ Drained
  /\ Gone
  /\ env' = "own"
  /\ Return("return")
  /\ UNCHANGED <<units, pairs, checkpoint, temporary, report, runs, sweepFaults>>

\* The report is printed when every entry has its pair.
Finished ==
  /\ \/ parent.at = "return"
     \/ parent.at = "serial" /\ Cardinality(parent.collected) = Len(Tasks)
  /\ parent' = NotRunning
  /\ report' = IF parent.raised \/ DOMAIN pairs # Index THEN report
               ELSE [data |-> parent.data, results |-> InOrder(pairs),
                     met |-> {e \in Index : Passes(pairs[e])}]
  /\ units' = Nothing /\ pairs' = Nothing
  /\ UNCHANGED <<queue, workers, done, checkpoint, temporary, env, runs, sweepFaults>>

\* The machine goes down; the next program starts in its own environment.
Crash ==
  /\ parent.at # "off"
  /\ sweepFaults < MaxSweepFaults /\ sweepFaults' = sweepFaults + 1
  /\ parent' = NotRunning /\ env' = "own" /\ Gone
  /\ units' = Nothing /\ pairs' = Nothing /\ temporary' = <<>>
  /\ UNCHANGED <<checkpoint, report, runs>>

(* ---- Specification ---------------------------------------------------- *)

NoFile == [whole |-> TRUE, run |-> 0, data |-> "", results |-> <<>>]
NoReport == [data |-> "", results |-> <<>>, met |-> {}]

SweepInit ==
  /\ parent = NotRunning /\ queue = <<>> /\ workers = Nothing /\ done = Nothing
  /\ units = Nothing /\ pairs = Nothing /\ checkpoint = NoFile /\ temporary = <<>>
  /\ env = "own" /\ report = NoReport /\ runs = 0 /\ sweepFaults = 0

Worker == \E w \in DOMAIN workers : Take(w) \/ FinishUnit(w)
Parent ==
  \/ Submit \/ SubmitRefused \/ RunUnit \/ (\E unit \in Range(Tasks) : Collect(unit))
  \/ Replace \/ Exhausted \/ Join \/ Finished

SweepNext ==
  \/ \E data \in DOMAIN Datasets, asked \in {None, 1, 3} : LaunchSweep(data, asked)
  \/ Parent \/ Worker
  \/ (\E w \in DOMAIN workers : Fail(w) \/ Die(w))
  \/ UnitRaises \/ WriteFails \/ Crash

SweepSpec == SweepInit /\ [][SweepNext]_sweepVars

\* A program that runs is scheduled, and so are the units it handed out.
FairSweepSpec == SweepSpec /\ WF_sweepVars(Parent) /\ WF_sweepVars(Worker)
------------------------------------------------------------------------------

\* compare_entry: the two runs of an entry, on one stack with nothing else at work.
Reference(data, e) == PairResults[data, e, Unit(e, FeatureSets[1]), Unit(e, FeatureSets[2])]

Serial(data, results) ==
  \A i \in DOMAIN results :
    /\ results[i].verdict = Reference(data, results[i].entry)
    /\ i > 1 => results[i - 1].entry < results[i].entry

\* What is reported and what is checkpointed is what a serial run computes, in
\* report order, for any number of workers and any order they finish in.
ResultsAreTheSerialOnes ==
  /\ Serial(checkpoint.data, checkpoint.results)
  /\ Serial(report.data, report.results)
  /\ report # NoReport => Len(report.results) = Len(Entries)

\* A crash, a failed write or a failing worker leaves a readable checkpoint, and
\* while a run goes on no step of it takes back a pair it had saved.
PairsSurvive ==
  [][ /\ checkpoint'.whole
      /\ checkpoint'.run = checkpoint.run =>
           Range(checkpoint.results) \subseteq Range(checkpoint'.results) ]_sweepVars

\* Every run ends, whichever units fail and even if the pool breaks.
EveryRunReturns == parent.at # "off" ~> parent.at = "off"
=============================================================================
