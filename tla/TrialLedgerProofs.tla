-------------------------- MODULE TrialLedgerProofs --------------------------
(***************************************************************************)
(* What the trial ledger records, for any processes, configurations, runs  *)
(* and faults: one chain of whole lives, the holdout spent once, and every *)
(* look at research data counted.                                          *)
(***************************************************************************)
EXTENDS TrialLedger, FiniteSetTheorems, TLAPS

Records ==
  [type : {"started"} \cup Outcomes, trial : Nat, role : Roles, cfg : Configs \cup {0}, prev : Nat]

\* Between taking the lock and letting it go.
Section == {"inside", "line", "anchor", "leave"}
InSection(p) == run[p].at \in Section

\* The run has written the start of a trial and not looked at its data yet.
Holds(p) == run[p].op = "start" /\ run[p].at \in {"anchor", "leave", "look", "spend", "open"}

\* What every memory satisfies: which append it makes, of which trial.
Sensible(r) ==
  /\ r.at = "candidate" => r.job = "candidate"
  /\ r.at = "holdout" => r.job = "holdout"
  /\ r.at \in Section \cup {"enter"} => r.job \in Roles /\ r.op \in {"start", "finish"}
  /\ r.at \in Section \cup {"enter"} /\ r.op = "finish" => r.out \in Results
  /\ r.at = "look" => r.op = "start" /\ r.job = "candidate"
  /\ r.at \in {"spend", "open"} => r.op = "start" /\ r.job = "holdout"

TypeInv ==
  /\ lines \in Seq(Records) /\ torn \in BOOLEAN /\ anchor \in Nat
  /\ run \in [Procs -> Memories] /\ \A p \in Procs : Sensible(run[p])
  /\ source \in Nat /\ frozen \in Nat
  /\ looks \in Nat /\ opened \in Nat

\* The lock file belongs to whoever is between taking it and letting it go.
Exclusive == \A p \in Procs : InSection(p) => lock = p

\* A trial that was started and has not ended.
OpenTrial(t) == t \in DOMAIN lines /\ EventsOf(t) = {t}

\* What was checked under the lock still holds when the line is written.
Ready(p) ==
  /\ run[p].base = Len(lines) /\ anchor = Len(lines) /\ ~torn
  /\ run[p].op = "start" /\ run[p].job = "holdout" => Starts("holdout") = {}
  /\ run[p].op = "finish" =>
       /\ OpenTrial(run[p].trial) /\ run[p].out \in Outcomes
       /\ run[p].out = "completed" => run[p].trial \in sidecars

\* A start names itself, an end an earlier start, and no start has two ends.
Lives ==
  /\ \A i \in DOMAIN lines :
       /\ lines[i].prev = i - 1
       /\ lines[i].type = "started" => lines[i].trial = i
       /\ lines[i].type # "started" =>
            lines[i].trial \in 1..(i - 1) /\ lines[lines[i].trial].type = "started"
       /\ lines[i].type = "completed" => lines[i].trial \in sidecars
  /\ \A i, j \in DOMAIN lines :
       lines[i].type # "started" /\ lines[j].type # "started" /\ lines[i].trial = lines[j].trial => i = j

\* A run holds a start of its own, and nobody else holds that one.
Owners ==
  /\ \A p \in Procs : Holds(p) =>
       /\ run[p].trial \in DOMAIN lines /\ lines[run[p].trial].type = "started"
       /\ lines[run[p].trial].role = run[p].job
  /\ \A p, q \in Procs : Holds(p) /\ Holds(q) /\ run[p].trial = run[q].trial => p = q

\* One holdout start; its rows are parsed at most once, by the run that holds it.
Spent ==
  /\ \A i, j \in Starts("holdout") : i = j
  /\ opened \in {0, 1} /\ (opened = 1 => Starts("holdout") # {})
  /\ \A p \in Procs : Holds(p) /\ run[p].job = "holdout" => opened = 0

\* The starts whose run has yet to look.
Owed == {run[p].trial : p \in {q \in Procs : Holds(q) /\ run[q].job = "candidate"}}
Counted == looks + Cardinality(Owed) <= Cardinality(Starts("candidate"))

LedgerInv ==
  /\ TypeInv /\ Exclusive /\ Lives /\ Owners /\ Spent /\ Counted
  /\ \A p \in Procs : At(p, "line") => Ready(p)

-----------------------------------------------------------------------------
(* ---- Steps that only move the run p on -------------------------------- *)

\* p goes on with the memory r and no line is written; the anchor and the tail of
\* the file change at most under the lock, and a run comes to hold no start.
Moves(p, r) ==
  /\ run' = [run EXCEPT ![p] = r] /\ r \in Memories /\ Sensible(r)
  /\ UNCHANGED lines /\ sidecars \subseteq sidecars'
  /\ torn' \in BOOLEAN /\ anchor' \in Nat /\ source' \in Nat /\ frozen' \in Nat
  /\ looks' \in Nat /\ opened' \in Nat
  /\ (\E q \in Procs : q # p /\ InSection(q)) => UNCHANGED <<torn, anchor, lock>>
  /\ r.at \in Section => lock' = p
  /\ r.op = "start" /\ r.at \in {"anchor", "leave", "look", "spend", "open"} =>
       Holds(p) /\ r.trial = run[p].trial /\ r.job = run[p].job
  /\ r.at = "line" => Ready(p)'

\* Nor does it look at data.
Quiet(p, r) == Moves(p, r) /\ UNCHANGED <<looks, opened>>

LEMMA OwedIsFinite ==
  ASSUME LedgerInv
  PROVE  /\ IsFiniteSet(Owed) /\ Owed \subseteq Starts("candidate")
         /\ \A role : IsFiniteSet(Starts(role))
         /\ Cardinality(Owed) \in Nat /\ Cardinality(Starts("candidate")) \in Nat
<1>1. IsFiniteSet(DOMAIN lines)
  BY FS_Interval DEF LedgerInv, TypeInv
<1>2. \A role : Starts(role) \subseteq DOMAIN lines
  BY DEF Starts
<1>3. Owed \subseteq Starts("candidate")
  BY DEF Owed, Starts, LedgerInv, Owners, TypeInv
<1>4. QED
  BY <1>1, <1>2, <1>3, FS_Subset, FS_CardinalityType

LEMMA MovesKeep ==
  ASSUME LedgerInv, NEW p \in Procs, NEW r, Moves(p, r)
  PROVE  /\ TypeInv' /\ Exclusive' /\ Lives' /\ Owners'
         /\ \A q \in Procs : At(q, "line")' => Ready(q)'
         /\ \A q \in Procs : Holds(q)' => Holds(q) /\ run'[q].trial = run[q].trial /\ run'[q].job = run[q].job
         /\ Owed' \subseteq Owed
<1>0. /\ TypeInv /\ run'[p] = r /\ \A q \in Procs : q # p => run'[q] = run[q]
      /\ UNCHANGED lines
  BY DEF Moves, LedgerInv, TypeInv
<1>1. TypeInv'
  BY <1>0 DEF TypeInv, Moves
<1>2. Exclusive'
  BY <1>0 DEF Exclusive, InSection, Moves, LedgerInv
<1>3. Lives'
  BY DEF Lives, Moves, LedgerInv
<1>4. \A q \in Procs : Holds(q)' => Holds(q) /\ run'[q].trial = run[q].trial /\ run'[q].job = run[q].job
  BY <1>0 DEF Holds, Moves
<1>5. Owners'
  BY <1>0, <1>4 DEF Owners, LedgerInv
<1>6. Owed' \subseteq Owed
  BY <1>4 DEF Owed
<1>7. ASSUME NEW q \in Procs, At(q, "line")'
      PROVE  Ready(q)'
  <2>1. CASE q = p
    BY <1>0, <1>7, <2>1 DEF Moves, At
  <2>2. CASE q # p
    <3>1. At(q, "line") /\ Ready(q) /\ run'[q] = run[q]
      BY <1>0, <1>7, <2>2 DEF At, LedgerInv
    <3>2. UNCHANGED <<torn, anchor, lock>>
      BY <2>2, <3>1 DEF Moves, InSection, Section, At
    <3>3. QED
      BY <1>0, <3>1, <3>2 DEF Ready, Moves, OpenTrial, EventsOf, Starts
  <2>3. QED
    BY <2>1, <2>2
<1>8. QED
  BY <1>1, <1>2, <1>3, <1>4, <1>5, <1>6, <1>7

LEMMA QuietKeeps ==
  ASSUME LedgerInv, NEW p \in Procs, NEW r, Quiet(p, r)
  PROVE  LedgerInv'
<1>0. UNCHANGED <<lines, looks, opened>> /\ Moves(p, r) /\ Owed' \subseteq Owed
  BY MovesKeep DEF Quiet, Moves
<1>1. Spent'
  BY <1>0, MovesKeep DEF Spent, LedgerInv, Starts
<1>2. Counted'
  <2>1. Cardinality(Owed') <= Cardinality(Owed) /\ Cardinality(Owed') \in Nat
    BY <1>0, OwedIsFinite, FS_Subset, FS_CardinalityType
  <2>2. Starts("candidate")' = Starts("candidate") /\ looks' = looks
    BY <1>0 DEF Starts
  <2>3. looks + Cardinality(Owed) <= Cardinality(Starts("candidate")) /\ looks \in Nat
    BY DEF LedgerInv, Counted, TypeInv
  <2>4. looks' + Cardinality(Owed') <= Cardinality(Starts("candidate")')
    BY <2>1, <2>2, <2>3, OwedIsFinite
  <2>5. QED
    BY <2>4 DEF Counted
<1>3. QED
  BY <1>0, <1>1, <1>2, MovesKeep DEF LedgerInv

\* Whoever is under the lock is alone there.
LEMMA Alone ==
  ASSUME LedgerInv, NEW p \in Procs, InSection(p) \/ lock \notin Procs,
         NEW q \in Procs, q # p
  PROVE  ~InSection(q)
BY DEF LedgerInv, Exclusive

LEMMA RaisedIsQuiet ==
  ASSUME LedgerInv, NEW p \in Procs, At(p, "enter") \/ InSection(p)
  PROVE  /\ Raised(p) \in Memories /\ Sensible(Raised(p))
         /\ Raised(p).at \in {"enter", "idle"}
<1>1. run[p] \in Memories /\ Sensible(run[p])
  BY DEF LedgerInv, TypeInv
<1>2. run[p].op = "finish" => run[p].job \in Roles
  BY <1>1 DEF Sensible, At, InSection
<1>3. CASE run[p].op = "finish" /\ run[p].out # "errored"
  <2> DEFINE r == [run[p] EXCEPT !.at = "enter", !.out = "errored"]
  <2>1. r \in Memories /\ r.at = "enter" /\ r.op = "finish" /\ r.job \in Roles /\ r.out = "errored"
    BY <1>1, <1>2, <1>3 DEF Memories, Results, Outcomes
  <2>2. Sensible(r)
    BY <2>1 DEF Sensible, Section, Results, Outcomes
  <2>3. Raised(p) = r
    BY <1>3 DEF Raised
  <2>4. QED
    BY <2>1, <2>2, <2>3
<1>4. CASE ~(run[p].op = "finish" /\ run[p].out # "errored")
  BY <1>4 DEF Raised, Idle, Memories, Sensible, Section, Results, NoTrial
<1>5. QED
  BY <1>3, <1>4

\* Beginning, preparing, waiting for the lock.
LEMMA PreludeKeeps ==
  ASSUME LedgerInv, NEW p \in Procs,
         \/ \E job \in {"candidate", "holdout"}, c \in Configs, recording \in BOOLEAN :
              Begin(p, job, c, recording)
         \/ \E job \in {"declare", "amend"} : Begin(p, job, 0, TRUE)
         \/ StartCandidate(p) \/ StartHoldout(p) \/ Enter(p) \/ GiveUp(p)
  PROVE  LedgerInv'
<1>0. run[p] \in Memories /\ Sensible(run[p]) /\ torn \in BOOLEAN /\ anchor \in Nat
      /\ source \in Nat /\ frozen \in Nat /\ looks \in Nat /\ opened \in Nat
  BY DEF LedgerInv, TypeInv
<1>1. ASSUME NEW job \in {"candidate", "holdout", "declare", "amend"}, NEW c \in Configs \cup {0},
             NEW recording \in BOOLEAN, Begin(p, job, c, recording)
      PROVE  LedgerInv'
  <2> DEFINE r == [Idle EXCEPT !.at = job, !.job = job, !.cfg = c, !.recording = recording]
  <2>1. r \in Memories /\ Sensible(r) /\ r.op = "none" /\ r.at = job
    BY DEF Idle, Memories, Sensible, Section, NoTrial, Results
  <2>2. Quiet(p, r)
    BY <1>0, <1>1, <2>1 DEF Begin, Goto, Quiet, Moves, Section, files, history, family
  <2>3. QED
    BY <2>2, QuietKeeps
<1>2. CASE StartCandidate(p) \/ StartHoldout(p)
  <2> DEFINE r == [run[p] EXCEPT !.at = "enter", !.op = "start"]
  <2>1. r \in Memories /\ Sensible(r) /\ r.at = "enter"
    BY <1>0, <1>2 DEF StartCandidate, StartHoldout, At, Memories, Sensible, Section, Roles
  <2>2. Idle \in Memories /\ Sensible(Idle) /\ Idle.at = "idle"
    BY DEF Idle, Memories, Sensible, Section, NoTrial, Results
  <2>3. Quiet(p, r) \/ Quiet(p, Idle)
    BY <1>0, <1>2, <2>1, <2>2 DEF StartCandidate, StartHoldout, Goto, Quiet, Moves, Section, files, history, family
  <2>4. QED
    BY <2>3, QuietKeeps
<1>3. CASE Enter(p)
  <2> DEFINE r == [run[p] EXCEPT !.at = "inside"]
  <2>1. r \in Memories /\ Sensible(r) /\ r.at = "inside"
    BY <1>0, <1>3 DEF Enter, At, Memories, Sensible, Section
  <2>2. \A q \in Procs : ~InSection(q)
    BY <1>3, LedgerAssumption DEF Enter, LedgerInv, Exclusive
  <2>3. Quiet(p, r)
    BY <1>0, <1>3, <2>1, <2>2 DEF Enter, Goto, Quiet, Moves, Section, files, history, family
  <2>4. QED
    BY <2>3, QuietKeeps
<1>4. CASE GiveUp(p)
  <2>1. Quiet(p, Raised(p))
    BY <1>0, <1>4, RaisedIsQuiet DEF GiveUp, Goto, Quiet, Moves, Section, files, history, family
  <2>2. QED
    BY <2>1, QuietKeeps
<1>5. QED
  BY <1>1, <1>2, <1>3, <1>4

\* The append refused, its anchor, the lock let go; the reads outside the lock.
LEMMA RestKeeps ==
  ASSUME LedgerInv, NEW p \in Procs,
         \/ Inside(p) /\ ~Allowed(run[p])
         \/ WriteAnchor(p) \/ Leave(p) \/ ReadSpend(p)
         \/ CheckDeclaration(p) \/ WriteDeclaration(p) \/ CheckAmendment(p) \/ WriteAmendment(p)
         \/ Crash(p) \/ FailWrite(p)
  PROVE  LedgerInv'
<1>0. /\ run[p] \in Memories /\ Sensible(run[p]) /\ torn \in BOOLEAN /\ anchor \in Nat
      /\ source \in Nat /\ frozen \in Nat /\ looks \in Nat /\ opened \in Nat
      /\ \A q \in Procs : run[q] \in Memories
  BY DEF LedgerInv, TypeInv
<1>1. Idle \in Memories /\ Sensible(Idle) /\ Idle.at = "idle"
  BY DEF Idle, Memories, Sensible, Section, NoTrial, Results
<1>2. CASE Inside(p) /\ ~Allowed(run[p])
  <2>1. InSection(p)
    BY <1>2 DEF Inside, At, InSection, Section
  <2>2. Quiet(p, Raised(p))
    BY <1>0, <1>2, <2>1, Alone, RaisedIsQuiet DEF Inside, Goto, Quiet, Moves, Section, history, family
  <2>3. QED
    BY <2>2, QuietKeeps
<1>3. CASE WriteAnchor(p)
  <2> DEFINE r == [run[p] EXCEPT !.at = "leave"]
  <2>1. InSection(p) /\ lock = p
    BY <1>3 DEF WriteAnchor, At, InSection, Section, LedgerInv, Exclusive
  <2>2. r \in Memories /\ Sensible(r) /\ r.at = "leave" /\ (r.op = "start" => Holds(p))
    BY <1>0, <1>3 DEF WriteAnchor, At, Memories, Sensible, Section, Holds
  <2>3. run[p].base + 1 \in Nat
    BY <1>0 DEF Memories
  <2>4. Quiet(p, r)
    BY <1>0, <1>3, <2>1, <2>2, <2>3, Alone DEF WriteAnchor, Goto, Quiet, Moves, Section, history, Memories, family
  <2>5. QED
    BY <2>4, QuietKeeps
<1>4. CASE Leave(p)
  <2> DEFINE r == [run[p] EXCEPT !.at = IF run[p].job = "holdout" THEN "spend" ELSE "look"]
  <2>1. InSection(p)
    BY <1>4 DEF Leave, At, InSection, Section
  <2>2. run[p].op # "finish" =>
          /\ r \in Memories /\ Sensible(r) /\ r.at \in {"spend", "look"} /\ Holds(p)
          /\ r.trial = run[p].trial /\ r.job = run[p].job
    BY <1>0, <1>4 DEF Leave, At, Memories, Sensible, Section, Holds, Roles
  <2>3. Quiet(p, r) \/ Quiet(p, Idle)
    BY <1>0, <1>1, <1>4, <2>1, <2>2, Alone DEF Leave, Goto, Quiet, Moves, Section, history, files, family
  <2>4. QED
    BY <2>3, QuietKeeps
<1>5. CASE ReadSpend(p)
  <2> DEFINE r == [run[p] EXCEPT !.at = "open"]
  <2>1. r \in Memories /\ Sensible(r) /\ r.at = "open" /\ Holds(p)
    BY <1>0, <1>5 DEF ReadSpend, At, Memories, Sensible, Section, Holds
  <2>2. Quiet(p, r) \/ Quiet(p, Idle)
    BY <1>0, <1>1, <1>5, <2>1 DEF ReadSpend, Goto, Quiet, Moves, Section, history, files, Memories, family
  <2>3. QED
    BY <2>2, QuietKeeps
<1>6. CASE \/ CheckDeclaration(p) \/ WriteDeclaration(p) \/ CheckAmendment(p) \/ WriteAmendment(p)
  <2> DEFINE r == [run[p] EXCEPT !.at = "declaration", !.base = source]
  <2> DEFINE s == [run[p] EXCEPT !.at = "amendment", !.base = frozen, !.added = Additions]
  <2>1. /\ r \in Memories /\ r.at = "declaration"
        /\ Additions > 0 => s \in Memories /\ s.at = "amendment"
    <3>1. Additions > 0 => Additions \in Nat
      BY <1>0 DEF Additions
    <3>2. r \in Memories /\ r.at = "declaration"
      BY <1>0 DEF Memories
    <3>3. ASSUME Additions \in Nat
          PROVE  s \in Memories /\ s.at = "amendment"
      BY <1>0, <3>3 DEF Memories
    <3>4. QED
      BY <3>1, <3>2, <3>3
  <2>2. Sensible(r) /\ (Additions > 0 => Sensible(s))
    BY <2>1 DEF Sensible, Section
  <2>3. frozen + run[p].added \in Nat /\ run[p].base \in Nat
    BY <1>0 DEF Memories
  <2>4. \/ run' = [run EXCEPT ![p] = r]
        \/ run' = [run EXCEPT ![p] = s] /\ Additions > 0
        \/ run' = [run EXCEPT ![p] = Idle]
    BY <1>6 DEF CheckDeclaration, WriteDeclaration, CheckAmendment, WriteAmendment, Goto
  <2>5. /\ UNCHANGED <<files, lock, source, history>>
        /\ frozen' \in Nat
    BY <1>0, <1>6, <2>3
    DEF CheckDeclaration, WriteDeclaration, CheckAmendment, WriteAmendment, family
  <2>6. Quiet(p, r) \/ Quiet(p, s) \/ Quiet(p, Idle)
    BY <1>0, <1>1, <2>1, <2>2, <2>4, <2>5 DEF Quiet, Moves, Section, files, history
  <2>7. QED
    BY <2>6, QuietKeeps
<1>7. CASE Crash(p)
  <2>1. (\E q \in Procs : q # p /\ InSection(q)) => UNCHANGED <<torn, anchor, lock>>
    BY <1>7 DEF Crash, LedgerInv, Exclusive, InSection, Section, At
  <2>2. Quiet(p, Idle)
    BY <1>0, <1>1, <1>7, <2>1 DEF Crash, Goto, Quiet, Moves, Section, history, family
  <2>3. QED
    BY <2>2, QuietKeeps
<1>8. CASE FailWrite(p)
  <2>1. InSection(p)
    BY <1>8 DEF FailWrite, InSection, Section
  <2>2. Quiet(p, Raised(p))
    BY <1>0, <1>8, <2>1, Alone, RaisedIsQuiet DEF FailWrite, Goto, Quiet, Moves, Section, history, family
  <2>3. QED
    BY <2>2, QuietKeeps
<1>9. QED
  BY <1>2, <1>3, <1>4, <1>5, <1>6, <1>7, <1>8

-----------------------------------------------------------------------------
(* ---- Steps that write a line or look at data -------------------------- *)

\* A trial with one event has its start and no end (the count _append takes before an end).
LEMMA OneEventIsOpen ==
  ASSUME LedgerInv, NEW t \in Nat, Cardinality(EventsOf(t)) = 1
  PROVE  OpenTrial(t)
<1>1. IsFiniteSet(EventsOf(t))
  <2>1. EventsOf(t) \subseteq DOMAIN lines
    BY DEF EventsOf
  <2>2. QED
    BY <2>1, FS_Interval, FS_Subset DEF LedgerInv, TypeInv
<1>2. PICK i : EventsOf(t) = {i}
  BY <1>1, FS_Singleton
<1>3. i \in DOMAIN lines /\ lines[i].trial = t
  BY <1>2 DEF EventsOf
<1>4. CASE lines[i].type = "started"
  BY <1>2, <1>3, <1>4 DEF LedgerInv, Lives, OpenTrial
<1>5. CASE lines[i].type # "started"
  <2>1. t \in 1..(i - 1) /\ lines[t].type = "started" /\ i \in 1..Len(lines)
    BY <1>3, <1>5 DEF LedgerInv, Lives, TypeInv
  <2>2. t \in DOMAIN lines /\ t # i
    BY <2>1 DEF LedgerInv, TypeInv
  <2>3. t \in EventsOf(t)
    BY <2>1, <2>2 DEF LedgerInv, Lives, EventsOf
  <2>4. QED
    BY <1>2, <2>2, <2>3
<1>6. QED
  BY <1>4, <1>5

LEMMA OpenTrialHasItsStart ==
  ASSUME LedgerInv, NEW t, OpenTrial(t)
  PROVE  /\ t \in DOMAIN lines /\ lines[t].type = "started"
         /\ \A j \in DOMAIN lines : lines[j].type # "started" => lines[j].trial # t
<1>1. t \in DOMAIN lines /\ lines[t].trial = t /\ t \in Nat
  BY DEF OpenTrial, EventsOf, LedgerInv, TypeInv
<1>2. lines[t].type = "started"
  BY <1>1 DEF LedgerInv, Lives
<1>3. QED
  BY <1>1, <1>2 DEF OpenTrial, EventsOf

\* The append allowed: what was checked under the lock is what the line rests on.
LEMMA InsideKeeps ==
  ASSUME LedgerInv, NEW p \in Procs, Inside(p), Allowed(run[p])
  PROVE  LedgerInv'
<1> DEFINE r == [run[p] EXCEPT !.at = "line", !.base = Len(lines)]
<1>0. /\ run[p] \in Memories /\ Sensible(run[p]) /\ torn \in BOOLEAN /\ anchor \in Nat
      /\ source \in Nat /\ frozen \in Nat /\ looks \in Nat /\ opened \in Nat /\ Len(lines) \in Nat
      /\ run \in [Procs -> Memories]
  BY DEF LedgerInv, TypeInv
<1>1. At(p, "inside") /\ InSection(p) /\ lock = p
  BY DEF Inside, At, InSection, Section, LedgerInv, Exclusive
<1>2. r \in Memories /\ r.at = "line" /\ r.op = run[p].op /\ r.job = run[p].job /\ r.out = run[p].out
      /\ r.trial = run[p].trial /\ r.base = Len(lines)
  BY <1>0 DEF Memories
<1>3. Sensible(r)
  BY <1>0, <1>1, <1>2 DEF Sensible, At, Section
<1>4. /\ run' = [run EXCEPT ![p] = r]
      /\ sidecars' = IF run[p].op = "finish" /\ run[p].out = "completed" THEN sidecars \cup {run[p].trial} ELSE sidecars
      /\ UNCHANGED <<lines, torn, anchor, lock, source, frozen, looks, opened>>
  BY DEF Inside, Goto, family, history
<1>5. ~torn /\ anchor = Len(lines)
  BY DEF Allowed, Verified, Anchored
<1>6. ASSUME run[p].op = "finish"
      PROVE  /\ OpenTrial(run[p].trial) /\ run[p].out \in Outcomes
             /\ run[p].out = "completed" => run[p].trial \in sidecars'
  <2>1. Cardinality(EventsOf(run[p].trial)) = 1 /\ run[p].trial \in Nat
    BY <1>0, <1>6 DEF Allowed, Memories
  <2>2. run[p].out \in Outcomes
    BY <1>0, <1>1, <1>6 DEF Allowed, ValidRows, Sensible, At, Section, Results
  <2>3. QED
    BY <1>4, <1>6, <2>1, <2>2, OneEventIsOpen
<1>7. Ready(p)'
  <2>1. run'[p] = r
    BY <1>0, <1>4
  <2>2. run[p].op = "start" /\ run[p].job = "holdout" => Starts("holdout") = {}
    BY DEF Allowed
  <2>3. UNCHANGED <<Starts("holdout"), OpenTrial(run[p].trial)>>
    BY <1>4 DEF Starts, OpenTrial, EventsOf
  <2>4. /\ r.base = Len(lines') /\ anchor' = Len(lines') /\ ~torn'
        /\ r.op = "start" /\ r.job = "holdout" => Starts("holdout")' = {}
    BY <1>2, <1>4, <1>5, <2>2, <2>3
  <2>5. r.op = "finish" => /\ EventsOf(r.trial)' = {r.trial} /\ r.trial \in DOMAIN lines' /\ r.out \in Outcomes
                           /\ r.out = "completed" => r.trial \in sidecars'
    BY <1>2, <1>4, <1>6 DEF OpenTrial, EventsOf
  <2>6. QED
    BY <2>1, <2>4, <2>5 DEF Ready, OpenTrial, EventsOf
<1>8. Quiet(p, r)
  BY <1>0, <1>1, <1>2, <1>3, <1>4, <1>7 DEF Quiet, Moves
<1>9. QED
  BY <1>8, QuietKeeps

\* The line of a start: a trial of its own, the only one of its kind for a holdout.
LEMMA StartLineKeeps ==
  ASSUME LedgerInv, NEW p \in Procs, WriteLine(p), run[p].op = "start"
  PROVE  LedgerInv'
<1> DEFINE N == Len(lines)
<1> DEFINE e == [type |-> "started", trial |-> N + 1, role |-> run[p].job, cfg |-> run[p].cfg, prev |-> N]
<1> DEFINE r == [run[p] EXCEPT !.at = "anchor", !.trial = N + 1]
<1>0. /\ run[p] \in Memories /\ Sensible(run[p]) /\ lines \in Seq(Records) /\ N \in Nat
      /\ run \in [Procs -> Memories] /\ At(p, "line") /\ Ready(p) /\ InSection(p) /\ lock = p
      /\ run[p].base = N /\ DOMAIN lines = 1..N /\ N = Len(lines) /\ N + 1 \in Nat
  BY DEF LedgerInv, TypeInv, WriteLine, Ready, InSection, Section, At, Exclusive
<1> HIDE DEF N
<1>1. e \in Records /\ run[p].job \in Roles
  BY <1>0 DEF Records, Memories, Sensible, Section, At
<1>2. lines' = Append(lines, e) /\ run' = [run EXCEPT ![p] = r]
  BY <1>0 DEF WriteLine, Event, Goto
<1>3. /\ lines' \in Seq(Records) /\ Len(lines') = N + 1 /\ DOMAIN lines' = 1..(N + 1)
      /\ \A i \in 1..N : lines'[i] = lines[i]
      /\ lines'[N + 1] = e
  BY <1>0, <1>1, <1>2
<1>4. UNCHANGED <<torn, anchor, sidecars, lock, source, frozen, looks, opened>>
  BY DEF WriteLine, family, history
<1>5. r \in Memories /\ r.at = "anchor" /\ r.trial = N + 1 /\ r.job = run[p].job /\ r.op = "start"
  BY <1>0 DEF Memories
<1>6. Sensible(r)
  BY <1>1, <1>5 DEF Sensible, Section
<1>7. run'[p] = r /\ \A q \in Procs : q # p => run'[q] = run[q]
  BY <1>0, <1>2
<1>8. TypeInv'
  BY <1>0, <1>2, <1>3, <1>4, <1>5, <1>6, <1>7 DEF TypeInv, LedgerInv
<1>9. Exclusive'
  BY <1>0, <1>4, <1>5, <1>7 DEF Exclusive, InSection, LedgerInv
<1>10. ~Holds(p) /\ Holds(p)' /\ \A q \in Procs : q # p => Holds(q)' = Holds(q)
  BY <1>0, <1>5, <1>7 DEF Holds, At
<1>11. Lives'
  <2>1. e.type = "started" /\ e.prev = N /\ e.trial = N + 1
    OBVIOUS
  <2>2. \A i \in 1..N : lines[i].trial \in 1..(i - 1) => lines[i].trial \in 1..N
    BY <1>0
  <2>3. \A i \in 1..N :
       /\ lines'[i].prev = i - 1
       /\ lines'[i].type = "started" => lines'[i].trial = i
       /\ lines'[i].type # "started" =>
            lines'[i].trial \in 1..(i - 1) /\ lines'[lines'[i].trial].type = "started"
       /\ lines'[i].type = "completed" => lines'[i].trial \in sidecars'
    BY <1>0, <1>3, <1>4, <2>2 DEF Lives, LedgerInv
  <2>4. /\ lines'[N + 1].prev = (N + 1) - 1 /\ lines'[N + 1].type = "started"
        /\ lines'[N + 1].trial = N + 1
    BY <1>0, <1>3, <2>1
  <2>5. \A i \in 1..(N + 1) : i \in 1..N \/ i = N + 1
    BY <1>0
  <2>6. \A i, j \in 1..(N + 1) :
          lines'[i].type # "started" /\ lines'[j].type # "started" /\ lines'[i].trial = lines'[j].trial => i = j
    BY <1>0, <1>3, <2>4, <2>5 DEF Lives, LedgerInv
  <2>7. QED
    BY <1>3, <2>3, <2>4, <2>5, <2>6 DEF Lives
<1>12. Owners'
  <2>1. \A q \in Procs : q # p /\ Holds(q)' => run[q].trial \in 1..N /\ run'[q] = run[q] /\ Holds(q)
    BY <1>0, <1>7, <1>10 DEF LedgerInv, Owners
  <2>2. N + 1 \notin 1..N /\ 1..N \subseteq 1..(N + 1) /\ N + 1 \in 1..(N + 1)
    BY <1>0
  <2>3. e.type = "started" /\ e.role = run[p].job
    OBVIOUS
  <2>4. run'[p].trial = N + 1 /\ lines'[N + 1].type = "started" /\ lines'[N + 1].role = run'[p].job
    BY <1>3, <1>5, <1>7, <2>3
  <2>5. ASSUME NEW q \in Procs, Holds(q)'
        PROVE  /\ run'[q].trial \in DOMAIN lines' /\ lines'[run'[q].trial].type = "started"
               /\ lines'[run'[q].trial].role = run'[q].job
    <3>1. CASE q = p
      BY <1>3, <2>2, <2>4, <3>1
    <3>2. CASE q # p
      BY <1>0, <1>3, <2>1, <2>2, <2>5, <3>2 DEF Owners, LedgerInv
    <3>3. QED
      BY <3>1, <3>2
  <2>6. \A q \in Procs : q # p /\ Holds(q)' => run'[q].trial # N + 1
    BY <2>1, <2>2
  <2>7. \A q, o \in Procs : Holds(q)' /\ Holds(o)' /\ run'[q].trial = run'[o].trial => q = o
    BY <2>1, <2>4, <2>6 DEF Owners, LedgerInv
  <2>8. QED
    BY <2>5, <2>7 DEF Owners
<1>13. \A role : Starts(role)' = IF role = run[p].job THEN Starts(role) \cup {N + 1} ELSE Starts(role)
  <2>1. e.type = "started" /\ e.role = run[p].job
    OBVIOUS
  <2>2. 1..(N + 1) = (1..N) \cup {N + 1} /\ N + 1 \notin 1..N
    BY <1>0
  <2>3. QED
    BY <1>0, <1>3, <2>1, <2>2 DEF Starts
<1>14. Spent'
  <2>1. CASE run[p].job = "holdout"
    <3>1. Starts("holdout") = {} /\ Starts("holdout")' = {N + 1} /\ opened' = 0
      BY <1>0, <1>4, <1>13, <2>1 DEF Ready, LedgerInv, Spent
    <3>2. QED
      BY <3>1 DEF Spent
  <2>2. CASE run[p].job = "candidate"
    <3>1. Starts("holdout")' = Starts("holdout") /\ opened' = opened
      BY <1>4, <1>13, <2>2
    <3>2. QED
      BY <1>5, <1>7, <1>10, <2>2, <3>1 DEF Spent, LedgerInv
  <2>3. QED
    BY <1>1, <2>1, <2>2 DEF Roles
<1>15. Counted'
  <2>0. looks \in Nat /\ looks + Cardinality(Owed) <= Cardinality(Starts("candidate")) /\ looks' = looks
    BY <1>4 DEF LedgerInv, TypeInv, Counted
  <2>1. CASE run[p].job = "holdout"
    <3>1. Owed' \subseteq Owed /\ Starts("candidate")' = Starts("candidate")
      BY <1>5, <1>7, <1>10, <1>13, <2>1 DEF Owed
    <3>2. Cardinality(Owed') <= Cardinality(Owed) /\ Cardinality(Owed') \in Nat
      BY <3>1, OwedIsFinite, FS_Subset, FS_CardinalityType
    <3>3. looks' + Cardinality(Owed') <= Cardinality(Starts("candidate")')
      BY <2>0, <3>1, <3>2, OwedIsFinite
    <3>4. QED
      BY <3>3 DEF Counted
  <2>2. CASE run[p].job = "candidate"
    <3>1. Owed' \subseteq Owed \cup {N + 1} /\ Starts("candidate")' = Starts("candidate") \cup {N + 1}
      BY <1>5, <1>7, <1>10, <1>13, <2>2 DEF Owed
    <3>2. N + 1 \notin Starts("candidate") /\ N + 1 \notin Owed
      <4>1. Starts("candidate") \subseteq 1..N /\ N + 1 \notin 1..N
        BY <1>0 DEF Starts
      <4>2. QED
        BY <4>1, OwedIsFinite
    <3>3. /\ IsFiniteSet(Owed \cup {N + 1}) /\ Cardinality(Owed \cup {N + 1}) = Cardinality(Owed) + 1
          /\ Cardinality(Starts("candidate") \cup {N + 1}) = Cardinality(Starts("candidate")) + 1
      BY <3>2, OwedIsFinite, FS_AddElement
    <3>4. Cardinality(Owed') <= Cardinality(Owed) + 1 /\ Cardinality(Owed') \in Nat
      BY <3>1, <3>3, FS_Subset, FS_CardinalityType
    <3>5. looks' + Cardinality(Owed') <= Cardinality(Starts("candidate")')
      <4>1. Cardinality(Starts("candidate")') = Cardinality(Starts("candidate")) + 1
        BY <3>1, <3>3
      <4>2. QED
        BY <2>0, <3>4, <4>1, OwedIsFinite
    <3>6. QED
      BY <3>5 DEF Counted
  <2>3. QED
    BY <1>1, <2>1, <2>2 DEF Roles
<1>16. \A q \in Procs : ~At(q, "line")'
  BY <1>0, <1>5, <1>7, Alone DEF At, InSection, Section
<1>17. QED
  BY <1>8, <1>9, <1>11, <1>12, <1>14, <1>15, <1>16 DEF LedgerInv

\* The line of an end: the trial it names was open.
LEMMA EndLineKeeps ==
  ASSUME LedgerInv, NEW p \in Procs, WriteLine(p), run[p].op = "finish"
  PROVE  LedgerInv'
<1> DEFINE N == Len(lines)
<1> DEFINE t == run[p].trial
<1> DEFINE e == [type |-> run[p].out, trial |-> t, role |-> run[p].job, cfg |-> run[p].cfg, prev |-> N]
<1> DEFINE r == [run[p] EXCEPT !.at = "anchor", !.trial = t]
<1>0. /\ run[p] \in Memories /\ Sensible(run[p]) /\ lines \in Seq(Records) /\ N \in Nat
      /\ run \in [Procs -> Memories] /\ At(p, "line") /\ Ready(p) /\ InSection(p) /\ lock = p
      /\ run[p].base = N /\ DOMAIN lines = 1..N /\ N = Len(lines) /\ N + 1 \in Nat
  BY DEF LedgerInv, TypeInv, WriteLine, Ready, InSection, Section, At, Exclusive
<1> HIDE DEF N
<1>1. e \in Records /\ run[p].out \in Outcomes /\ OpenTrial(t)
      /\ (run[p].out = "completed" => t \in sidecars)
  BY <1>0 DEF Records, Memories, Sensible, Section, At, Ready
<1>2. lines' = Append(lines, e) /\ run' = [run EXCEPT ![p] = r]
  BY <1>0 DEF WriteLine, Event, Goto
<1>3. /\ lines' \in Seq(Records) /\ Len(lines') = N + 1 /\ DOMAIN lines' = 1..(N + 1)
      /\ \A i \in 1..N : lines'[i] = lines[i]
      /\ lines'[N + 1] = e
  BY <1>0, <1>1, <1>2
<1>4. UNCHANGED <<torn, anchor, sidecars, lock, source, frozen, looks, opened>>
  BY DEF WriteLine, family, history
<1>5. r \in Memories /\ r.at = "anchor" /\ r.job = run[p].job /\ r.op = "finish" /\ r.out = run[p].out
  BY <1>0 DEF Memories
<1>6. Sensible(r)
  BY <1>0, <1>5 DEF Sensible, Section, At
<1>7. run'[p] = r /\ \A q \in Procs : q # p => run'[q] = run[q]
  BY <1>0, <1>2
<1>8. TypeInv'
  BY <1>0, <1>2, <1>3, <1>4, <1>5, <1>6, <1>7 DEF TypeInv, LedgerInv
<1>9. Exclusive'
  BY <1>0, <1>4, <1>5, <1>7 DEF Exclusive, InSection, LedgerInv
<1>10. ~Holds(p)' /\ \A q \in Procs : q # p => Holds(q)' = Holds(q)
  BY <1>5, <1>7 DEF Holds
<1>11. /\ t \in 1..N /\ lines[t].type = "started" /\ e.type # "started" /\ e.trial = t /\ e.prev = N
       /\ e.type = run[p].out
       /\ \A j \in 1..N : lines[j].type # "started" => lines[j].trial # t
  BY <1>0, <1>1, OpenTrialHasItsStart DEF Outcomes
<1>12. Lives'
  <2>1. \A i \in 1..N : lines[i].trial \in 1..(i - 1) => lines[i].trial \in 1..N
    BY <1>0
  <2>0. \A i \in 1..(N + 1) : i \in 1..N \/ i = N + 1
    BY <1>0
  <2>2. \A i \in 1..N :
       /\ lines'[i].prev = i - 1
       /\ lines'[i].type = "started" => lines'[i].trial = i
       /\ lines'[i].type # "started" =>
            lines'[i].trial \in 1..(i - 1) /\ lines'[lines'[i].trial].type = "started"
       /\ lines'[i].type = "completed" => lines'[i].trial \in sidecars'
    BY <1>0, <1>3, <1>4, <2>1 DEF Lives, LedgerInv
  <2>5. /\ lines'[N + 1].prev = (N + 1) - 1 /\ lines'[N + 1].type # "started"
        /\ lines'[N + 1].trial = t /\ t \in 1..((N + 1) - 1) /\ lines'[t].type = "started"
        /\ lines'[N + 1].type = "completed" => t \in sidecars'
    BY <1>0, <1>1, <1>3, <1>4, <1>11
  <2>3. \A i, j \in 1..(N + 1) :
          lines'[i].type # "started" /\ lines'[j].type # "started" /\ lines'[i].trial = lines'[j].trial => i = j
    <3>1. \A i \in 1..N : lines'[i].type # "started" => lines'[i].trial # t
      BY <1>3, <1>11
    <3>2. \A i, j \in 1..N :
            lines'[i].type # "started" /\ lines'[j].type # "started" /\ lines'[i].trial = lines'[j].trial => i = j
      BY <1>0, <1>3 DEF Lives, LedgerInv
    <3>3. QED
      BY <2>0, <2>5, <3>1, <3>2
  <2>4. QED
    BY <1>3, <2>0, <2>2, <2>3, <2>5 DEF Lives
<1>13. Owners'
  <2>1. \A q \in Procs : Holds(q)' => run[q].trial \in 1..N /\ run'[q] = run[q] /\ Holds(q) /\ q # p
    BY <1>0, <1>7, <1>10 DEF LedgerInv, Owners
  <2>2. 1..N \subseteq 1..(N + 1)
    BY <1>0
  <2>3. QED
    BY <1>3, <2>1, <2>2 DEF Owners, LedgerInv
<1>14. \A role : Starts(role)' = Starts(role)
  <2>1. 1..(N + 1) = (1..N) \cup {N + 1} /\ N + 1 \notin 1..N
    BY <1>0
  <2>2. QED
    BY <1>0, <1>3, <1>11, <2>1 DEF Starts
<1>15. Spent'
  BY <1>4, <1>7, <1>10, <1>14 DEF Spent, LedgerInv
<1>16. Counted'
  <2>1. Owed' \subseteq Owed
    BY <1>7, <1>10 DEF Owed
  <2>2. Cardinality(Owed') <= Cardinality(Owed) /\ Cardinality(Owed') \in Nat
    BY <2>1, OwedIsFinite, FS_Subset, FS_CardinalityType
  <2>3. looks \in Nat /\ looks + Cardinality(Owed) <= Cardinality(Starts("candidate")) /\ looks' = looks
    BY <1>4 DEF LedgerInv, TypeInv, Counted
  <2>4. looks' + Cardinality(Owed') <= Cardinality(Starts("candidate")')
    BY <1>14, <2>2, <2>3, OwedIsFinite
  <2>5. QED
    BY <2>4 DEF Counted
<1>17. \A q \in Procs : ~At(q, "line")'
  BY <1>0, <1>5, <1>7, Alone DEF At, InSection, Section
<1>18. QED
  BY <1>8, <1>9, <1>12, <1>13, <1>15, <1>16, <1>17 DEF LedgerInv

\* The look: its run's start was owed, and is owed no more.
LEMMA LookKeeps ==
  ASSUME LedgerInv, NEW p \in Procs, NEW out \in Results, Look(p, out)
  PROVE  LedgerInv'
<1> DEFINE r == Finishing(run[p], out)
<1>0. /\ run[p] \in Memories /\ Sensible(run[p]) /\ torn \in BOOLEAN /\ anchor \in Nat
      /\ source \in Nat /\ frozen \in Nat /\ looks \in Nat /\ opened \in Nat
      /\ run \in [Procs -> Memories] /\ At(p, "look")
  BY DEF LedgerInv, TypeInv, Look
<1>1. run[p].op = "start" /\ run[p].job = "candidate" /\ Holds(p)
  BY <1>0 DEF Sensible, At, Holds
<1>2. r \in Memories /\ r.at = "enter" /\ r.op = "finish" /\ r.out = out /\ r.job = "candidate"
  BY <1>0, <1>1 DEF Finishing, Memories
<1>3. Sensible(r)
  BY <1>2 DEF Sensible, Section, Roles
<1>4. run' = [run EXCEPT ![p] = r] /\ looks' = looks + 1
      /\ UNCHANGED <<lines, torn, anchor, sidecars, lock, source, frozen, opened>>
  BY DEF Look, Goto, files, family
<1>5. Moves(p, r)
  BY <1>0, <1>2, <1>3, <1>4 DEF Moves, Section
<1>6. Spent'
  BY <1>4, <1>5, MovesKeep DEF Spent, LedgerInv, Starts
<1>7. Counted'
  <2> DEFINE t == run[p].trial
  <2>1. t \in Owed
    BY <1>0, <1>1 DEF Owed
  <2>2. Owed' \subseteq Owed \ {t}
    <3>1. \A q \in Procs : Holds(q)' => q # p /\ Holds(q) /\ run'[q] = run[q]
      BY <1>0, <1>2, <1>4 DEF Holds
    <3>2. \A q \in Procs : q # p /\ Holds(q) => run[q].trial # t
      BY <1>1 DEF LedgerInv, Owners
    <3>3. QED
      BY <3>1, <3>2 DEF Owed
  <2>3. IsFiniteSet(Owed \ {t}) /\ Cardinality(Owed \ {t}) = Cardinality(Owed) - 1
    BY <2>1, OwedIsFinite, FS_RemoveElement
  <2>4. Cardinality(Owed') <= Cardinality(Owed) - 1 /\ Cardinality(Owed') \in Nat
    BY <2>2, <2>3, FS_Subset, FS_CardinalityType
  <2>5. Starts("candidate")' = Starts("candidate")
    BY <1>4 DEF Starts
  <2>6. looks + Cardinality(Owed) <= Cardinality(Starts("candidate"))
    BY DEF LedgerInv, Counted
  <2>7. looks' + Cardinality(Owed') <= Cardinality(Starts("candidate")')
    BY <1>0, <1>4, <2>4, <2>5, <2>6, OwedIsFinite
  <2>8. QED
    BY <2>7 DEF Counted
<1>8. QED
  BY <1>5, <1>6, <1>7, MovesKeep DEF LedgerInv

\* The sealed rows are parsed: the run holds the one holdout start, and no other run does.
LEMMA OpenKeeps ==
  ASSUME LedgerInv, NEW p \in Procs, NEW out \in Results, OpenPanel(p, out)
  PROVE  LedgerInv'
<1>0. /\ run[p] \in Memories /\ Sensible(run[p]) /\ torn \in BOOLEAN /\ anchor \in Nat
      /\ source \in Nat /\ frozen \in Nat /\ looks \in Nat /\ opened \in Nat
      /\ run \in [Procs -> Memories] /\ At(p, "open")
  BY DEF LedgerInv, TypeInv, OpenPanel
<1>1. run[p].op = "start" /\ run[p].job = "holdout" /\ Holds(p)
  BY <1>0 DEF Sensible, At, Holds
<1>2. ASSUME NEW o \in Results
      PROVE  /\ Finishing(run[p], o) \in Memories /\ Sensible(Finishing(run[p], o))
             /\ Finishing(run[p], o).at = "enter"
  <2> DEFINE r == Finishing(run[p], o)
  <2>1. r \in Memories /\ r.at = "enter" /\ r.op = "finish" /\ r.out = o /\ r.job = "holdout"
    BY <1>0, <1>1 DEF Finishing, Memories
  <2>2. Sensible(r)
    BY <2>1 DEF Sensible, Section, Roles
  <2>3. QED
    BY <2>1, <2>2
<1>3. CASE ~HoldoutOpenFor(run[p])
  <2>1. "errored" \in Results
    BY DEF Results, Outcomes
  <2>2. Quiet(p, Finishing(run[p], "errored"))
    BY <1>0, <1>2, <1>3, <2>1 DEF OpenPanel, Goto, Quiet, Moves, Section, files, family
  <2>3. QED
    BY <2>2, QuietKeeps
<1>4. CASE HoldoutOpenFor(run[p])
  <2> DEFINE r == Finishing(run[p], out)
  <2>1. run' = [run EXCEPT ![p] = r] /\ opened' = opened + 1
        /\ UNCHANGED <<lines, torn, anchor, sidecars, lock, source, frozen, looks>>
    BY <1>4 DEF OpenPanel, Goto, files, family
  <2>2. Moves(p, r)
    BY <1>0, <1>2, <2>1 DEF Moves, Section
  <2>3. \A q \in Procs : Holds(q)' => q # p /\ Holds(q) /\ run'[q] = run[q]
    <3>1. r.at = "enter" /\ run'[p] = r
      BY <1>0, <1>2, <2>1
    <3>2. QED
      BY <1>0, <2>1, <3>1 DEF Holds
  <2>4. run[p].trial \in Starts("holdout")
    BY <1>1 DEF Starts, LedgerInv, Owners
  <2>5. Spent'
    <3>1. opened = 0 /\ opened' = 1
      BY <1>1, <2>1 DEF LedgerInv, Spent
    <3>2. Starts("holdout")' = Starts("holdout")
      BY <2>1 DEF Starts
    <3>3. \A q \in Procs : Holds(q)' => run[q].job # "holdout"
      <4>1. SUFFICES ASSUME NEW q \in Procs, Holds(q)', run[q].job = "holdout"
                     PROVE  FALSE
        OBVIOUS
      <4>2. q # p /\ Holds(q) /\ run[q].trial \in Starts("holdout")
        BY <2>3, <4>1 DEF Starts, LedgerInv, Owners
      <4>3. run[q].trial = run[p].trial
        BY <2>4, <4>2 DEF LedgerInv, Spent
      <4>4. QED
        BY <1>1, <4>2, <4>3 DEF LedgerInv, Owners
    <3>4. QED
      BY <2>3, <2>4, <3>1, <3>2, <3>3 DEF Spent, LedgerInv
  <2>6. Counted'
    <3>1. Cardinality(Owed') <= Cardinality(Owed) /\ Cardinality(Owed') \in Nat
      BY <2>2, MovesKeep, OwedIsFinite, FS_Subset, FS_CardinalityType
    <3>2. Starts("candidate")' = Starts("candidate") /\ looks' = looks
      BY <2>1 DEF Starts
    <3>3. looks + Cardinality(Owed) <= Cardinality(Starts("candidate"))
      BY DEF LedgerInv, Counted
    <3>4. looks' + Cardinality(Owed') <= Cardinality(Starts("candidate")')
      BY <1>0, <3>1, <3>2, <3>3, OwedIsFinite
    <3>5. QED
      BY <3>4 DEF Counted
  <2>7. QED
    BY <2>2, <2>5, <2>6, MovesKeep DEF LedgerInv
<1>5. QED
  BY <1>3, <1>4

\* The operator and the declaration's source: no run moves.
LEMMA AsideKeeps ==
  ASSUME LedgerInv, Recover \/ EditSource \/ UNCHANGED vars
  PROVE  LedgerInv'
<1>1. /\ UNCHANGED <<lines, sidecars, run, looks, opened>>
      /\ torn' \in BOOLEAN /\ anchor' \in Nat /\ source' \in Nat /\ frozen' \in Nat
  <2>1. /\ torn \in BOOLEAN /\ anchor \in Nat /\ source \in Nat /\ frozen \in Nat /\ Len(lines) \in Nat
    BY DEF LedgerInv, TypeInv
  <2>2. CASE Recover
    BY <2>1, <2>2 DEF Recover, family, history
  <2>3. CASE EditSource
    BY <2>1, <2>3 DEF EditSource, files, history
  <2>4. CASE UNCHANGED vars
    BY <2>1, <2>4 DEF vars, files, family, history
  <2>5. QED
    BY <2>2, <2>3, <2>4
<1>2. (\E q \in Procs : InSection(q)) => UNCHANGED <<torn, anchor, lock>>
  BY DEF LedgerInv, Exclusive, Recover, EditSource, vars, files
<1>3. TypeInv'
  BY <1>1 DEF LedgerInv, TypeInv
<1>4. Exclusive'
  BY <1>1, <1>2 DEF LedgerInv, Exclusive, InSection
<1>5. Lives' /\ Owners' /\ Spent'
  BY <1>1 DEF LedgerInv, Lives, Owners, Spent, Holds, Starts
<1>6. Counted'
  BY <1>1 DEF LedgerInv, Counted, Owed, Holds, Starts
<1>7. ASSUME NEW q \in Procs, At(q, "line")'
      PROVE  Ready(q)'
  <2>1. At(q, "line") /\ Ready(q) /\ UNCHANGED <<torn, anchor>>
    BY <1>1, <1>2, <1>7 DEF At, InSection, Section, LedgerInv
  <2>2. QED
    BY <1>1, <2>1 DEF Ready, OpenTrial, EventsOf, Starts
<1>8. QED
  BY <1>3, <1>4, <1>5, <1>6, <1>7 DEF LedgerInv

LEMMA InitKeeps ==
  ASSUME Init
  PROVE  LedgerInv
<1>1. \A p \in Procs : run[p] = Idle /\ run[p].at = "idle" /\ run[p].op = "none"
  BY DEF Init, Idle
<1>2. Idle \in Memories /\ Sensible(Idle)
  BY DEF Idle, Memories, Sensible, Section, NoTrial, Results
<1>3. TypeInv
  <2>1. run \in [Procs -> Memories]
    BY <1>2 DEF Init
  <2>2. lines \in Seq(Records) /\ torn \in BOOLEAN /\ anchor \in Nat
        /\ source \in Nat /\ frozen \in Nat /\ looks \in Nat /\ opened \in Nat
    <3>1. lines = <<>> /\ torn = FALSE /\ anchor = 0 /\ source = 0 /\ frozen = 0 /\ looks = 0 /\ opened = 0
      BY DEF Init
    <3>2. lines \in Seq(Records)
      BY <3>1
    <3>3. QED
      BY <3>1, <3>2
  <2>3. QED
    BY <1>1, <1>2, <2>1, <2>2 DEF TypeInv
<1>4. DOMAIN lines = {} /\ \A role : Starts(role) = {}
  BY DEF Init, Starts
<1>5. Owed = {}
  BY <1>1 DEF Owed, Holds
<1>6. Exclusive /\ Lives /\ Owners /\ Spent
  BY <1>1, <1>4 DEF Init, Exclusive, Lives, Owners, Spent, InSection, Section, Holds
<1>7. Counted
  <2>1. looks = 0 /\ Cardinality(Owed) = 0 /\ Cardinality(Starts("candidate")) = 0
    BY <1>4, <1>5, FS_EmptySet DEF Init
  <2>2. QED
    BY <2>1 DEF Counted
<1>8. QED
  BY <1>1, <1>3, <1>6, <1>7 DEF LedgerInv, At

LEMMA StepKeeps ==
  ASSUME LedgerInv, [Next]_vars
  PROVE  LedgerInv'
<1>1. ASSUME NEW p \in Procs, Step(p)
      PROVE  LedgerInv'
  <2>1. CASE Inside(p)
    BY <2>1, InsideKeeps, RestKeeps
  <2>2. CASE WriteLine(p)
    <3>1. run[p].op \in {"start", "finish"}
      BY <2>2 DEF WriteLine, At, LedgerInv, TypeInv, Sensible, Section
    <3>2. QED
      BY <2>2, <3>1, StartLineKeeps, EndLineKeeps
  <2>3. CASE \E out \in Results : Look(p, out) \/ OpenPanel(p, out)
    BY <2>3, LookKeeps, OpenKeeps
  <2>4. CASE StartCandidate(p) \/ StartHoldout(p) \/ Enter(p) \/ GiveUp(p)
    BY <2>4, PreludeKeeps
  <2>5. CASE \/ WriteAnchor(p) \/ Leave(p) \/ ReadSpend(p)
             \/ CheckDeclaration(p) \/ WriteDeclaration(p) \/ CheckAmendment(p) \/ WriteAmendment(p)
    BY <2>5, RestKeeps
  <2>6. QED
    BY <1>1, <2>1, <2>2, <2>3, <2>4, <2>5 DEF Step
<1>2. ASSUME NEW p \in Procs, Environment(p)
      PROVE  LedgerInv'
  <2>1. CASE Crash(p) \/ FailWrite(p)
    BY <2>1, RestKeeps
  <2>2. CASE \E c \in Configs : \/ \E recording \in BOOLEAN : Begin(p, "candidate", c, recording)
                                \/ Begin(p, "holdout", c, TRUE)
    BY <2>2, PreludeKeeps
  <2>3. CASE Begin(p, "declare", 0, TRUE) \/ Begin(p, "amend", 0, TRUE)
    BY <2>3, PreludeKeeps
  <2>4. QED
    BY <1>2, <2>1, <2>2, <2>3 DEF Environment
<1>3. QED
  BY <1>1, <1>2, AsideKeeps DEF Next

-----------------------------------------------------------------------------
(* ---- What follows ------------------------------------------------------ *)

\* The ledger's state stays inside its invariant, whatever is begun, killed or slow.
THEOREM LedgerStays == Spec => []LedgerInv
BY InitKeeps, StepKeeps, PTL DEF Spec

\* One start at most, and no more parses of the sealed rows than starts.
LEMMA SpentFollows ==
  ASSUME LedgerInv
  PROVE  HoldoutSpentOnce
<1>1. IsFiniteSet(Starts("holdout"))
  BY OwedIsFinite
<1>2. CASE Starts("holdout") = {}
  <2>1. opened = 0 /\ Cardinality(Starts("holdout")) = 0
    BY <1>2, FS_EmptySet DEF LedgerInv, Spent
  <2>2. QED
    BY <2>1 DEF HoldoutSpentOnce
<1>3. CASE Starts("holdout") # {}
  <2>1. PICK i : Starts("holdout") = {i}
    BY <1>3 DEF LedgerInv, Spent
  <2>2. Cardinality(Starts("holdout")) = 1 /\ opened \in {0, 1}
    BY <2>1, FS_Singleton DEF LedgerInv, Spent
  <2>3. QED
    BY <2>2 DEF HoldoutSpentOnce
<1>4. QED
  BY <1>2, <1>3

\* The holdout of a family is spent once (058 D-7), for any number of holdout runs.
THEOREM HoldoutIsSpentOnce == Spec => []HoldoutSpentOnce
BY LedgerStays, SpentFollows, PTL

\* Every result somebody computed is a candidate start in the file.
LEMMA LooksAreCounted ==
  ASSUME LedgerInv
  PROVE  EveryLookCounts
<1>1. looks \in Nat /\ looks + Cardinality(Owed) <= Cardinality(Starts("candidate"))
  BY DEF LedgerInv, TypeInv, Counted
<1>2. looks <= Cardinality(Starts("candidate"))
  BY <1>1, OwedIsFinite
<1>3. QED
  BY <1>2 DEF EveryLookCounts, FamilyCount

\* The family's N is never smaller than the number of looks at its research data.
THEOREM EveryLookIsCounted == Spec => []EveryLookCounts
BY LedgerStays, LooksAreCounted, PTL

LEMMA ChainFollows ==
  ASSUME LedgerInv
  PROVE  OneChain
<1>0. lines \in Seq(Records) /\ Lives /\ DOMAIN lines = 1..Len(lines) /\ Len(lines) \in Nat
  BY DEF LedgerInv, TypeInv
<1>1. Linked /\ HasReturns
  BY <1>0 DEF Lives, Linked, HasReturns
<1>2. ASSUME NEW i \in DOMAIN lines
      PROVE  LET earlier == {j \in EventsOf(lines[i].trial) : j < i} IN
             IF lines[i].type = "started" THEN earlier = {}
             ELSE Cardinality(earlier) = 1 /\ \A j \in earlier : lines[j].type = "started"
  <2> DEFINE t == lines[i].trial
  <2> DEFINE earlier == {j \in EventsOf(t) : j < i}
  <2>1. \A j \in earlier : j \in DOMAIN lines /\ lines[j].trial = t /\ j < i
    BY DEF EventsOf
  <2>2. CASE lines[i].type = "started"
    <3>1. \A j \in earlier : FALSE
      <4>1. SUFFICES ASSUME NEW j \in earlier PROVE FALSE
        OBVIOUS
      <4>2. t = i /\ j \in 1..Len(lines) /\ lines[j].trial = i /\ j < i
        BY <1>0, <2>1, <2>2 DEF Lives
      <4>3. CASE lines[j].type = "started"
        BY <1>0, <4>2, <4>3 DEF Lives
      <4>4. CASE lines[j].type # "started"
        <5>1. lines[j].trial \in 1..(j - 1)
          BY <1>0, <4>2, <4>4 DEF Lives
        <5>2. QED
          BY <4>2, <5>1
      <4>5. QED
        BY <4>3, <4>4
    <3>2. QED
      BY <2>2, <3>1
  <2>3. CASE lines[i].type # "started"
    <3>1. t \in 1..(i - 1) /\ lines[t].type = "started" /\ t \in 1..Len(lines) /\ i \in 1..Len(lines)
      BY <1>0, <2>3 DEF Lives
    <3>2. lines[t].trial = t /\ t < i
      BY <1>0, <3>1 DEF Lives
    <3>3. \A j \in earlier : j = t
      <4>1. SUFFICES ASSUME NEW j \in earlier PROVE j = t
        OBVIOUS
      <4>2. j \in DOMAIN lines /\ lines[j].trial = t /\ j < i
        BY <2>1
      <4>3. CASE lines[j].type = "started"
        BY <1>0, <4>2, <4>3 DEF Lives
      <4>4. CASE lines[j].type # "started"
        <5>1. j = i
          BY <1>0, <2>3, <4>2, <4>4 DEF Lives
        <5>2. QED
          BY <1>0, <3>1, <4>2, <5>1
      <4>5. QED
        BY <4>3, <4>4
    <3>4. earlier = {t}
      BY <1>0, <3>1, <3>2, <3>3 DEF EventsOf
    <3>5. Cardinality(earlier) = 1
      BY <3>4, FS_Singleton
    <3>6. QED
      BY <2>3, <3>1, <3>3, <3>5
  <2>4. QED
    BY <2>2, <2>3
<1>3. WholeLives
  BY <1>2 DEF WholeLives
<1>4. QED
  BY <1>1, <1>3 DEF OneChain

\* Only WriteLine writes a line, and it writes where it found an anchored file.
LEMMA AppendsBehindAnAnchor ==
  ASSUME LedgerInv, [Next]_vars
  PROVE  lines' # lines => anchor = Len(lines) /\ ~torn
<1>1. ASSUME NEW p \in Procs, WriteLine(p)
      PROVE  anchor = Len(lines) /\ ~torn
  BY <1>1 DEF WriteLine, LedgerInv, Ready
<1>2. ASSUME NEW p \in Procs, Step(p), ~WriteLine(p)
      PROVE  lines' = lines
  BY <1>2 DEF Step, StartCandidate, StartHoldout, Enter, GiveUp, Inside, WriteAnchor, Leave,
              Look, OpenPanel, ReadSpend, CheckDeclaration, WriteDeclaration, CheckAmendment,
              WriteAmendment, files
<1>3. ASSUME NEW p \in Procs, Environment(p)
      PROVE  lines' = lines
  BY <1>3 DEF Environment, Begin, Crash, FailWrite, files
<1>4. CASE Recover \/ EditSource \/ UNCHANGED vars
  BY <1>4 DEF Recover, EditSource, vars, files
<1>5. QED
  BY <1>1, <1>2, <1>3, <1>4 DEF Next

\* One chain of whole lives, and nothing follows an append that stopped half way.
THEOREM OneChainBehind == Spec => OneChainBehindItsAnchor
<1>1. LedgerInv /\ [Next]_vars => [lines' # lines => anchor = Len(lines) /\ ~torn]_vars
  BY AppendsBehindAnAnchor
<1>2. QED
  BY <1>1, LedgerStays, ChainFollows, PTL DEF Spec, OneChainBehindItsAnchor
=============================================================================
