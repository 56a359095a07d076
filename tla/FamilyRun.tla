----------------------------- MODULE FamilyRun -----------------------------
(***************************************************************************)
(* The preregistered research runs: 058 evaluates one configuration after  *)
(* the other, then seeded random baselines for each, and can be resumed    *)
(* when it was interrupted; 059 and 061 start every series before they     *)
(* evaluate any, once.  Each series is a trial of the ledger, evaluated by *)
(* run_portfolio_backtest over the panel of one data check.                *)
(*                                                                         *)
(* One operator runs one program at a time.  It may be killed, interrupted *)
(* or fail anywhere; the data check may be made anew between two runs.     *)
(* The ledger is the sequence of its events, a trial is known by the       *)
(* position of its start (module TrialLedger models how they are written). *)
(***************************************************************************)
EXTENDS PortfolioLedger, Positions, SequencesExt

CONSTANTS
  Families,     \* [name -> [candidates, activity, together, heldBack, resumable]]
  Seeds,        \* the preregistered seeds, in order
  Declared,     \* the panel 059 and 061 declare
  Oos,          \* [session -> it lies in a walk-forward test window]
  MaxLaunches, MaxFaults

VARIABLES
  events,       \* the trial ledger
  run,          \* the program at work
  long,         \* the chains of the random series at work: [ticker -> BOOLEAN]
  faults, launches

familyVars == <<events, run, long, faults, launches>>
vars == <<ledgerVars, familyVars>>

Hold == "B-BH"
Random == "B-RND"
Key(name, of, seed) == [name |-> name, of |-> of, seed |-> seed]
IsRandom(key) == key.name = Random

\* The declarations name each series once; 058, which goes on where it was
\* interrupted, completes a series before it starts the next one.
ASSUME FamilyAssumption ==
  /\ Seeds \in Seq(Nat) /\ IsInjective(Seeds) /\ Hold \in DOMAIN Rules
  /\ \A f \in DOMAIN Families :
       LET family == Families[f] IN
         /\ family.candidates \in Seq(DOMAIN Rules \ {Hold, Random}) /\ IsInjective(family.candidates)
         /\ {family.together, family.heldBack, family.resumable} \subseteq BOOLEAN
         /\ family.resumable => ~family.together /\ ~family.heldBack

\* In declared order: the candidates, buy-and-hold, each candidate's seeds.
Configs(f) == [i \in 1..(Len(Families[f].candidates) + 1) |->
                 Key(Append(Families[f].candidates, Hold)[i], "", 0)]
Pairs(f) ==
  LET candidates == Families[f].candidates
      draws == Len(Seeds)
  IN [n \in 1..(Len(candidates) * draws) |->
        Key(Random, candidates[((n - 1) \div draws) + 1], Seeds[((n - 1) % draws) + 1])]
Series(f) == Configs(f) \o Pairs(f)

BookTable == [c \in Built |->
                [config \in DOMAIN Rules |-> TargetBook(config, Panels[c].close)]]
ActivityTable == [c \in Built |->
                    [config \in DOMAIN Rules |-> MatchedActivity(config, Panels[c].close)]]

\* 059 and 061 toss a coin per sleeve instead of matching an always invested book.
Coin == [initial |-> "sometimes", exit |-> "sometimes", enter |-> "sometimes"]
Activity(f, config) ==
  IF Families[f].activity = "coin" THEN Coin ELSE ActivityTable[run.check][config]

(* ---- The ledger ------------------------------------------------------- *)

Event(type, trial, key, result) ==
  [type |-> type, trial |-> trial, family |-> run.family, key |-> key, check |-> run.check,
   result |-> result]

Starts(f) == {i \in DOMAIN events : events[i].type = "started" /\ events[i].family = f}
Ended(trial, types) == \E i \in DOMAIN events : events[i].trial = trial /\ events[i].type \in types
Terminals == {"completed", "errored", "abandoned"}
Dangling(f) == {i \in Starts(f) : ~Ended(i, Terminals)}
Completed(f, key) == {i \in Starts(f) : events[i].key = key /\ Ended(i, {"completed"})}

\* finish of a trial that is closed already is refused.
Finish(trial, type, result) ==
  /\ ~Ended(trial, Terminals)
  /\ events' = Append(events, Event(type, trial, events[trial].key, result))

(* ---- Programs --------------------------------------------------------- *)

Off == [at |-> "off", family |-> "", check |-> "", resumes |-> FALSE, todo |-> <<>>,
        open |-> <<>>, kept |-> <<>>, closing |-> <<>>, raised |-> ""]
Idle == run.at \in {"off", "done"}
Stay == UNCHANGED <<launches, faults>>

\* Nothing of the family may have been run, unless 058 is rerun with a reason.
Fresh(f) ==
  IF f = "061" THEN \A i \in DOMAIN events : events[i].family # f
  ELSE \A i \in Starts(f) : events[i].key \notin {Key(c, "", 0) : c \in Range(Families[f].candidates)}

Launch(f, c, reason) ==
  /\ Idle /\ launches < MaxLaunches
  /\ c \in Built
  /\ IF Families[f].resumable THEN Fresh(f) \/ reason ELSE Fresh(f) /\ c = Declared
  /\ \E s \in Sessions : Oos[s]
  /\ run' = [Off EXCEPT !.at = "start", !.family = f, !.check = c, !.todo = Series(f)]
  /\ launches' = launches + 1
  /\ UNCHANGED <<events, long, faults, ledgerVars>>

\* Mutation: pairs that were started are taken for done.
RemainingUnstarted(f) ==
  LET left == Sorted({n \in DOMAIN Pairs(f) : \A i \in Starts(f) : events[i].key # Pairs(f)[n]})
  IN [k \in DOMAIN left |-> Pairs(f)[left[k]]]

Remaining(f) ==
  LET left == Sorted({n \in DOMAIN Pairs(f) : Completed(f, Pairs(f)[n]) = {}})
  IN [k \in DOMAIN left |-> Pairs(f)[left[k]]]

OnePanel(f, c) == {events[i].check : i \in Starts(f)} = {c}

\* Every configuration was started once and completed: only pairs are left.
ConfigsCompleteOnce(f) ==
  \A key \in Range(Configs(f)) :
    /\ Cardinality({i \in Starts(f) : events[i].key = key}) = 1
    /\ Completed(f, key) # {}

Resume(f, c) ==
  /\ Idle /\ launches < MaxLaunches
  /\ Families[f].resumable
  /\ c \in Built /\ OnePanel(f, c) /\ ConfigsCompleteOnce(f)
  /\ run' = [Off EXCEPT !.at = "close", !.family = f, !.check = c, !.resumes = TRUE,
                        !.todo = Remaining(f),
                        !.closing = Sorted(Dangling(f))]
  /\ launches' = launches + 1
  /\ UNCHANGED <<events, long, faults, ledgerVars>>

\* Dangling starts are closed, never deleted.
CloseDangling ==
  /\ run.at = "close"
  /\ IF run.closing = <<>>
       THEN run' = [run EXCEPT !.at = "start"] /\ UNCHANGED events
       ELSE /\ Finish(Head(run.closing), "abandoned", <<>>)
            /\ run' = [run EXCEPT !.closing = Tail(@)]
  /\ Stay /\ UNCHANGED <<long, ledgerVars>>

AllDone ==
  /\ run.at = "start" /\ run.todo = <<>>
  /\ run' = [run EXCEPT !.at = "done"]
  /\ Stay /\ UNCHANGED <<events, long, ledgerVars>>

NobodyLong == [x \in Tickers |-> FALSE]

\* The start is on the ledger before anything is evaluated; 059 and 061 start
\* all of them first.
StartTrial ==
  /\ run.at = "start" /\ run.todo # <<>>
  /\ LET key == Head(run.todo)
         trial == Len(events) + 1
     IN /\ events' = Append(events, Event("started", trial, key, <<>>))
        /\ run' = [run EXCEPT !.todo = Tail(@), !.open = Append(@, trial),
                              !.at = IF Families[run.family].together /\ Len(run.todo) > 1
                                       THEN "start" ELSE "evaluate"]
  /\ Begin /\ long' = NobodyLong
  /\ Stay

\* 058 records the sessions of the test windows only.
Tested(f) == {s \in Sessions \ {1} : Families[f].together \/ Oos[s]}

\* Daily returns of the equity, as its two closes; a draw's own are left out.
Returns(key) ==
  IF IsRandom(key) THEN <<>>
  ELSE SetToSeq({<<s, equity[s - 1], equity[s]>> : s \in Tested(run.family)})

DecisionsOf(key) == Decisions(IF IsRandom(key) THEN key.of ELSE key.name)

\* The draws of a decision session: each ticker's chain from its own stream.
NextDraws(key, t) ==
  LET first == \A d \in DecisionsOf(key) : d >= t
      activity == Activity(run.family, key.of)
  IN {next \in [Tickers -> BOOLEAN] :
        \A x \in Tickers : next[x] \in NextLong(long[x], first, activity)}

\* The book of a draw: the listed tickers among the chosen, sized as the candidate is.
DrawnBook(of, chosen, close, t) == Sized(Rules[of].sizing, Listed(close, t) \cap chosen, close, t)

\* The weights after a close: none between decisions.
WeightsAt(key, t, drawn) ==
  LET close == Panels[run.check].close
  IN IF t \notin DecisionsOf(key) THEN Flat
     ELSE IF IsRandom(key)
       THEN DrawnBook(key.of, {x \in Tickers : drawn[x]}, close, t)
     ELSE BookTable[run.check][key.name][t]

Evaluate ==
  /\ run.at = "evaluate" /\ session < ResearchEnd
  /\ LET key == events[Head(run.open)].key
         t == session + 1
         decides == t \in DecisionsOf(key)
     IN \E drawn \in IF decides /\ IsRandom(key) THEN NextDraws(key, t) ELSE {long} :
          /\ long' = drawn
          /\ Session(run.check, decides, WeightsAt(key, t, drawn))
  /\ Stay /\ UNCHANGED <<events, run>>

\* Where the program goes on after a series.
After(open) ==
  IF open = <<>> THEN (IF run.todo = <<>> /\ Families[run.family].heldBack THEN "record" ELSE "start")
  ELSE "evaluate"

\* A series is completed with its returns; 059 keeps them until all are evaluated.
Complete ==
  /\ run.at = "evaluate" /\ session = ResearchEnd
  /\ LET trial == Head(run.open)
         result == Returns(events[trial].key)
         next == After(Tail(run.open))
     IN IF Families[run.family].heldBack
          THEN /\ run' = [run EXCEPT !.open = Tail(@), !.at = next,
                                     !.kept = Append(@, [trial |-> trial, result |-> result])]
               /\ UNCHANGED events
          ELSE /\ Finish(trial, "completed", result)
               /\ run' = [run EXCEPT !.open = Tail(@), !.at = next]
  /\ Begin /\ long' = NobodyLong
  /\ Stay

Record ==
  /\ run.at = "record"
  /\ IF run.kept = <<>>
       THEN run' = [run EXCEPT !.at = "done"] /\ UNCHANGED events
       ELSE /\ Finish(Head(run.kept).trial, "completed", Head(run.kept).result)
            /\ run' = [run EXCEPT !.kept = Tail(@)]
  /\ Stay /\ UNCHANGED <<long, ledgerVars>>

(* ---- Failures --------------------------------------------------------- *)

Unwinding(type) ==
  /\ run' = [run EXCEPT !.at = "unwind", !.raised = type]
  /\ UNCHANGED <<events, long, ledgerVars>>

\* An error or an interrupt inside an attempt.
Raise(type) ==
  /\ run.at \in {"start", "evaluate", "record"} /\ run.open \o run.kept # <<>>
  /\ faults < MaxFaults /\ faults' = faults + 1
  /\ Unwinding(type)
  /\ UNCHANGED launches

\* Every attempt that has no receipt is closed, the last one entered first.
Unwind ==
  /\ run.at = "unwind"
  /\ LET left == [i \in DOMAIN run.kept |-> run.kept[i].trial] \o run.open
     IN IF left = <<>>
          THEN run' = Off /\ UNCHANGED events
          ELSE /\ Finish(Last(left), run.raised, <<>>)
               /\ run' = IF run.open # <<>> THEN [run EXCEPT !.open = Front(@)]
                         ELSE [run EXCEPT !.kept = Front(@)]
  /\ Stay /\ UNCHANGED <<long, ledgerVars>>

\* The process disappears: what was started dangles.
Kill ==
  /\ ~Idle
  /\ faults < MaxFaults /\ faults' = faults + 1
  /\ run' = Off
  /\ UNCHANGED <<events, long, launches, ledgerVars>>

(* ---- Specification ---------------------------------------------------- *)

Init ==
  /\ events = <<>> /\ run = Off /\ long = NobodyLong
  /\ faults = 0 /\ launches = 0
  /\ session = 0 /\ cash = Capital /\ shares = Flat /\ pending = NoDecision
  /\ equity = <<>> /\ fills = {} /\ skipped = {}

Operator ==
  \/ \E f \in DOMAIN Families, c \in DOMAIN DataChecks, reason \in BOOLEAN : Launch(f, c, reason)
  \/ \E f \in DOMAIN Families, c \in DOMAIN DataChecks : Resume(f, c)

Next ==
  \/ Operator \/ CloseDangling \/ AllDone \/ StartTrial
  \/ Evaluate \/ Complete \/ Record
  \/ (\E type \in {"errored", "abandoned"} : Raise(type)) \/ Unwind \/ Kill

Spec == Init /\ [][Next]_vars
------------------------------------------------------------------------------

\* The vendor's rows, the exclusions and the disputes agree through session s.
SameUntil(c, d, s) ==
  LET Then(check, x) == SelectSeq(RowsOf(check, x), LAMBDA r : r.on <= s)
      Past(days) == {u \in days : u <= s}
  IN \A x \in Tickers :
       /\ Then(c, x) = Then(d, x)
       /\ Past(DataChecks[c].excluded[x]) = Past(DataChecks[d].excluded[x])
       /\ Past(DataChecks[c].disputed[x]) = Past(DataChecks[d].disputed[x])

Twins == [c \in Built |-> [s \in Sessions |-> {d \in Built : SameUntil(c, d, s)}]]
DrawTable ==
  [c \in Built |->
     [of \in DOMAIN Rules |->
        [t \in Decisions(of) |->
           [chosen \in SUBSET Tickers |-> DrawnBook(of, chosen, Panels[c].close, t)]]]]
TrueToTheInvestor == {c \in Built : ReturnsAreTheInvestors(c)}

\* No configuration's weights, no draw's book (whichever tickers it is long in) and
\* no fill's cost know what comes after the session they are taken at: on every
\* panel whose past is this one's they are the same, though a later split or
\* dividend rescales all of it.
DecisionsKnowNoTomorrow ==
  (run.at = "evaluate" /\ session > 0) =>
    \A other \in Twins[run.check][session] :
      /\ \A config \in DOMAIN Rules :
           (session \in Decisions(config)) =>
             BookTable[run.check][config][session] = BookTable[other][config][session]
      /\ \A of \in Range(Families[run.family].candidates) :
           (session \in Decisions(of)) =>
             DrawTable[run.check][of][session] = DrawTable[other][of][session]
      /\ \A x \in Tickers : session \in CostTable[run.check][x] <=> session \in CostTable[other][x]

\* The total-return panel a program runs on returns what an investor made.
PanelReturnsTheInvestors == ~Idle => run.check \in TrueToTheInvestor

\* A session earns what the shares held into it and the fills at its open made,
\* less what the fills cost; nothing is sold short, buys never overdraw the
\* account, and all buys of an open are scaled down together, never one first.
Earned(close, s) ==
  LET Moved(x) == Mark(close, x, s) - (IF s = 1 THEN 0 ELSE Mark(close, x, s - 1))
  IN SumFunction([x \in Tickers |-> shares[x] * Moved(x)])
       + SumFunction([f \in fills' |-> f.quantity * (Mark(close, f.ticker, s) - f.price)])
       - Commission * Cardinality(fills')

NeverOverdrawn ==
  LET Shortfall(f) == pending.target[f.ticker] - shares[f.ticker] - f.quantity
      buys == {f \in fills' : f.quantity > 0}
      before == IF session = 0 THEN Capital ELSE equity[session]
  IN session' = session + 1 =>
       /\ equity'[session'] = before + Earned(Panels[run.check].close, session')
       /\ \A x \in Tickers : shares'[x] >= 0
       /\ buys # {} => cash' >= 0
       /\ \A f \in fills' : f.quantity < 0 => Shortfall(f) = 0
       /\ \A f, g \in buys : f # g /\ Shortfall(f) = 0 => Shortfall(g) = 0

NeverOverdraws == [][NeverOverdrawn]_vars

\* A program that ends has completed every series of its family on its panel; a
\* resumed one left nothing dangling and completed none twice; and a random
\* baseline stands on the panel its candidate was completed on.
FamilyIsWhole ==
  /\ run.at = "done" =>
       \A key \in Range(Series(run.family)) :
         \E i \in Completed(run.family, key) : events[i].check = run.check
  /\ (run.at = "done" /\ run.resumes) =>
       /\ Dangling(run.family) = {}
       /\ \A key \in Range(Series(run.family)) : Cardinality(Completed(run.family, key)) = 1
  /\ \A f \in DOMAIN Families : \A key \in Range(Pairs(f)) : \A i \in Completed(f, key) :
       Families[f].resumable =>
         \E j \in Completed(f, Key(key.of, "", 0)) : j < i /\ events[j].check = events[i].check
=============================================================================
