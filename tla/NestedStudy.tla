----------------------------- MODULE NestedStudy -----------------------------
(***************************************************************************)
(* The walk-forward study of one instrument: walk_forward_splits yields    *)
(* purged and embargoed windows; nested_walk_forward tunes on inner splits *)
(* of each window's own training rows, fits and predicts the window; the   *)
(* predictions become next-open orders.                                    *)
(*                                                                         *)
(* A row is its position; its date is a day.  What a model computes is     *)
(* abstracted to what it has seen: the latest row whose prices reached it, *)
(* through features or through labels.                                     *)
(***************************************************************************)
EXTENDS Positions, Sequences, FiniteSetsExt

CONSTANTS
  Frames,       \* [days, blank, actions]: dates, rows without features, rows with a split or dividend
  Settings,     \* [purge, embargo, initial, test, innerInitial, innerTest, nested]
  Horizon,      \* label_horizon of build_target
  DaysPerMonth

LabelSpan == Horizon + 1   \* label_availability_span: the label of t reads the opens of t+1 and t+1+Horizon

ASSUME StudyAssumption ==
  /\ Horizon \in Nat \ {0} /\ DaysPerMonth \in Nat \ {0}
  /\ \A f \in Frames :
       /\ f.days \in Seq(Nat) \ {<<>>}   \* an empty frame yields no window
       /\ \A i, j \in DOMAIN f.days : i < j => f.days[i] < f.days[j]
       /\ f.blank \subseteq DOMAIN f.days /\ f.actions \subseteq DOMAIN f.days
  /\ \A s \in Settings :                \* "Window sizes must be positive numbers of months"
       /\ s.purge \in Nat /\ s.embargo \in Nat
       /\ s.initial \in Nat \ {0} /\ s.test \in Nat \ {0}

VARIABLES
  frame, setting,
  phase,        \* "start", "outer", "inner", "fit", "trade", "end", "refused", "raised"
  outer,        \* the outer walk: its next window and the gaps it keeps
  fold,         \* the outer window at work: raw training rows, and what the masks leave
  inner,        \* the inner walk over the raw training rows
  split,        \* the inner split scored last
  seen,         \* [row -> latest row its prediction depends on], 0 where nothing is predicted
  row,          \* session of the scan
  desired,      \* Desired_Long of the last two rows, and the latest row they depend on
  order,        \* what is asked of this row's open
  held

studyVars == <<frame, setting, phase, outer, fold, inner, split, seen, row, desired, order, held>>

Rows == DOMAIN frame.days

(* ---- walk_forward_splits ---------------------------------------------- *)

\* Its two loop variables: train_end and embargoed_ranges.
Walk(first, initial) == [bound |-> first + initial * DaysPerMonth, gaps |-> {}]
Tests(days, w, months) ==
  {i \in DOMAIN days : w.bound <= days[i] /\ days[i] < w.bound + months * DaysPerMonth}

\* Mutation: the last row whose label reaches into the window is kept.
PurgedOneShort(rows, start) == {i \in rows : setting.purge > 0 => i + setting.purge <= start}

Purged(rows, start) == {i \in rows : setting.purge > 0 => i + setting.purge < start}

Outside(rows, gaps) == {i \in rows : \A g \in gaps : i < g.from \/ i >= g.to}
Trains(days, w, tests) ==
  Outside(Purged({i \in DOMAIN days : days[i] < w.bound}, Min(tests)), w.gaps)
Gap(tests) == [from |-> Max(tests) + 1, to |-> Max(tests) + 1 + setting.embargo]

Advanced(w, tests, months) ==
  [bound |-> w.bound + months * DaysPerMonth, gaps |-> w.gaps \cup (IF tests = {} THEN {} ELSE {Gap(tests)})]

Walked(days, w) == w.bound > days[Len(days)]

(* ---- Which rows a model may use --------------------------------------- *)

\* The last rows have no exit open, and a label abstains across a corporate action.
LabelKnown(t) ==
  /\ t + LabelSpan \in Rows
  /\ \A offset \in 2..LabelSpan : t + offset \notin frame.actions
InferOk(t) == t \notin frame.blank
TrainOk(t) == InferOk(t) /\ LabelKnown(t)

(* ---- The study -------------------------------------------------------- *)

NoFold  == [raw |-> {}, train |-> {}, test |-> {}, tuned |-> FALSE]
NoSplit == [train |-> {}, test |-> {}]
NoOrder == [row |-> 1, side |-> "none", knows |-> 0]
NeverLong == [before |-> FALSE, last |-> FALSE, knows |-> 0]
Goto(next) == phase' = next /\ UNCHANGED <<frame, setting>>

\* model_row_masks; walk_forward_splits refuses an embargo shorter than the purge.
LongEnough == setting.purge >= LabelSpan /\ setting.embargo >= LabelSpan

BeginWalk ==
  /\ phase = "start"
  /\ IF LongEnough /\ setting.embargo >= setting.purge
       THEN Goto("outer") /\ outer' = Walk(frame.days[1], setting.initial)
       ELSE Goto("refused") /\ UNCHANGED outer
  /\ UNCHANGED <<fold, inner, split, seen, row, desired, order, held>>

\* The rows of the outer walk's next window; a window with nothing left to fit
\* or to predict is passed over, its gap kept.
OuterFold ==
  /\ phase = "outer" /\ ~Walked(frame.days, outer)
  /\ LET tests == Tests(frame.days, outer, setting.test)
         raw == IF tests = {} THEN {} ELSE Trains(frame.days, outer, tests)
         train == {t \in raw : TrainOk(t)}
         test == {t \in tests : InferOk(t)}
     IN /\ outer' = Advanced(outer, tests, setting.test)
        /\ IF train = {} \/ test = {}
             THEN UNCHANGED <<frame, setting, phase, fold, inner>>
             ELSE /\ fold' = [raw |-> raw, train |-> train, test |-> test, tuned |-> FALSE]
                  /\ Goto(IF setting.nested THEN "inner" ELSE "fit")
                  /\ inner' = IF setting.nested
                                THEN Walk(frame.days[Min(raw)], setting.innerInitial)
                                ELSE inner
        /\ split' = NoSplit
  /\ UNCHANGED <<seen, row, desired, order, held>>

\* inner_splits_over: the same walk over the training rows alone, as a frame of
\* their own; a split counts when the masks leave rows on both sides.
InnerFold ==
  /\ phase = "inner"
  /\ LET positions == Sorted(fold.raw)
         days == [k \in DOMAIN positions |-> frame.days[positions[k]]]
         tests == Tests(days, inner, setting.innerTest)
         Mapped(ks) == {positions[k] : k \in ks}
         train == {t \in Mapped(Trains(days, inner, tests)) : TrainOk(t)}
         validation == {t \in Mapped(tests) : TrainOk(t)}
     IN IF Walked(days, inner)
          THEN Goto("fit") /\ UNCHANGED <<fold, inner, split>>
          ELSE /\ inner' = Advanced(inner, tests, setting.innerTest)
               /\ IF tests = {} \/ train = {} \/ validation = {}
                    THEN UNCHANGED <<fold, split>>
                    ELSE /\ split' = [train |-> train, test |-> validation]
                         /\ fold' = [fold EXCEPT !.tuned = TRUE]
               /\ UNCHANGED <<frame, setting, phase>>
  /\ UNCHANGED <<outer, seen, row, desired, order, held>>

\* A prediction rests on its own row and on every label it was fitted or tuned on.
Fit ==
  /\ phase = "fit"
  /\ LET labels == IF fold.tuned THEN {t \in fold.raw : TrainOk(t)} ELSE fold.train IN
       seen' = [t \in Rows |-> IF t \in fold.test THEN Max({t} \cup {u + LabelSpan : u \in labels}) ELSE seen[t]]
  /\ Goto("outer")
  /\ UNCHANGED <<outer, fold, inner, split, row, desired, order, held>>

\* The walk is over; without one fold the study raises.
Conclude ==
  /\ phase = "outer" /\ Walked(frame.days, outer)
  /\ Goto(IF \A t \in Rows : seen[t] = 0 THEN "raised" ELSE "trade")
  /\ fold' = NoFold /\ inner' = outer /\ split' = NoSplit
  /\ UNCHANGED <<outer, seen, row, desired, order, held>>

(* ---- From predictions to orders --------------------------------------- *)

\* Strict entry above the hurdle, exit below the threshold, and no opinion is flat.
DesiredLong(forecast, long) ==
  CASE forecast = "none"  -> FALSE
    [] forecast = "enter" -> TRUE
    [] forecast = "hold"  -> long
    [] forecast = "exit"  -> FALSE

Transition(before, last) ==
  IF last /\ ~before THEN "buy" ELSE IF before /\ ~last THEN "sell" ELSE "none"
Scanned(forecast) ==
  [before |-> desired.last, last |-> DesiredLong(forecast, desired.last),
   knows |-> Max({desired.knows, seen[row]})]

\* Mutation: the transition is not shifted to the next open.
OrderUnshifted(forecast) ==
  LET d == Scanned(forecast) IN [row |-> row, side |-> Transition(d.before, d.last), knows |-> d.knows]

\* signal_from_positions: this open acts on the transition of the close before it.
Order(forecast) ==
  [row |-> row, side |-> Transition(desired.before, desired.last), knows |-> desired.knows]

Forecasts == IF seen[row] = 0 THEN {"none"} ELSE {"enter", "hold", "exit"}

ScanSession ==
  /\ phase = "trade" /\ row \in Rows
  /\ \E forecast \in Forecasts :
       /\ desired' = Scanned(forecast)
       /\ order' = Order(forecast)
       /\ held' = CASE order'.side = "buy" -> TRUE [] order'.side = "sell" -> FALSE [] OTHER -> held
  /\ row' = row + 1
  /\ Goto(IF row + 1 \in Rows THEN "trade" ELSE "end")
  /\ UNCHANGED <<outer, fold, inner, split, seen>>

StudyInit ==
  /\ frame \in Frames /\ setting \in Settings
  /\ phase = "start"
  /\ outer = [bound |-> 0, gaps |-> {}] /\ inner = outer
  /\ fold = NoFold /\ split = NoSplit
  /\ seen = [t \in Rows |-> 0]
  /\ row = 1 /\ desired = NeverLong /\ order = NoOrder /\ held = FALSE

StudyNext == BeginWalk \/ OuterFold \/ InnerFold \/ Fit \/ Conclude \/ ScanSession
StudySpec == StudyInit /\ [][StudyNext]_studyVars

(* ---- Properties ------------------------------------------------------- *)

\* No label a model is fitted on is still open when the rows it is judged on
\* begin: of an outer window and, on real positions although the purge counted
\* sub-frame positions, of an inner one; nor does any tuning label reach the
\* outer window (the purge of walk_forward_splits and inner_splits_over).
TrainingKnowsNoTest ==
  /\ fold.test /= {} => \A t \in fold.train \cup split.train \cup split.test : t + LabelSpan < Min(fold.test)
  /\ split.test /= {} => \A t \in split.train : t + LabelSpan < Min(split.test)

\* The windows of the frame, from the calendar alone.
Window(k) ==
  LET start == frame.days[1] + (setting.initial + k * setting.test) * DaysPerMonth IN
    {i \in Rows : start <= frame.days[i] /\ frame.days[i] < start + setting.test * DaysPerMonth}
Windows == {Window(k) : k \in 0..frame.days[Len(frame.days)]} \ {{}}
Gaps == UNION {(Max(w) + 1)..(Max(w) + setting.embargo) :
                 w \in {v \in Windows : Max(v) < Min(fold.test)}}

\* "only the gap stays excluded, permanently, for every subsequent fold", and
\* the test rows before it come back: what a fold trains on is every usable row
\* whose label is over before the window and which follows no earlier window
\* too closely (the docstring of walk_forward_splits).
TrainsOnAllThatIsLegal ==
  fold.test /= {} =>
    LET window == CHOOSE w \in Windows : fold.test \subseteq w IN
      fold.train = {t \in Rows : TrainOk(t) /\ t + setting.purge < Min(window)} \ Gaps

\* A fold trains on the rows that are legal, on all of them, and on no other.
TrainsOnTheLegalRows == TrainingKnowsNoTest /\ TrainsOnAllThatIsLegal

\* No order rests on a price after the close before its open: neither through
\* the scan, nor through a model fitted or tuned on labels that end later.
NoLookAhead == order.side /= "none" => order.knows < order.row

\* A position is held through an open only on a forecast made at the close
\* before it: the end of coverage, or a row without features, sells.
HeldOnForecast == (row > 2 /\ held) => seen[row - 2] /= 0

\* What reaches the market is the model's word, and in time.
OrdersRestOnForecasts == NoLookAhead /\ HeldOnForecast
=============================================================================
