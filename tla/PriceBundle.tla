----------------------------- MODULE PriceBundle -----------------------------
(***************************************************************************)
(* What a bundle of nominal prices and corporate actions must be before it *)
(* is written, and again when it is read (scripts/data.py): the checks on  *)
(* prices, actions, pay dates and split discontinuities; the yfinance      *)
(* adapter that makes a snapshot; the merge that turns the two files into  *)
(* the frame the funded ledger walks.                                      *)
(*                                                                         *)
(* A value is a ratio <<numerator, denominator>>: a split's new shares per *)
(* old share, a dividend's dollars per share.  Volume, schemas and labels  *)
(* of type are left out.                                                   *)
(***************************************************************************)
EXTENDS MarketCalendar, SequencesExt

CONSTANTS
  DeclaredLag,  \* DIVIDEND_PAY_DATE_DECLARED_LAG_SESSIONS
  LagCited      \* whether DIVIDEND_PAY_DATE_BOUND_SOURCE cites a source

NoDate == 0
NoLag  == -1                      \* the lag is not declared
UnboundedPayDate == 9999999       \* after every session
NoSplit == <<1, 1>>
Zero == <<0, 1>>

Only(set, default) == IF set = {} THEN default ELSE CHOOSE x \in set : TRUE

(* ---- Validation -------------------------------------------------------- *)

Days(prices) == {prices[i].day : i \in DOMAIN prices}
Ascending(days) == \A i, j \in DOMAIN days : i < j => days[i] < days[j]

ValidBar(b) ==
  /\ b.open > 0 /\ b.high > 0 /\ b.low > 0 /\ b.close > 0
  /\ b.high >= b.open /\ b.high >= b.close /\ b.high >= b.low
  /\ b.low <= b.open /\ b.low <= b.close

\* Every session between the first row and the last has its row, and no other day.
ValidPrices(prices) ==
  /\ prices /= <<>>
  /\ \A i \in DOMAIN prices : ValidBar(prices[i])
  /\ Ascending([i \in DOMAIN prices |-> prices[i].day])
  /\ Days(prices) = TradingDays(prices[1].day, prices[Len(prices)].day)

\* find_missing_bars reports, on any frame: the sessions between a ticker's own first
\* and last bar that have none.
MissingBars(prices) ==
  IF prices = <<>> THEN {} ELSE TradingDays(Min(Days(prices)), Max(Days(prices))) \ Days(prices)

Sourced == [kind |-> "sourced", lag |-> NoLag, cited |-> FALSE]
Unbounded == [Sourced EXCEPT !.kind = "unbounded"]
BoundSessions(n) == [kind |-> "bound_sessions", lag |-> n, cited |-> TRUE]

ValidPolicy(policy) ==
  \/ policy.kind \in {"sourced", "unbounded"} /\ ~policy.cited
  \/ policy.kind = "bound_sessions" /\ policy.lag >= 1 /\ policy.cited

ValidPayDate(a, policy) ==
  CASE a.kind = "split" -> a.basis = "none" /\ a.pay = NoDate
    [] a.kind = "dividend" /\ a.basis = "bound" -> a.pay = NoDate /\ policy.kind /= "sourced"
    [] a.kind = "dividend" /\ a.basis = "sourced" -> a.pay >= a.day /\ TradingDays(a.pay, a.pay) = {a.pay}
    [] OTHER -> FALSE

ValidActions(actions, prices, policy) ==
  /\ \A i, j \in DOMAIN actions :
       actions[i].day = actions[j].day /\ actions[i].kind = actions[j].kind => i = j
  /\ \A i \in DOMAIN actions :
       /\ actions[i].value[1] > 0
       /\ actions[i].day \in Days(prices)
       /\ ValidPayDate(actions[i], policy)

\* Mutation: the tolerance is taken on the ratio, not relative to the declared one.
ReconcilesAbsolutely(split, before, after) ==
  LET observed == before.close * split.value[2]
      declared == after.open * split.value[1]
  IN 4 * (IF observed > declared THEN observed - declared ELSE declared - observed)
       <= after.open * split.value[2]

\* The nominal discontinuity matches the declared ratio to a quarter of it.
Reconciles(split, before, after) ==
  LET observed == before.close * split.value[2]
      declared == after.open * split.value[1]
  IN 4 * (IF observed > declared THEN observed - declared ELSE declared - observed) <= declared

SplitsReconcile(actions, prices) ==
  \A k \in DOMAIN actions, i \in DOMAIN prices :
    actions[k].kind = "split" /\ prices[i].day = actions[k].day =>
      i > 1 /\ Reconciles(actions[k], prices[i - 1], prices[i])

Sound(s) ==
  /\ ValidPolicy(s.policy)
  /\ ValidPrices(s.prices)
  /\ ValidActions(s.actions, s.prices, s.policy)
  /\ SplitsReconcile(s.actions, s.prices)

(* ---- YFinanceUnadjustedAdapter.fetch ------------------------------------ *)

\* No snapshot at all comes from a declaration that is not valid.
LagIsValid == DeclaredLag = NoLag \/ (DeclaredLag >= 1 /\ LagCited)
DeclaredPolicy == IF DeclaredLag = NoLag THEN Unbounded ELSE BoundSessions(DeclaredLag)

Action(kind, day, value, pay, basis) ==
  [kind |-> kind, day |-> day, value |-> value, pay |-> pay, basis |-> basis]

\* A row of the history carries its dividend and its split, none when zero; the
\* vendor knows no pay date.
ActionsOfRow(r) ==
  (IF r.split = Zero THEN <<>> ELSE <<Action("split", r.day, r.split, NoDate, "none")>>)
    \o (IF r.dividend = Zero THEN <<>> ELSE <<Action("dividend", r.day, r.dividend, NoDate, "bound")>>)

Adapted(history) ==
  [prices |-> [i \in DOMAIN history |->
                 [f \in {"day", "open", "high", "low", "close"} |-> history[i][f]]],
   actions |-> FlattenSeq([i \in DOMAIN history |-> ActionsOfRow(history[i])]),
   policy |-> DeclaredPolicy]

(* ---- _merge_actions_for_execution ---------------------------------------- *)

\* A bound pay date resolves late, by the policy the bundle was written under.
PayDate(a, policy) ==
  CASE a.basis = "sourced" -> a.pay
    [] policy.kind = "unbounded" -> UnboundedPayDate
    [] OTHER -> NthSessionAfter(a.day, policy.lag)

Merged(prices, actions, policy) ==
  [i \in DOMAIN prices |->
     LET of(kind) == {a \in Range(actions) : a.kind = kind /\ a.day = prices[i].day}
     IN [day |-> prices[i].day, open |-> prices[i].open, close |-> prices[i].close,
         split |-> Only({a.value : a \in of("split")}, NoSplit),
         dividend |-> Only({a.value[1] : a \in of("dividend")}, 0),
         pay |-> Only({PayDate(a, policy) : a \in of("dividend")}, NoDate)]]
=============================================================================
