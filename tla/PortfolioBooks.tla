--------------------------- MODULE PortfolioBooks ---------------------------
(***************************************************************************)
(* What a configuration of the 058 family, or the buffered allocation,     *)
(* holds after each close, and the weights it is given.                    *)
(*                                                                         *)
(* Prices are those of a panel: close[x][s], 0 where there is none.        *)
(* Weights are parts of Whole, rounded down.  A volatility is the number   *)
(* of the last Span returns that moved: all names move together, so that a *)
(* book's volatility is the sum of its legs'.                              *)
(***************************************************************************)
EXTENDS ResearchPanel

CONSTANTS
  Month,        \* MONTH_SESSIONS
  MonthOf,      \* [session -> its calendar month]
  WeekOf,       \* [session -> its ISO week]
  Span,         \* VOL_SPAN
  Whole,
  Target,       \* TARGET_VOLATILITY
  Rules         \* [configuration -> [rule, sizing, cadence, n, k]]

\* The rules that select names, and how a selection is sized.
Selecting == {"momentum", "trend", "cross_momentum", "risk_parity", "dual_momentum", "reversal",
              "low_volatility", "allocation", "listed"}
Sizings == {"inverse_vol", "equal_legs", "equal", "buffered"}

\* A mix has no negative part, and no part of a blend is a blend or a mix.
ASSUME BookAssumption ==
  /\ Month \in Nat \ {0} /\ Span \in Nat \ {0} /\ Whole \in Nat \ {0} /\ Target \in Nat \ {0}
  /\ \A s \in Sessions \ {1} : MonthOf[s - 1] <= MonthOf[s] /\ WeekOf[s - 1] <= WeekOf[s]
  /\ \A config \in DOMAIN Rules :
       LET r == Rules[config] IN
         /\ r.rule \in Selecting \cup {"fixed", "blend"} /\ r.sizing \in Sizings
         /\ r.rule = "fixed" => r.mix \in [Tickers -> Nat]
         /\ r.rule = "blend" =>
              /\ Len(r.parts) \in Nat \ {0} /\ DOMAIN r.parts = 1..Len(r.parts)
              /\ \A i \in DOMAIN r.parts : Rules[r.parts[i]].rule \in Selecting

(* ---- decision_sessions ------------------------------------------------ *)

\* The first session of each month or week; whether the panel's first row
\* opens one is unknowable.
DecisionSessions(cadence) ==
  {s \in Sessions \ {1} : IF cadence = "weekly" THEN WeekOf[s] # WeekOf[s - 1]
                          ELSE MonthOf[s] # MonthOf[s - 1]}

(* ---- hypothesis_selection --------------------------------------------- *)

Listed(close, t) == {x \in Tickers : close[x][t] > 0}

Observed(close, x, t, n) == t >= n /\ \A s \in (t - n + 1)..t : close[x][s] > 0

\* Mutation: the later end of the return is shifted the wrong way.
RoseNext(close, x, t, start, end) ==
  t + end <= ResearchEnd /\ close[x][t + end] > close[x][t - start]

\* A past return, from start to end sessions before t, above zero.
Rose(close, x, t, start, end) == close[x][t - end] > close[x][t - start]

\* Above another's.
Beats(close, x, y, t, start, end) ==
  close[x][t - end] * close[y][t - start] > close[y][t - end] * close[x][t - start]

\* The pairs of names of which the first rose more.
Ranked(close, names, t, start, end) ==
  {p \in names \X names : Beats(close, p[1], p[2], t, start, end)}

ColumnOf(x) == CHOOSE i \in DOMAIN Columns : Columns[i] = x

\* The k best of the eligible, ties to the earlier column; none while fewer qualify.
TopK(eligible, k, better) ==
  LET Before(y, x) == <<y, x>> \in better \/ (<<x, y>> \notin better /\ ColumnOf(y) < ColumnOf(x))
  IN IF Cardinality(eligible) < k THEN {}
     ELSE {x \in eligible : Cardinality({y \in eligible \ {x} : Before(y, x)}) < k}

Momentum(close, t, months) ==
  LET lag == Month * months IN
    {x \in Tickers : Observed(close, x, t, lag + 1) /\ Rose(close, x, t, lag, Month)}

Trend(close, t, n) ==
  {x \in Tickers : /\ Observed(close, x, t, n)
                   /\ n * close[x][t] > SumFunctionOnSet(close[x], (t - n + 1)..t)}

CrossMomentum(close, t, months, k) ==
  LET lag == Month * months
      eligible == {x \in Tickers : Observed(close, x, t, lag + 1)}
  IN TopK(eligible, k, Ranked(close, eligible, t, lag, Month))

RiskParity(close, t, n) == {x \in Tickers : Observed(close, x, t, n + 1)}

\* The best of the others if it beats the safe asset, the last column, else that.
DualMomentum(close, t, months) ==
  LET lag == Month * months
      safe == Columns[Len(Columns)]
      eligible == {x \in Tickers : Observed(close, x, t, lag + 1)}
      winner == TopK(eligible \ {safe}, 1, Ranked(close, eligible, t, lag, 0))
  IN IF safe \notin eligible THEN {}
     ELSE IF \E x \in winner : Beats(close, x, safe, t, lag, 0) THEN winner ELSE {safe}

\* The k names that fell the most.
Reversal(close, t, n, k) ==
  LET eligible == {x \in Tickers : Observed(close, x, t, n + 1)}
      fellMore == {p \in eligible \X eligible : Beats(close, p[2], p[1], t, n, 0)}
  IN TopK(eligible, k, fellMore)

(* ---- Volatility ------------------------------------------------------- *)

ReturnsUntil(close, x, t) == {s \in 2..t : close[x][s] > 0 /\ close[x][s - 1] > 0}
Unknown == -1
Volatility(close, x, t) ==
  LET returns == ReturnsUntil(close, x, t)
      latest == {s \in returns : Cardinality({u \in returns : u > s}) < Span}
  IN IF Cardinality(returns) < Span THEN Unknown
     ELSE Cardinality({s \in latest : close[x][s] # close[x][s - 1]})

\* Every pair of legs has a full window of coinciding returns.
CovarianceKnown(close, legs, t) ==
  \A x, y \in legs : Cardinality(ReturnsUntil(close, x, t) \cap ReturnsUntil(close, y, t)) >= Span

LowVolatility(close, t, k) ==
  LET eligible == {x \in Tickers : Observed(close, x, t, Span + 1)}
      calmer == {p \in eligible \X eligible : Volatility(close, p[1], t) < Volatility(close, p[2], t)}
  IN TopK(eligible, k, calmer)

\* allocation_selection: a close now, and enough of them so far.
Seasoned(close, t) ==
  {x \in Listed(close, t) : Cardinality({s \in 1..t : close[x][s] > 0}) > Span}

Selection(config, close, t) ==
  LET r == Rules[config]
  IN CASE r.rule = "momentum"       -> Momentum(close, t, r.n)
       [] r.rule = "trend"          -> Trend(close, t, r.n)
       [] r.rule = "cross_momentum" -> CrossMomentum(close, t, r.n, r.k)
       [] r.rule = "risk_parity"    -> RiskParity(close, t, r.n)
       [] r.rule = "dual_momentum"  -> DualMomentum(close, t, r.n)
       [] r.rule = "reversal"       -> Reversal(close, t, r.n, r.k)
       [] r.rule = "low_volatility" -> LowVolatility(close, t, r.k)
       [] r.rule = "allocation"     -> Seasoned(close, t)
       [] r.rule = "listed"         -> Listed(close, t)

(* ---- Sizing ----------------------------------------------------------- *)

Flat == [x \in Tickers |-> 0]
Gross(weights) == SumFunction(weights)

GrossCap(weights, cap) ==
  LET gross == Gross(weights) IN
    IF gross > cap THEN [x \in Tickers |-> (weights[x] * cap) \div gross] ELSE weights

\* Inverse-volatility legs, the portfolio scaled to the target; flat when a
\* correlation would have to be guessed.
VolatilityTarget(selection, close, t) ==
  LET legs == {x \in selection : Volatility(close, x, t) > 0}
      k == Cardinality(legs)
      Leg(x) == (Whole * Target) \div (k * Volatility(close, x, t))
  IN IF legs = {} \/ ~CovarianceKnown(close, legs, t) THEN Flat
     ELSE GrossCap([x \in Tickers |-> IF x \in legs THEN Leg(x) ELSE 0], Whole)

\* Equal legs, only ever scaled down to the target.
EqualLegs(selection, close, t) ==
  LET k == Cardinality(selection)
      risk == SumFunction([x \in selection |-> Volatility(close, x, t)])
      leg == Min({Whole \div k, (Whole * Target) \div risk})
  IN IF selection = {} THEN Flat
     ELSE IF ~CovarianceKnown(close, selection, t) THEN Flat
     ELSE IF risk = 0 THEN Flat
     ELSE GrossCap([x \in Tickers |-> IF x \in selection THEN leg ELSE 0], Whole)

EqualWeight(selection, cap) ==
  [x \in Tickers |-> IF x \in selection THEN cap \div Cardinality(selection) ELSE 0]

\* One mix, wherever every name of it has a close; never spread over the rest.
FixedAllocation(close, t, mix) ==
  IF \A x \in Tickers : mix[x] > 0 => close[x][t] > 0 THEN mix ELSE Flat

Blend(books) ==
  [x \in Tickers |-> SumFunction([i \in DOMAIN books |-> books[i][x]]) \div Len(books)]

(* ---- Books ------------------------------------------------------------ *)

Sized(sizing, selection, close, t) ==
  CASE sizing = "inverse_vol" -> VolatilityTarget(selection, close, t)
    [] sizing = "equal_legs"  -> EqualLegs(selection, close, t)
    [] sizing = "equal"       -> EqualWeight(selection, Whole)
    [] sizing = "buffered"    -> EqualWeight(selection, (93 * Whole) \div 100)

\* The weights after the close of t: of a selection, a mix or a blend of parts.
Weights(config, close, t) ==
  LET r == Rules[config]
  IN CASE r.rule = "fixed" -> FixedAllocation(close, t, r.mix)
       [] r.rule = "blend" ->
            Blend([i \in DOMAIN r.parts |-> Sized("inverse_vol", Selection(r.parts[i], close, t), close, t)])
       [] OTHER -> Sized(r.sizing, Selection(config, close, t), close, t)

Decisions(config) == DecisionSessions(Rules[config].cadence)
TargetBook(config, close) == [t \in Decisions(config) |-> Weights(config, close, t)]

(* ---- The random baseline ---------------------------------------------- *)

\* Held by the last decision and with a close.
CandidateHolds(config, close, t) ==
  LET past == {d \in Decisions(config) : d <= t} IN
    IF past = {} THEN {}
    ELSE {x \in Listed(close, t) : TargetBook(config, close)[Max(past)][x] > 0}

\* matched_activity: how often, between consecutive decisions, the candidate
\* enters and exits, and how often it holds: never, sometimes or always.
Rate(moved, base) ==
  IF moved = {} THEN "never" ELSE IF moved = base THEN "always" ELSE "sometimes"
MatchedActivity(config, close) ==
  LET days == Decisions(config)
      held == [d \in days |-> CandidateHolds(config, close, d)]
      pairs == {p \in days \X days \X Tickers :
                  /\ p[1] < p[2] /\ ~\E d \in days : p[1] < d /\ d < p[2]
                  /\ {close[p[3]][p[1]], close[p[3]][p[2]]} \cap {0} = {}}
      wereLong == {p \in pairs : p[3] \in held[p[1]]}
      eligible == {p \in days \X Tickers : close[p[2]][p[1]] > 0}
  IN [initial |-> Rate({p \in eligible : p[2] \in held[p[1]]}, eligible),
      exit    |-> Rate({p \in wereLong : p[3] \notin held[p[2]]}, wereLong),
      enter   |-> Rate({p \in pairs \ wereLong : p[3] \in held[p[2]]}, pairs \ wereLong)]

\* What one draw may do to a name that is long or flat.
Drawn(rate) == CASE rate = "never" -> {FALSE} [] rate = "always" -> {TRUE} [] OTHER -> BOOLEAN
NextLong(isLong, first, activity) ==
  IF first THEN Drawn(activity.initial)
  ELSE IF isLong THEN {~exits : exits \in Drawn(activity.exit)}
  ELSE Drawn(activity.enter)
=============================================================================
