--------------------------- MODULE MC_FundedStudy ---------------------------
(* Small instances of FundedStudy for TLC: five sessions over a new year whose
   holiday is not observed, or over a Good Friday.                          *)
EXTENDS FundedStudy

NewYear == <<Date(2021, 12, 30), Date(2021, 12, 31), Date(2022, 1, 3), Date(2022, 1, 4), Date(2022, 1, 5)>>
Spring  == <<Date(2022, 4, 13), Date(2022, 4, 14), Date(2022, 4, 18), Date(2022, 4, 19), Date(2022, 4, 20)>>

Larger(a, b) == IF a > b THEN a ELSE b
Bars(days, quotes) ==
  [i \in DOMAIN days |->
     [day |-> days[i], open |-> quotes[i][1], close |-> quotes[i][2],
      high |-> Larger(quotes[i][1], quotes[i][2]),
      low |-> quotes[i][1] + quotes[i][2] - Larger(quotes[i][1], quotes[i][2])]]

FlatQuotes  == <<<<40, 40>>, <<40, 30>>, <<30, 20>>, <<20, 30>>, <<20, 20>>>>
SplitQuotes == <<<<40, 40>>, <<40, 40>>, <<20, 10>>, <<20, 20>>, <<10, 10>>>>
CrashQuotes == <<<<40, 40>>, <<40, 10>>, <<20, 20>>, <<10, 10>>, <<10, 10>>>>

\* What yfinance answers: bars with the dividend and the split of their row.
History(days, quotes, split, dividends) ==
  LET bars == Bars(days, quotes) IN
    [i \in DOMAIN bars |->
       [day |-> bars[i].day, open |-> bars[i].open, high |-> bars[i].high, low |-> bars[i].low,
        close |-> bars[i].close,
        split |-> IF i = 3 THEN split ELSE Zero,
        dividend |-> <<IF i \in DOMAIN dividends THEN dividends[i] ELSE 0, 1>>]]

MCHistories ==
  [eventful |-> History(NewYear, SplitQuotes, <<2, 1>>, <<0, 0, 10, 20>>),
   \* Bars already adjusted for the split they report.
   smoothed |-> History(NewYear, FlatQuotes, <<2, 1>>, <<0, 0, 10>>),
   \* Easter Monday is a session, Good Friday is none.
   goodFriday |-> History([Spring EXCEPT ![2] = Date(2022, 4, 15)], FlatQuotes, Zero, <<>>)]

Dividend(day, v, pay) == Action("dividend", day, <<v, 1>>, pay, "sourced")
Split(day, ratio) == Action("split", day, ratio, NoDate, "none")
Snapshot(days, quotes, actions, policy) ==
  [prices |-> Bars(days, quotes), actions |-> actions, policy |-> policy]

Quiet == <<Dividend(NewYear[3], 10, NewYear[5]), Dividend(NewYear[4], 10, NewYear[4])>>
LateBound == <<Split(NewYear[3], <<2, 1>>),
               Action("dividend", NewYear[3], <<10, 1>>, NoDate, "bound"),
               Action("dividend", NewYear[4], <<20, 1>>, NoDate, "bound")>>

MCVendors ==
  [quiet   |-> Snapshot(NewYear, FlatQuotes, Quiet, Sourced),
   bounded |-> Snapshot(NewYear, SplitQuotes, LateBound, BoundSessions(1)),
   reverse |-> Snapshot(Spring, CrashQuotes, <<Split(Spring[3], <<1, 2>>)>>, Sourced),
   \* Refused: a quarter declared where the price doubles, a session without its
   \* row, a split on the first row, payment before the ex-date, on a day
   \* without a session, for a bound dividend under a strict policy, twice.
   tooFew  |-> Snapshot(Spring, CrashQuotes, <<Split(Spring[3], <<1, 4>>)>>, Sourced),
   gap     |-> Snapshot(Remove(NewYear, NewYear[3]), Remove(FlatQuotes, <<30, 20>>), <<>>, Sourced),
   first   |-> Snapshot(NewYear, FlatQuotes, <<Split(NewYear[1], <<1, 1>>)>>, Sourced),
   early   |-> Snapshot(NewYear, FlatQuotes, <<Dividend(NewYear[3], 10, NewYear[2])>>, Sourced),
   closed  |-> Snapshot(Spring, FlatQuotes, <<Dividend(Spring[1], 10, Date(2022, 4, 15))>>, Sourced),
   strict  |-> Snapshot(NewYear, SplitQuotes, LateBound, Sourced),
   twice   |-> Snapshot(NewYear, FlatQuotes, Quiet \o <<Dividend(NewYear[3], 5, NewYear[3])>>, Sourced),
   uncited |-> Snapshot(NewYear, FlatQuotes, <<>>, [BoundSessions(2) EXCEPT !.cited = FALSE])]

\* The validation lets through these and no others; were it to let "tooFew" through,
\* SplitsKeepWorth would fail.
ASSUME Publishable \ {"tooFew"} = {"eventful", "quiet", "bounded", "reverse"}

\* The report of missing bars agrees with the validation that refuses them.
ASSUME MissingBars(MCVendors.gap.prices) = {NewYear[3]}
ASSUME \A v \in DOMAIN MCVendors : ValidPrices(MCVendors[v].prices) => MissingBars(MCVendors[v].prices) = {}

\* The calendar against its own references, and against known dates.
ASSUME \A y \in 1970..2120 : EasterFollowsTheMoon(y) /\ HolidaysAreWeekdays(y)
ASSUME Date(2026, 10, 7) = 739896
ASSUME NthSessionAfter(Date(2021, 12, 30), 1) = Date(2021, 12, 31)
ASSUME NthSessionAfter(Date(2022, 4, 14), 1) = Date(2022, 4, 18)
ASSUME Cardinality(TradingDays(Date(2021, 1, 1), Date(2021, 12, 31))) = 252

MCYears == 2021..2022
=============================================================================
