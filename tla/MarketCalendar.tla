--------------------------- MODULE MarketCalendar ---------------------------
(***************************************************************************)
(* The exchange's calendar (scripts/data.py): holidays by rule, observed   *)
(* on a weekday, and the sessions between them.  A date is its ordinal,    *)
(* day 1 being the Monday 0001-01-01.                                      *)
(***************************************************************************)
EXTENDS Integers, Sequences, FiniteSets, FiniteSetsExt

CONSTANTS
  Years,        \* bound: the years whose sessions are asked for
  AdHocClosures \* the listed closures no rule gives

(* ---- Python's dates ---------------------------------------------------- *)

Leap(y) == y % 4 = 0 /\ (y % 100 # 0 \/ y % 400 = 0)
BeforeMonth == <<0, 31, 59, 90, 120, 151, 181, 212, 243, 273, 304, 334>>
Date(y, m, d) ==
  365 * (y - 1) + (y - 1) \div 4 - (y - 1) \div 100 + (y - 1) \div 400
    + BeforeMonth[m] + (IF m > 2 /\ Leap(y) THEN 1 ELSE 0) + d

Weekday(day) == (day - 1) % 7
Monday == 0
Thursday == 3
Saturday == 5
Sunday == 6

(* ---- Holidays ---------------------------------------------------------- *)

\* Anonymous Gregorian algorithm.
Easter(y) ==
  LET a == y % 19
      b == y \div 100
      c == y % 100
      g == (8 * b + 13) \div 25
      h == (19 * a + b - b \div 4 - g + 15) % 30
      m == (a + 11 * h) \div 319
      r == (2 * (b % 4) + 2 * (c \div 4) - (c % 4) - h + m + 32) % 7
      month == (h - m + r + 90) \div 25
  IN Date(y, month, (h - m + r + month + 19) % 32)

NthWeekday(y, month, weekday, n) ==
  Date(y, month, 1) + ((weekday - Weekday(Date(y, month, 1))) % 7) + 7 * (n - 1)

LastWeekday(y, month, weekday) ==
  LET last == Date(y + (month \div 12), (month % 12) + 1, 1) - 1
  IN last - ((Weekday(last) - weekday) % 7)

Observed(day) ==
  IF Weekday(day) = Saturday THEN day - 1 ELSE IF Weekday(day) = Sunday THEN day + 1 ELSE day

JuneteenthFirstYear == 2022

\* New Year's Day is not observed on the Friday before.
MarketHolidays(y) ==
  {NthWeekday(y, 1, Monday, 3), NthWeekday(y, 2, Monday, 3), Easter(y) - 2,
   LastWeekday(y, 5, Monday), Observed(Date(y, 7, 4)), NthWeekday(y, 9, Monday, 1),
   NthWeekday(y, 11, Thursday, 4), Observed(Date(y, 12, 25))}
    \cup (IF y >= JuneteenthFirstYear THEN {Observed(Date(y, 6, 19))} ELSE {})
    \cup (IF Weekday(Date(y, 1, 1)) # Saturday THEN {Observed(Date(y, 1, 1))} ELSE {})
    \cup {day \in AdHocClosures : Date(y, 1, 1) <= day /\ day < Date(y + 1, 1, 1)}

(* ---- Sessions ---------------------------------------------------------- *)

Holidays == UNION {MarketHolidays(y) : y \in Years}

TradingDays(from, to) == {day \in from..to : Weekday(day) < Saturday /\ day \notin Holidays}

\* The window always holds enough sessions, though the code would widen it.
NthSessionAfter(day, n) ==
  LET following == TradingDays(day + 1, day + 2 * n + 14)
  IN CHOOSE d \in following : Cardinality({e \in following : e <= d}) = n
------------------------------------------------------------------------------

\* The computus of the tables: the paschal full moon by golden number (valid
\* 1900 to 2199), and the Sunday after it.
PaschalMoon(y) ==
  LET h == (19 * (y % 19) + 24) % 30
  IN Date(y, 3, 21) + (IF h = 29 \/ (h = 28 /\ y % 19 > 10) THEN h - 1 ELSE h)

\* _easter, its arithmetic taken apart from the astronomy, is the Sunday after the moon.
EasterFollowsTheMoon(y) ==
  /\ Weekday(Easter(y)) = Sunday
  /\ PaschalMoon(y) < Easter(y) /\ Easter(y) <= PaschalMoon(y) + 7

\* Every holiday closes a weekday of its own year, no two of them the same one,
\* and the market never rests for more than two weekdays in a row (market_holidays).
HolidaysAreWeekdays(y) ==
  LET days == MarketHolidays(y) IN
    /\ \A day \in days : Weekday(day) < Saturday /\ Date(y, 1, 1) - 2 < day /\ day < Date(y + 1, 1, 1)
    /\ Cardinality(days) >= 8
    /\ \A day \in days : ~({day + 1, day + 2} \subseteq days \/ {day - 1, day + 1} \subseteq days)
=============================================================================
