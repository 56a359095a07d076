---------------------------- MODULE MC_FamilyRun ----------------------------
(***************************************************************************)
(* Two tickers over six sessions, S the safe asset.  The data checks share *)
(* a past and part at session 4 or 5: prices that move on, a split with a  *)
(* dividend, an action on an excluded session, the same action disputed, a *)
(* late listing with sealed rows, and an impossible dividend.              *)
(***************************************************************************)
EXTENDS FamilyRun

MCColumns == <<"A", "S">>

Row(on, open, close) == [on |-> on, open |-> open, close |-> close, dividend |-> 0, split |-> 1]
Rows(closes) == [i \in DOMAIN closes |-> Row(i, IF i = 1 THEN closes[1] ELSE closes[i - 1], closes[i])]

RisingA == Rows(<<64, 128, 128, 256, 128, 256>>)
FallingA == Rows(<<64, 128, 128, 64, 64, 32>>)
SteadyS == Rows(<<128, 128, 256, 256, 256, 128>>)
RisingS == Rows(<<128, 128, 256, 256, 512, 512>>)

\* A splits two for one and pays a dividend as session "on" opens.
Split(rows, on) ==
  [i \in DOMAIN rows |->
     IF i < on THEN rows[i]
     ELSE [rows[i] EXCEPT !.open = @ \div 2, !.close = @ \div 2,
                          !.split = IF i = on THEN 2 ELSE 1,
                          !.dividend = IF i = on THEN rows[on - 1].close \div 4 ELSE 0]]

\* A dividend above the close before it.
Overpaid(rows, on) ==
  [i \in DOMAIN rows |->
     IF i = on THEN [rows[i] EXCEPT !.dividend = 2 * rows[on - 1].close] ELSE rows[i]]

Check(a, s, excluded, disputed) ==
  [rows |-> [x \in {"A", "S"} |-> IF x = "A" THEN a ELSE s],
   excluded |-> [x \in {"A", "S"} |-> IF x = "A" THEN excluded ELSE {}],
   disputed |-> [x \in {"A", "S"} |-> IF x = "A" THEN disputed ELSE {}]]

MCDataChecks ==
  [plain    |-> Check(RisingA, SteadyS, {}, {}),
   moved    |-> Check(FallingA, RisingS, {}, {}),
   split    |-> Check(Split(RisingA, 5), SteadyS, {}, {}),
   excluded |-> Check(Split(RisingA, 5), SteadyS, {5}, {}),
   disputed |-> Check(Split(RisingA, 5), SteadyS, {5}, {5}),
   late     |-> Check(RisingA, SubSeq(RisingS, 3, 6) \o <<Row(7, 512, 64)>>, {}, {}),
   wrong    |-> Check(Overpaid(RisingA, 5), SteadyS, {}, {})]

Monthly(rule, sizing, n, k) ==
  [rule |-> rule, sizing |-> sizing, cadence |-> "monthly", n |-> n, k |-> k]

MCRules ==
  [H1 |-> Monthly("momentum", "inverse_vol", 2, 0),
   H2 |-> Monthly("trend", "inverse_vol", 3, 0),
   H3 |-> Monthly("cross_momentum", "inverse_vol", 2, 1),
   H4 |-> Monthly("risk_parity", "inverse_vol", 2, 0),
   H6 |-> Monthly("dual_momentum", "equal_legs", 2, 0),
   H7 |-> Monthly("low_volatility", "equal_legs", 0, 1),
   H8 |-> [Monthly("reversal", "equal_legs", 1, 1) EXCEPT !.cadence = "weekly"],
   H9 |-> [rule |-> "blend", sizing |-> "inverse_vol", cadence |-> "monthly", parts |-> <<"H1", "H2">>],
   H10 |-> [rule |-> "fixed", sizing |-> "equal", cadence |-> "monthly",
            mix |-> [x \in {"A", "S"} |-> IF x = "A" THEN 60 ELSE 40]],
   A1 |-> Monthly("allocation", "inverse_vol", 0, 0),
   B7 |-> Monthly("listed", "buffered", 0, 0)] @@ ("B-BH" :> Monthly("listed", "equal", 0, 0))

Program(candidates, activity, together, heldBack, resumable) ==
  [candidates |-> candidates, activity |-> activity, together |-> together,
   heldBack |-> heldBack, resumable |-> resumable]

MCFamilies ==
  ("058" :> Program(<<"H8", "H10">>, "matched", FALSE, FALSE, TRUE))
  @@ ("059" :> Program(<<"A1">>, "coin", TRUE, TRUE, FALSE))
  @@ ("061" :> Program(<<"B7">>, "coin", TRUE, FALSE, FALSE))

MCSeeds == <<1>>
MCMonthOf == <<1, 1, 2, 2, 3, 3>>
MCWeekOf == <<1, 1, 2, 3, 3, 4>>
MCOos == <<FALSE, FALSE, FALSE, TRUE, TRUE, TRUE>>
=============================================================================
