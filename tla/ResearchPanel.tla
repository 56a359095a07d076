--------------------------- MODULE ResearchPanel ---------------------------
(***************************************************************************)
(* The research panel of the 058 family: load_058_panel builds it from the *)
(* vendor's raw rows and the data check that pins them, back_adjust turns  *)
(* raw prices into total-return ones, and the cost model says on which     *)
(* sessions a fill can be priced.                                          *)
(*                                                                         *)
(* Sessions are numbered; 0 is a missing price.  A data check is the       *)
(* identity of its panel: it pins the vendor's bodies by hash, and the     *)
(* sessions it excluded or found with an action the vendors dispute.       *)
(***************************************************************************)
EXTENDS Positions, Sequences, Functions, FiniteSetsExt

CONSTANTS
  DataChecks,   \* [name -> [rows: [ticker -> Seq(row)], excluded, disputed: [ticker -> set of sessions]]]
  Columns,      \* the tickers, in the panel's column order
  ResearchEnd,  \* RESEARCH_END: later sessions are sealed
  CostWindow    \* WINDOW of the cost model

Tickers == {Columns[i] : i \in DOMAIN Columns}
Sessions == 1..ResearchEnd

\* A row's prices are above zero; its action may be anything: Buildable refuses
\* what cannot be used.
ASSUME PanelAssumption ==
  /\ ResearchEnd \in Nat \ {0} /\ CostWindow \in Nat \ {0}
  /\ Len(Columns) \in Nat \ {0} /\ DOMAIN Columns = 1..Len(Columns)
  /\ \A c \in DOMAIN DataChecks : \A x \in Tickers :
       LET rows == DataChecks[c].rows[x] IN
         /\ rows \in Seq([on : Nat \ {0}, open : Nat \ {0}, close : Nat \ {0},
                         dividend : Int, split : Int])
         /\ \A i, j \in DOMAIN rows : i < j => rows[i].on < rows[j].on

\* Rows after the research end are dropped before any frame is built.
Research(rows) ==
  LET left == Sorted({i \in DOMAIN rows : rows[i].on <= ResearchEnd})
  IN [k \in DOMAIN left |-> rows[left[k]]]

RowsOf(c, x) == Research(DataChecks[c].rows[x])

(* ---- back_adjust ------------------------------------------------------ *)

Acts(r) == r.dividend # 0 \/ r.split # 1
Applied(c, x, e) ==
  /\ e > 1 /\ Acts(RowsOf(c, x)[e])
  /\ RowsOf(c, x)[e].on \notin DataChecks[c].disputed[x]

\* An applied action must leave something of the close before it, and what is
\* disputed must be excluded: otherwise the panel is refused.
Buildable(c) ==
  \A x \in Tickers :
    LET rows == RowsOf(c, x) IN
      /\ DataChecks[c].disputed[x] \subseteq DataChecks[c].excluded[x]
      /\ \A e \in DOMAIN rows : Applied(c, x, e) =>
           /\ rows[e].split > 0
           /\ 0 <= rows[e].dividend * rows[e].split /\ rows[e].dividend * rows[e].split < rows[e - 1].close

Built == {c \in DOMAIN DataChecks : Buildable(c)}

One == <<1, 1>>
Times(p, q) == <<p[1] * q[1], p[2] * q[2]>>

\* Mutation: the dividend is not scaled to the shares before the split.
FactorUnscaled(c, x, e) ==
  LET rows == RowsOf(c, x) IN
    IF Applied(c, x, e)
      THEN <<rows[e - 1].close - rows[e].dividend, rows[e - 1].close * rows[e].split>>
      ELSE One

Factor(c, x, e) ==
  LET rows == RowsOf(c, x) IN
    IF Applied(c, x, e)
      THEN <<rows[e - 1].close - rows[e].dividend * rows[e].split, rows[e - 1].close * rows[e].split>>
      ELSE One

Included(c, x) == {i \in DOMAIN RowsOf(c, x) : RowsOf(c, x)[i].on \notin DataChecks[c].excluded[x]}

Disputed(c, x, a, b) ==
  \E e \in (a + 1)..b : RowsOf(c, x)[e].on \in DataChecks[c].disputed[x]

\* Between two included rows: no return across a disputed action, otherwise
\* every action in between, those of excluded rows too.
Step(c, x, a, later) ==
  LET through[e \in a..later] == IF e = a THEN One ELSE Times(through[e - 1], Factor(c, x, e))
  IN IF Disputed(c, x, a, later) THEN <<RowsOf(c, x)[later].close, RowsOf(c, x)[a].close>>
     ELSE through[later]

NextOf(kept, a) == Min({b \in kept : b > a})

\* Anchored at the last included row.
Multiplier(c, x, kept) ==
  LET m[a \in kept] ==
        IF a = Max(kept) THEN One
        ELSE Times(m[NextOf(kept, a)], Step(c, x, a, NextOf(kept, a)))
  IN m

\* Nothing where a row is missing or excluded.
Frame(rows, kept, m, price) ==
  LET At(s) == {i \in kept : rows[i].on = s}
  IN [s \in Sessions |->
        IF At(s) = {} THEN 0
        ELSE LET i == Max(At(s)) IN (rows[i][price] * m[i][1]) \div m[i][2]]

Adjusted(c, x, price) ==
  Frame(RowsOf(c, x), Included(c, x), Multiplier(c, x, Included(c, x)), price)

\* opens and closes.
Panel(c) ==
  [open  |-> [x \in Tickers |-> Adjusted(c, x, "open")],
   close |-> [x \in Tickers |-> Adjusted(c, x, "close")]]

Panels == [c \in Built |-> Panel(c)]

(* ---- estimate_fill_cost ----------------------------------------------- *)

\* Priced from the raw rows through the decision: a full window of
\* consecutive sessions without a split after its first row, and a close to
\* convert the quantity with.
Priced(c, x, asOf) ==
  LET rows == RowsOf(c, x)
      past == {r \in {rows[i] : i \in DOMAIN rows} : asOf - CostWindow <= r.on /\ r.on <= asOf}
  IN /\ asOf > CostWindow
     /\ Cardinality(past) = CostWindow + 1
     /\ \A r \in past : r.on > asOf - CostWindow => r.split = 1
     /\ Panels[c].close[x][asOf] > 0

CostTable == [c \in Built |-> [x \in Tickers |-> {s \in Sessions : Priced(c, x, s)}]]
------------------------------------------------------------------------------
(***************************************************************************)
(* What an investor makes of the raw rows: one share held at the close of  *)
(* row a is split on each ex-date, and its dividend, paid on the new       *)
(* shares, buys more at what the split and the dividend leave of the       *)
(* close before.                                                           *)
(***************************************************************************)
\* Of one share, a fraction: split shares, and what their dividend buys.
Reinvested(c, x, e) ==
  LET rows == RowsOf(c, x)
      split == rows[e].split
      bought == rows[e].dividend * split * split
      price == rows[e - 1].close - rows[e].dividend * split
  IN <<split * price + bought, price>>

SharesHeld(c, x, a, b) ==
  LET held[e \in a..b] ==
        IF e = a THEN One
        ELSE IF Applied(c, x, e) THEN Times(held[e - 1], Reinvested(c, x, e))
        ELSE held[e - 1]
  IN held[b]

\* Between any two sessions of the panel an adjusted close returns what the
\* investor made, actions on sessions the data check excluded among it, and
\* across an action the vendors dispute it returns nothing for that gap.
Returned(rows, close, disputed, held, a, b) ==
  IF disputed THEN close[rows[a].on] = close[rows[b].on]
  ELSE close[rows[b].on] * rows[a].close * held[2] = close[rows[a].on] * rows[b].close * held[1]

ReturnsAreTheInvestors(c) ==
  \A x \in Tickers : \A a \in Included(c, x) \ {Max(Included(c, x))} :
    LET b == NextOf(Included(c, x), a)
    IN Returned(RowsOf(c, x), Panels[c].close[x], Disputed(c, x, a, b), SharesHeld(c, x, a, b), a, b)
=============================================================================
