---------------------------- MODULE FundedLedger ----------------------------
(***************************************************************************)
(* run_backtest: one instrument's funded account, walked session by        *)
(* session over already shifted orders; and the audit equity_curve makes   *)
(* of the recorded events, replayed here as each event is recorded.        *)
(*                                                                         *)
(* Money is whole units, a fill's adverse fraction a percentage.  Prices   *)
(* and quantities of an instance divide evenly.                            *)
(***************************************************************************)
EXTENDS Integers, Sequences, FiniteSets, SequencesExt

CONSTANTS
  Capital,      \* starting_capital
  Commission,   \* commission_per_trade
  Shares,       \* shares of an entry
  CostPct,      \* adverse fraction of a fill, in percent
  Liquidate     \* sell what is held at the last close

\* run_backtest refuses a capital that is not positive and shares below one.
ASSUME AccountAssumption ==
  Capital \in Nat \ {0} /\ Commission \in Nat /\ Shares \in Nat \ {0} /\ CostPct \in Nat

VARIABLES
  rows,         \* the frame: [day, open, close, split, dividend, pay], split <<new, old>>
  orders,       \* what each session's open is asked to do
  modeled,      \* with a cost_config: an order may find no estimate
  session,      \* row being processed
  step,         \* how far its open and close are
  account,      \* cash, quantity, entry, receivable, payments by the row that earned them
  trades,       \* the closed trades: rows and P&L
  audit         \* equity_curve's own account of the recorded events

ledgerVars == <<rows, orders, modeled, session, step, account, trades, audit>>

Flat == [row |-> 0, cost |-> 0, income |-> 0]
Opened == [cash |-> Capital, quantity |-> 0, entry |-> Flat, receivable |-> 0, payments |-> {}]
Replayed == [cash |-> Capital, quantity |-> 0, entry |-> Flat, receivable |-> 0, pending |-> {},
             trades |-> <<>>, agrees |-> TRUE]

LedgerInit ==
  /\ rows = <<>> /\ orders = <<>> /\ modeled = FALSE
  /\ session = 0 /\ step = "idle"
  /\ account = Opened /\ trades = <<>> /\ audit = Replayed

Row == rows[session]

\* What a frame must be to be walked (execution_price_frame asks the same of it).
Positive == Nat \ {0}
Frames ==
  Seq([day: Nat, open: Positive, close: Positive, split: Positive \X Positive, dividend: Nat, pay: Nat])
Executable(frame) ==
  /\ frame \in Frames /\ frame /= <<>>
  /\ \A i \in DOMAIN frame : frame[i].dividend > 0 => frame[i].pay >= frame[i].day
  /\ \A i, j \in DOMAIN frame : i < j => frame[i].day < frame[j].day

\* A new run over an executable frame and its orders.
Begin(frame, asked, withModel) ==
  /\ rows' = frame /\ orders' = asked /\ modeled' = withModel
  /\ session' = 1 /\ step' = "payment"
  /\ account' = Opened /\ trades' = <<>> /\ audit' = Replayed

Amounts(payments) == SumFunction([p \in payments |-> p.amount])
Due(payments)     == {p \in payments : p.date <= Row.day}
NotDue(payments)  == {p \in payments : p.date > Row.day}
Entitled(income)  == [row |-> session, date |-> Row.pay, amount |-> income]
Adverse(quote)    == (quote * CostPct) \div 100
Closed(entry, proceeds) ==
  [from |-> entry.row, to |-> session, pnl |-> proceeds - entry.cost + entry.income]

(* ---- The audit ------------------------------------------------------- *)

\* The auditor's account after an event, moved the way the frame says it should.
Moved(event) ==
  CASE event.kind = "buy" ->
         [audit EXCEPT !.cash = @ - event.cost,
                       !.entry = [row |-> session, cost |-> event.cost, income |-> 0]]
    [] event.kind = "sell" ->
         LET proceeds == audit.quantity * (event.quote - Adverse(event.quote)) - Commission IN
         [audit EXCEPT !.cash = @ + proceeds, !.trades = Append(@, Closed(audit.entry, proceeds))]
    [] event.kind = "dividend" ->
         [audit EXCEPT !.receivable = @ + event.action, !.entry.income = @ + event.action,
                       !.pending = @ \cup {Entitled(event.action)}]
    [] event.kind = "payment" ->
         [audit EXCEPT !.cash = @ + event.action, !.receivable = @ - event.action,
                       !.pending = NotDue(@)]
    [] OTHER -> audit

\* Whether the frame and the shares held explain the event.
Accepted(event, a) ==
  LET held == audit.quantity IN
    CASE event.kind = "buy"      -> held = 0 /\ a.quantity > 0
      [] event.kind = "sell"     -> held > 0 /\ a.quantity = 0
      [] event.kind = "split"    -> a.quantity * Row.split[2] = held * Row.split[1]
      [] event.kind = "dividend" -> a.quantity = held /\ event.action = held * Row.dividend
      [] event.kind = "payment"  -> a.quantity = held /\ event.action = Amounts(Due(audit.pending))
      [] OTHER                   -> a.quantity = held

\* The event is accepted and leaves the two accounts agreed, or the audit refuses the run.
Audited(event, a) ==
  LET next == Moved(event) IN
    [next EXCEPT !.quantity = a.quantity,
                 !.agrees = /\ @ /\ Accepted(event, a) /\ a.cash >= 0
                            /\ next.cash = a.cash
                            /\ next.receivable = a.receivable /\ a.receivable >= 0]

\* record: the event with the account it left.
Record(event, a) ==
  /\ account' = a
  /\ audit' = Audited(event, a)
Nothing == UNCHANGED <<account, audit>>
Goto(next) == step' = next /\ UNCHANGED <<rows, orders, modeled, session>>

\* The closed trades of the log are the ones the audit found in the events.
LogMatches == audit.trades = trades

(* ---- The open -------------------------------------------------------- *)

PayDue ==
  /\ step = "payment"
  /\ LET due == Amounts(Due(account.payments)) IN
       IF due = 0
         THEN Nothing
         ELSE Record([kind |-> "payment", action |-> due],
                     [account EXCEPT !.cash = @ + due, !.receivable = @ - due,
                                     !.payments = NotDue(@)])
  /\ Goto("split") /\ UNCHANGED trades

ApplySplit ==
  /\ step = "split"
  /\ IF account.quantity = 0 \/ Row.split = <<1, 1>>
       THEN Nothing
       ELSE Record([kind |-> "split"],
                   [account EXCEPT !.quantity = (@ * Row.split[1]) \div Row.split[2]])
  /\ Goto("dividend") /\ UNCHANGED trades

\* Mutation: the income never reaches the position's record.
EarnDividendAside ==
  /\ step = "dividend"
  /\ LET income == account.quantity * Row.dividend IN
       IF income = 0
         THEN Nothing
         ELSE Record([kind |-> "dividend", action |-> income],
                     [account EXCEPT !.receivable = @ + income,
                                     !.payments = @ \cup {Entitled(income)}])
  /\ Goto("sameDay") /\ UNCHANGED trades

\* The entitlement is of the shares after the split; it is income now and cash at its date.
EarnDividend ==
  /\ step = "dividend"
  /\ LET income == account.quantity * Row.dividend IN
       IF income = 0
         THEN Nothing
         ELSE Record([kind |-> "dividend", action |-> income],
                     [account EXCEPT !.entry.income = @ + income, !.receivable = @ + income,
                                     !.payments = @ \cup {Entitled(income)}])
  /\ Goto("sameDay") /\ UNCHANGED trades

\* A dividend paid on its ex-date is paid in a second event of the same open.
PaySameDay ==
  /\ step = "sameDay"
  /\ LET income == account.quantity * Row.dividend IN
       IF income = 0 \/ Row.pay /= Row.day
         THEN Nothing
         ELSE Record([kind |-> "payment", action |-> income],
                     [account EXCEPT !.cash = @ + income, !.receivable = @ - income,
                                     !.payments = @ \ {Entitled(income)}])
  /\ Goto("order") /\ UNCHANGED trades

\* Without an estimate an order is refused, never filled for free: none exists
\* before the first session or across a split; otherwise the bars decide.
MustRefuse == modeled /\ (session = 1 \/ Row.split /= <<1, 1>>)

Sell(quote, next) ==
  LET proceeds == account.quantity * (quote - Adverse(quote)) - Commission IN
    IF account.cash + proceeds < 0
      THEN Goto("raised") /\ Nothing /\ UNCHANGED trades
      ELSE /\ Record([kind |-> "sell", quote |-> quote],
                     [account EXCEPT !.cash = @ + proceeds, !.quantity = 0, !.entry = Flat])
           /\ trades' = Append(trades, Closed(account.entry, proceeds))
           /\ Goto(next)

Refuse(next) ==
  /\ Record([kind |-> "cost_refused"], account)
  /\ Goto(next) /\ UNCHANGED trades

SellAtOpen ==
  /\ step = "order" /\ orders[session] = "sell" /\ account.quantity > 0
  /\ \/ ~MustRefuse /\ Sell(Row.open, "mark")
     \/ modeled /\ Refuse("mark")

\* Mutation: buying power counts what is receivable.
BuyOnReceivable ==
  /\ step = "order" /\ orders[session] = "buy" /\ account.quantity = 0
  /\ LET required == Shares * (Row.open + Adverse(Row.open)) + Commission IN
       \/ /\ ~MustRefuse
          /\ IF required > account.cash + account.receivable
               THEN Record([kind |-> "rejected"], account)
               ELSE Record([kind |-> "buy", cost |-> required],
                           [account EXCEPT !.cash = @ - required, !.quantity = Shares,
                                           !.entry = [row |-> session, cost |-> required, income |-> 0]])
          /\ Goto("mark") /\ UNCHANGED trades
       \/ modeled /\ Refuse("mark")

\* An entry the cash cannot pay is rejected, never resized.
BuyAtOpen ==
  /\ step = "order" /\ orders[session] = "buy" /\ account.quantity = 0
  /\ LET required == Shares * (Row.open + Adverse(Row.open)) + Commission IN
       \/ /\ ~MustRefuse
          /\ IF required > account.cash
               THEN Record([kind |-> "rejected"], account)
               ELSE Record([kind |-> "buy", cost |-> required],
                           [account EXCEPT !.cash = @ - required, !.quantity = Shares,
                                           !.entry = [row |-> session, cost |-> required, income |-> 0]])
          /\ Goto("mark") /\ UNCHANGED trades
       \/ modeled /\ Refuse("mark")

NoOrder ==
  /\ step = "order"
  /\ \/ orders[session] = "none"
     \/ orders[session] = "sell" /\ account.quantity = 0
     \/ orders[session] = "buy" /\ account.quantity > 0
  /\ Nothing /\ Goto("mark") /\ UNCHANGED trades

(* ---- The close ------------------------------------------------------- *)

Mark ==
  /\ step = "mark"
  /\ Record([kind |-> "mark"], account)
  /\ IF session < Len(rows)
       THEN session' = session + 1 /\ step' = "payment"
       ELSE step' = "end" /\ UNCHANGED session
  /\ UNCHANGED <<rows, orders, modeled, trades>>

LiquidateAtEnd ==
  /\ step = "end"
  /\ \/ (account.quantity = 0 \/ ~Liquidate) /\ Goto("done") /\ Nothing /\ UNCHANGED trades
     \/ /\ account.quantity > 0 /\ Liquidate
        /\ \/ ~MustRefuse /\ Sell(Row.close, "done")
           \/ modeled /\ Refuse("done")

Walk == PayDue \/ ApplySplit \/ EarnDividend \/ PaySameDay \/ SellAtOpen \/ BuyAtOpen \/ NoOrder
        \/ Mark \/ LiquidateAtEnd

(* ---- Properties ------------------------------------------------------ *)

\* Realized P&L, dividends earned and what the open position cost explain the
\* cash and the receivable to the unit, through splits, refusals and late
\* payments; nothing is ever borrowed; and a dividend is owed from its ex-date
\* to its pay date, no longer, and paid once.
BooksBalance ==
  /\ account.cash + account.receivable + account.entry.cost - account.entry.income
       = Capital + SumFunction([i \in DOMAIN trades |-> trades[i].pnl])
  /\ account.cash >= 0
  /\ account.receivable = Amounts(account.payments)
  /\ step \in {"order", "mark", "end", "done"} => Due(account.payments) = {}

\* A split changes what is held, never what it is worth: the shares held before
\* it at the last close and the shares held after it at its open differ by no
\* more than an ordinary overnight move (a quarter), in every run over every
\* bundle the cache lets through (_validate_split_discontinuities, run_backtest).
SplitsKeepWorth ==
  [][step = "split" /\ account.quantity > 0 /\ Row.split /= <<1, 1>> =>
       LET before == account.quantity * rows[session - 1].close
           after == account'.quantity * Row.open
       IN 4 * (before - after) <= after /\ 4 * (after - before) <= after]_ledgerVars

\* The audit, written apart from the ledger, accepts every run and finds its trades.
AuditAgrees == audit.agrees /\ (step = "done" => LogMatches)
==============================================================================
