-------------------------- MODULE PortfolioLedger --------------------------
(***************************************************************************)
(* run_portfolio_backtest: the share targets of a decision are fixed at    *)
(* its close and filled at the next session's open, sells first, the buys  *)
(* scaled down together to the cash there is.                              *)
(*                                                                         *)
(* One step is one session of the loop.  Shares are whole units, rounded   *)
(* down where the code divides.                                            *)
(***************************************************************************)
EXTENDS PortfolioBooks

CONSTANTS
  Capital,      \* STARTING_CAPITAL
  Commission,   \* per fill
  CostParts     \* the adverse fraction of a quote is one part in CostParts

ASSUME LedgerAssumption == Capital \in Nat \ {0} /\ Commission \in Nat /\ CostParts \in Nat \ {0}

VARIABLES
  session,      \* the last session the loop has left
  cash, shares,
  pending,      \* the decision waiting for the next open
  equity,       \* close-marked, per session
  fills, skipped  \* of the last session

ledgerVars == <<session, cash, shares, pending, equity, fills, skipped>>

NoDecision == [on |-> 0, target |-> Flat]

Begin ==
  /\ session' = 0 /\ cash' = Capital /\ shares' = Flat /\ pending' = NoDecision
  /\ equity' = <<>> /\ fills' = {} /\ skipped' = {}

\* The last close at or before a session; nothing before the first.
Mark(close, x, s) ==
  LET seen == {u \in 1..s : close[x][u] > 0} IN IF seen = {} THEN 0 ELSE close[x][Max(seen)]

Paid(quote) == quote + quote \div CostParts
Got(quote) == quote - quote \div CostParts

Fill(x, quantity, price) == [ticker |-> x, quantity |-> quantity, price |-> price]

\* Mutation: the buys are scaled to the whole cash, their commissions come on top.
AffordableWithoutFees(funds, n) == funds

\* What the buys may cost once their commissions are set aside.
Affordable(funds, n) == Max({funds - Commission * n, 0})

\* What an order of a quantity buys when all buys share the funds.
Scaled(quantity, notional, funds) ==
  IF notional <= funds THEN quantity ELSE (quantity * funds) \div notional

\* Sells first; then the buys, each cut by the same part.
FillsOf(delta, sells, buys, quotes) ==
  LET afterSells == cash + SumFunction([x \in sells |-> Got(quotes[x]) * (-delta[x]) - Commission])
      notional == SumFunction([x \in buys |-> Paid(quotes[x]) * delta[x]])
      funds == Affordable(afterSells, Cardinality(buys))
  IN {Fill(x, delta[x], Got(quotes[x])) : x \in sells}
       \cup IF funds = 0 THEN {}
            ELSE {Fill(x, Scaled(delta[x], notional, funds), Paid(quotes[x])) : x \in buys}

\* The fills of one open: an order without a row or a priced fill is skipped.
Traded(delta, priced, quotes) ==
  LET orders == {x \in priced : delta[x] # 0 /\ quotes[x] > 0}
      sells == {x \in orders : delta[x] < 0}
  IN FillsOf(delta, sells, orders \ sells, quotes)

\* The share targets of a decision: what cannot be priced keeps its shares.
Targets(weights, close, on, value, held) ==
  [x \in Tickers |->
     IF weights[x] = 0 THEN 0
     ELSE IF close[x][on] = 0 THEN held[x]
     ELSE (weights[x] * Max({value, 0})) \div (Whole * close[x][on])]

\* The close marks the account, and a decision is taken if there is a next
\* open to fill it.
Marked(close, s, trade, decides, weights) ==
  LET spent == SumFunction([f \in trade |-> f.quantity * f.price + Commission])
      held == [x \in Tickers |->
                 shares[x] + SumFunction([f \in {g \in trade : g.ticker = x} |-> f.quantity])]
      value == cash - spent + SumFunction([x \in Tickers |-> held[x] * Mark(close, x, s)])
  IN /\ fills' = trade
     /\ cash' = cash - spent
     /\ shares' = held
     /\ equity' = Append(equity, value)
     /\ pending' = IF decides /\ s < ResearchEnd
                     THEN [on |-> s, target |-> Targets(weights, close, s, value, held)]
                     ELSE NoDecision

Orders == [x \in Tickers |-> pending.target[x] - shares[x]]
Opened(panel, priced, s) ==
  IF pending = NoDecision THEN {}
  ELSE Traded(Orders, priced, [x \in Tickers |-> panel.open[x][s]])

\* One session: the open fills what is pending, then the close.  "weights" are
\* those of a decision session, none otherwise.
Session(check, decides, weights) ==
  /\ session < ResearchEnd
  /\ session' = session + 1
  /\ LET priced == {x \in Tickers : pending.on \in CostTable[check][x]}
         panel == Panels[check]
     IN Marked(panel.close, session + 1, Opened(panel, priced, session + 1), decides, weights)
  /\ skipped' = IF pending = NoDecision THEN {}
                ELSE {x \in Tickers : Orders[x] # 0} \ {f.ticker : f \in fills'}
=============================================================================
