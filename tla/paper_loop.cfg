\* Two runners, two mornings: a purchase over the daily cap, then a sale and the rest of the purchase.
SPECIFICATION Spec
CONSTANTS
  Runners = {r1, r2}
  Tickers = {1, 2}
  LastSession = 2
  Decisions = {1, 2}
  DecisionAt <- Monthly
  Target <- Book
  Opening <- Cash
  DailyCap = 2
  CashLevels = {9}
  MaxFaults = 1
SYMMETRY AnyRunner
INVARIANTS
  SentIsDurable
  FillsAreRecorded
PROPERTIES
  NothingOnTopOfUnknown
  TradesTheDecisionOnce
  KeepsOrderPromise
