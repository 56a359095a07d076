\* Two sleeves, two sessions with a decision each, orders of up to two shares, two faults.
SPECIFICATION Spec
CONSTANTS
  Tickers = {1, 2}
  LastSession = 2
  DecisionAt <- Monthly
  Plans <- Book
  MaxFaults = 2
INVARIANTS
  OneLoginPerSession
  BookCountsFillsOnce
PROPERTIES
  NothingFollowsTheUnsettled
  KeepsOrderPromise
CHECK_DEADLOCK FALSE
