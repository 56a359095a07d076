\* One scheduler and one operator on the ops-state branch, two sessions, one fault.
SPECIFICATION Spec
CONSTANTS
  Workflows = {w1}
  Operators = {o1}
  LastDay = 2
  TradingDays = {1, 2}
  MaxFaults = 1
  MaxInterventions = 2
INVARIANTS
  CommandAtMostOnce
  LeaseOutlivesCommand
  ReportsAreNeverLost
