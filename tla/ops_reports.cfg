\* The scheduler alone: every missed session is posted in the end.
SPECIFICATION LiveSpec
CONSTANTS
  Workflows = {w1}
  Operators = {}
  LastDay = 3
  TradingDays = {1, 3}
  MaxFaults = 2
  MaxInterventions = 1
PROPERTIES
  MissIsPosted
