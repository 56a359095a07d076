\* Two operators, answers handed in late or twice, up to eight entries of the log.
SPECIFICATION SwitchSpec
CONSTANTS
  Procs = {p1, p2}
  Configs <- OneConfig
  NoConfig = NoConfig
  Instruments = {"A"}
  Intents = {}
  Transfers = {}
  ObservationIds = {}
  Batches = {}
  BrokerStatuses = {"OK"}
  Equities = {10}
  Flows = {0}
  Holdings = {}
  PriceMaps = {}
  Delays = {0}
  DayLength = 1
  MaxTime = 1
  Answers <- ClearOrNot
  MaxLog = 8
SYMMETRY AnyOperator
INVARIANT ResetsAreJustified
