\* One trader process, four orders, an active broker, crashes and lost requests.
SPECIFICATION TradingSpec
CONSTANTS
  Procs = {p1}
  Configs <- CapsOnly
  NoConfig = NoConfig
  Instruments = {"A", "B"}
  Intents <- MixedIntents
  Transfers = {}
  ObservationIds = {}
  Batches = {}
  BrokerStatuses = {"OK"}
  Equities = {10}
  Flows = {0}
  Holdings = {}
  PriceMaps = {}
  Delays = {0}
  DayLength = 1
  MaxTime = 1
  StartPosition <- OneOfEach
  Price <- UnitPrice
  Equity = 10
INVARIANTS
  WorkingIsReserved
  JointExposureCapped
PROPERTY ExposureShrinksUnderKill
