\* The latches, the breaker and admission together with settled, pending, conflicting
\* and malformed transfers; the ids of the two observations are interchangeable.
SPECIFICATION Spec
CONSTANTS
  Procs = {p1}
  Configs <- OneConfig
  NoConfig = NoConfig
  Instruments = {"A"}
  Intents <- OneBuy
  Transfers = {"t1", "t2"}
  ObservationIds = {f1, f2}
  Batches <- GateBatches
  BrokerStatuses = {"OK"}
  Equities = {0, 8, 10}
  Flows = {0}
  Holdings <- Long1
  PriceMaps <- AtOne
  Delays = {0, 1}
  DayLength = 1
  MaxTime = 2
SYMMETRY AnyObservation
PROPERTIES
  AddsOnlyWhenClear
  HaltLastsTheDay
  BreachesLatch
  BoundaryMovesWithJournal
  AppliedForever
