\* Every calendar of fourteen sessions in seventeen days, under legal and refused purges.
SPECIFICATION StudySpec
CONSTANTS
  Frames <- MCFrames
  Settings <- MCSettings
  Horizon = 1
  DaysPerMonth = 2
INVARIANTS
  TrainsOnTheLegalRows
  OrdersRestOnForecasts
CHECK_DEADLOCK FALSE
