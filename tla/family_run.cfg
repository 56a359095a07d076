\* Three families, two launches each, over seven data checks; one fault.
SPECIFICATION Spec
CONSTANTS
  DataChecks <- MCDataChecks
  Columns <- MCColumns
  ResearchEnd = 6
  CostWindow = 2
  Month = 1
  MonthOf <- MCMonthOf
  WeekOf <- MCWeekOf
  Span = 2
  Whole = 100
  Target = 1
  Rules <- MCRules
  Capital = 20000
  Commission = 7
  CostParts = 32
  Families <- MCFamilies
  Seeds <- MCSeeds
  Declared = "split"
  Oos <- MCOos
  MaxLaunches = 2
  MaxFaults = 1
INVARIANTS
  DecisionsKnowNoTomorrow
  PanelReturnsTheInvestors
  FamilyIsWhole
PROPERTY NeverOverdraws
CHECK_DEADLOCK FALSE
