\* Two cores, two runs of a four-unit sweep, two faults.
SPECIFICATION FairSweepSpec
CONSTANTS
  Entries <- MCEntries
  Datasets <- MCDatasets
  Cores = 2
  MaxRuns = 2
  MaxSweepFaults = 2
CHECK_DEADLOCK FALSE
INVARIANTS
  ResultsAreTheSerialOnes
PROPERTIES
  PairsSurvive
  EveryRunReturns
