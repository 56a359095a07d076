\* Two processes, three runs of one configuration, one addition to the declaration, two faults.
SPECIFICATION FairSpec
CONSTANTS
    Procs = {p1, p2}
    Configs = {1}
    MaxRuns = 3
    MaxFaults = 2
    MaxAdditions = 1
INVARIANTS HoldoutSpentOnce EveryLookCounts
PROPERTIES OneChainBehindItsAnchor EveryRunEnds
CHECK_DEADLOCK FALSE
