\* A third node comes and goes beside two that serve, with a restart or a failed list, under fairness.
SPECIFICATION MCSettledSpec
CONSTANTS
    n1 = n1
    n2 = n2
    n3 = n3
    Nodes <- MCNodes3
    Threshold = 1
    MaxRestarts = 1
    MaxListFailures = 1
CONSTRAINTS MCOneFault MCPairServes MCTwoOnTheirWay
INVARIANTS TypeOK CountMatchesMap ReadyMeansAllUp
PROPERTIES KeysConverge
CHECK_DEADLOCK FALSE
