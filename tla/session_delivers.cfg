\* Two nodes, which generate a key or move it to themselves, and a fault.
SPECIFICATION FairSpec
CONSTANTS
    n1 = n1
    n2 = n2
    Nodes = {n1, n2}
    Old = {n1, n2}
    New = {n1}
    MaxFaults = 1
INVARIANTS TypeOK LossReported
PROPERTIES RunEnds
CHECK_DEADLOCK FALSE
