\* A key of three nodes, of which two are enough, moves to two of them.
SPECIFICATION Spec
CONSTANTS
    n1 = n1
    n2 = n2
    n3 = n3
    Nodes = {n1, n2, n3}
    OldPeers = {n1, n2, n3}
    OldThreshold = 1
    NewPeers = {n1, n2}
    NewThreshold = 1
    MaxDeliver = 2
    MaxConcurrentResharing = 1
    MaxFaults = 1
INVARIANTS TypeOK MovedByQuorum ReplyExplained
PROPERTIES WalletKeysSpec
CONSTRAINTS MCFailuresOfTwo MCRedeliveryToTwo
SYMMETRY MCSymmetry
CHECK_DEADLOCK FALSE
