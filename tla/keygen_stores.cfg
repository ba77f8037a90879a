\* Two nodes, one request, a crash and a refused result.
SPECIFICATION Spec
CONSTANTS
    n1 = n1
    n2 = n2
    w1 = w1
    ecdsa = ecdsa
    eddsa = eddsa
    NoNode = NoNode
    Nodes <- MCNodes
    Requests = {w1}
    Curves = {ecdsa}
    Threshold = 2
    MaxDeliver = 1
    MaxConcurrentKeygen = 1
    MaxRestarts = 1
    MaxRefusals = 1
INVARIANTS TypeOK InfoBacked
PROPERTIES RequestSpec WalletKeysSpec
SYMMETRY MCSymmetry
CHECK_DEADLOCK FALSE
