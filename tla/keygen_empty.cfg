\* Two nodes that each run both key types.
SPECIFICATION Spec
CONSTANTS
    n1 = n1
    n2 = n2
    w1 = w1
    ecdsa = ecdsa
    eddsa = eddsa
    NoNode = NoNode
    Nodes <- MCNodes
    Requests = {w1}
    Curves = {ecdsa, eddsa}
    Threshold = 1
    MaxDeliver = 1
    MaxConcurrentKeygen = 1
    MaxRestarts = 0
    MaxRefusals = 0
INVARIANTS SuccessHasKeys
CHECK_DEADLOCK FALSE
