\* Two deliveries of one request, two semaphore slots.
SPECIFICATION Spec
CONSTANTS
    n1 = n1
    n2 = n2
    n3 = n3
    t1 = t1
    NoNode = NoNode
    Nodes <- MCNodes2
    Participants <- MCNodes2
    Requests = {t1}
    Threshold = 1
    MaxDeliver = 2
    MaxConcurrentSigning = 2
    MaxRestarts = 0
    MaxRefusals = 0
INVARIANTS OneSessionPerTx
CHECK_DEADLOCK FALSE
