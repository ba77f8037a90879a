\* One request, delivered up to twice to a participant or an outsider.
SPECIFICATION FairSpec
CONSTANTS
    n1 = n1
    n2 = n2
    n3 = n3
    t1 = t1
    NoNode = NoNode
    Nodes <- MCNodes3
    Participants <- MCNodes2
    Requests = {t1}
    Threshold = 1
    MaxDeliver = 2
    MaxConcurrentSigning = 1
    MaxRestarts = 0
    MaxRefusals = 0
CONSTRAINT MCOneNodeHears
INVARIANTS TypeOK ForgedNeverHandled WedgedIsReported
PROPERTIES QueuedIsServed
CHECK_DEADLOCK FALSE
