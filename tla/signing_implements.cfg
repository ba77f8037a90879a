\* Three participants, two of which are enough; a crash and a refused result.
SPECIFICATION Spec
CONSTANTS
    n1 = n1
    n2 = n2
    n3 = n3
    t1 = t1
    NoNode = NoNode
    Nodes <- MCNodes3
    Participants <- MCNodes3
    Requests = {t1}
    Threshold = 1
    MaxDeliver = 1
    MaxConcurrentSigning = 1
    MaxRestarts = 1
    MaxRefusals = 1
INVARIANTS SuccessHasQuorum
PROPERTIES RequestSpec
CONSTRAINT MCAllHearCalmly
SYMMETRY MCSymmetry3
CHECK_DEADLOCK FALSE
