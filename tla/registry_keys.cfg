\* Three nodes; keys are counted, not compared.
SPECIFICATION Spec
CONSTANTS
    n1 = n1
    n2 = n2
    n3 = n3
    Nodes <- MCNodes3
    Threshold = 1
    MaxRestarts = 0
    MaxListFailures = 0
INVARIANTS MajorityHasKeys
CHECK_DEADLOCK FALSE
