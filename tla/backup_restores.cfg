\* Two keys, three writes, two faults, under a ticker that keeps firing.
SPECIFICATION FairSpec
CONSTANTS
    k1 = k1
    k2 = k2
    Keys = {k1, k2}
    MaxVersion = 3
    MaxFaults = 2
INVARIANTS TypeOK NothingSkipped RestoreIsSnapshot
PROPERTIES BackupCatchesUp
CHECK_DEADLOCK FALSE
