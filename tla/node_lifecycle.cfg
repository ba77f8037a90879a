\* Two lives of a process and two faults.
SPECIFICATION FairSpec
CONSTANTS
    Consumers <- MCConsumers
    Impatient <- MCImpatient
    MaxLives = 2
    MaxQueued = 1
    MaxFaults = 2
INVARIANTS TypeOK ExitResigns ListedIsSubscribed SourcesStoppedFirst
PROPERTIES ShutdownEnds
CHECK_DEADLOCK FALSE
