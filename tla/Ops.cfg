SPECIFICATION FairSpec
CONSTANTS
    MaxJobs = 3
    MaxItems = 2
    Requested <- MCRequested
    MaxConcurrentJobs = 2
    MaxParallelism = 2
    DefaultParallelism = 1
    MaxCrashes = 1
    MaxDbErrors = 1
CONSTRAINT ItemsOrSlots
INVARIANTS
    AtMostOnce
    StatusTruth
    SlotBound
PROPERTIES
    OrphansStay
    ImplementsQueue
    EveryJobSettles
CHECK_DEADLOCK FALSE
