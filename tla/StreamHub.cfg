SPECIFICATION JobSpec
CONSTANTS
    w1 = w1
    w2 = w2
    Runner = runner
    c1 = c1
    Workers <- TwoWorkers
    Clients <- OneClient
    ItemEvents = 3
    BufferSize = 2
    WireSize = 1
    PollSlots = 0
    MaxBreaks = 1
    MaxPollFails = 0
INVARIANTS
    ClosedOnce
    NoGaps
PROPERTIES
    JobNeverWaits
CHECK_DEADLOCK FALSE
