SPECIFICATION FairSpec
CONSTANTS
    w1 = w1
    w2 = w2
    c1 = c1
    Runner = runner
    Workers <- OneWorker
    Clients <- OneClient
    ItemEvents = 1
    BufferSize = 3
    WireSize = 3
    PollSlots = 2
    MaxBreaks = 0
    MaxPollFails = 0
PROPERTIES
    FreshView
CHECK_DEADLOCK FALSE
