SPECIFICATION FairSpec
CONSTANTS
    w1 = w1
    w2 = w2
    Runner = runner
    c1 = c1
    Workers <- OneWorker
    Clients <- OneClient
    ItemEvents = 1
    BufferSize = 3
    WireSize = 1
    PollSlots = 1
    MaxBreaks = 0
    MaxPollFails = 1
PROPERTIES
    HandlersLeave
    FreshView
CHECK_DEADLOCK FALSE
