SPECIFICATION MCSpec
CONSTANTS
    s1 = s1
    d1 = d1
    w1 = w1
    w2 = w2
    p1 = p1
    ChkIds = 2
    ChkInterval = 1
    ChkEdits = 3
    SshSessions = {s1}
    SshMax = 1
    SshMessages = 1
    DshNodes = {d1}
    DshWorkers = {w1, w2}
    DshPages = {p1}
    DshBuffer = 1
    DshReadings = 2
    DshPrefer = FALSE
    DshEdits = 1
INVARIANTS
    ChkRootCauseTold
CHECK_DEADLOCK FALSE
