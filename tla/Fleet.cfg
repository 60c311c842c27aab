SPECIFICATION MCSpec
CONSTANTS
    s1 = s1
    s2 = s2
    NopItems = {1, 2}
    NopKindSets <- MCKinds
    NopFaults = 1
    NopReboots = 1
    NopEdits = 1
    NopReleases = 2
    SshSessions = {s1, s2}
    SshMax = 1
    SshMessages = 0
SYMMETRY MCFleetSymmetry
INVARIANTS
    FleetTypeOK
    NopRebootDone
    NopPatchApplied
    SshSlotsExact
PROPERTIES
    NopDeployTold
CHECK_DEADLOCK FALSE
