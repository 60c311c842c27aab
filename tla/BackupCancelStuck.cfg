SPECIFICATION Spec
CONSTANTS
    j1 = j1
    Jobs <- OneJob
    RunsPerJob = 1
    NumSources = 1
    Names = {1}
    Namings <- ApartOrSame
    MaxDbErrors = 0
    MaxCrashes = 0
    MaxEdits = 0
    MaxCancels = 1
INVARIANTS
    EndedRunsAreFinal
CHECK_DEADLOCK FALSE
