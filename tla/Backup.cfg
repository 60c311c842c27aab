SPECIFICATION Spec
CONSTANTS
    j1 = j1
    Jobs <- OneJob
    RunsPerJob = 2
    NumSources = 2
    Names = {1, 2}
    Namings <- ApartOrSame
    MaxDbErrors = 1
    MaxCrashes = 1
    MaxEdits = 1
    MaxCancels = 1
CONSTRAINT PipelineOrRows
INVARIANTS
    RunStatusTruth
    UncancelledRunsEnd
    JobSuccessBacked
PROPERTIES
    OrphanRunsStay
CHECK_DEADLOCK FALSE
