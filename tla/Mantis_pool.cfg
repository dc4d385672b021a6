\* Two jobs at a time, interrupted, killed and restarted at any point.
SPECIFICATION Spec
CONSTANTS
    Jobs <- TwoJobs
    Parallel = 2
    ExpectFailure = {2}
    Expecting = {1}
    MaxLoad = 3
INVARIANTS
    TypeOK
    SuccessIsGenuine
PROPERTIES
    ImplementsBatch
    InterruptEnds
    SessionEnds
CHECK_DEADLOCK FALSE
