\* One job, which is expected to fail, in two sessions.
SPECIFICATION Spec
CONSTANTS
    Jobs <- OneJob
    Parallel = 1
    ExpectFailure = {1}
    Expecting = {}
    MaxLoad = 2
INVARIANTS
    SkipsOnlySuccessful
CHECK_DEADLOCK FALSE
