\* The program may call exit() while the simulator holds the handle.
SPECIFICATION Spec
CONSTANTS
    Ids <- TwoIds
    Interfaces <- OneInterface
    ExitingCalls <- NoCall
    StoppingCalls <- NoCall
    MaxKernels = 1
    MaxAccesses = 1
    Faults = FALSE
    EarlyExit = TRUE
    Builds = {TRUE}
INVARIANTS
    NoIllegalOperation
\* After an early exit the simulator may wait for a free handle for ever.
CHECK_DEADLOCK FALSE
