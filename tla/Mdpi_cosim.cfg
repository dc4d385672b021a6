\* The program calls the kernel up to twice and then ends, or exits by itself at
\* any time; the hardware may exit or be given up in either call, fault or use an
\* unknown interface.
SPECIFICATION Spec
CONSTANTS
    Ids <- TwoIds
    Interfaces <- OneInterface
    ExitingCalls <- EveryCall
    StoppingCalls <- EveryCall
    MaxKernels = 2
    MaxAccesses = 2
    Faults = TRUE
    EarlyExit = TRUE
    Builds = {TRUE, FALSE}
INVARIANTS
    OrderlyIsLegal
    OneWriter
    AnsweredOnce
    InStep
PROPERTIES
    LastCommunication
    Termination
\* After an early exit the simulator may wait for a free handle for ever.
CHECK_DEADLOCK FALSE
