SPECIFICATION Spec
CONSTANTS
    a = a
    b = b
    c = c
    d = d
    Exit = Exit
    Steps <- MCSteps
    Composed = {c}
    Before <- MCBefore
    Relations <- ShrinkingRelations
    InitialRelations <- GrowingInitial
    Evolve <- ShrinkingEvolve
    Invalidates <- MCInvalidates
    Requested = {d, b}
    ExecResults = {"SUCCESS", "UNCHANGED"}
    NonDeterministicFlow = FALSE
    HaveAsserts = TRUE
    MaxInvalidations = 1
PROPERTY Termination
PROPERTY EventuallyExecuted
