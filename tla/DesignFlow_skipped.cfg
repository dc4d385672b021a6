SPECIFICATION Spec
CONSTANTS
    a = a
    b = b
    c = c
    d = d
    Exit = Exit
    Steps <- MCSteps
    Composed = {c}
    Before <- MCBefore
    Relations <- GrowingRelations
    InitialRelations <- GrowingInitial
    Evolve <- NoEvolve
    Invalidates <- MCInvalidates
    Requested = {d, b}
    ExecResults = {"SUCCESS", "UNCHANGED"}
    NonDeterministicFlow = FALSE
    HaveAsserts = TRUE
    MaxInvalidations = 2
INVARIANT NeverSwitchesSkipped
