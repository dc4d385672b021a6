SPECIFICATION Spec
CONSTANTS
    a = a
    b = b
    c = c
    d = d
    Exit = Exit
    Steps <- MCSteps
    Composed = {c}
    Before <- MCBefore
    Relations <- GrowingRelations
    InitialRelations <- GrowingInitial
    Evolve <- GrowingEvolve
    Invalidates <- MCInvalidates
    Requested = {d, b}
    ExecResults = {"SUCCESS", "UNCHANGED"}
    NonDeterministicFlow = TRUE
    HaveAsserts = FALSE
    MaxInvalidations = 2
INVARIANT TypeOK
INVARIANT ReadyFresh
INVARIANT ExecutedClosed
INVARIANT NoStall
INVARIANT ExitLast
PROPERTY NecessityKept
