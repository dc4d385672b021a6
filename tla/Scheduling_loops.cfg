SPECIFICATION Spec
CONSTANTS
    Sizes = {3, 5, 6, 7}
    Loops <- MCLoops
    Units <- MCUnits
    Clock = 2
    Setup = 0
    MaxOperations = 7
INVARIANT NeverFails
INVARIANT EnoughUnits
INVARIANT ChainsFit
INVARIANT SourcesFirst
INVARIANT RestartsBounded
CHECK_DEADLOCK FALSE
