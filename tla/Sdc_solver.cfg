SPECIFICATION Spec
CONSTANTS
    Ids <- MCIds
    Pairs <- MCPairs
    Weights <- MCWeights
    Values <- MCValues
    Half = 2
    None = None
    MaxConstraints = 4
    MaxSolves = 2
INVARIANT TypeOK
INVARIANT QueueFits
INVARIANT AnswerIsGreatest
INVARIANT InfeasibleIsUnsolvable
PROPERTY Termination
PROPERTY Implements
CHECK_DEADLOCK FALSE
