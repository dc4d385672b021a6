\* Two designs in parallel, runs killed at any point and started again.
SPECIFICATION Spec
CONSTANTS
    d1 = d1
    d2 = d2
    Designs <- TwoDesigns
    Rungs <- ThreeRungs
    Starts <- NeverSet
    MaxRuns = 2
    MaxKills = 1
INVARIANTS
    WinnerIsHighest
    NeverClimbs
    LookupSound
    LookupComplete
PROPERTIES
    RunsEnd
