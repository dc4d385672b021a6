SPECIFICATION FairSpec
CONSTANTS
  Nthread = 4
  Ncontext = 2
  MaxForks = 2
  Program <- RegionProgram
INVARIANT MutualExclusion
INVARIANT BarrierHolds
INVARIANT WakeUpOnce
INVARIANT ReduceReads
PROPERTY Joins
