SPECIFICATION Spec
CONSTANTS
  Nthread = 4
  Ncontext = 2
  MaxForks = 1
  Program <- TwoReductions
INVARIANT ReduceReads
