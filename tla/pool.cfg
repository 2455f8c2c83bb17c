SPECIFICATION LiveSpec
CONSTANTS
  N = 3
  MaxRuns = 2
  Runs <- SomeRuns
INVARIANTS
  EachJobOnce
  NobodyInside
PROPERTIES
  KeepsPromise
  EveryCallReturns
