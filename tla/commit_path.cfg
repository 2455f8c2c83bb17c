SPECIFICATION Spec
CONSTANTS
  W = 2
  ROB_N = 4
  PRF_N = 5
  ARF_N = 3
  DQ_N = 2
  cfg_rob_entries = 3
  cfg_commit_width = 2
  Uops <- TwoWriters
INVARIANTS
  FreeListExact
  RatPrecise
  SourcesPrecise
PROPERTIES
  KeepsProgramOrder
