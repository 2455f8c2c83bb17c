SPECIFICATION LiveSpec
CONSTANTS
  W = 2
  ROB_N = 2
  PRF_N = 3
  ARF_N = 2
  DQ_N = 2
  cfg_rob_entries = 1
  cfg_commit_width = 2
  Uops <- OneWriter
INVARIANTS
  RingExact
PROPERTIES
  NeverStuck
