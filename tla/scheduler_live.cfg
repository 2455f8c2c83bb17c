SPECIFICATION LiveSpec
CONSTANTS
  W = 3
  ROB_N = 4
  IQ_N = 4
  cfg_rob_entries = 4
  cfg_iq_entries = 4
  cfg_issue_width = 3
  Phys = {1, 2, 3, 4}
  NoReg = 0
  LAT_MAX = 3
  Streams <- Contended
INVARIANTS
  OldestFirst
PROPERTIES
  AllFinish
