SPECIFICATION Spec
CONSTANTS
  W = 2
  ROB_N = 4
  IQ_N = 3
  cfg_rob_entries = 4
  cfg_iq_entries = 2
  cfg_issue_width = 1
  Phys = {1, 2, 3, 4}
  NoReg = 0
  LAT_MAX = 3
  Streams <- Mixes
INVARIANTS
  InOnePlace
  WakeupExact
  LatencyKept
PROPERTIES
  KeepsDataflow
