SPECIFICATION Spec
CONSTANTS
  W = 3
  LDQ_N = 6
  STQ_N = 1
  MSHR_N = 1
  HD = 1
  PQN = 4
  MQN = 3
  ST_LAT = 2
  cfg_ldq_entries = 0
  cfg_stq_entries = 1
  HitEvent <- Hit
  ROB_N = 6
  AnyOrder = FALSE
  DQ_N = 3
  Streams <- Hits
INVARIANTS
  RequestsKept
