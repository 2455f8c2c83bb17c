SPECIFICATION LiveSpec
CONSTANTS
  W = 1
  LDQ_N = 2
  STQ_N = 2
  MSHR_N = 1
  HD = 2
  PQN = 1
  MQN = 1
  ST_LAT = 2
  cfg_ldq_entries = 2
  cfg_stq_entries = 2
  HitEvent <- Hit
  ROB_N = 3
  AnyOrder = TRUE
  DQ_N = 1
  Streams <- Few
PROPERTIES
  AnswersInTheEnd
