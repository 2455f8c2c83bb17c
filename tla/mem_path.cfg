SPECIFICATION Spec
CONSTANTS
  W = 2
  LDQ_N = 2
  STQ_N = 2
  MSHR_N = 1
  HD = 2
  PQN = 2
  MQN = 2
  ST_LAT = 2
  cfg_ldq_entries = 2
  cfg_stq_entries = 2
  HitEvent <- Hit
  ROB_N = 4
  AnyOrder = TRUE
  DQ_N = 2
  Streams <- Alternations
INVARIANTS
  QueuesExact
  EventsAligned
  OneAccess
  BlockedByOlder
PROPERTIES
  ServesRequests
