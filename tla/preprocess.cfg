SPECIFICATION Spec
CONSTANTS
  Cases <- MCCases
  LogMax = 18
  fetch_width = 3
  line_bytes = 8
  split_line = TRUE
  shadow_k = 4
  shadow_blocks = 2
  fe_fetch_width = 3
  ilen_bytes = 4
  max_blk_instr = 3
  learn_call_len = TRUE
  FE_MAX_SLOTS = 3
  ubtb_entries = 2
  ubtb_slots = 1
  ubtb_tags = 3
  btb_sets = 2
  btb_ways = 2
  btb_slots = 2
  ras_depth = 2
  HIST_N = 4
  Tables <- MCTables
  bim_bits = 1
  bim_max = 3
  use_alt_on_na = TRUE
  useful_reset_period = 2
CHECK_DEADLOCK FALSE
INVARIANTS
  NothingLeftBehind
  FoldsExact
  BtbTruthful
  CallsAndLengths
  Aligned
  CheckerAccepts
