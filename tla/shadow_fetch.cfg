SPECIFICATION LiveSpec
CONSTANTS
  Traces <- ThreeBlocks
  WrongEvent <- RedirectAgain
  W = 2
  M = 4
  DQ_N = 4
  cfg_fetch_width = 2
  BE_N = 3
CHECK_DEADLOCK FALSE
INVARIANTS
  TraceContiguous
  BlockExact
  PathsAgree
  LedgerBalanced
PROPERTIES
  NeverTurnsBack
  KeepsProgramOrder
  Finishes
