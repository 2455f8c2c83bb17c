SPECIFICATION LiveSpec
CONSTANTS
  Traces <- TwoBranches
  WrongEvent <- RedirectAgain
  W = 2
  M = 4
  DQ_N = 4
  cfg_fetch_width = 2
  BE_N = 3
CHECK_DEADLOCK FALSE
PROPERTY EntersItsShadow
