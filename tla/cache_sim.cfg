SPECIFICATION Spec
CONSTANTS
  Configs <- Both
  line_size = 2
  page_size = 4
  Top = 8
INVARIANTS
  Inclusive
  DirtyKept
  PrefetchBalance
  SweepExact
