SPECIFICATION ClientFairSpec
CONSTANTS
  MaxSends = 3
  MaxLines = 3
  PerTick = 1
  Cap = 2
INVARIANTS WholeAnswer BlamesDeadline
PROPERTIES ReportsOnce SendSettles
CHECK_DEADLOCK FALSE
