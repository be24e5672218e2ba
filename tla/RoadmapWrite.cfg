SPECIFICATION Spec
CONSTANTS
  Writer = {w1, w2}
  Item = {i1}
  Bullet = {b1}
  Note = {n1}
  MaxOps = 3
  MaxCrashes = 1
INVARIANTS FileNeverAhead AckedDurable RepairConverges
PROPERTY TextKept
CHECK_DEADLOCK FALSE
