SPECIFICATION Spec
CONSTANTS
  Writer = {w1, w2}
  Item = {i1, i2}
  Bullet = {}
  Note = {}
  MaxOps = 2
  MaxCrashes = 0
INVARIANT OneWindow
CHECK_DEADLOCK FALSE
