SPECIFICATION Spec
CONSTANTS
  Plugin = {p1, p2}
  MaxLoads = 2
  MaxVersion = 1
  MaxEvents = 1
  MaxHandlers = 2
  MaxActs = 2
INVARIANTS GivenUpForOwnCode NoDanglingStart UpdateHasTrigger WedgedFilesNotReloaded
CHECK_DEADLOCK FALSE
