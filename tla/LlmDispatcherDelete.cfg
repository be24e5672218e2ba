SPECIFICATION Spec
CONSTANTS
    Requested = 2
    MaxJobs = 3
    MaxCancels = 1
INVARIANT AllFinishedSlotMayDelete
CHECK_DEADLOCK FALSE
