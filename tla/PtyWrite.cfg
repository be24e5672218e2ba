SPECIFICATION FairSpec
CONSTANTS
    SliceUnits = 2
    MaxPending = 2
    KernelCap = 2
    KeySizes = {1, 5}
    PasteSizes = {3}
    MaxUnits = 8
    MaxFaults = 1
INVARIANTS FifoOrLost PasteWhole InputHasTrigger
PROPERTY InputArrives
CHECK_DEADLOCK FALSE
