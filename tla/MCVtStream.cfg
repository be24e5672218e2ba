CONSTANTS
    MaxInFlight = 2
    FlushUnits = 2
    ReadUnits = 2
    ResetUnits = 2
    KernelCap = 3
    MaxOutput = 6
    MaxInject = 2
    Sizes = {24, 25}
SPECIFICATION FairSpec
INVARIANTS InOrder PauseHasAck PendingHasTrigger Bounded
PROPERTIES EofIsFinal ImplementsStream OutputApplied ResizeReturns
