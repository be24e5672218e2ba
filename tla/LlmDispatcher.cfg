SPECIFICATION FairSpec
CONSTANTS
    Requested = 2
    MaxJobs = 5
    MaxCancels = 2
INVARIANTS CancelledNeverForwarded RunnerNotReentered
PROPERTIES RoundEndsOnce RoundEnds
CHECK_DEADLOCK FALSE
