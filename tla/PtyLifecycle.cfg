SPECIFICATION FairSpec
CONSTANTS
    TermPolls = 3
    KillPolls = 4
    GuiWait = 8
INVARIANTS OwnChildOnly KillIsLastResort NoShellLeft DetachOnlyIfBusy 
PROPERTY TabCloseReleases
CHECK_DEADLOCK FALSE
