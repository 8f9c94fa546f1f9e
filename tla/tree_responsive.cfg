SPECIFICATION Spec
CONSTANTS
    Root = root
    Children = {c1, c2}
    Started = {c1, c2}
    Mode = "responsive"
    Tools = {"write", "finish", "wait", "ask"}
    Endings = {"completed", "failed"}
    OwnerOps = {"cancel","cancel_subtask","answer"}
    Deadlines = {FALSE}
    RunningPerUser = 1
    TeamRetries = 1
    MaxTurns = 3
    MaxOwnerOps = 1
    MaxCrashes = 1
    MaxStalls = 0
SYMMETRY Symmetry
INVARIANTS
    TypeOK
    HeldTurnHoldsLease
    WaitingNodeHasItsDecision
    CancelledTaskIsQuiet
    QueuedNodeIsVerified
    NobodyToWakeWhenQuiet
CHECK_DEADLOCK FALSE
