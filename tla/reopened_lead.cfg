SPECIFICATION Spec
CONSTANTS
    Root = root
    Children = {c1}
    Started = {c1}
    Mode = "autonomous"
    Tools = {"write"}
    Endings = {"failed"}
    OwnerOps = {"retry_subtask"}
    Deadlines = {FALSE}
    RunningPerUser = 1
    TeamRetries = 0
    MaxTurns = 3
    MaxOwnerOps = 1
    MaxCrashes = 0
    MaxStalls = 0
INVARIANTS
    QueuedNodeIsVerified
CHECK_DEADLOCK FALSE
