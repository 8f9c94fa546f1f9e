SPECIFICATION Spec
CONSTANTS
    Root = root
    Children = {c1, c2}
    Started = {c1, c2}
    Mode = "autonomous"
    Tools = {"retry"}
    Endings = {"failed"}
    OwnerOps = {"cancel"}
    Deadlines = {FALSE}
    RunningPerUser = 2
    TeamRetries = 1
    MaxTurns = 2
    MaxOwnerOps = 1
    MaxCrashes = 0
    MaxStalls = 0
INVARIANTS
    CancelledTaskIsQuiet
CHECK_DEADLOCK FALSE
