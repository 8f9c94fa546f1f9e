SPECIFICATION Spec
CONSTANTS
    Root = root
    Children = {c1}
    Started = {}
    Mode = "autonomous"
    Tools = {"finish"}
    Endings = {"completed"}
    OwnerOps = {"add"}
    Deadlines = {FALSE}
    RunningPerUser = 2
    TeamRetries = 1
    MaxTurns = 2
    MaxOwnerOps = 1
    MaxCrashes = 0
    MaxStalls = 0
INVARIANTS
    SucceededTaskIsClosed
CHECK_DEADLOCK FALSE
