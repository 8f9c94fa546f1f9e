SPECIFICATION Spec
CONSTANTS
    Root = root
    Children = {c1, c2}
    Started = {c1}
    Mode = "autonomous"
    Tools = {"write", "wait", "post", "retry", "create"}
    Endings = {"completed", "quota", "over_limit"}
    OwnerOps = {"retry", "follow_up", "resume", "verify"}
    Deadlines = {TRUE}
    RunningPerUser = 1
    TeamRetries = 1
    MaxTurns = 3
    MaxOwnerOps = 2
    MaxCrashes = 0
    MaxStalls = 0
SYMMETRY Symmetry
INVARIANTS
    SucceededTaskIsClosed
    QueuedNodeIsVerified
CHECK_DEADLOCK FALSE
