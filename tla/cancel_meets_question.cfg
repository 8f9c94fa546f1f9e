SPECIFICATION Spec
CONSTANTS
    Root = root
    Children = {c1}
    Started = {c1}
    Mode = "responsive"
    Tools = {"ask", "finish"}
    Endings = {"completed"}
    OwnerOps = {"cancel"}
    Deadlines = {FALSE}
    RunningPerUser = 2
    TeamRetries = 1
    MaxTurns = 2
    MaxOwnerOps = 1
    MaxCrashes = 0
    MaxStalls = 0
INVARIANTS
    OpenDecisionCanBeAnswered
CHECK_DEADLOCK FALSE
