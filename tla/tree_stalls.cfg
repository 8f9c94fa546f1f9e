SPECIFICATION Spec
CONSTANTS
    Root = root
    Children = {c1, c2}
    Started = {c1}
    Mode = "autonomous"
    Tools = {"write", "retry"}
    Endings = {"failed"}
    OwnerOps = {"cancel", "cancel_subtask", "retry_subtask", "add"}
    Deadlines = {FALSE}
    RunningPerUser = 1
    TeamRetries = 1
    MaxTurns = 3
    MaxOwnerOps = 1
    MaxCrashes = 0
    MaxStalls = 1
INVARIANTS
    OneTurnPerNode
PROPERTIES
    EveryMoveIsATransition
    EndedStaysEnded
CHECK_DEADLOCK FALSE
