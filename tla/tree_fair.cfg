SPECIFICATION FairSpec
CONSTANTS
    Root = root
    Children = {c1}
    Started = {c1}
    Mode = "autonomous"
    Tools = {"write", "finish"}
    Endings = {"completed", "threw"}
    OwnerOps = {"cancel_subtask"}
    Deadlines = {FALSE}
    RunningPerUser = 1
    TeamRetries = 0
    MaxTurns = 3
    MaxOwnerOps = 1
    MaxCrashes = 2
    MaxStalls = 0
PROPERTIES
    RunningNodeLeavesItsWorker
    LeadHearsOfTheLastSubtask
CHECK_DEADLOCK FALSE
