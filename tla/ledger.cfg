SPECIFICATION LedgerSpec
CONSTANTS
    Writes = {a, b}
    NoWrite = nothing
    MaxRuns = 3
    MaxSteps = 2
    MaxStalls = 2
    MaxSweeps = 1
    Drafts = {proposal}
    Opportunities = {o1}
    Confirmers = {q1, q2}
    NoTarget = NoTarget
    MaxActions = 2
    MaxVersion = 2
    MaxConfirmFaults = 1
    Found = {f1, f2}
    Tickers = {t1, t2}
    Scanners = {k1, k2}
    NoJob = NoJob
    MaxJobs = 3
    ScanAttempts = 2
    MaxScanFaults = 2
SYMMETRY Symmetry
INVARIANTS
    LedgerTypeOK
    NoBlindRepeat
    RunningStepCanBeClosed
    ConfirmedOnce
    ScanIsNotForgotten
PROPERTIES
    LeaseIsFenced
    SettledStaysSettled
CHECK_DEADLOCK FALSE
