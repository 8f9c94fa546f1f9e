SPECIFICATION BackgroundSpec
CONSTANTS
    plain = plain
    render = render
    Generation = generation
    Redownload = redownload
    Video = video
    Tasks = {plain, render, generation, redownload, video}
    Renders = {render, video}
    Clips = {c1, c2}
    Workers = {k1, k2}
    NoTask = NoTask
    NoWorker = NoWorker
    Retried = {plain}
    MaxAttempts = 2
    PerUser = 1
    MaxDeaths = 2
    MaxLapses = 1
    MaxRequests = 2
    mornings = mornings
    evenings = evenings
    Schedules = {mornings, evenings}
    NoSchedule = NoSchedule
    Timetable <- MCTimetable
    Dispatchers = {d1, d2}
    Executors = {w1, w2}
    NoExecutor = NoExecutor
    DailyLimit = 1
    MaxRunFaults = 1
SYMMETRY Symmetry
INVARIANTS
    BackgroundTypeOK
    OpenTaskIsDelivered
    OneWorkerPerTask
    PaidOnce
    ChargedOnce
    CardIsSettled
    ClipsPaidAndBilled
    WithinDailyLimit
PROPERTIES LifeOfTasks
CHECK_DEADLOCK FALSE
