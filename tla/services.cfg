SPECIFICATION ServicesSpec
CONSTANTS
    Reconcilers = {p1, p2}
    NoReconciler = NoReconciler
    Amount = 2
    MaxPayFaults = 2
    Indexers = {x1, x2}
    NoIndexer = NoIndexer
    MaxRevisions = 2
    MaxRuns = 2
    IngestAttempts = 2
    MaxCancels = 1
    MaxIndexFaults = 1
    Messages = {m1, m2}
    Cancelling = {m2}
    Sending = {m1}
    Consumers = {q1, q2}
    NoMessage = NoMessage
    MaxFeishuFaults = 1
INVARIANTS ServicesTypeOK CreditedIsReported SentOnce
PROPERTIES RefundIsKept PaidArrives SearchMovesForward RunsEnd NobodyWaitsForever
CHECK_DEADLOCK FALSE
