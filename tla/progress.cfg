SPECIFICATION MCSpec
CONSTANTS
    Turns = {t1, t2}
    Editors = {}
    None = none
    RecoveryLimit = 2
    MaxFaults = 0
    MaxRestarts = 0
    Keys = {k1, k2}
    Workers = {w1, w2}
    MaximumAttempts = 3
    MaxCrashes = 2
    Buses = {"memory_run", "memory_conversation", "postgres_run"}
    Emitters = {driving, cancelling, remote}
    Elsewhere = {remote}
    QueueSize = 1
    HistoryLimit = 2
    MaxEvents = 3
    MaxConnects = 2
    Subjects = {"conversation", "queue", "events"}
PROPERTIES ServiceStops CancelEndsResponse ItemsSettle EventsReachSubscribers
CHECK_DEADLOCK FALSE
