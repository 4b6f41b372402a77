SPECIFICATION MCSpec
CONSTANTS
    Turns = {t1, t2}
    Editors = {}
    None = none
    RecoveryLimit = 2
    MaxFaults = 0
    MaxRestarts = 0
    Keys = {k1, k2}
    Workers = {w1, w2}
    MaximumAttempts = 3
    MaxCrashes = 2
    Buses = {"postgres_run", "postgres_conversation"}
    Emitters = {driving, remote}
    Elsewhere = {remote}
    QueueSize = 1
    HistoryLimit = 2
    MaxEvents = 3
    MaxConnects = 1
    Subjects = {"events"}
PROPERTIES RemoteEventsVisible
CHECK_DEADLOCK FALSE
