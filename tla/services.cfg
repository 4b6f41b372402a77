SPECIFICATION MCSpec
CONSTANTS
    Keys = {k1, k2}
    Workers = {w1, w2}
    MaximumAttempts = 3
    MaxCrashes = 2
    None = none
    Nodes = {"a", "b", "join"}
    Dependencies <- MCDependencies
    MaximumConcurrency = 2
    NodeAttempts = 1
    MaxDrives = 2
    MaxSaveFaults = 1
    Policy <- MCPolicy
    Callers = {"ann", "bob", "other", "eve"}
    RequestOf <- MCRequests
    Configurations <- MCConfigurations
    Tags = {"s1", "s2"}
    MaxEntries = 1
    PoolSize = 1
    MaxQueries = 3
    MaxInvalidations = 1
    Nobody = nobody
    Providers = {"p1", "p2"}
    Models = {"m1", "m2", "m3", "m4"}
    ProviderOf <- MCProviderOf
    Capable = {"m1", "m2", "m3"}
    Streaming = {"m1"}
    Clients = {c1, c2}
    Threshold = 2
    RateLimit = 1
    MaxRequests = 4
    Buses = {"memory_run", "memory_conversation", "postgres_run"}
    Emitters = {task, cancel, remote}
    Elsewhere = {remote}
    QueueSize = 1
    HistoryLimit = 2
    MaxEvents = 3
    MaxConnects = 2
    Subjects = {"queue", "graph", "cache", "router", "events"}
INVARIANTS ResultIsFenced AttemptsBounded StoredGraphConsistent InvalidationIsComplete
    RowsStayInScope WaitersHaveAnOwner FailureBurstsBounded SkippedEventsRaced
PROPERTIES CompletedNodesKept
CHECK_DEADLOCK FALSE
