CONSTANTS
    t1 = t1
    t2 = t2
    t3 = t3
    c1 = c1
    c2 = c2
    NoTask = NoTask
    Tasks <- MCTasks
    Threads <- MCThreads
    MaxSize = 2
    MaxRetries = 2
SPECIFICATION FairSpec
INVARIANTS Custody StatsExact
PROPERTIES LossNeedsFullQueue ImplementsLifecycle EventuallySettled
CHECK_DEADLOCK FALSE
