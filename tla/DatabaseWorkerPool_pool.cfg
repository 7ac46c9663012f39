CONSTANTS
    w1 = w1
    w2 = w2
    t1 = t1
    t2 = t2
    t3 = t3
    Null = Null
    MaxOpens = 2
    Consumers <- TwoWorkers
    Values <- ThreeTasks
    OpenResults <- AnyResult
SPECIFICATION FairSpec
INVARIANTS
    ExecutesOnOpenConnection
    FirstCloseIsGraceful
PROPERTIES
    ImplementsTaskQueue
    EveryTaskRuns
    FailedOpenReturns
