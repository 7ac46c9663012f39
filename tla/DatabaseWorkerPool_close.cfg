CONSTANTS
    w1 = w1
    w2 = w2
    t1 = t1
    t2 = t2
    t3 = t3
    Null = Null
    MaxOpens = 1
    Consumers <- TwoWorkers
    Values <- TwoTasks
    OpenResults <- Ok
SPECIFICATION FairSpec
PROPERTY
    CloseReturns
