CONSTANTS
    w1 = w1
    w2 = w2
    continent = continent
    dungeon = dungeon
    i1 = i1
    i2 = i2
    null = null
    lfg = lfg
    Consumers <- TwoWorkers
    BaseMaps <- AllMaps
    Instances <- TwoInstances
    Values <- AllJobs
    ParentOf <- DungeonOf
    Lfg = lfg
    Null = null
    MaxTicks = 2
SPECIFICATION FairSpec
INVARIANTS
    TypeOK
    MapsAreExclusive
    OneWorkerPerJob
    NoDanglingMap
    EveryMapUpdated
    PendingIsExact
PROPERTIES
    ImplementsBarrier
    TickEnds
    ShutdownEnds
