CONSTANTS
    mapThread = mapThread
    worldThread = worldThread
    x1 = x1
    x2 = x2
    x3 = x3
    MaxEnqueues = 4
    Producers <- TwoProducers
    Items <- ThreeItems
    Consumer = networkThread
    Dummy = dummy
    Null = Null
SPECIFICATION FairSpec
INVARIANTS
    NoDeletedNode
PROPERTIES
    EmptyIsHonest
    ImplementsArrivalQueue
    EveryItemTaken
