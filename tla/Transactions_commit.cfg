CONSTANTS
    a1 = a1
    a2 = a2
    s1 = s1
    t1 = t1
    t2 = t2
    Null = Null
    SynchRetries = 5
    AsyncRetries = 1
    Async <- TwoAsync
    Synch <- OneSynch
    Transactions <- TwoTransactions
    Size <- TwoAndOne
    MaxLosses = 1
SPECIFICATION FairSpec
INVARIANTS
    AllOrNothing
    OnlyRefusalsMislead
    NothingLeftOpen
PROPERTY
    EveryCommitAnswered
