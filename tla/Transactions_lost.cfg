CONSTANTS
    a1 = a1
    a2 = a2
    s1 = s1
    t1 = t1
    t2 = t2
    Null = Null
    SynchRetries = 5
    AsyncRetries = 2
    Async <- TwoAsync
    Synch <- NoConnection
    Transactions <- TwoTransactions
    Size <- TwoAndTwo
    MaxLosses = 1
SPECIFICATION Spec
INVARIANT
    WholeOnceAnswered
