CONSTANTS
    acctA = acctA
    acctB = acctB
    a1 = a1
    a2 = a2
    a3 = a3
    b1 = b1
    x = x
    y = y
    None = None
    Accounts <- TwoAccounts
    Sessions <- FourSessions
    AccountOf <- AccountsOf
    Characters <- TwoCharacters
    OwnerOf <- BothOfA
    MaySkip <- Skippers
    Limit = 1
    Tolerance = TRUE
SYMMETRY Symmetry
SPECIFICATION Spec
INVARIANTS
    EverySessionInOnePlace
    OnePlayerPerCharacter
    QueueMeansFull
    LimitRespected
    QueuedCannotPlay
    NoneOfflineBesidePlayer
    StoppedMeansSaved
