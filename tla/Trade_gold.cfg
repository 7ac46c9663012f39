CONSTANTS
    ann = ann
    bob = bob
    eve = eve
    sword = sword
    gem = gem
    s1 = s1
    s2 = s2
    Players <- Two
    Items <- OneItem
    Slots <- OneSlot
    NotTraded = s2
    None = None
    MaxMoney = 2
    Room <- RoomForOne
    StartItems <- SwordOfAnn
    StartMoney <- OneAndTwo
    MaxWrites = 2
SPECIFICATION Spec
INVARIANTS
    TypeOK
    NothingDuplicated
    NothingLost
    AcceptanceIsInformed
