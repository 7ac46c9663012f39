CONSTANTS
    ann = ann
    bob = bob
    eve = eve
    sword = sword
    gem = gem
    s1 = s1
    s2 = s2
    Players <- Three
    Items <- BothItems
    Slots <- OneSlot
    NotTraded = s2
    None = None
    MaxMoney = 1
    Room <- RoomOfThree
    StartItems <- ItemsOfThree
    StartMoney <- NoGold
    MaxWrites = 1
SPECIFICATION Spec
INVARIANTS
    PartnersAreMutual
PROPERTY
    TradeConserves
