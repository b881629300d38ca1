SPECIFICATION FairSpec
CONSTANTS
    Id <- Ids6
    Spare = 3
    None = None
    w1 = w1
    w2 = w2
    Prices <- PricesAll
    StartPrice = 8
    Spacing = 2
    NUp = 1
    NDown = 2
    Trigger = 1
    Live = FALSE
    MaxTrades = 1
    Reinvest = TRUE
    CancelOnStop = TRUE
    Webs = {}
    MaxCrashes = 0
    Events <- LadderEvents
INVARIANTS
    GridShape
    InventoryIsCovered
PROPERTIES
    CrossedOrderIsResolved
