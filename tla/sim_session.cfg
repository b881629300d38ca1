SPECIFICATION Spec
CONSTANTS
    Id <- Ids4
    Spare = 1
    None = None
    w1 = w1
    w2 = w2
    Prices <- PricesTwo
    StartPrice = 8
    Spacing = 2
    NUp = 1
    NDown = 1
    Trigger = 1
    Live = FALSE
    MaxTrades = 1
    Reinvest = TRUE
    CancelOnStop = TRUE
    Webs = {}
    MaxCrashes = 0
    Events <- SessionEvents
INVARIANTS
    TypeOK
    OneCounterPerFill
    StoppedGridHasNoOrders
    BooksAgree
PROPERTIES
    FinalStatusIsFinal
