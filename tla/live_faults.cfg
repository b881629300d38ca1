SPECIFICATION Spec
CONSTANTS
    Id <- Ids2
    Spare = 1
    None = None
    w1 = w1
    w2 = w2
    Prices <- PricesTwo
    StartPrice = 8
    Spacing = 2
    NUp = 0
    NDown = 1
    Trigger = 1
    Live = TRUE
    MaxTrades = 2
    Reinvest = TRUE
    CancelOnStop = TRUE
    Webs <- OneWeb
    MaxCrashes = 1
    Events <- LiveEvents
INVARIANTS
    OnlyRemaindersRest
