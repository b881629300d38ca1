SPECIFICATION Spec
CONSTANTS
    Id <- Ids3
    Spare = 1
    None = None
    w1 = w1
    w2 = w2
    Prices <- PricesTwo
    StartPrice = 8
    Spacing = 2
    NUp = 0
    NDown = 1
    Trigger = 1
    Live = FALSE
    MaxTrades = 1
    Reinvest = TRUE
    CancelOnStop = TRUE
    Webs <- TwoWebs
    MaxCrashes = 1
    Events <- WebEvents
INVARIANTS
    OpenOrdersAreTracked
SYMMETRY AnyWeb
