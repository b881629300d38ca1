SPECIFICATION Spec
CONSTANTS
    Prices <- TwoPrices
    Amounts <- TwoAmounts
    Scale = 10
    Rate = 1
    StartCapital = 100
    Fallback = 100
    TpPct = 10
    DdPct = 10
    Reinvest = TRUE
    MayGoStale = TRUE
    MaxStops = 1
    MaxFills = 4
    MaxCrashes = 1
INVARIANTS
    TypeOK
    OneSided
    CashFollowsTrades
PROPERTIES
    ImplementsFifo
