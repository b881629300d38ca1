SPECIFICATION RiskSpec
CONSTANTS
    Symbols = {"BTCUSDT"}
    InitialCapital = 70
    PnLs <- MCPnLs
    TierFile <- MCTiers
    EvalOrder <- MCOrder
    EntryLookback = 4
    ExitLookback = 3
    PFTrades = 2
    PromoteAfter = 1
    PromoteBuffer = 1
    MinStay = 3
    DemoteAfter = 1
    DemoteBuffer = 2
    KillDrawdown = 60
    KillStreak = 3
    KillTrades = 4
    HaltDrawdown = 40
    LevelsUp = 7
    LevelsDown = 6
    MinLevels = 5
    BaseLeverage = 2
    MinOrder = 10
    MaxOrder = 40
    MaxTrades = 4
    MaxBanks = 1
    MaxRestarts = 1
INVARIANTS RiskTypeOK GridFits
PROPERTIES PromotionIsEarned TierIsDeserved
CHECK_DEADLOCK FALSE
