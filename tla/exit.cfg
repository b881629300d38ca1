SPECIFICATION Spec
CONSTANTS
    Moves <- MCMoves
    ATRs <- MCATRs
    EntryPrice = 2000
    SoftSL = 450
    HardSL = 550
    CatastrophicStop = 600
    TP1a = 70
    TP1 = 120
    TrailingStart = 85
    AdverseR = 250
    BreakevenOffset = 0
    ApePullback = 3
    ApeInitial = 5
    Amount = 100
    TP1aPct = 30
    PartialPct = 50
    MinAmount = 16
CHECK_DEADLOCK FALSE
INVARIANTS
    TypeOK
    NeverLoosens
    BreakEven
PROPERTIES
    EndsAtLast
