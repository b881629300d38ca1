SPECIFICATION Spec
CONSTANTS
    Tasks = {t1, t2}
    Names = {"BTC"}
    MaxSize = 2
    PriceTtl = 1
    OhlcvTtl = 1
    BarLen = 1
    MaxAge = 2
    Timeout = 1
    MaxTime = 3
    MaxFaults = 1
    MaxRestarts = 1
SYMMETRY TaskSymmetry
INVARIANTS
    TypeOK
    AnswersAreFresh
    AtrIsFresh
CHECK_DEADLOCK FALSE
