SPECIFICATION Spec
CONSTANTS
    None = None
    MaxEntries = 2
    Keep = 2
    Faults <- AllFaults
    MaxAppends = 4
    MaxClock = 3
    MaxFaults = 2
    MaxMoves = 2
    MaxCrashes = 1
INVARIANTS
    TypeOK
    ReplayInOrder
    AckedIsReplayed
    RecentSurvive
CHECK_DEADLOCK FALSE
