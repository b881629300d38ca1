SPECIFICATION FairSpec
CONSTANTS
    o1 = o1
    o2 = o2
    loop = loop
    w1 = w1
    k1 = k1
    Id <- Orders2
    Loop <- loop
    Web <- Commands
    Pruner <- Prunes
    Faults <- AllFaults
    MaxFaults = 2
INVARIANTS TypeOK LateFileMeansOverlap NothingLost StaleNeedsFailure
PROPERTY ClosedOrdersAreNoticed
CHECK_DEADLOCK FALSE
