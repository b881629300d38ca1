SPECIFICATION Spec
CONSTANTS
    Txns = {t1}
    N = 3
    Undoable <- FirstAndLast
    MaxTries = 3
    MaxFaults = 3
    MaxCrashes = 1
INVARIANTS
    AllOrNothing
    JournalTellsTruth
CHECK_DEADLOCK FALSE
