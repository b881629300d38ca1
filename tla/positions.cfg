SPECIFICATION Spec
CONSTANTS
    Qty = 2
    MaxSignals = 2
    DailyMax = 1
    MaxFaults = 1
INVARIANTS
    TypeOK
    BooksAgree
    EveryCloseIsBooked
PROPERTIES
    TickEnds
