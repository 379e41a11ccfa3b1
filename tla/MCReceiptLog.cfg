SPECIFICATION FairSpec
CONSTANTS
    Receipts <- FourReceipts
    MaxCrashes = 2
    MaxFaults = 2
    Edits <- OneEdit
    Shown = 2
INVARIANTS
    TypeOK
    BreaksBounded
    TamperEvident
PROPERTIES
    ImplementsTrail
    AppendsEnd
CHECK_DEADLOCK FALSE
