SPECIFICATION Spec
CONSTANTS
    Receipts <- FourReceipts
    MaxCrashes = 0
    MaxFaults = 1
    Edits <- OneEdit
    Shown = 0
INVARIANTS
    FailedWriteHarmless
CHECK_DEADLOCK FALSE
