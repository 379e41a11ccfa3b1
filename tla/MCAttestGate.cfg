SPECIFICATION FairSpec
CONSTANTS
    HasDeadline = TRUE
    Capacity = 0
    Sessions = {s1, s2}
    Defects <- MCDefects
    BadSizes <- MCBadSizes
INVARIANTS
    TypeOK
    MutualTrust
    FailureClass
PROPERTIES
    DeadlineEnds
    UndisturbedCompletes
    ImplementsBarrier
CHECK_DEADLOCK FALSE
