SPECIFICATION FairSpec
CONSTANTS
    a = a
    b = b
    Node = {a, b}
    Slot = {t1, t2}
    Pairs <- AToB
    Seldom <- BToA
    Expires = TRUE
    Tools = {b}
    MaxVersion = 2
    Usable = {1}
    MaxEvents = 1
INVARIANTS
    TypeOK
    SameGate
    EnforcesAttested
PROPERTIES
    SelfHealing
