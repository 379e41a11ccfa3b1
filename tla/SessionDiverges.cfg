SPECIFICATION FairSpec
CONSTANTS
    a = a
    b = b
    Node = {a, b}
    Slot = {t1, t2}
    Pairs <- AToB
    Seldom = {}
    Expires = FALSE
    Tools = {b}
    MaxVersion = 1
    Usable = {1}
    MaxEvents = 0
PROPERTIES
    SelfHealing
