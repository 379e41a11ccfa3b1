SPECIFICATION FairSpec
CONSTANTS
    c = c
    Callers = {c}
    MaxRefills = 2
    Size = 1
    TTL = 2
    Setup = 1
    Cooldown = 2
    MaxFlaps = 1
    Closes = TRUE
INVARIANTS
    TypeOK
    AttestationBounded
    NoDialStorm
PROPERTIES
    Recovers
