SPECIFICATION FairSpec
CONSTANTS
    c1 = c1
    c2 = c2
    Conns = {c1, c2}
    Capacity = 1
    SetupTimeout = 2
    AcquireTimeout = 1
    DialTimeout = 1
    Settings <- MCSettings
    Unbounded = Unbounded
PROPERTIES
    HeaderEnds
