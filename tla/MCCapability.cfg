SPECIFICATION Spec
CONSTANTS
    Segment <- MCSegment
    Name <- MCName
    Grants <- MCGrants
    MaxHops = 3
INVARIANTS
    TypeOK
    EndToEnd
CHECK_DEADLOCK FALSE
