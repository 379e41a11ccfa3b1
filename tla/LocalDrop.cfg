SPECIFICATION Spec
CONSTANTS
    dflt = dflt
    first = first
    second = second
    NoDest = NoDest
    Conn = {c1, c2}
    SrcPort = {p1}
    Dest = {dflt, first, second}
    Intercepted = {first, second}
    Fallback = dflt
    Tries = 2
    Tunnel = {t1}
    NoTunnel = NoTunnel
    AgentPorts <- BothPorts
    Port <- Ports
    FlagSets <- Settings
    MaxData = 1
INVARIANTS
    DialsAsAsked
CHECK_DEADLOCK FALSE
