CONSTANTS
    Conns <- MCConns
    Vals <- MCVals
    Triads <- MCTriads
    k1 = k1
    k2 = k2
    v1 = v1
    v2 = v2
    t1 = t1
    t2 = t2
    V0 = V0
    NoConn = NoConn
    NoEvent = NoEvent
    ServerHandle = 16909060
    IdBits = 3
    StartId = 4
    MaxOpens = 3
SYMMETRY MCSymmetry
SPECIFICATION Spec
PROPERTIES
    ForwardOpenStatus
