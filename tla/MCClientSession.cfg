CONSTANTS
    Callers <- MCCallers
    r1 = r1
    r2 = r2
    NoCall = NoCall
    MaxCalls = 2
    MaxRetries = 1
    MaxDials = 3
    MaxResets = 1
SPECIFICATION Spec
INVARIANTS
    TypeOK
    NoLeakedTransport
PROPERTIES
    ClosedStaysClosed
    ReadTagReturns
