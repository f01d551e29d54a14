CONSTANTS
    Ctls <- MCCtls
    g1 = g1
    g2 = g2
    NoCtl = NoCtl
    Reader = NoCtl
    MaxSubs = 2
    Cap = 1
    MaxPolls = 2
SPECIFICATION Spec
CHECK_DEADLOCK FALSE
INVARIANTS
    TypeOK
    NoSendOnClosedChannel
PROPERTIES
    ControlCallsReturn
