CONSTANTS
    ConnIds <- MCConnIds
    Asms <- MCAsms
    Vals <- MCVals
    Configs <- MCConfigs
    c1 = c1
    a1 = a1
    v1 = v1
    V0 = V0
    NoAsm = NoAsm
    NoIngress = NoIngress
    NoWrite = NoWrite
    NoConn = NoConn
    NoEvent = NoEvent
    SchedPeriod = 1
    WatchdogPeriod = 2
SPECIFICATION Spec
PROPERTIES
    IdleDataNotApplied
