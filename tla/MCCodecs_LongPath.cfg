CONSTANTS
    ClassIds <- MCClassIds
    InstanceIds <- MCInstanceIds
    Instance32Ids <- MCInstance32Ids
    AttributeIds <- MCAttributeIds
    MemberIds <- MCMemberIds
    SymbolLens <- MCLongSymbolLens
    MaxSegs = 2
    Statuses <- MCStatuses
    ExtStatuses <- MCExtStatuses
    Timers <- MCTimers
    Counters <- MCCounters
    IdentityOffers <- MCIdentityOffers
    ServiceOffers <- MCServiceOffers
    MaxItems = 2
    ScannerFlags <- MCScannerFlags
SPECIFICATION Spec
INVARIANT
    RequestDecoded
