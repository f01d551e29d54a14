CONSTANTS
    ClassIds <- MCClassIds
    InstanceIds <- MCInstanceIds
    Instance32Ids <- MCInstance32Ids
    AttributeIds <- MCAttributeIds
    MemberIds <- MCMemberIds
    SymbolLens <- MCSymbolLens
    MaxSegs = 2
    Statuses <- MCStatuses
    ExtStatuses <- MCExtStatuses
    Timers <- MCTimers
    Counters <- MCCounters
    IdentityOffers <- MCIdentityOffers
    ServiceOffers <- MCServiceOffers
    MaxItems = 2
    ScannerFlags <- MCScannerFlags
SPECIFICATION Spec
INVARIANTS
    RequestDecoded
    SessionHandleEchoed
    ForwardOpenDecoded
PROPERTY
    MessagingSpec
