CONSTANTS
    MaxInstance = 2
    Names <- MCNames
    Types <- MCTypes
    ClassStatuses <- MCClassStatuses
    AttrStatuses <- MCAttrStatuses
SPECIFICATION Spec
INVARIANTS
    TypeOK
    ListingExactWithoutLoss
CHECK_DEADLOCK FALSE
