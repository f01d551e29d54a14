CONSTANTS
    MaxInstance = 2
    Names <- MCNames
    Types <- MCTypes
    ClassStatuses <- MCClassStatuses
    AttrStatuses <- MCAttrStatuses
SPECIFICATION Spec
INVARIANT
    OkMeansComplete
CHECK_DEADLOCK FALSE
