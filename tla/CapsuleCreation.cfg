CONSTANTS
    MaxImages = 2
    MaxPicks = 3
    MaxRequests = 2
    Tags <- OneTag
SPECIFICATION Spec
INVARIANTS
    TypeOK
    ArraysInStep
    ImagesAccountedFor
    RequestsNameATag
    NothingLeftOut
CHECK_DEADLOCK FALSE
