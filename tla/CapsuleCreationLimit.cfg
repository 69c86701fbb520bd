CONSTANTS
    MaxImages = 4
    MaxPicks = 5
    MaxRequests = 1
    Tags <- OneTag
SPECIFICATION Spec
INVARIANT AtMostFourImages
CHECK_DEADLOCK FALSE
