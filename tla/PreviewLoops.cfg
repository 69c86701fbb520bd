CONSTANTS
    NumCapsules = 3
    Tags <- MCTags
    TagOf <- MCTagOf
    CreatedDate <- MCCreatedDate
    DeadlineDate <- MCDeadlineDate
    Title <- MCTitle
    MaxLeft = 2
    MaxRight = 3
    LeftInputs <- MCLeftInputs
    RightInputs <- MCRightInputs
SPECIFICATION LoopSpec
INVARIANTS
    OperatorsAreTheLoops
    DuplicateReplyIsHarmless
CHECK_DEADLOCK FALSE
