CONSTANTS
    NumCapsules = 2
    Tags <- MCTags
    TagOf <- MCTagOf
    CreatedDate <- MCCreatedDate
    DeadlineDate <- MCDeadlineDate
    Title <- MCTitle
    Slots = {s1, s2}
    PageSize = 2
    Born = {1}
    Created = {2}
    Deletable = {}
    Opening = {1}
    TagButtons = {}
    StateButtons = {"closed", "opened"}
    SortBy <- MCCreatedOrTitle
SPECIFICATION Spec
INVARIANT
    NothingOpensEarly
PROPERTY
    ImplementsBoard
