CONSTANTS
    NumCapsules = 2
    Tags <- MCTags
    TagOf <- MCTagOf
    CreatedDate <- MCCreatedDate
    DeadlineDate <- MCDeadlineDate
    Title <- MCTitle
    Slots = {s1, s2, s3}
    PageSize = 1
    Born = {1, 2}
    Created = {}
    Deletable = {1}
    Opening = {}
    TagButtons = {"family"}
    StateButtons = {}
    SortBy = {}
SPECIFICATION Spec
SYMMETRY SlotSymmetry
INVARIANTS
    TypeOK
    NoCapsuleTwice
    RowsFollowFiltered
    NoRequestOfTheLastCursor
    FilteredObeysSelection
    TrapNeedsPendingReload
PROPERTIES
    FilteredIsRebuilt
    DeletedStaysGone
