CONSTANTS
    NumCapsules = 3
    Tags <- MCTags
    TagOf <- MCTagOf
    CreatedDate <- MCCreatedDate
    DeadlineDate <- MCDeadlineDate
    Title <- MCTitle
    Slots = {s1, s2, s3}
    PageSize = 2
    Born = {1, 2, 3}
    Created = {}
    Deletable = {}
    Opening = {}
    TagButtons = {}
    StateButtons = {}
    SortBy = {}
SPECIFICATION Spec
INVARIANT NothingLeftToRequest
