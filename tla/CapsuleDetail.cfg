CONSTANTS
    a = a
    b = b
    bad = bad
    Urls <- MCUrls
    BadUrls = {bad}
    Lists <- MCLists
    MaxScreens = 2
    MaxSummaries = 2
SPECIFICATION Spec
INVARIANTS
    TypeOK
    ImagesInPlace
    BlankPageExplained
PROPERTY DownloadedIsShown
CHECK_DEADLOCK FALSE
