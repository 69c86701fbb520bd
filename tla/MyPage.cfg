CONSTANTS
    MaxLogins = 2
    MaxLogouts = 2
    MaxCalls = 2
    MaxChanges = 1
SPECIFICATION PageSpec
INVARIANTS
    PageTypeOK
    TokensOfOneLogin
    HomeHasAToken
    LogoutEndsItsOwnSession
    LabelOfThisVisit
    OnlyOverlapLosesMyPage
    PagesSpeakForTheSession
PROPERTIES
    LogoutLeadsToLogin
    WrongMeansWrongOrChanged
