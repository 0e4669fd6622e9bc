SPECIFICATION FairSpec
CONSTANTS
    Emails = {"ann", "bob"}
    NoUser = NoUser
    MaxRequests = 3
    MaxRestarts = 1
    MaxOpened = 1
INVARIANTS
    TypeOK
    MenuInPlace
    ScreensActForUser
PROPERTY
    ProfileComes
CHECK_DEADLOCK FALSE
