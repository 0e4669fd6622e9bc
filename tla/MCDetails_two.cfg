SPECIFICATION FairSpec
CONSTANTS
    Screens = {s1, s2}
    Names = {"be", "go"}
    NoName = NoName
    Accounts = {"full", "bare", "signedOut"}
    MaxTaps = 2
    MaxFailures = 1
INVARIANTS
    TypeOK
    RaceNeedsHaste
    TapsAlternate
PROPERTIES
    OnlyOwnVerb
    Settles
CHECK_DEADLOCK FALSE
