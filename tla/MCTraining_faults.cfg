SPECIFICATION FairSpec
CONSTANTS
    Screens = {s1}
    Words <- MCWords
    Dictionary <- MCDictionary
    Blank = ""
    StartTime = 2
    Bonus = 1
    InitialScores = {0, 1}
    Accounts = {"full", "bare", "signedOut"}
    Served = {s1}
    MaxScore = 2
    MaxFailures = 2
INVARIANTS
    TypeOK
    OneClock
    NeverMissesZero
PROPERTIES
    OneBlankPointAtMost
    AbandonedGameEnds
    KeepsPromise
    RecordIsSaved
CHECK_DEADLOCK FALSE
