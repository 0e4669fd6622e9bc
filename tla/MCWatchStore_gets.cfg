SPECIFICATION FairSpec
CONSTANTS
    Gets = {g1, g2, g3}
    MaxVersion = 2
    MaxBreaks = 1
    kMaxWatchStreamFailures = 1
INVARIANTS
    TypeOK
    AssertionsHold
    NoMissedAnswer
    SyncedIsFresh
PROPERTIES
    KeepsQueryPromise
CHECK_DEADLOCK FALSE
