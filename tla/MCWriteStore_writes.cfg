SPECIFICATION FairSpec
CONSTANTS
    Users = {"u1", "u2"}
    MaxWrites = 3
    kMaxPendingWrites = 2
    MaxBreaks = 2
    MaxOther = 1
    Fields = {"bestScore", "favoritesVerbs"}
    ArrayFields = {"favoritesVerbs"}
    Field <- MCField
INVARIANTS
    TypeOK
    PipelineIsOldest
    CallbackMatches
    ToldTruth
    WatchedIsWhole
    RestsOnLast
    ResentOnlyAfterBreak
    IdleMeansDrained
PROPERTIES
    ReadsAdvance
    EveryWriteLands
CHECK_DEADLOCK FALSE
