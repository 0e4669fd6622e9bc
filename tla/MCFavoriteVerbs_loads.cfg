SPECIFICATION FairSpec
CONSTANTS
    Verbs <- MCVerbs
    NoInfinitive = {"blank"}
    Infinitive <- MCInfinitive
    Names = {"be", "bring", ""}
    Blank = ""
    Texts <- MCTexts
    Matches <- MCMatches
    None = None
    CancelButton = TRUE
    MaxQueue = 2
    MaxToggles = 1
INVARIANTS
    TypeOK
    ListIsFavorites
    NilNeedsBlank
PROPERTY
    FavoritesArrive
CHECK_DEADLOCK FALSE
