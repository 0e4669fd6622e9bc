SPECIFICATION FairSpec
CONSTANTS
    Verbs <- MCVerbs
    NoInfinitive = {"blank"}
    Dictionaries <- MCDictionaries
    Texts <- MCTexts
    Matches <- MCMatches
    None = None
    CancelButton = TRUE
    MaxQueue = 3
INVARIANTS
    TypeOK
    ResultsAnswer
PROPERTY
    SearchAnswered
CHECK_DEADLOCK FALSE
