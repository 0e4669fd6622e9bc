SPECIFICATION Spec
CONSTANTS
    Verbs <- MCVerbs
    NoInfinitive = {"blank"}
    Dictionaries <- MCDictionaries
    Texts <- MCTexts
    Matches <- MCMatches
    None = None
    CancelButton = FALSE
    MaxQueue = 2
INVARIANT
    RowsAreThere
CHECK_DEADLOCK FALSE
