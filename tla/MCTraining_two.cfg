SPECIFICATION Spec
CONSTANTS
    Screens = {s1, s2}
    Words <- MCWords
    Dictionary = {}
    Blank = ""
    StartTime = 1
    Bonus = 1
    InitialScores = {0}
    Accounts = {"full"}
    Served = {}
    MaxScore = 2
    MaxFailures = 1
INVARIANTS
    BestIsCurrent
PROPERTIES
    RecordsStand
SYMMETRY ScreenSymmetry
CHECK_DEADLOCK FALSE
