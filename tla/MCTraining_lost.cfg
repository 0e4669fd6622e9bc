SPECIFICATION Spec
CONSTANTS
    Screens = {s1}
    Words <- MCWords
    Dictionary <- MCDictionary
    Blank = ""
    StartTime = 2
    Bonus = 1
    InitialScores = {2}
    Accounts = {"full", "bare", "signedOut"}
    Served = {s1}
    MaxScore = 2
    MaxFailures = 2
PROPERTY BestScoreNeverLowered
CHECK_DEADLOCK FALSE
