SPECIFICATION Spec
CONSTANTS
    Screens = {s1}
    Names = {"be", "go"}
    NoName = NoName
    Accounts = {"full"}
    MaxTaps = 2
    MaxFailures = 0
INVARIANT
    ButtonShowsFavorite
CHECK_DEADLOCK FALSE
