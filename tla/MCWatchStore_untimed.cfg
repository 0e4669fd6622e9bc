SPECIFICATION Spec
CONSTANTS
    Gets = {g1, g2}
    MaxVersion = 1
    MaxBreaks = 0
    kMaxWatchStreamFailures = 1
INVARIANTS
    UnknownIsTimed
CHECK_DEADLOCK FALSE
