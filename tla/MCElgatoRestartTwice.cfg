SPECIFICATION RestartSpec
CONSTANTS
    PairedDocks = {0, 1}
    ConnectsOverlap = TRUE
    MaxRounds = 2
    MaxAppEvents = 2
INVARIANT RestartsOnce
CHECK_DEADLOCK FALSE
