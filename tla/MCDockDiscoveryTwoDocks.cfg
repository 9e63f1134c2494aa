SPECIFICATION Spec
CONSTANTS
    Units = {1, 2}
    ModelOf <- MCOwnModel
    Drivers = {1, 2, 3, 4, 5}
    Cap = 2
    MaxPlugs = 2
    MaxEdits = 0
    OpenMayFail = FALSE
    ScanMayFail = FALSE
    SlowOpen = TRUE
INVARIANT OneDockPerUnit
\* After a shutdown the application has stopped.
CHECK_DEADLOCK FALSE
