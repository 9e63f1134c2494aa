SPECIFICATION FairSpec
CONSTANTS
    Units = {1, 2}
    ModelOf <- MCSameModel
    Drivers = {1, 2, 3, 4, 5}
    Cap = 2
    MaxPlugs = 2
    MaxEdits = 2
    OpenMayFail = FALSE
    ScanMayFail = FALSE
    SlowOpen = FALSE
INVARIANTS
    NothingIsShared
PROPERTIES
    DiscoveryProgresses
\* After a shutdown the application has stopped.
CHECK_DEADLOCK FALSE
