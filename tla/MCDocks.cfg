SPECIFICATION DocksSpec
CONSTANTS
    Units = {1, 2}
    ModelOf <- MCOwnModel
    Drivers = {1, 2, 3, 4, 5}
    Cap = 2
    MaxPlugs = 2
    MaxEdits = 2
    OpenMayFail = TRUE
    ScanMayFail = TRUE
    SlowOpen = TRUE
    StandbyConfigs <- MCStandbyConfigs
    StandbyPanels <- MCStandbyPanels
    StandbyLevels = {0, 3}
    StandbyKeys = {1}
    IdleLevel = 1
    ClockLevel = 1
    NightLevel = 2
    FullLevel = 3
    TrafficMayRace = FALSE
    PairedBefore = FALSE
INVARIANTS
    StandbyIsFaithful
    DiscoveryConsistent
\* After a shutdown the application has stopped.
CHECK_DEADLOCK FALSE
