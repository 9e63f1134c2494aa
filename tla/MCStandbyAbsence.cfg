SPECIFICATION DocksSpec
CONSTANTS
    Units = {1}
    ModelOf <- MCOwnModel
    Drivers = {1, 2}
    Cap = 2
    MaxPlugs = 0
    MaxEdits = 0
    OpenMayFail = FALSE
    ScanMayFail = FALSE
    SlowOpen = FALSE
    StandbyConfigs <- MCAbsence
    StandbyPanels <- MCStandbyPanels
    StandbyLevels = {3}
    StandbyKeys = {1}
    IdleLevel = 1
    ClockLevel = 1
    NightLevel = 2
    FullLevel = 3
    TrafficMayRace = TRUE
    PairedBefore = FALSE
INVARIANT AbsenceNoticed
CHECK_DEADLOCK FALSE
