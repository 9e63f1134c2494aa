SPECIFICATION DockSpec
CONSTANTS
    Keys = {1}
    SplashKeys = {1}
    WidgetKey = 9
    Models = {"A", "B"}
    NoModel = NoModel
    Capacity = 4
    ControlReserve = 1
    MaxDraws = 2
    MaxWidgetChanges = 1
    MaxPlugs = 2
    MaxHolds = 1
    MaxSessions = 2
    SendsUnplugged = FALSE
    Sockets = {s1, s2, s3, s4}
    NoSocket = NoSocket
    MaxRetries = 2
    MaxAttempts = 2
    AllowOutbound = TRUE
INVARIANTS
    PanelIsTrue
    SessionsConsistent
PROPERTIES
    PanelConverges
    AbandonedPairingEnds
\* A connected deck on which nobody draws any more may stay as it is for ever, and a stopped
\* pair has nothing left to do.
CHECK_DEADLOCK FALSE
