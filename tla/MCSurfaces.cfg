SPECIFICATION SurfacesSpec
CONSTANTS
    UiDocks = {0, 1}
    TouchWindows = {1}
    MaxTouchFrames = 1
    MaxPaints = 2
    MaxUiChanges = 2
    MaxBreaks = 1
    MaxUiActs = 4
    DeckPages = {1, 2}
    DeckKeys = {1}
    DeckProfiles = {1, 2}
    MaxDeckWindow = 1
    MaxDeckClients = 2
    MaxDeckSockets = 2
    MaxDeckActs = 3
    PushChannelNames = {1, 2}
    PushTexts = {1}
    TokensMax = 1
    DecksMax = 1
    ChannelsMax = 1
    PairingMaxFails = 2
    OwnCapacity = 1
    GlobalCapacity = 2
    FailCapacity = 2
    MaxJobs = 2
    MaxSecrets = 2
    MaxPairings = 1
    MaxSeconds = 1
    MaxRequests = 2
    Families = {"mirabox", "mirabox-v1", "akp05", "elgato"}
    PanelKeys = {1, 2}
    PanelPics = {1, 2}
    Brightness = {50, 80}
    DefaultLevel = 80
    MaxReports = 2
    MaxPlugIns = 2
    MaxUsbOps = 4
    Zones = {1, 2}
    SideKeys = {}
    WidgetValues = {0, 1}
    StripSurface = TRUE
    MaxAppFrames = 1
    MaxStripOps = 3
    MaxStripQueue = 0
    IdUnits = {"a", "b"}
    IdModel <- MCIdModel
    DefaultModel <- MCDefaultModel
    DockNames = {"n1", "n2"}
    DefaultName = "n1"
    NoUnit = "none"
    MaxIdActs = 7
    InUnits = {"a", "b"}
    GridOf <- MCGridOf
    DefaultGrid = {0, 1}
    Knobs = {0}
    KnobsOf <- MCKnobsOf
    InLevels = {"dim", "bright"}
    FactoryLevel = "bright"
    Nobody = "none"
    MaxInActs = 8
INVARIANTS
    PreviewsMatchServer
    DeckIsFaithful
    AccessIsConsistent
    DriversAreFaithful
    StripShowsOwner
    IdentityIsTold
    InputIsFaithful
\* A closed page, a closed unit or a spent bound leaves nothing to do.
CHECK_DEADLOCK FALSE
