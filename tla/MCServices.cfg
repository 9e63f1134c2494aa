SPECIFICATION ServicesSpec
CONSTANTS
    PageKeys = {0, 1}
    PageFrames <- MCPageFrames
    Profiles = {1, 2}
    MinMatches = {50, 80}
    MaxPages = 2
    MaxPageEdits = 4
    FramePayloads <- MCFramePayloads
    MaxReceive = 9
    MaxFrames = 3
    MaxPiece = 5
    KeySlots = {1, 2}
    StripSlots = {11, 12}
    StrayKey = 9
    PartsOf <- MCPartsOf
    KeyCap = 2
    TotalCap = 3
    WindowCap = 1
    MaxInFlight = 1
    MaxConnects = 2
    MaxChunks = 4
    PluginKeys = {1}
    FetchMaxConcurrent = 1
    MaxMissedPongs = 2
    MaxConsecutiveKills = 2
    MaxWorkers = 3
    MaxGens = 2
    MaxTaps = 1
    MaxFetches = 1
    MaxInbox = 2
    MaxOutbox = 1
    MaxPlugs = 2
    MaxMsgs = 1
    Digests = {1, 2}
    MaxQueuedEvents = 2
    MaxPendingRequests = 1
    MaxKills = 2
    MaxMissed = 1
    MaxFolderEdits = 1
    MaxReads = 2
    MaxExtEvents = 1
    MaxAsked = 1
    PairedDocks = {0, 1}
    ConnectsOverlap = FALSE
    MaxRounds = 2
    MaxAppEvents = 2
    MaxScanWorkers = 2
    MaxScanCalls = 4
    MaxUnplugs = 2
    TunedDocks = {0, 1}
    TunedModels = {1, 2}
    ImageSpecs = {0, 1}
    KeyMaps = {0, 1}
    TuneWhileOpening = FALSE
    MaxTuneEdits = 3
    Boards <- MCBoards
    WzRows = 1
    WzColumns = 3
    AppFrame <- MCAppFrame
    RegistryImage <- MCRegistryImage
    RegistryMap <- MCRegistryMap
    SizeRungs = {2, 6, 8}
    CapRungs <- MCCapRungs
    QualityRungs <- MCQualityRungs
    UnitList <- MCUnitList
    SupportedPids <- MCSupportedPids
    ListBufLen = 26
    SnapshotTtl = 1
    MaxUsbActs = 5
    LogRotateSize = 3
    LogPendingMax = 2
    MaxLogLines = 6
    MaxLogFaults = 1
    AppStates = {1, 2}
    MaxDays = 2
    AppSetups <- MCAppSetups
INVARIANTS
    LayoutFollowsPanel
    StreamComesOutWhole
    HostedCodeIsOrderly
    AppComesBack
    ScansAreTrue
    TuningIsRight
    LogIsFaithful
    ProcessIsTidy
\* A stopped host, a disposed worker or a spent bound leaves nothing to do.
CHECK_DEADLOCK FALSE
