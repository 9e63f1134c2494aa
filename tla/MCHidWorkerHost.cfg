SPECIFICATION Spec
CONSTANTS
    PostedCount = 1
    PostedBytes = 1
    PendingCount = 1
    PendingBytes = 1
    ControlReserve = 0
    NoKey = NoKey
    Workers = {1, 2}
    NoWorker = NoWorker
    WorkMessages <- MCWorkMessages
    MaxOpens = 2
    MaxPosts = 2
    PostMayFail = TRUE
INVARIANTS
    CreditsInFlight
    WorkersKeepTheirPlace
    StripPatchHasBase
PROPERTIES
    CallsSettle
    LocalImagesResume
