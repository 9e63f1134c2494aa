SPECIFICATION HidSpec
CONSTANTS
    PostedCount = 2
    PostedBytes = 2
    PendingCount = 2
    PendingBytes = 3
    ControlReserve = 1
    NoKey = NoKey
    k1 = k1
    k2 = k2
    Keys = {k1, k2}
    Sizes = {1, 2}
    MaxSubmits = 4
    MaxResets = 1
    BatchCap = 3
    MaxMessages = 5
INVARIANTS
    PostedWithinBudget
    NoStall
    PortConsistent
    EffectsInOrder
    PicturesCommitFirst
PROPERTIES
    FramesNeverCostControl
    EverythingWaitingLeaves
    ImplementsContract
\* A thread that has answered everything waits for ever.
CHECK_DEADLOCK FALSE
