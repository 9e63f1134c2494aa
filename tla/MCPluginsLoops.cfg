SPECIFICATION PluginsSpec
CONSTANTS
    PluginKeys = {1, 2}
    FetchMaxConcurrent = 1
    MaxMissedPongs = 2
    MaxConsecutiveKills = 2
    MaxWorkers = 2
    MaxGens = 3
    MaxTaps = 1
    MaxFetches = 1
    MaxInbox = 1
    MaxOutbox = 1
INVARIANT LoopsCanBeStopped
CHECK_DEADLOCK FALSE
