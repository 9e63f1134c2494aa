SPECIFICATION LifecycleSpec
CONSTANTS
    StableKeys = {1}
    VolatileKeys = {2}
    Owners = {"docks", "webui"}
    MaxSettingEdits = 3
    MaxFaults = 2
    Slots = {1}
    CommandKeys = {11, 12}
    WeatherKeys = {21}
    MaxEntries = 1
    MaxAsks = 2
    MaxPolls = 1
INVARIANTS
    FileIsCurrent
    RequestsAreServed
PROPERTIES
    ShutdownEnds
    TapsHearBack
\* A process that has exited has nothing left to do.
CHECK_DEADLOCK FALSE
