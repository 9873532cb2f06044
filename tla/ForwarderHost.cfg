SPECIFICATION FairSpec
CONSTANTS
    Lines = {"page", "again", "post", "probe", "cors"}
    Entries = {"login", "noise", "bad"}
    Payload <- SomePayloads
    PerHour = 2
    Reserve = 1
    DedupTime = 1
    HourTime = 1
    Scenarios <- SomeScenarios
    MaxFaults = 1
    MaxTime = 1
    MaxInode = 2
INVARIANTS
    NoNeedlessRepeat
    WarningsHaveRoom
PROPERTIES
    QueuedIsSettled
    CapIsTheForecast
CHECK_DEADLOCK FALSE
