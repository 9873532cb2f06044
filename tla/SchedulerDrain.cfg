SPECIFICATION FairSpec
CONSTANTS
    Logs <- Log3
    Admins = {admin}
    Modes = {"cron", "hybrid"}
    BatchSize = 2
    MaxWait = 1
    BackoffAfter = 1
    BackoffMax = 2
    MaxBatches = 2
    Ticks = {t1, t2}
    InsertAges <- Ahead
    Faults = {"crash", "db", "chain", "rpc", "poor", "resolve"}
    MaxFaults = 2
INVARIANTS
    OneDrain
PROPERTIES
    ForgottenOnlyByFailedUpdate
    BackoffIsServed
    PendingIsSealed
