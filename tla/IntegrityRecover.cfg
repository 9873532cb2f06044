SPECIFICATION FairSpec
CONSTANTS
    Logs <- Log1
    NoRoot = NoRoot
    MaxBatches = 3
    MaxTxs = 2
    Callers = {cron}
    Rounds = {v1}
    BatchSize = 1
    AutoReanchor = TRUE
    Configured = TRUE
    Edits = {"ok", "content", "gone"}
    MaxEdits = 2
    Faults = {"reset", "drop", "crash", "rpc", "db", "funds"}
    MaxFaults = 2
INVARIANTS
    AnchoredRootIsSealed
    TamperedHasAlert
PROPERTIES
    EventuallySealed
    CleanSettles
