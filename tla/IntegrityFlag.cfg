SPECIFICATION FairSpec
CONSTANTS
    Logs <- Log1
    NoRoot = NoRoot
    MaxBatches = 1
    MaxTxs = 2
    Callers = {cron}
    Rounds = {v1, v2}
    BatchSize = 1
    AutoReanchor = FALSE
    Configured = TRUE
    Edits = {"both", "ok", "close"}
    MaxEdits = 2
    Faults = {"rpc", "ack"}
    MaxFaults = 1
PROPERTIES
    TamperStaysFlagged
