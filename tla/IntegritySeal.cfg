SPECIFICATION Spec
SYMMETRY CallerSymmetry
CONSTANTS
    Logs <- Log2
    NoRoot = NoRoot
    MaxBatches = 3
    MaxTxs = 3
    Callers = {cron, manual}
    Rounds = {v1}
    BatchSize = 2
    AutoReanchor = FALSE
    Configured = TRUE
    Edits = {"ok"}
    MaxEdits = 0
    Faults = {"crash", "db", "rpc", "funds", "drop"}
    MaxFaults = 2
INVARIANTS
    MappingMatchesTree
    ConfirmedIsAnchored
PROPERTIES
    ImplementsLedger
