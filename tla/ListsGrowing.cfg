SPECIFICATION PagesSpec
CONSTANTS
    Logs = {1, 2, 3}
    Batches = {11, 12}
    At <- MCAt
    Source <- MCSource
    Message <- MCMessage
    Networks = {"net", "lan"}
    Typed <- MCTyped
    Limits = {1, 2}
    Offsets = {0, 2}
    MaxAsks = 3
    MaxFaults = 1
    Alerts = {a1}
    Notes = {"note"}
    MaxReads = 3
    MaxResolves = 2
INVARIANTS
    ListIsTrue
    ResolutionIsTrue
CHECK_DEADLOCK FALSE
