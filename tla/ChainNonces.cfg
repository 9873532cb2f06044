SPECIFICATION Spec
CONSTANTS
    Batches = {b1, b2}
    HintTtl = 2
    Lag = 1
    WaitTime = 2
    RetryBase = 1
    RetryMax = 2
    FaultKinds = {"rpc", "lost", "drop", "crash"}
    MaxFaults = 2
    MaxCalls = 2
    MaxTime = 4
SYMMETRY BatchSymmetry
INVARIANTS
    NonceIsNext
    FailedNeverLands
CHECK_DEADLOCK FALSE
