SPECIFICATION FairSpec
CONSTANTS
    Logs = {l1, l2, l3}
    Drains = {d1, d2}
    DrainBatch = 2
    Faults = {"crash", "stop", "ack", "db"}
    MaxFaults = 2
    MaxOutages = 1
INVARIANTS
    NoNeedlessDuplicate
PROPERTIES
    OutboxIsDrained
    ImplementsDelivery
CHECK_DEADLOCK FALSE
