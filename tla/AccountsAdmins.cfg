SPECIFICATION Spec
SYMMETRY SlotSymmetry
CONSTANTS
    People = {"ann", "bob", "eve"}
    FirstAdmins <- SomeAdmins
    FirstEnabled <- SomeEnabled
    FirstRows <- SomeRows
    s1 = s1
    s2 = s2
    Slots = {s1, s2}
    MaxCalls = 3
    MaxFaults = 1
    Scenarios <- SomeScenarios
    Viewer = "ann"
    MaxLoads = 3
    Start = 19
    End = 20
    Picks <- SomePicks
    Logs = {1, 2, 3, 4, 5}
    Batches = {1, 2, 3}
    LogCount <- SomeCounts
    SealedOn <- SomeDays
    Moments <- SomeMoments
    Arrivals <- SomeArrivals
    MaxPolls = 3
INVARIANTS
    OneAtATimeKeepsAnAdmin
    ErasureIsProven
    DoneIsShown
    ReportIsTrue
    FiguresAreTrue
CHECK_DEADLOCK FALSE
