SPECIFICATION Spec
CONSTANTS
    Logs = {1, 2, 3, 4, 5}
    Legacy = {5}
    Text <- SomeText
    A = "a"
    B = "b"
    Batches = {"a", "b"}
    Members <- SomeMembers
    MaxEdits = 3
    Scenarios <- SomeScenarios
    Asked <- SomeIds
    MaxAsks = 2
    Opened = {1, 4}
    MaxTurns = 2
INVARIANTS
    DiffIsExact
    ProofAgreesWithDiff
    UntouchedIsNeverAccused
    PathIsBacked
    DrawersAreTrue
CHECK_DEADLOCK FALSE
