SPECIFICATION FairSpec
CONSTANTS
    Logs = {"try1", "try2", "login", "pair2", "env", "get"}
    About <- Attack
    Rules <- AttackRules
    SeenCapacity = 2
    HistoryMax = 3
    PruneEvery = 2
    BufferSize = 2
    WindowSize = 2
    Likely <- LoginFollowsGet
    DetectFaults = {"crash", "publish", "model"}
    MaxDetectFaults = 1
    MaxSends = 4
    MaxChain = 2
    MaxAllFaults = 1
    Ids = {1, 2, 3}
    Keys <- AttackKeys
    Callers = {"consumer"}
    Admins = {}
    Renotify = TRUE
    DeskFaults = {}
    MaxDeskFaults = 0
    MaxHours = 0
    Audits = {}
    AuditOf <- NoAudits
    Polls = {}
    FeedFaults = {"restart", "group", "crash"}
    MaxFeedFaults = 1
INVARIANTS
    NoAttackMissed
PROPERTIES
    ThresholdJustified
    MatchIsAlerted
CHECK_DEADLOCK FALSE
