SPECIFICATION FairSpec
CONSTANTS
    Logs = {"log"}
    Ids = {1, 2, 3}
    Keys <- AllKeys
    Callers = {"consumer", "poll1", "poll2"}
    Admins = {adm}
    Renotify = TRUE
    DeskFaults = {"query", "link", "expire"}
    MaxDeskFaults = 1
    MaxHours = 1
    Audits = {"disable"}
    AuditOf <- AuditEvents
    Polls = {"poll1", "poll2"}
    FeedFaults = {"restart", "group", "crash", "early", "save"}
    MaxFeedFaults = 1
    Messages <- MlAlerts
    MaxMessages = 2
INVARIANTS
    CriticalIsMailed
    LostRaceIsRepeat
    MailsAreRationed
PROPERTIES
    AuditIsAlerted
CHECK_DEADLOCK FALSE
