CONSTANTS
    MaxRounds = 8
    StalledRounds = 2
    MaxReplies = 2
    MaxPosts = 2
    MaxRetries = 3

SPECIFICATION Spec
CHECK_DEADLOCK FALSE
INVARIANTS TypeOK NoTurnTooMany ReportBacked
PROPERTIES DriverAdvances RunsEnd ServiceIsLedger
