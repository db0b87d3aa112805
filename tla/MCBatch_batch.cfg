CONSTANTS
    NumCases = 2
    Rounds = 3
    MaxRetries = 3
    MaxTries = 2
    MaxParses = 2
    Scripts <- MCScripts
    Schemas <- MCSchemas

SPECIFICATION Spec
CHECK_DEADLOCK FALSE
INVARIANTS TypeOK CasesSettle TallyMatchesRows MessagesRecorded CapUnreached
PROPERTIES BatchAdvances BatchLifecycle BatchEnds
