CONSTANTS
    Workers = {w1, w2}
    Scheduler = scheduler
    Customers = {u1}
    Ref <- MCRef
    NumCases = 1
    StoredStates <- ReplyStates
    FinalStates <- Closed
    MaxRetries = 2
    MaxBrokenPromises = 2
    MaxEvents = 4
    MaxFaults = 1

SPECIFICATION Spec
SYMMETRY Symmetry
CHECK_DEADLOCK FALSE
INVARIANTS TypeOK ClosedMatchesOutcome NoUnsentContact MessagesOnRecord TurnsAnswered PromiseCapPending
PROPERTIES SettledMovesOnlyStale LedgerSpec
