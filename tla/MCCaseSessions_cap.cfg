CONSTANTS
    Workers = {w1}
    Scheduler = scheduler
    Customers = {u1}
    Ref <- MCRef
    NumCases = 1
    StoredStates <- MigratedStates
    FinalStates <- MigratedFinals
    MaxRetries = 3
    MaxBrokenPromises = 3
    MaxEvents = 6
    MaxFaults = 0

SPECIFICATION Spec
CHECK_DEADLOCK FALSE
INVARIANTS PromiseCapPending
