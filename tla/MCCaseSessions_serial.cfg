CONSTANTS
    Workers = {w1}
    Scheduler = scheduler
    Customers = {u1}
    Ref <- MCRef
    NumCases = 2
    StoredStates <- ReplyStates
    FinalStates <- Closed
    MaxRetries = 3
    MaxBrokenPromises = 2
    MaxEvents = 5
    MaxFaults = 1

SPECIFICATION Spec
CHECK_DEADLOCK FALSE
PROPERTIES LifecycleSpec
