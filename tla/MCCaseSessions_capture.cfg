CONSTANTS
    Workers = {w1}
    Scheduler = scheduler
    Customers = {u1}
    Ref <- MCRef
    NumCases = 1
    StoredStates <- ReplyStates
    FinalStates <- Closed
    MaxRetries = 3
    MaxBrokenPromises = 3
    MaxEvents = 4
    MaxFaults = 0

SPECIFICATION Spec
CHECK_DEADLOCK FALSE
PROPERTIES CaptureRecorded
