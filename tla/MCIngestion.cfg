CONSTANTS
    Events = {e1, e2}
    Ignored = {e2}
    Requests = {r1, r2, r3}
    MaxDuplicates = 1
    MaxFaults = 2

SPECIFICATION FairSpec
INVARIANTS TypeOK ProcessedOnce AckedStored
PROPERTIES EventuallyAcked PipelineFollows
CHECK_DEADLOCK FALSE
