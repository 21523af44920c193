SPECIFICATION FairQueueSpec
CONSTANTS
    Users = {a}
    Workers = {w1, w2}
    MaxRequests = 1
    Attempts = 3
    MaxStalls = 1
    MaxFaults = 3
    NoUser = NoUser
    NoWorker = NoWorker
    NoJob = NoJob
INVARIANTS
    RepeatsAreFaults
    DoneIsDelivered
PROPERTIES
    MarkedIsSpared
    JobsEnd
CHECK_DEADLOCK FALSE
