SPECIFICATION MCSpec
CONSTANTS
    Job = {1, 2, 3, 4, 5}
    NoJob = NoJob
    User = {u1, u2}
    NoUser = NoUser
    Admin = {a1, a2}
    Press = {p1, p2}
    MaxQueueLen = 1
    MaxWaits = 1
    MaxFaults = 1
INVARIANTS
    RowAddsUp
    CancelStops
    
PROPERTIES
    ImplementsJobs
    StatusTellsTheTruth
    QueueDrains
    CleanJobEnds
CHECK_DEADLOCK FALSE
