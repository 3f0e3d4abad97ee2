SPECIFICATION FairSpec
CONSTANTS
    Requests = {r1}
    Sockets = {s1}
    Workers = {w1}
    Started <- Both
    BufferSize = 1
    BatchSize = 2
    MaxRows <- Enough
    MaxEvents = 2
    MaxFaults = 1
INVARIANTS
    CloseFlushes
    RequestsRecorded

    
