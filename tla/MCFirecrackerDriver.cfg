SPECIFICATION DriverSpec
CONSTANTS
    NoStart = NoStart
    Starts = {s1, s2}
    Removes = {r1, r2}
    Checks = {c1}
    Modes <- AllModes
    MaxRestarts = 1
CHECK_DEADLOCK FALSE
INVARIANTS
    
    LiveVMIsFound
    RemovedIsGone
    FailedStartLeavesNothing
