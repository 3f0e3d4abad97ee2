SPECIFICATION Spec
CONSTANTS
    Posts = {}
    Relays = {}
    Resumes = {r1}
    Pushes = {u1}
    Conns = {c1, c2}
    NoConn = NoConn
    Free = Free
    Replies = 2
    Buffer = 1
    MaxFaults = 1
CHECK_DEADLOCK FALSE
INVARIANTS
    DeadConnRemoved
