SPECIFICATION FairSpec
CONSTANTS
    Posts = {p1}
    Relays = {w1}
    Resumes = {}
    Pushes = {}
    Conns = {c1, c2}
    NoConn = NoConn
    Free = Free
    Replies = 2
    Buffer = 1
    MaxFaults = 1
CHECK_DEADLOCK FALSE
INVARIANTS
    NoCrossTalk
    NoConnLeak
PROPERTIES
    KeepsPrivacy
    
