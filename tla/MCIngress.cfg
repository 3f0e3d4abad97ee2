SPECIFICATION FairSpec
CONSTANTS
    m1 = m1
    m2 = m2
    m3 = m3
    Messages = {m1, m2, m3}
    Requests = {r1, r2}
    Batches <- Pair
    Blank = {m3}
    Unroutable = {m1}
    Restamped = {m3}
    ReplayWindow = 0
    Retention = 2
    ClockSkew = 0
    RequestTime = 1
    BatchSize = 2
    MaxDeliveries = 3
    MaxFaults = 1
    Horizon = 2
ACTION_CONSTRAINT ThriceAlone
CHECK_DEADLOCK FALSE
INVARIANTS
    ExecutedOnce
    ReplyNotLost
PROPERTIES
    KeepsMessageLifecycle
    DecisionFinal
    
