SPECIFICATION FairSpec
CONSTANTS
    j1 = j1
    j2 = j2
    Jobs = {j1, j2}
    Workers = {w1, w2}
    Reviews = {r1, r2, r3}
    NoJob = NoJob
    Verdicts = {"clean", "review", "block"}
    Expiring = {j1}
    ClaimBatchSize = 2
    RecoveryBatchSize = 2
    MaxAttempts = 2
    LockTimeout = 2
    MaxRetryDelay = 1
    JobTime = 1
    MaxRequeues = 1
    MaxAborts = 1
ACTION_CONSTRAINT OneOrPlain
INVARIANTS
    ExclusiveHolding
    AttemptBudget
PROPERTIES
    KeepsLifecycle
    QueuedSettles
