SPECIFICATION TokensSpec
CONSTANTS
    Families = {f1, f2}
    Callbacks = {c1}
    Exchanges = {x1}
    Refreshes = {r1, r2, r3, r4}
    Old = {o1, o2}
    Tenantless = {o2}
    NoToken = NoToken
    MaxTokenFaults = 1
SYMMETRY Symmetry
CHECK_DEADLOCK FALSE
INVARIANTS
    RefreshedOnce
    ReuseRevokes
    OnlyReuseRevokes
