SPECIFICATION Spec
CONSTANTS
    Machines = {m1, m2, m3}
    Users = {u1, u2}
    Provisions = {p1, p2}
    Destroys = {}
    Nobody = Nobody
    None = None
    Pool = Pool
    WarmPoolSize = 1
    MaxFailures = 1
    MaxFaults = 1
    MaxSick = 1
SYMMETRY Symmetric
CHECK_DEADLOCK FALSE
INVARIANTS
    OneAgentPerUser
    WarmPoolBounded
    NoVMLeak
