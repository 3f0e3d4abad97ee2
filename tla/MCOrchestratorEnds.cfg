SPECIFICATION FairSpec
CONSTANTS
    Machines = {m1, m2, m3}
    Users = {u1}
    Provisions = {p1}
    Destroys = {d1}
    Nobody = Nobody
    None = None
    Pool = Pool
    WarmPoolSize = 1
    MaxFailures = 2
    MaxFaults = 0
    MaxSick = 1

CHECK_DEADLOCK FALSE
PROPERTIES
    SickNoticed
