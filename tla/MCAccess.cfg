SPECIFICATION Spec
CONSTANTS
    s1 = s1
    s2 = s2
    admin = admin
    Reqs = {r1, r2}
    Home = t1
    Others = {t2}
    Subjects = {s1, s2, admin}
    AdminSub = admin
    EmailOf <- SharedEmail
    Scopes = {"org"}
    Names = {"standard_user", "ops"}
    PermSets = {{"write"}, {"*"}}
    Invites = {i1}
    None = None
    MaxUsers = 2
    MaxRoles = 4
    MaxFaults = 1
SYMMETRY Symmetry
CHECK_DEADLOCK FALSE
INVARIANTS
    AccountIsUser
    
PROPERTIES
    
    OwnChangePublished
