SPECIFICATION ActionSpec
CONSTANTS
    Actions = {a1}
    Users = {u1, u2}
    Reviews = {v1, v2, v3}
    NoUser = NoUser
    MaxReviewFaults = 2
SYMMETRY Symmetry
CHECK_DEADLOCK FALSE
INVARIANTS
    CalledOnceApproved
PROPERTIES
    KeepsGovernance
    DecisionIsFinal
