SPECIFICATION FairSpec
CONSTANTS
    t1 = t1
    t2 = t2
    Runs = {q1}
    Tools = {t1, t2}
    Config <- Pushed
    MaxIterations = 2
    Wants <- OneOrTwo
    MaxFaults = 1
CHECK_DEADLOCK FALSE
INVARIANTS
    FreshConfig
    ValidatedFirst
    GovernedNotMade
    OutcomeIsTrue

    
