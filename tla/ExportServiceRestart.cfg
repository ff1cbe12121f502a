SPECIFICATION FairSpec
CONSTANTS
    c1 = c1
    c2 = c2
    w1 = w1
    w2 = w2
    j1 = j1
    j2 = j2
    s1 = s1
    s2 = s2
    Clients <- const_Clients
    Workers <- const_Workers
    Jobs <- const_Jobs
    Shares <- const_Shares
    MaxLives = 3
    None = None
INVARIANTS SuccessHasArtifact OutcomeDurable ShareOpens
PROPERTIES OutcomeFinal ExportsFinish
CHECK_DEADLOCK FALSE
