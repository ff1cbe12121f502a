SPECIFICATION FairSpec
CONSTANTS
    t1 = t1
    t2 = t2
    t3 = t3
    c1 = c1
    c2 = c2
    c3 = c3
    Threads <- const_Threads
    Conns <- const_Conns
    NoConn = NoConn
    Warmer = t1
    Min = 2
    Max = 2
INVARIANTS Counted Bounded Exclusive HandedOutOpen NothingForgotten
PROPERTIES CallsEnd
CHECK_DEADLOCK FALSE
