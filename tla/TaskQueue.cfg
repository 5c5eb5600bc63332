SPECIFICATION FairSpec
CONSTANTS
    w1 = w1
    w2 = w2
    t1 = t1
    t2 = t2
    t3 = t3
    Workers = {w1, w2}
    Tasks = {t1, t2, t3}
    NoTask = NoTask
    Ends <- MCEnds
INVARIANTS
    TypeOK
    Custody
    LateBound
PROPERTIES
    EveryTaskIsTaken
    ShutdownReturns
    NothingRunsAfterShutdown
    ImplementsLedger
CHECK_DEADLOCK FALSE
