SPECIFICATION FairSpec
CONSTANTS
    s1 = s1
    s2 = s2
    o1 = o1
    k1 = k1
    k2 = k2
    Sessions = {s1, s2}
    Keys = {k1, k2}
    Others = {o1}
    NoKey = NoKey
    PoolSize = 2
    MaxCalls = 2
INVARIANTS
    TypeOK
    AnswersHold
    NoSilentLoss
    ConnectionsKept
PROPERTIES
    CallsEnd
    ImplementsUnits
CHECK_DEADLOCK FALSE
