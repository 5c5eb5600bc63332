SPECIFICATION Spec
CONSTANTS
    s1 = s1
    s2 = s2
    o1 = o1
    k1 = k1
    k2 = k2
    Sessions = {s1, s2}
    Keys = {k1}
    Others = {o1}
    NoKey = NoKey
    PoolSize = 2
    MaxCalls = 1
INVARIANTS
    GetsOrCreates
CHECK_DEADLOCK FALSE
