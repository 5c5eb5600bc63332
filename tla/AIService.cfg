SPECIFICATION FairSpec
CONSTANTS
    c1 = c1
    c2 = c2
    c3 = c3
    first = first
    stub = stub
    other = other
    Callers = {c1, c2, c3}
    Providers = {first, stub}
    Unknown = other
    Orders <- MCOrders
    Threshold = 2
    MaxRetries = 2
    Replies <- MCReplies
INVARIANTS
    TypeOK
    FailureBudget
PROPERTIES
    CallsEnd
    BreakerPerProvider
