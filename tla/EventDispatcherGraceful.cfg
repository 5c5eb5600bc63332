SPECIFICATION FairSpec
CONSTANTS
    e1 = e1
    e2 = e2
    e3 = e3
    activity = activity
    complete = complete
    cb1 = cb1
    cb2 = cb2
    Events = {e1, e2, e3}
    Types = {activity, complete}
    TypeOf <- MCTypeOf
    Callbacks = {cb1, cb2}
    MaxSubs = 2
PROPERTY GracefulShutdown
CHECK_DEADLOCK FALSE
