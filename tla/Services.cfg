\* Two callers and two keys of the cache; a POST and a GET to the CMS.  The CMS
\* half may stop: every call is over and the client is closed.
CHECK_DEADLOCK FALSE
SPECIFICATION Spec
CONSTANTS
    c1 = c1
    c2 = c2
    a1 = a1
    a2 = a2
    k1 = k1
    k2 = k2
    post = post
    get = get
    Callers = {c1, c2}
    Calls = {a1, a2}
    Keys = {k1, k2}
    KeyMaps <- MCKeyMaps
    NoValue = NoValue
    MaxVersion = 1
    Requests = {post, get}
    Posts = {post}
    RetryAttempts = 3
INVARIANTS
    CacheTypeOK
    CMSTypeOK
    CacheReturns
    CMSAnswersHold
PROPERTIES
    CacheConverges
    CMSCallsEnd
