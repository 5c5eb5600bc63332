\* Two users over four orders of registration.
SPECIFICATION Spec
CONSTANTS
    u1 = u1
    u2 = u2
    Users = {u1, u2}
    page = page
    colon = colon
    url = url
    long = long
    https = https
    NoDomain = NoDomain
    Domains <- MCDomains
    BeforeColon <- MCBeforeColon
    TooLong <- MCTooLong
    Messages <- MCMessages
    Orders <- MCOrders
    MaxResults = 2
SYMMETRY MCSymmetry
INVARIANTS
    TypeOK
    StateFitsAction
    OnlyReachable
PROPERTY
    KeepsDialogues
