SPECIFICATION FairSpec
CONSTANTS
    a1 = a1
    a2 = a2
    u1 = u1
    hello = hello
    bye = bye
    Admins = {a1, a2}
    Users = {u1}
    Texts = {hello, bye}
    NoText = NoText
    MaxPrompts = 2
    MaxJobs = 2
    MaxClicks = 1
INVARIANTS
    TypeOK
    UserDataWhole
    LockHasOwner
    JobsFaithful
PROPERTIES
    LockReleased
CHECK_DEADLOCK FALSE
