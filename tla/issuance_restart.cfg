CONSTANTS
    Offers = {o1}
    Creds = {c1}
    Subjects = {s1}
    Tasks = {t1, t2}
    Store = "in_memory"
    MaxRequests = 3
    MaxPolls = 1
    MaxFaults = 1
    None = None
SPECIFICATION FairSpec
INVARIANT KeysResolve
PROPERTIES
    EveryRequestAnswered
    CodesBecomeUsable
CHECK_DEADLOCK FALSE
