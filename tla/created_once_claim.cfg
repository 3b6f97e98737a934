CONSTANTS
    Offers = {o1}
    Creds = {c1, c2}
    Subjects = {s1}
    Tasks = {t1,t2}
    Store = "postgres"
    MaxRequests = 2
    MaxPolls = 1
    MaxFaults = 0
    None = None
SPECIFICATION Spec
INVARIANT CreatedOnce
CHECK_DEADLOCK FALSE
