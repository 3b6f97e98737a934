CONSTANTS
    Offers = {o1}
    Creds = {c1, c2}
    Subjects = {s1}
    Tasks = {t1}
    Store = "postgres"
    MaxRequests = 5
    MaxPolls = 1
    MaxFaults = 0
    None = None
SPECIFICATION Spec
INVARIANT InvalidProofGetsNothing
CHECK_DEADLOCK FALSE
