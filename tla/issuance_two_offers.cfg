CONSTANTS
    Offers = {o1, o2}
    Creds = {c1, c2}
    Subjects = {s1, s2}
    Tasks = {t1}
    Store = "postgres"
    MaxRequests = 6
    MaxPolls = 1
    MaxFaults = 1
    None = None
SPECIFICATION Spec
SYMMETRY Symmetry
INVARIANTS
    TypeOK
    AnswersFromOwnOffer
    ListedCredentialsExist
CHECK_DEADLOCK FALSE
