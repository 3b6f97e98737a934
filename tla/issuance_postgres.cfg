CONSTANTS
    Offers = {o1}
    Creds = {c1}
    Subjects = {s1, s2}
    Tasks = {t1, t2}
    Store = "postgres"
    MaxRequests = 5
    MaxPolls = 1
    MaxFaults = 0
    None = None
SPECIFICATION Spec
SYMMETRY Symmetry
INVARIANTS
    SignedForProver
    AnswersFromOwnOffer
PROPERTY SignatureFinal
CHECK_DEADLOCK FALSE
