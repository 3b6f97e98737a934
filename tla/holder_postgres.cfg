CONSTANTS
    Offers = {o1, o2}
    Tasks = {t1, t2}
    Store = "postgres"
    Sizes = {0, 1, 2}
    MaxRequests = 4
    MaxFaults = 1
    None = None
SPECIFICATION Spec
SYMMETRY Symmetry
INVARIANTS
    TypeOK
    StoredFromOwnOffer
    TokenBehindCredential
    AcceptedNotRejected
    AcceptStores
PROPERTY StatusOrder
CHECK_DEADLOCK FALSE
