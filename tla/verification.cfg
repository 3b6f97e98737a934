CONSTANTS
    Ids = {r1}
    Dids = {d1, d2}
    Tasks = {t1, t2}
    Store = "postgres"
    MaxRequests = 4
    MaxFaults = 1
    None = None
SPECIFICATION Spec
SYMMETRY Symmetry
INVARIANTS
    TypeOK
    PublishedStaysServable
    AnsweredIsCurrent
    ConnectionExplained
PROPERTY SignsCurrent
CHECK_DEADLOCK FALSE
