CONSTANTS
    Aggs = {a1, a2}
    Tasks = {t1, t2}
    Store = "postgres"
    MaxBatch = 2
    MaxCmds = 2
    MaxFaults = 2
    None = None
SPECIFICATION FairSpec
INVARIANTS
    TypeOK
    DecidedOnLog
    ViewsShowCommitted
    ViewExact
    AllExact
    LookupsFollowCreation
PROPERTIES
    SerialLog
    CommandsReturn
    EventuallyVisible
CHECK_DEADLOCK FALSE
