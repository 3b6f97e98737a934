CONSTANTS
    Handlers = {main, t1}
    Main = main
    Urls = {"u1", "u2"}
    Ids = {"k1", "k2"}
    Configs <- MCConfigs
    Batches <- MCBatches
    MaxBoots = 3
    MaxRequests = 1
    MaxFaults = 2
    None = None
SPECIFICATION FairSpec
INVARIANTS
    TypeOK
    ServesCurrentConfig
    RenewedDropsOld
    ViewMatchesAggregate
    PostedAsConfigured
    PostedLast
PROPERTY EventuallyPosted
CHECK_DEADLOCK FALSE
