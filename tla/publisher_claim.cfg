CONSTANTS
    Handlers = {main, t1}
    Main = main
    Urls = {"u1"}
    Ids = {"k1"}
    Configs <- ClaimConfigs
    Batches <- MCBatches
    MaxBoots = 1
    MaxRequests = 1
    MaxFaults = 0
    None = None
SPECIFICATION Spec
INVARIANT PostedAsAsked
CHECK_DEADLOCK FALSE
