CONSTANTS
    Offers = {o1}
    Tasks = {t1, t2}
    Store = "in_memory"
    Sizes = {1}
    MaxRequests = 4
    MaxFaults = 1
    None = None
SPECIFICATION FairSpec
PROPERTIES
    EveryRequestAnswered
    ReceivedGetsStored
CHECK_DEADLOCK FALSE
