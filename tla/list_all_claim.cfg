CONSTANTS
    Aggs = {a1, a2}
    Tasks = {t1, t2}
    Store = "postgres"
    MaxBatch = 2
    MaxCmds = 2
    MaxFaults = 0
    None = None
SPECIFICATION Spec
SYMMETRY Symmetry
INVARIANT ListsAllInstances
CHECK_DEADLOCK FALSE
