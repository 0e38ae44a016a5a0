SPECIFICATION Spec
CONSTANTS
    Procs = {p1, p2}
    Inodes = {0, 1, 2, 3}
    Names = {"m", "n"}
    Texts = {"a", "b"}
    Initial <- MCInitial
    Requests <- MCMeta
    TwoBlocks = TRUE
    MaxCalls = 3
    MaxEdits = 2
    MaxFaults = 1
PROPERTIES MetaChangeIsStale
CHECK_DEADLOCK FALSE
