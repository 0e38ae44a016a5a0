SPECIFICATION FairSpec
CONSTANTS
    N = 3
    MaxItems = 2
    Sources <- MCSources
    Enabled <- MCSources
    Priority <- MCPriority
    Threshold = 0
    Reader <- MCReader
INVARIANTS WaitersAreBlocked NoLostWakeup
PROPERTIES WaiterWakes RunnableRuns
