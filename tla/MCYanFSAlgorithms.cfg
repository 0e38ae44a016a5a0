SPECIFICATION AlgorithmSpec
CONSTANTS
    Tasks = {t1}
    Observers = {}
    D = 1
    K = 6
    Capacity = 6
    BlockSize = 2
    Names = {1, 2, 3, 4, 5}
    Sizes = {}
    Payloads = {p1}
    NoPayload = NoPayload
    Images <- NoImages
    MaxSerial = 1
    Directories <- MCDirectories
    Word = 8
CHECK_DEADLOCK FALSE
INVARIANTS NameIndexFinds WalkIsFirstFit NeighboursSuffice
