SPECIFICATION Spec
CONSTANTS
    Tasks = {t1, t2}
    Observers = {}
    D = 1
    K = 3
    Capacity = 5
    BlockSize = 2
    Names = {1, 2}
    Sizes = {0, 1, 3}
    Payloads = {p1}
    NoPayload = NoPayload
    Images <- MCImages
    MaxSerial = 2
INVARIANTS CacheSound
PROPERTIES CommittedDataKept OneBlockCommitAtomic
