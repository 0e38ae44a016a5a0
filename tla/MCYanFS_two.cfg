SPECIFICATION FairSpec
CONSTANTS
    Tasks = {t1, t2}
    Observers = {t1}
    D = 2
    K = 2
    Capacity = 5
    BlockSize = 2
    Names = {1, 2}
    Sizes = {0, 3}
    Payloads = {p1}
    NoPayload = NoPayload
    Images <- MCImages
    MaxSerial = 2
INVARIANTS CacheIsMedium IdentityNamesContents
PROPERTIES BusyReleased AbsSpec
