SPECIFICATION Spec
CONSTANTS
    Procs = {p1, p2}
    Inodes = {0, 1, 2, 3}
    Names = {"m", "n"}
    Texts = {"a", "b"}
    Initial <- MCInitial
    Requests <- MCRequests
    TwoBlocks = TRUE
    MaxCalls = 2
    MaxEdits = 2
    MaxFaults = 2
INVARIANTS NoLostUpdate ImageSurvives AckedWriteLasts GuestKeepsImage
PROPERTIES ReplyIsTrue QueryIsTrue
SYMMETRY MCSymmetry
CHECK_DEADLOCK FALSE
