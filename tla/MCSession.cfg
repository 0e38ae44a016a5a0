SPECIFICATION Spec
CONSTANTS
    Names <- MCNames
    BadName = "a/b"
    Space = 60
    Capacity = 8
    Texts <- MCTexts
    Numbers = {1, 2}
    NameOrder <- MCNameOrder
    Titles <- MCTitles
    Dates = {"d"}
    Tags = {"s", "t", "u"}
    Ids = {"p", "q", "r"}
    TagMax = 2
    LinkMax = 2
    BlockMax = 2
    HeaderMax = 20
    Chunk = 4
    NoteCapacity = 24
    RelatedShown = 1
    BacklinksShown = 1
    RefsShown = 1
    InitialFiles <- MCInitialFiles
    NewTexts <- MCNewTexts
    Changes <- MCChanges
    Filters <- MCFilters
    MaxSaves = 1
    MaxEdits = 2
INVARIANTS
    EndingsAreTrue
    DraftIsSavable
    AnswersAreTrue
PROPERTIES
    BodySurvives
    EditorImplementsLines
