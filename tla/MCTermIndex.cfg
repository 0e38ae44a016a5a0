SPECIFICATION Spec
CONSTANTS
    Names <- MCNames
    BadName = "a/b"
    Space = 20
    NameOrder <- MCNameOrder
    Titles = {}
    Dates = {}
    Tags = {"s"}
    Ids = {}
    TagMax = 2
    LinkMax = 2
    BlockMax = 2
    HeaderMax = 20
    InitialFiles <- MCInitialFiles
    NewTexts <- MCNewTexts
    Words = {"x", "y", "z"}
    Queries <- MCQueries
    Filters <- MCFilters
    KeyMax = 2
    PostingMax = 3
    ShownMax = 2
    TokenMax = 4
INVARIANT StatusIsCurrent
PROPERTY AnswersAreCurrent
