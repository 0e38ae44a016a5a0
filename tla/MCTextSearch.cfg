SPECIFICATION SearchSpec
CONSTANTS
    Corpora <- MCCorpora
    Queries <- MCQueries
    Patterns <- MCPatterns
    ChunkSizes = {1, 3}
    Filters = {{1}, {99}}
    NoFilter = {99}
    QueryMax = 5
    GroupMax = 2
    WordMax = 2
    Ring = 6
    ScoreMax = 2
    ShownMax = 2
    HeaderMax = 4
    KeyMax = 3
    PoolMax = 6
    PostingMax = 6
    SnippetLeft = 1
    SnippetTotal = 3
    WindowLeft = 5
    WindowRight = 8
CHECK_DEADLOCK FALSE
INVARIANTS ScanIsReference IndexEqualsScan SnippetIsTrue LiteralIsReference
