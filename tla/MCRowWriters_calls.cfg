CONSTANTS
    r1 = r1
    r2 = r2
    r3 = r3
    Rows = {r1, r2, r3}
    Foreign = {r1, r2, r3}
    TableWidth = 2
    FlushThreshold = 2
    Engines = {"1.5", "2.0"}
    HasClear = TRUE
    MaxDepth = 2
    None = None
    ColumnCapacity = 2
    ChildCapacity = 1
    ElementTypes <- MCElementTypes
    AllocationBytes = 7
    MAX_LIST_CHILD_CAPACITY = 8
    PowersOfTwo = {1, 2, 4, 8, 16, 32}
    Word = 64
    Limits = {1, 8}
    MaxLen = 2
    Vectors <- MCVectors
    ArraySize <- MCArraySize
    OutputRows = 1
    Columns = 2
    Slices <- MCSlices
    BatchSlices <- MCBatches
    Bitmaps <- MCBitmaps
    ListBuffers <- MCListBuffers
    ViewBuffers <- MCViewBuffers
    IndexBuffers <- MCIndexBuffers
    RunBuffers <- MCRuns
    TagBuffers <- MCTagBuffers
    ArraySizes = {0, 1, 2}
    Limit = 2
    MaxCapacity = 4
    MaxWraps = 3
SPECIFICATION MCSpec
INVARIANTS
    PublishedRowsWhole
    ChildWritesSafe
    NullsReachDown
    ImportedRight
    MirrorExact
    LossCountCoversAcked
    NothingLostSilently
PROPERTIES
    NoHalfRowEscapes
    ImplementsRowSink
CHECK_DEADLOCK FALSE
