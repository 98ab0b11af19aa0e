SPECIFICATION MCSpec
CONSTANTS
    a = a
    b = b
    u = u
    w1 = w1
    w2 = w2
    Parts = {"terminal"}
    Lead = Lead
    Cont = Cont
    Wide = Wide
    Bad = Bad
    Tokens <- MCTokens
    StopLists <- MCStopLists
    ForcedPrefixes <- MCForcedPrefixes
    Delimiter <- MCDelimiter
    MaxText = 5
    Letters = {"f", "g", "k", "j"}
    WholeDigits = 3
    PointDigits = 3
    CallLists <- MCCallLists
    Vocabulary = {a, b}
    Unknown = u
    LayerLists <- MCLayerLists
    Kernels = {0, 3}
    Prompts <- MCPrompts
    TileSizes = {2, 3}
    ChunkSize = 2
    MaxSeqLen = 5
    MaxCalls = 2
    Formats <- MCFormats
    Requests <- MCProducts
    Lanes = 2
    SerialRows = 4
    ChunkRows = 2
    StackChunk = 2
    DotBatch = 2
    ColumnTile = 4
    Pieces <- MCPieces
    EndPiece = 25
    MaxNesting = 2
    MaxDraws = 4
    MaxString = 1
    LogitLists <- MCLogitLists
    Masks <- MCMasks
    Penalised <- MCPenalised
    Limits <- MCLimits
    WordBits = 2
    MaskWords = 2
    Histories <- MCHistories
    Grams = {1, 2}
    Drafts = {2, 3}
    TreeDepth = 3
    Texts <- MCTexts
    LongestToken = 4
    Personas = {"p"}
    Sizes = {3, 11}
    MaxContext = 12
    MaxTokens = 6
    Calls = {w1, w2}
    Trees <- MCTrees
    Paths <- MCPaths
    Lengths = {2, 3}
    MaxFileRead = 2
    MaxFileWrite = 2
    MaxEntries = 1
    MaxChanges = 1
    CacheDocs <- MCCacheDocs
    RecordDocs <- MCRecordDocs
    JsonDocs <- MCJsonDocs
    ExpectedHashes = {0, 7}
    MaxSaves = 2
    Exports <- MCExports
    StepTokens = {0, 2, 3}
INVARIANT TagsRecognised
CHECK_DEADLOCK FALSE
