SPECIFICATION MCSpec
CONSTANTS
    Chunks = {c1, c2}
    MaxDepth = 3
    MaxChunks = 3
    MaxBytes = 4
    Small = Small
    Large = Large
    States <- MCStates
    Bytes <- MCBytes
    r1 = r1
    r2 = r2
    r3 = r3
    Nobody = Nobody
    MaxRequests = 2
    MaxRecords = 2
    MaxPieces = 2
    EventLists <- MCEventLists
    TextCap = 14
    NameCap = 2
    EventCap = 3
    CallCap = 2
    FragmentCap = 4
    FrameSizes = {1, 3, 6}
    Layers = 3
    LayerLists <- MCCacheLayers
    Positions = 2
    Dimensions = {3}
    BlockSize = 2
    BlockBytes = 3
    NormBytes = 2
    WordBytes = 2
    Values = {"x", "y"}
    MaxSteps = 4
    Capacities = {0, 2}
    Offers <- MCOffers
    Names = {"a", "z"}
    Dimension = 2
    Similarity <- MCSimilarity
    MaxBlocksAdded = 4
    Budgets = {1, 3}
    MinAnchors = 2
    AnchorPrefixes <- MCPrefixes
    OddPos = 3
    MaxInserts = 4
    IndexDimension = 2
    RecordIds = {"m1", "m2", "m3"}
    Vectors <- MCVectors
    Likeness <- MCLikeness
    MaxIndexed = 4
    Experts <- MCExperts
    Activation = 4
    RankLimit = 2
    MaxHeatSteps = 5
    Metadata <- MCMetadata
    Explicit <- MCExplicit
    ToolLists <- MCToolLists
    Utterances <- MCUtterances
    MaxUtterances = 3
    Texts <- MCTexts
    Class <- MCClass
    Utf8 <- MCUtf8
    Symbol <- MCSymbol
    SpecialTexts = {"<s>", "<t>"}
    Vocabulary <- MCVocabulary
    MergeRanks <- MCRanks
    MaxPiece = 5
    MaxMemo = 2
    WordSlot <- MCSlot
    MaxEncodes = 2
    Settings <- MCSettings
    PortNumbers = {6, 7, 8}
    PortLimit = 8
    MaxConnections = 1
    MaxLooks = 3
SYMMETRY Symmetry
INVARIANTS
    TypeOK
    ParentClosed
    RestoreIsWhole
    BookkeepingExact
    WithinBudget
    BacklogWithinSlots
    CaptureRight
    StoresRight
    TextsRight
    ServingRight
 
CHECK_DEADLOCK FALSE
