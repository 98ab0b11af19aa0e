SPECIFICATION MCSpec
CONSTANTS
    a = a
    b = b
    Tokens <- MCTokens
    Prompts <- MCPrompts
    ChunkSize = 2
    TileTokens = 3
    MaxPrompt = 6
    MaxNew = 1
    MaxSeqLen = 6
    MaxCached = 3
    MaxBytes = 3
    Junk = Junk
    Nobody = Nobody
    Requests = {r1, r2}
    Streaming = {r1}
    Seeded = {r1}
    QueueCapacity = 1
    StreamCapacity = 1
    MaxChunks = 2
INVARIANTS
    SnapshotsExact
    AllReachable
    PromptCachedUnlessFull
    PositionExact
    TypeOK
    ScopedUntilPanic
    OneLateMessage
PROPERTIES
    ImplementsCold
    AllAnswered
CHECK_DEADLOCK FALSE
