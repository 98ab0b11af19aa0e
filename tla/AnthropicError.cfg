SPECIFICATION Spec
CONSTANTS
    Nobody = Nobody
    Requests = {r1, r2, r3}
    Streaming = {r1, r2}
    Seeded = {}
    Tools = {r1}
    Slots = 2
    Mixes = {{r1, r2}, {r1, r3}}
    QueueCapacity = 1
    StreamCapacity = 1
    MaxChunks = 2
INVARIANT NoStopAfterError
CHECK_DEADLOCK FALSE
