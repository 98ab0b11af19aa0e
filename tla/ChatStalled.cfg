SPECIFICATION TimedSpec
CONSTANTS
    Nobody = Nobody
    Requests = {r1}
    Streaming = {r1}
    Seeded = {}
    Tools = {}
    Reading = {}
    Slots = 1
    QueueCapacity = 1
    StreamCapacity = 1
    EventCapacity = 1
    MaxChunks = 3
PROPERTY DeadlineEndsStream
CHECK_DEADLOCK FALSE
