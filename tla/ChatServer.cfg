SPECIFICATION FairSpec
CONSTANTS
    Nobody = Nobody
    Requests = {r1, r2}
    Streaming = {r1}
    Seeded = {}
    Tools = {r1}
    Reading = {r1, r2}
    Slots = 2
    QueueCapacity = 1
    StreamCapacity = 1
    EventCapacity = 1
    MaxChunks = 2
INVARIANTS
    StopMeansWholeOrPanic
    WantedStreamsHoldPermits
PROPERTIES
    EventsWellFormed
    ImplementsEngine
    AllReleased
CHECK_DEADLOCK FALSE
