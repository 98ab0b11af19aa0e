SPECIFICATION Spec
CONSTANTS
    Nobody = Nobody
    Requests = {r1, r2}
    Streaming = {r1}
    Seeded = {r1}
    QueueCapacity = 1
    StreamCapacity = 1
    MaxChunks = 2
INVARIANT RequestScoped
CHECK_DEADLOCK FALSE
