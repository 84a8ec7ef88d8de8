\* One sub-HAL thread, two calls of initialize(); the sub-HAL waits for the post
\* under way when its sensors are disabled, and may refuse to disable them.
CONSTANTS
    Posters = {p1}
    Batches <- MixedBatches
    EventQueueSize = 1
    AckQueueSize = 1
    kMaxSizePendingWriteEventsQueue = 2
    kWakelockTimeout = 1
    SizeModulus = 8
    MaxEvents = 3
    MaxInits = 2
    DisableQuiesces = TRUE
SPECIFICATION Spec
INVARIANTS
    TypeOK
    CountedMeansHeld
    FrontStable
    PendingSizeExact
    WakeAccounting
    EventsInOrder
PROPERTIES
    HeldUncountedOnlyByFilter
    ImplementsChannel
