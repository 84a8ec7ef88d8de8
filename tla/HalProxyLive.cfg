\* Liveness without a framework that reads or acknowledges: one initialize(), one
\* sub-HAL thread.
CONSTANTS
    Posters = {p1}
    Batches <- PickUpBatches
    EventQueueSize = 1
    AckQueueSize = 1
    kMaxSizePendingWriteEventsQueue = 2
    kWakelockTimeout = 1
    SizeModulus = 8
    MaxEvents = 4
    MaxInits = 1
    DisableQuiesces = TRUE
SPECIFICATION FairSpec
PROPERTIES
    PendingDrains
    WakelockReleased
