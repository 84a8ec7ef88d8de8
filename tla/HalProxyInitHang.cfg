\* initialize() against the threads of an earlier initialize().
CONSTANTS
    Posters = {p1}
    Batches <- SmallBatches
    EventQueueSize = 1
    AckQueueSize = 1
    kMaxSizePendingWriteEventsQueue = 2
    kWakelockTimeout = 1
    SizeModulus = 8
    MaxEvents = 0
    MaxInits = 2
    DisableQuiesces = TRUE
SPECIFICATION FairSpec
PROPERTIES
    InitializeCompletes
