\* Configfs writes and links may fail at every step.
CONSTANTS
    Requests <- SomeRequests
    BuildType = "userdebug"
    BootMode = "usbradio"
    PersistVendorConfig = ""
    FilesFail = TRUE
    PullUpFails = TRUE
    ResetCalled = TRUE
    MaxInotify = 2
SPECIFICATION HalsSpec
INVARIANTS
    TypeOK
    SetupStartsClean
    SuccessMeansApplied
    NoneMeansDown
    HostSeesIds
    HostSeesAllLinks
PROPERTY
    EndpointsStable
