\* An ffs daemon that dies and restarts.
CONSTANTS
    Requests <- AdbRequests
    BuildType = "user"
    BootMode = "normal"
    PersistVendorConfig = ""
    FilesFail = FALSE
    PullUpFails = FALSE
    ResetCalled = FALSE
    MaxInotify = 2
SPECIFICATION FairSpec
PROPERTY
    PulledUpAgain
