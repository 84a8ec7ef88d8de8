\* Calls return, whatever fails in them, and late descriptors are noticed.
CONSTANTS
    Requests <- LiveRequests
    BuildType = "user"
    BootMode = "normal"
    PersistVendorConfig = ""
    FilesFail = TRUE
    PullUpFails = FALSE
    ResetCalled = TRUE
    MaxInotify = 2
SPECIFICATION FairSpec
PROPERTIES
    CallReturns
    LateDescriptors
