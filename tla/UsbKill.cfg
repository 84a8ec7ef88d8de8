\* setCallback(NULL) with a kernel that may fall silent.
CONSTANTS
    Binders = {b1}
    Setters = {b1}
    Workers = {w1}
    Callbacks = {c1}
    V1_0Callbacks = {}
    Roles <- NoRoles
    PartnerKinds = {"none"}
    SocketSize = 1
    FilesFail = FALSE
    WorkerFails = FALSE
SPECIFICATION FairSpec
PROPERTY
    SetCallbackReturns
