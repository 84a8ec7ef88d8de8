\* Calls return and connections are reported, with a kernel that keeps sending uevents.
CONSTANTS
    Binders = {b1}
    Setters = {b1}
    Workers = {w1}
    Callbacks = {c1, c2}
    V1_0Callbacks = {c2}
    Roles <- OneMode
    PartnerKinds = {"none"}
    SocketSize = 2
    FilesFail = FALSE
    WorkerFails = TRUE
SPECIFICATION BusyKernelSpec
PROPERTIES
    SetCallbackReturns
    SwitchRoleReturns
    ChangesReported
