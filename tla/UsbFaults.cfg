\* Sysfs files, the worker's socket and its creation may fail.
CONSTANTS
    Binders = {b1, b2}
    Setters = {b1}
    Workers = {w1}
    Callbacks = {c1}
    V1_0Callbacks = {}
    Roles <- ModesAndData
    PartnerKinds = {"debug"}
    SocketSize = 1
    FilesFail = TRUE
    WorkerFails = TRUE
SPECIFICATION Spec
INVARIANTS
    TypeOK
    NoSignalLost
    ModeSwitchOutcome
PROPERTY
    ModeStableDuringSwitch
