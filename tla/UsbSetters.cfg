\* Both binder threads set and remove callbacks, and query the port.
CONSTANTS
    Binders = {b1, b2}
    Setters = {b1, b2}
    Workers = {w1, w2}
    Callbacks = {c1}
    V1_0Callbacks = {}
    Roles <- NoRoles
    PartnerKinds = {"none"}
    SocketSize = 1
    FilesFail = FALSE
    WorkerFails = FALSE
SPECIFICATION Spec
SYMMETRY ThreadSymmetry
INVARIANT
    WorkerMatchesCallback
