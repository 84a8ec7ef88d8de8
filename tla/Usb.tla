---------------------------------- MODULE Usb ----------------------------------
(***************************************************************************)
(* The USB type-C HAL (usb/Usb.cpp): switchRole(), setCallback() and the   *)
(* port status queries run on binder threads; a worker thread, created     *)
(* with the first callback and killed with SIGUSR1 when the callback is    *)
(* taken away, listens to the kernel's uevents.  One port, as the device   *)
(* has.                                                                    *)
(*                                                                         *)
(* One action is one step between two points where another thread, the     *)
(* kernel or a signal can interfere.  Of the three mutexes mRoleSwitchLock *)
(* is a variable; mLock and mPartnerLock are held exactly in certain steps *)
(* of their holders (see mLockFree and mPartnerLockFree).                  *)
(***************************************************************************)
EXTENDS Integers, Sequences, FiniteSets

CONSTANTS
    Binders,        \* the binder threads
    Setters,        \* those that may call setCallback()
    Workers,        \* bound: worker threads that have not been joined
    Callbacks,      \* callback objects ...
    V1_0Callbacks,  \* ... and those of interface 1.0: castFrom() to a later one gives NULL
    Roles,          \* the roles switchRole() is called with
    PartnerKinds,   \* accessory_mode of the partners that are plugged in
    SocketSize,     \* messages that fit into the uevent socket
    FilesFail,      \* sysfs files may fail to open, or ignore what is written
    WorkerFails     \* the worker's socket or epoll calls may fail

PortRole ==
    ({"MODE"} \X {"UFP", "DFP", "DRP"}) \cup ({"DATA_ROLE"} \X {"HOST", "DEVICE"})
    \cup ({"POWER_ROLE"} \X {"SOURCE", "SINK"})

NoRole == <<"", "">>

ASSUME SetsAssumption ==
    /\ Setters \subseteq Binders /\ Binders \cap Workers = {}
    /\ "free" \notin Binders \cup Workers /\ "none" \notin Workers
    /\ "NULL" \notin Callbacks /\ V1_0Callbacks \subseteq Callbacks
    /\ Roles \subseteq PortRole
    /\ PartnerKinds \subseteq {"none", "analog_audio", "debug"}
ASSUME SizeAssumption ==
    SocketSize \in Nat \ {0} /\ FilesFail \in BOOLEAN /\ WorkerFails \in BOOLEAN

VARIABLES
    mCallback_1_0,      \* "NULL" or one of Callbacks
    crossed,            \* history: a callback was set while another was being removed
    destroyThread,
    mPoll,              \* the last worker created
    joining,            \* the worker that a binder thread's pthread_join() waits for
    mPartnerUp,
    roleSwitchOwner,    \* who holds mRoleSwitchLock, or "free"
    pc,                 \* the step of every binder thread and worker
    newRole, roleSwitch,         \* locals of switchRole(), reset when they go out of
    casted, connected, ports,    \* scope, and so those of queryVersionHelper()
    sigusr1,            \* workers with a pending SIGUSR1
    socket,             \* the unread uevents of every worker
    node,               \* sysfs: port_type, data_role and power_role
    ignored,            \* history: the kernel ignored the last write to port_type
    partner,            \* sysfs: the partner's accessory_mode, or "absent"
    reported            \* what the present callback was last told

callbackVars == <<mCallback_1_0, crossed>>
lockVars == <<mPartnerUp, roleSwitchOwner>>
switchVars == <<newRole, roleSwitch>>
queryVars == <<casted, connected, ports>>
pollVars == <<mPoll, joining>>
workerVars == <<destroyThread, pollVars, sigusr1, socket>>
nodeVars == <<node, ignored>>
vars == <<callbackVars, lockVars, pc, switchVars, queryVars, workerVars, nodeVars, partner,
          reported>>

Actors == Binders \cup Workers
BinderStates == {"idle", "kill", "join", "joining", "roleLock", "open", "armed", "written", "waiting",
                 "woken", "timedOut", "drp", "readBack", "notify", "cast", "query",
                 "reading"}
WorkerStates == {"none", "create", "check", "enter", "epoll", "partner", "cast", "query",
                 "reading", "trylock", "drp", "discard", "exited", "failed"}
\* setCallback(NULL) has released mLock and sees to the worker.
Removal == {"kill", "join", "joining"}
\* The thread has returned: because it was told to, or because a call failed.
Returned == {"exited", "failed"}
\* switchMode() has written the mode and waits for, or looks for, a partner.
AfterWrite == {"written", "waiting", "woken", "timedOut"}
Uevents == {"partnerAdd", "typec", "other"}
RoleTypes == {"MODE", "DATA_ROLE", "POWER_ROLE"}
NodeValues == {"dual", "none", "sink", "source", "host", "device"}

PortStatus == [power : {"NONE", "SOURCE", "SINK"}, data : {"NONE", "HOST", "DEVICE"},
               mode : {"NONE", "UFP", "DFP", "AUDIO_ACCESSORY", "DEBUG_ACCESSORY"}]
\* The callback was told nothing yet; it was told Status::ERROR.
Untold == [power |-> "UNTOLD", data |-> "UNTOLD", mode |-> "UNTOLD"]
StatusError == [power |-> "ERROR", data |-> "ERROR", mode |-> "ERROR"]

-----------------------------------------------------------------------------
\* Mutation: setCallback() keeps mLock while it joins the worker.
mLockFree_NotInJoin == \A a \in Actors : pc[a] \notin {"reading"} \cup Removal

mLockFree == \A a \in Actors : pc[a] # "reading"

\* Mutation: uevent_event() does not take mPartnerLock.
mPartnerLockFree_Always == TRUE

\* switchMode() holds mPartnerLock from before the write to the wait.
mPartnerLockFree == \A b \in Binders : pc[b] \notin {"armed", "written"}

goto(a, step) == pc' = [pc EXCEPT ![a] = step]

\* Mutation: the role's name is written, not the word sysfs has for it.
convertRoletoString_Name(role) == role[2]

\* What is written to the node of a role; a mode other than UFP and DFP has no word.
convertRoletoString(role) ==
    CASE role[2] \in {"UFP", "SINK"} -> "sink"
      [] role[2] \in {"DFP", "SOURCE"} -> "source"
      [] role[2] = "HOST" -> "host"
      [] role[2] = "DEVICE" -> "device"
      [] OTHER -> "none"

\* A write to a node; fputs() is buffered, so a value the kernel refuses (port_type
\* knows no "none") goes unnoticed.
write(type, value) ==
    \/ /\ type = "MODE" => value # "none"
       /\ node' = [node EXCEPT ![type] = value]
       /\ ignored' = (ignored /\ type # "MODE")
    \/ /\ FilesFail \/ (type = "MODE" /\ value = "none")
       /\ ignored' = (ignored \/ type = "MODE")
       /\ UNCHANGED node

-----------------------------------------------------------------------------
(* Port status: queryVersionHelper() and what it calls. *)

\* getCurrentRoleHelper(): the mode is that of the accessory, or the data role's.
getCurrentRoleHelper(type, isConnected) ==
    IF ~isConnected THEN "NONE"
    ELSE IF type = "MODE" /\ partner = "absent" THEN "ERROR"
    ELSE IF type = "MODE" /\ partner = "analog_audio" THEN "AUDIO_ACCESSORY"
    ELSE IF type = "MODE" /\ partner = "debug" THEN "DEBUG_ACCESSORY"
    ELSE LET roleName == node[IF type = "MODE" THEN "DATA_ROLE" ELSE type]
         IN CASE roleName = "source" -> "SOURCE"
              [] roleName = "sink" -> "SINK"
              [] roleName = "host" -> IF type = "MODE" THEN "DFP" ELSE "HOST"
              [] roleName = "device" -> IF type = "MODE" THEN "UFP" ELSE "DEVICE"
              [] OTHER -> "NONE"

\* Mutation: the roles of a connected port are passed on as they are read.
getPortStatusHelper_AsRead(isConnected) ==
    LET mode == getCurrentRoleHelper("MODE", isConnected)
    IN IF mode = "ERROR" THEN StatusError
       ELSE [power |-> getCurrentRoleHelper("POWER_ROLE", isConnected),
             data |-> getCurrentRoleHelper("DATA_ROLE", isConnected), mode |-> mode]

\* getPortStatusHelper(): data role and mode of a connected port are never NONE.
getPortStatusHelper(isConnected) ==
    LET data == getCurrentRoleHelper("DATA_ROLE", isConnected)
        mode == getCurrentRoleHelper("MODE", isConnected)
        spoofed(role, instead) == IF isConnected /\ role = "NONE" THEN instead ELSE role
    IN IF mode = "ERROR" THEN StatusError
       ELSE [power |-> getCurrentRoleHelper("POWER_ROLE", isConnected),
             data |-> spoofed(data, "DEVICE"), mode |-> spoofed(mode, "UFP")]

afterQuery(a) == IF a \in Workers THEN "trylock" ELSE "idle"

\* castFrom(mCallback_1_0) to the later interfaces, before mLock is taken.
castCallback(a) ==
    /\ pc[a] = "cast"
    /\ casted' = [casted EXCEPT
           ![a] = IF mCallback_1_0 \in V1_0Callbacks THEN "NULL" ELSE mCallback_1_0]
    /\ goto(a, "query")
    /\ UNCHANGED <<callbackVars, lockVars, switchVars, connected, ports, workerVars, nodeVars,
                   partner, reported>>

\* mLock is taken; with a callback the port names are listed (or the directory
\* cannot be opened).
queryNames(a) ==
    /\ pc[a] = "query" /\ mLockFree
    /\ IF mCallback_1_0 = "NULL"
       THEN /\ casted' = [casted EXCEPT ![a] = "NULL"]
            /\ goto(a, afterQuery(a))
            /\ UNCHANGED <<connected, ports>>
       ELSE /\ ports' \in {[ports EXCEPT ![a] = ok] :
                               ok \in IF FilesFail THEN BOOLEAN ELSE {TRUE}}
            /\ connected' = [connected EXCEPT ![a] = partner # "absent"]
            /\ goto(a, "reading")
            /\ UNCHANGED casted
    /\ UNCHANGED <<callbackVars, lockVars, switchVars, workerVars, nodeVars, partner,
                   reported>>

\* The roles are read, the callback told, mLock released.  The object that was cast is
\* told, be it the present callback or not; without one the present callback is.
queryNotify(a) ==
    /\ pc[a] = "reading"
    /\ LET status == getPortStatusHelper(connected[a])
           told == IF casted[a] # "NULL" THEN casted[a] ELSE mCallback_1_0
       IN IF told # mCallback_1_0 THEN UNCHANGED reported
          ELSE \/ ports[a] /\ reported' = status
               \/ (FilesFail \/ ~ports[a]) /\ reported' = StatusError
    /\ casted' = [casted EXCEPT ![a] = "NULL"]
    /\ connected' = [connected EXCEPT ![a] = FALSE]
    /\ ports' = [ports EXCEPT ![a] = @ /\ a \in Workers]
    /\ goto(a, afterQuery(a))
    /\ UNCHANGED <<callbackVars, lockVars, switchVars, workerVars, nodeVars, partner>>

\* queryPortStatus() and the two enableContaminantPresence...() calls.
queryPortStatus(b) ==
    /\ pc[b] = "idle"
    /\ goto(b, "cast")
    /\ UNCHANGED <<callbackVars, lockVars, switchVars, queryVars, workerVars, nodeVars,
                   partner, reported>>

queryVersionHelper(a) == castCallback(a) \/ queryNames(a) \/ queryNotify(a)

-----------------------------------------------------------------------------
(* switchRole(), with switchMode() for the port's mode. *)

switchUnchanged == <<callbackVars, queryVars, workerVars, partner, reported>>

switchRole(b, role) ==
    /\ pc[b] = "idle"
    /\ newRole' = [newRole EXCEPT ![b] = role]
    /\ goto(b, "roleLock")
    /\ UNCHANGED <<lockVars, roleSwitch, nodeVars, switchUnchanged>>

takeRoleSwitchLock(b) ==
    /\ pc[b] = "roleLock" /\ roleSwitchOwner = "free"
    /\ roleSwitchOwner' = b
    /\ goto(b, "open")
    /\ UNCHANGED <<mPartnerUp, switchVars, nodeVars, switchUnchanged>>

isMode(b) == newRole[b][1] = "MODE"

\* The node does not open: no lock is taken, a mode switch still goes back to dual.
openFails(b) ==
    /\ pc[b] = "open" /\ FilesFail
    /\ goto(b, IF isMode(b) THEN "drp" ELSE "notify")
    /\ UNCHANGED <<lockVars, switchVars, nodeVars, switchUnchanged>>

\* Data and power role: written ...
writeRole(b) ==
    /\ pc[b] = "open" /\ ~isMode(b)
    /\ write(newRole[b][1], convertRoletoString(newRole[b]))
    /\ goto(b, "readBack")
    /\ UNCHANGED <<lockVars, switchVars, switchUnchanged>>

\* ... and read back; writing or reading may have failed.
readBack(b) ==
    /\ pc[b] = "readBack"
    /\ \/ roleSwitch' = [roleSwitch EXCEPT
              ![b] = node[newRole[b][1]] = convertRoletoString(newRole[b])]
       \/ FilesFail /\ UNCHANGED roleSwitch
    /\ goto(b, "notify")
    /\ UNCHANGED <<lockVars, newRole, nodeVars, switchUnchanged>>

\* switchMode(): mPartnerLock is taken and mPartnerUp cleared before the write.
armPartner(b) ==
    /\ pc[b] = "open" /\ isMode(b) /\ mPartnerLockFree
    /\ mPartnerUp' = FALSE
    /\ goto(b, "armed")
    /\ UNCHANGED <<roleSwitchOwner, switchVars, nodeVars, switchUnchanged>>

writeMode(b) ==
    /\ pc[b] = "armed"
    /\ \/ /\ write("MODE", convertRoletoString(newRole[b]))
          /\ goto(b, "written")
       \/ FilesFail /\ goto(b, "drp") /\ UNCHANGED nodeVars
    /\ UNCHANGED <<lockVars, newRole, roleSwitch, switchUnchanged>>

\* pthread_cond_timedwait() releases mPartnerLock ...
waitPartner(b) ==
    /\ pc[b] = "written"
    /\ goto(b, "waiting")
    /\ UNCHANGED <<lockVars, switchVars, nodeVars, switchUnchanged>>

\* ... and returns after PORT_TYPE_TIMEOUT, or spuriously, or after a signal.
waitTimeout(b) ==
    /\ pc[b] = "waiting"
    /\ goto(b, "timedOut")
    /\ UNCHANGED <<lockVars, switchVars, nodeVars, switchUnchanged>>

spuriousWakeup(b) ==
    /\ pc[b] = "waiting"
    /\ goto(b, "woken")
    /\ UNCHANGED <<lockVars, switchVars, nodeVars, switchUnchanged>>

\* With mPartnerLock again: wait_again, or success.
partnerCheck(b) ==
    /\ pc[b] = "woken"
    /\ roleSwitch' = [roleSwitch EXCEPT ![b] = mPartnerUp]
    /\ goto(b, IF mPartnerUp THEN "notify" ELSE "written")
    /\ UNCHANGED <<lockVars, newRole, nodeVars, switchUnchanged>>

\* Mutation: a timed out switch leaves the port in the mode that was tried.
timedOut_KeepsMode(b) ==
    /\ pc[b] = "timedOut"
    /\ goto(b, "notify")
    /\ UNCHANGED <<lockVars, switchVars, nodeVars, switchUnchanged>>

\* ETIMEDOUT: mPartnerUp is not looked at.
timedOut(b) ==
    /\ pc[b] = "timedOut"
    /\ goto(b, "drp")
    /\ UNCHANGED <<lockVars, switchVars, nodeVars, switchUnchanged>>

switchToDrp(b) ==
    /\ pc[b] = "drp"
    /\ write("MODE", "dual")
    /\ goto(b, "notify")
    /\ UNCHANGED <<lockVars, switchVars, switchUnchanged>>

\* Mutation: mRoleSwitchLock is not released when no callback is set.
notifyRoleSwitchStatus_KeepsLock(b) ==
    /\ pc[b] = "notify" /\ mLockFree
    /\ roleSwitchOwner' = IF mCallback_1_0 = "NULL" THEN b ELSE "free"
    /\ newRole' = [newRole EXCEPT ![b] = NoRole]
    /\ roleSwitch' = [roleSwitch EXCEPT ![b] = FALSE]
    /\ goto(b, "idle")
    /\ UNCHANGED <<mPartnerUp, nodeVars, switchUnchanged>>

\* notifyRoleSwitchStatus() under mLock, then both locks are released.
notifyRoleSwitchStatus(b) ==
    /\ pc[b] = "notify" /\ mLockFree
    /\ roleSwitchOwner' = "free"
    /\ newRole' = [newRole EXCEPT ![b] = NoRole]
    /\ roleSwitch' = [roleSwitch EXCEPT ![b] = FALSE]
    /\ goto(b, "idle")
    /\ UNCHANGED <<mPartnerUp, nodeVars, switchUnchanged>>

switchStep(b) ==
    \/ takeRoleSwitchLock(b) \/ openFails(b) \/ writeRole(b) \/ readBack(b) \/ armPartner(b)
    \/ writeMode(b) \/ waitPartner(b) \/ waitTimeout(b) \/ partnerCheck(b) \/ timedOut(b)
    \/ switchToDrp(b) \/ notifyRoleSwitchStatus(b)

-----------------------------------------------------------------------------
(* setCallback() *)

\* The critical section of mLock: replace the callback; with the first one create
\* the worker (which may fail); with the last one gone go on to kill it.  mLock does not
\* cover the kill and the join, so another thread's call may find them under way.
setCallback(b, callback) ==
    /\ pc[b] = "idle" /\ mLockFree
    /\ reported' = Untold
    /\ IF (mCallback_1_0 = "NULL") = (callback = "NULL")
       THEN mCallback_1_0' = callback /\ UNCHANGED <<crossed, pc, workerVars>>
       ELSE IF callback = "NULL"
       THEN mCallback_1_0' = callback /\ goto(b, "kill") /\ UNCHANGED <<crossed, workerVars>>
       ELSE /\ destroyThread' = FALSE
            /\ crossed' = (crossed \/ \E c \in Binders : pc[c] \in Removal)
            /\ UNCHANGED <<joining, sigusr1, socket>>
            /\ \/ \E w \in Workers : /\ pc[w] = "none"
                                     /\ mCallback_1_0' = callback
                                     /\ mPoll' = w
                                     /\ goto(w, "create")
               \/ WorkerFails /\ UNCHANGED <<mCallback_1_0, mPoll, pc>>
    /\ UNCHANGED <<lockVars, switchVars, queryVars, nodeVars, partner>>

\* Mutation: the worker is left to itself.
killWorker_Skipped(b) ==
    /\ pc[b] = "kill"
    /\ goto(b, "idle")
    /\ UNCHANGED <<callbackVars, lockVars, switchVars, queryVars, workerVars, nodeVars,
                   partner, reported>>

\* pthread_kill(mPoll, SIGUSR1), after mLock was released.
killWorker(b) ==
    /\ pc[b] = "kill"
    /\ sigusr1' = IF pc[mPoll] \in Returned \cup {"none"} THEN sigusr1 ELSE sigusr1 \cup {mPoll}
    /\ goto(b, "join")
    /\ UNCHANGED <<callbackVars, lockVars, switchVars, queryVars, destroyThread,
                   pollVars, socket, nodeVars, partner, reported>>

\* pthread_join(mPoll) reads mPoll again; it fails at once for a thread that is gone
\* or that another thread joins.
joinWorker(b) ==
    /\ pc[b] = "join"
    /\ IF pc[mPoll] = "none" \/ \E c \in Binders : joining[c] = mPoll
       THEN goto(b, "idle") /\ UNCHANGED joining
       ELSE goto(b, "joining") /\ joining' = [joining EXCEPT ![b] = mPoll]
    /\ UNCHANGED <<callbackVars, lockVars, switchVars, queryVars, destroyThread, mPoll,
                   sigusr1, socket, nodeVars, partner, reported>>

\* The thread has returned.
joinReturns(b) ==
    /\ pc[b] = "joining" /\ pc[joining[b]] \in Returned
    /\ pc' = [pc EXCEPT ![b] = "idle", ![joining[b]] = "none"]
    /\ joining' = [joining EXCEPT ![b] = "none"]
    /\ UNCHANGED <<callbackVars, lockVars, switchVars, queryVars, destroyThread, mPoll,
                   sigusr1, socket, nodeVars, partner, reported>>

-----------------------------------------------------------------------------
(* The worker: work(), uevent_event() and sighandler(). *)

workUnchanged == <<callbackVars, switchVars, queryVars, pollVars, partner, reported>>

\* The socket is opened and added to the epoll instance.
workStart(w) ==
    /\ pc[w] = "create"
    /\ goto(w, "check")
    /\ UNCHANGED <<lockVars, destroyThread, sigusr1, socket, nodeVars, workUnchanged>>

exit(w, as) ==
    /\ goto(w, as)
    /\ socket' = [socket EXCEPT ![w] = <<>>]
    /\ sigusr1' = sigusr1 \ {w}

workFails(w) ==
    /\ pc[w] \in {"create", "epoll"} /\ WorkerFails
    /\ exit(w, "failed")
    /\ UNCHANGED <<lockVars, destroyThread, nodeVars, workUnchanged>>

\* The loop condition ...
workCheck(w) ==
    /\ pc[w] \in {"check", "discard"}
    /\ IF destroyThread THEN exit(w, "exited")
       ELSE goto(w, "enter") /\ UNCHANGED <<sigusr1, socket>>
    /\ UNCHANGED <<lockVars, destroyThread, nodeVars, workUnchanged>>

\* ... and epoll_wait(), which blocks without a timeout.
workWait(w) ==
    /\ pc[w] = "enter"
    /\ goto(w, "epoll")
    /\ UNCHANGED <<lockVars, destroyThread, sigusr1, socket, nodeVars, workUnchanged>>

\* One message is received; its first line tells whether a partner was added, a
\* later one whether it is about the type-C class.
workReceive(w) ==
    /\ pc[w] = "epoll" /\ socket[w] # <<>>
    /\ socket' = [socket EXCEPT ![w] = Tail(@)]
    /\ goto(w, CASE Head(socket[w]) = "partnerAdd" -> "partner"
                 [] Head(socket[w]) = "typec" -> "cast"
                 [] OTHER -> "check")
    /\ UNCHANGED <<lockVars, destroyThread, sigusr1, nodeVars, workUnchanged>>

\* uevent_event() returns at once: recv() failed, and took the message or not, or the
\* message is too long.
workDiscard(w) ==
    /\ pc[w] = "epoll" /\ socket[w] # <<>>
    /\ socket' \in {socket, [socket EXCEPT ![w] = Tail(@)]}
    /\ goto(w, "discard")
    /\ UNCHANGED <<lockVars, destroyThread, sigusr1, nodeVars, workUnchanged>>

\* The partner's arrival, signalled under mPartnerLock.
partnerAdded(w) ==
    /\ pc[w] = "partner" /\ mPartnerLockFree
    /\ mPartnerUp' = TRUE
    /\ pc' = [a \in Actors |-> IF a = w THEN "cast"
                               ELSE IF pc[a] = "waiting" THEN "woken" ELSE pc[a]]
    /\ UNCHANGED <<roleSwitchOwner, destroyThread, sigusr1, socket, nodeVars, workUnchanged>>

\* Mutation: the port goes back to dual whether a role switch is in progress or not.
tryRoleSwitchLock_Ignored(w) ==
    /\ pc[w] = "trylock"
    /\ goto(w, IF ports[w] /\ partner = "absent" THEN "drp" ELSE "check")
    /\ ports' = [ports EXCEPT ![w] = FALSE]
    /\ UNCHANGED <<callbackVars, lockVars, switchVars, casted, connected, workerVars,
                   nodeVars, partner, reported>>

\* pthread_mutex_trylock() and, for a port that was listed, opendir() of its partner.
tryRoleSwitchLock(w) ==
    /\ pc[w] = "trylock"
    /\ IF roleSwitchOwner = "free" /\ ports[w] /\ partner = "absent"
       THEN roleSwitchOwner' = w /\ goto(w, "drp")
       ELSE goto(w, "check") /\ UNCHANGED roleSwitchOwner
    /\ ports' = [ports EXCEPT ![w] = FALSE]
    /\ UNCHANGED <<callbackVars, mPartnerUp, switchVars, casted, connected, workerVars,
                   nodeVars, partner, reported>>

workDrp(w) ==
    /\ pc[w] = "drp"
    /\ write("MODE", "dual")
    /\ roleSwitchOwner' = "free"
    /\ goto(w, "check")
    /\ UNCHANGED <<mPartnerUp, destroyThread, sigusr1, socket, workUnchanged>>

\* SIGUSR1 is delivered; epoll_wait() then returns with EINTR.
sighandler(w) ==
    /\ w \in sigusr1
    /\ destroyThread' = TRUE
    /\ sigusr1' = sigusr1 \ {w}
    /\ goto(w, IF pc[w] = "epoll" THEN "check" ELSE pc[w])
    /\ UNCHANGED <<lockVars, socket, nodeVars, workUnchanged>>

workStep(w) ==
    \/ workStart(w) \/ workCheck(w) \/ workWait(w) \/ workReceive(w) \/ workDiscard(w)
    \/ partnerAdded(w) \/ queryVersionHelper(w) \/ tryRoleSwitchLock(w) \/ workDrp(w)

-----------------------------------------------------------------------------
(* The kernel: uevents go to every open socket; a full socket loses them. *)

listening(w) == pc[w] \notin Returned \cup {"none", "create"}

broadcast(message) ==
    socket' = [w \in Workers |-> IF listening(w) /\ Len(socket[w]) < SocketSize
                                 THEN Append(socket[w], message) ELSE socket[w]]

kernelUnchanged == <<callbackVars, lockVars, pc, newRole, roleSwitch, queryVars,
                     destroyThread, pollVars, sigusr1, nodeVars, reported>>

plugIn(kind) ==
    /\ partner = "absent"
    /\ partner' = kind
    /\ broadcast("partnerAdd")
    /\ UNCHANGED kernelUnchanged

unplug ==
    /\ partner # "absent"
    /\ partner' = "absent"
    /\ broadcast("typec")
    /\ UNCHANGED kernelUnchanged

otherUevent ==
    /\ broadcast("other")
    /\ UNCHANGED <<partner, kernelUnchanged>>

-----------------------------------------------------------------------------
Init ==
    /\ mCallback_1_0 = "NULL" /\ crossed = FALSE
    /\ destroyThread = FALSE /\ mPoll = "none" /\ joining = [b \in Binders |-> "none"]
    /\ mPartnerUp = FALSE /\ roleSwitchOwner = "free"
    /\ pc = [a \in Actors |-> IF a \in Binders THEN "idle" ELSE "none"]
    /\ newRole = [b \in Binders |-> NoRole]
    /\ roleSwitch = [b \in Binders |-> FALSE]
    /\ casted = [a \in Actors |-> "NULL"]
    /\ connected = [a \in Actors |-> FALSE]
    /\ ports = [a \in Actors |-> FALSE]
    /\ sigusr1 = {} /\ socket = [w \in Workers |-> <<>>]
    /\ node = [type \in RoleTypes |-> IF type = "MODE" THEN "dual" ELSE "none"]
    /\ ignored = FALSE
    /\ partner = "absent" /\ reported = Untold

binderStep(b) ==
    switchStep(b) \/ killWorker(b) \/ joinWorker(b) \/ joinReturns(b) \/ queryVersionHelper(b)

Next ==
    \/ \E b \in Binders : \/ \E role \in Roles : switchRole(b, role)
                          \/ queryPortStatus(b)
                          \/ binderStep(b) \/ spuriousWakeup(b)
    \/ \E b \in Setters, callback \in Callbacks \cup {"NULL"} : setCallback(b, callback)
    \/ \E w \in Workers : workStep(w) \/ workFails(w) \/ sighandler(w)
    \/ \E kind \in PartnerKinds : plugIn(kind)
    \/ unplug \/ otherUevent

Spec == Init /\ [][Next]_vars

\* Every thread inside a call is scheduled, and gets a mutex it waits for in the
\* end; signals are delivered; a wait that is begun again after every spurious
\* wakeup still times out in the end.  Nothing is assumed of the kernel's uevents.
FairSpec ==
    /\ Spec
    /\ \A b \in Binders : SF_vars(binderStep(b)) /\ SF_vars(waitTimeout(b))
    /\ \A w \in Workers : SF_vars(workStep(w)) /\ WF_vars(sighandler(w))

\* The kernel reports something (battery, thermal, ...) now and then.
BusyKernelSpec == FairSpec /\ WF_vars(otherUevent)

-----------------------------------------------------------------------------
(* Properties. *)

\* Every variable keeps its type, and the steps of binder threads and workers stay
\* apart.
TypeOK ==
    /\ mCallback_1_0 \in Callbacks \cup {"NULL"} /\ crossed \in BOOLEAN
    /\ destroyThread \in BOOLEAN /\ mPoll \in Workers \cup {"none"}
    /\ joining \in [Binders -> Workers \cup {"none"}]
    /\ mPartnerUp \in BOOLEAN /\ roleSwitchOwner \in Actors \cup {"free"}
    /\ pc \in [Actors -> BinderStates \cup WorkerStates]
    /\ \A b \in Binders : pc[b] \in BinderStates
    /\ \A w \in Workers : pc[w] \in WorkerStates
    /\ newRole \in [Binders -> PortRole \cup {NoRole}] /\ roleSwitch \in [Binders -> BOOLEAN]
    /\ casted \in [Actors -> Callbacks \cup {"NULL"}]
    /\ connected \in [Actors -> BOOLEAN] /\ ports \in [Actors -> BOOLEAN]
    /\ sigusr1 \in SUBSET Workers
    /\ socket \in [Workers -> Seq(Uevents)]
    /\ \A w \in Workers : Len(socket[w]) <= SocketSize
    /\ node \in [RoleTypes -> NodeValues] /\ ignored \in BOOLEAN
    /\ partner \in PartnerKinds \cup {"absent"}
    /\ reported \in PortStatus \cup {Untold, StatusError}

\* switchMode() holds mPartnerLock so that a partner's arrival between the write
\* and the wait is not lost: nobody waits for a partner that is known to be up.
NoSignalLost == \A b \in Binders : pc[b] = "waiting" => ~mPartnerUp

\* While switchMode() waits for the partner nobody else writes the port's mode:
\* uevent_event() keeps away from a port with a role switch in progress.
ModeStableDuringSwitch ==
    [][(\E b \in Binders : pc[b] \in AfterWrite)
          => node'["MODE"] = node["MODE"]]_vars

\* A mode switch that is reported as SUCCESS found a partner and left the port in
\* the mode asked for; one reported as ERROR left it dual, whatever uevents the
\* worker handled meanwhile - unless the kernel ignored the last write.
ModeSwitchOutcome ==
    \A b \in Binders :
        pc[b] = "notify" /\ isMode(b) =>
            /\ roleSwitch[b] => mPartnerUp
            /\ ignored \/ node["MODE"] = IF roleSwitch[b] THEN convertRoletoString(newRole[b])
                                         ELSE "dual"

workerAlive(w) == pc[w] \notin Returned \cup {"none"}

\* The worker lives as long as the callback: with one it runs and is not told to
\* exit, unless one of its calls failed, and without one it is gone once
\* setCallback() has returned.  The one thing that undoes this is a callback that was
\* set while another thread's setCallback(NULL) was between the unlock and the end of
\* its join.
WorkerMatchesCallback ==
    ~crossed =>
        /\ mCallback_1_0 # "NULL" =>
               /\ \E w \in Workers : workerAlive(w) \/ pc[w] = "failed"
               /\ ~destroyThread
        /\ (mCallback_1_0 = "NULL" /\ \A b \in Binders : pc[b] \notin Removal) =>
               \A w \in Workers : ~workerAlive(w)

\* The comment in setCallback(): with a callback there is a worker thread running.
CallbackHasWorker == mCallback_1_0 # "NULL" => \E w \in Workers : workerAlive(w)

\* setCallback(NULL) kills the worker and returns.
SetCallbackReturns == \A b \in Binders : pc[b] = "kill" ~> pc[b] = "idle"

\* switchRole() gets its locks, its answer and returns.
SwitchRoleReturns == \A b \in Binders : pc[b] = "roleLock" ~> pc[b] = "idle"

aboutTypec(w) == \E i \in DOMAIN socket[w] : socket[w][i] # "other"
saysConnected == reported \in PortStatus /\ reported.mode # "NONE"
saysDisconnected == reported \in PortStatus /\ reported.mode = "NONE"

\* The partner has changed, there is nobody to tell, or uevent_event() gave up.
overtaken(w, was) ==
    \/ (partner = "absent") # was
    \/ mCallback_1_0 = "NULL" \/ ~workerAlive(w) \/ pc[w] = "discard"

\* The worker reports connection and disconnection: once the uevent is in its
\* socket the present callback is told, unless the partner, this callback or the
\* worker goes first, or a message is discarded.  The framework takes a port with a
\* mode for connected.
ChangesReported ==
    \A w \in Workers, c \in Callbacks :
        /\ (aboutTypec(w) /\ partner # "absent" /\ mCallback_1_0 = c) ~>
               (saysConnected \/ mCallback_1_0 # c \/ overtaken(w, FALSE))
        /\ (aboutTypec(w) /\ partner = "absent" /\ mCallback_1_0 = c) ~>
               (saysDisconnected \/ mCallback_1_0 # c \/ overtaken(w, TRUE))

\* The comments of uevent_event() and setCallback(): connection and disconnection are
\* reported, and replacing the callback object suffices for the new one to be told.
ReplacedCallbackTold ==
    \A w \in Workers :
        /\ (aboutTypec(w) /\ partner # "absent") ~> (saysConnected \/ overtaken(w, FALSE))
        /\ (aboutTypec(w) /\ partner = "absent") ~> (saysDisconnected \/ overtaken(w, TRUE))

=============================================================================
