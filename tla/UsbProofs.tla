------------------------------- MODULE UsbProofs -------------------------------
(***************************************************************************)
(* What holds of the type-C HAL for any number of binder threads and       *)
(* workers, any socket size and whether or not sysfs and the worker's      *)
(* calls fail: its types, the mode switch under mRoleSwitchLock, and the   *)
(* life of the worker as long as no callback is set during a removal.      *)
(***************************************************************************)
EXTENDS Usb, TLAPS

\* The steps of switchRole() under mRoleSwitchLock.
SwitchSteps == {"open", "armed", "drp", "readBack", "notify"} \cup AfterWrite

\* The nodes hold only words of their own kind, so that a status read from them is a
\* PortStatus; port_type never holds "none".
NodeWords ==
    /\ node["MODE"] \in {"dual", "sink", "source"}
    /\ node["DATA_ROLE"] \in {"none", "host", "device"}
    /\ node["POWER_ROLE"] \in {"none", "source", "sink"}

\* setCallback() kills and joins a worker that was created.
PollSet ==
    /\ mPoll = "none" => mCallback_1_0 = "NULL" /\ \A b \in Binders : pc[b] \notin Removal
    /\ \A b \in Binders : pc[b] = "joining" => joining[b] \in Workers

\* roleSwitchOwner is who is between lock and unlock of mRoleSwitchLock.
RoleLock ==
    /\ \A b \in Binders : pc[b] \in SwitchSteps <=> roleSwitchOwner = b
    /\ \A w \in Workers : pc[w] = "drp" <=> roleSwitchOwner = w

\* The locals of switchRole(): which branch it is on, and no success before notify.
SwitchLocals ==
    \A b \in Binders :
        /\ pc[b] \in SwitchSteps \cup {"roleLock"} => newRole[b] \in Roles
        /\ pc[b] \in AfterWrite \cup {"armed", "drp"} => isMode(b)
        /\ pc[b] = "readBack" => ~isMode(b)
        /\ roleSwitch[b] => pc[b] = "notify"

\* From arming to the wait no partner is known to be up.
PartnerDown ==
    \A b \in Binders : pc[b] \in {"armed", "written", "waiting"} => ~mPartnerUp

\* What a mode switch wrote is still there when it looks for the partner.
ModeWritten ==
    \A b \in Binders :
        pc[b] \in AfterWrite => ignored \/ node["MODE"] = convertRoletoString(newRole[b])

\* A mode switch in progress, and its outcome.
SwitchInv == RoleLock /\ SwitchLocals /\ PartnerDown /\ ModeWritten /\ ModeSwitchOutcome

\* The inductive invariant of the HAL.
IInv == TypeOK /\ NodeWords /\ PollSet /\ SwitchInv

Removing == \E b \in Binders : pc[b] \in Removal

\* With a callback, and until it is killed, the last worker created runs or has failed.
MustRun ==
    (mCallback_1_0 # "NULL" \/ \E b \in Binders : pc[b] = "kill") =>
        /\ mPoll \in Workers /\ pc[mPoll] \notin {"none", "exited"}
        /\ ~destroyThread /\ sigusr1 = {}

\* One thread at a time removes the callback, and it joins the last worker created.
OneRemoval ==
    /\ \A b \in Binders : pc[b] \in Removal => mCallback_1_0 = "NULL"
    /\ \A b, c \in Binders : pc[b] \in Removal /\ pc[c] \in Removal => b = c
    /\ \A b \in Binders : joining[b] # "none" => pc[b] = "joining" /\ joining[b] = mPoll

\* A worker is the last one that was created, and is there with a callback or until it
\* is joined.
OneWorker ==
    /\ \A w \in Workers :
           pc[w] # "none" => w = mPoll /\ (mCallback_1_0 # "NULL" \/ Removing)
    /\ \A w \in sigusr1 : workerAlive(w)

\* What holds until a callback is set during the removal of another.
WorkerLife == OneRemoval /\ MustRun /\ OneWorker

-----------------------------------------------------------------------------
(* Types. *)

Steps ==
    /\ pc \in [Actors -> BinderStates \cup WorkerStates]
    /\ \A b \in Binders : pc[b] \in BinderStates
    /\ \A w \in Workers : pc[w] \in WorkerStates

Flags ==
    /\ destroyThread \in BOOLEAN /\ mPartnerUp \in BOOLEAN /\ ignored \in BOOLEAN
    /\ crossed \in BOOLEAN
    /\ roleSwitch \in [Binders -> BOOLEAN]
    /\ connected \in [Actors -> BOOLEAN] /\ ports \in [Actors -> BOOLEAN]

Sockets ==
    /\ socket \in [Workers -> Seq(Uevents)]
    /\ \A w \in Workers : Len(socket[w]) <= SocketSize

\* Of the nodes' type only NodeWords is more than their domain.
OtherTypes ==
    /\ mCallback_1_0 \in Callbacks \cup {"NULL"} /\ mPoll \in Workers \cup {"none"}
    /\ joining \in [Binders -> Workers \cup {"none"}]
    /\ roleSwitchOwner \in Actors \cup {"free"}
    /\ newRole \in [Binders -> PortRole \cup {NoRole}]
    /\ casted \in [Actors -> Callbacks \cup {"NULL"}]
    /\ sigusr1 \in SUBSET Workers
    /\ node \in [RoleTypes -> NodeValues]
    /\ partner \in PartnerKinds \cup {"absent"}

Told == reported \in PortStatus \cup {Untold, StatusError}

\* The type invariant falls into parts that suit one prover each.
LEMMA TypeParts ==
    /\ TypeOK <=> Steps /\ Flags /\ Sockets /\ OtherTypes /\ Told
    /\ TypeOK' <=> Steps' /\ Flags' /\ Sockets' /\ OtherTypes' /\ Told'
BY Zenon DEF TypeOK, Steps, Flags, Sockets, OtherTypes, Told

\* Binder threads and workers are different threads, and "free" and "none" are none.
LEMMA Threads ==
    /\ \A a \in Actors : a # "free"
    /\ \A b \in Binders, w \in Workers : b # w
    /\ Binders \subseteq Actors /\ Workers \subseteq Actors /\ Setters \subseteq Binders
    /\ "none" \notin Workers
BY SetsAssumption DEF Actors

\* What goto() does to a thread's step, and that it does nothing to another's.
LEMMA Goto ==
    ASSUME Steps, NEW a \in Actors, NEW step, goto(a, step),
           a \in Binders => step \in BinderStates, a \in Workers => step \in WorkerStates
    PROVE  /\ Steps' /\ pc'[a] = step
           /\ \A c \in Actors : c # a => pc'[c] = pc[c]
<1>1. step \in BinderStates \cup WorkerStates
  BY DEF Actors
<1>2. /\ pc' = [pc EXCEPT ![a] = step]
      /\ pc \in [Actors -> BinderStates \cup WorkerStates]
  BY DEF goto, Steps
<1>3. /\ pc' \in [Actors -> BinderStates \cup WorkerStates] /\ pc'[a] = step
      /\ \A c \in Actors : c # a => pc'[c] = pc[c]
  BY <1>1, <1>2
<1>4. QED
  BY <1>3, Threads DEF Steps

\* The words that are written to the nodes.
LEMMA RoleWords ==
    ASSUME NEW role \in PortRole
    PROVE  /\ role[1] \in RoleTypes /\ convertRoletoString(role) \in NodeValues
           /\ role[1] = "MODE" => convertRoletoString(role) \in {"sink", "source", "none"}
           /\ role[1] = "DATA_ROLE" => convertRoletoString(role) \in {"host", "device"}
           /\ role[1] = "POWER_ROLE" => convertRoletoString(role) \in {"source", "sink"}
<1>1. \/ role[1] = "MODE" /\ role[2] \in {"UFP", "DFP", "DRP"}
      \/ role[1] = "DATA_ROLE" /\ role[2] \in {"HOST", "DEVICE"}
      \/ role[1] = "POWER_ROLE" /\ role[2] \in {"SOURCE", "SINK"}
  BY DEF PortRole
<1>2. /\ role[2] = "UFP" => convertRoletoString(role) = "sink"
      /\ role[2] = "DFP" => convertRoletoString(role) = "source"
      /\ role[2] = "DRP" => convertRoletoString(role) = "none"
      /\ role[2] = "HOST" => convertRoletoString(role) = "host"
      /\ role[2] = "DEVICE" => convertRoletoString(role) = "device"
      /\ role[2] = "SOURCE" => convertRoletoString(role) = "source"
      /\ role[2] = "SINK" => convertRoletoString(role) = "sink"
  BY Zenon DEF convertRoletoString
<1>3. QED
  BY <1>1, <1>2 DEF RoleTypes, NodeValues

\* A status that is read from the nodes.
LEMMA StatusTyped ==
    ASSUME NodeWords, OtherTypes, NEW isConnected \in BOOLEAN
    PROVE  getPortStatusHelper(isConnected) \in PortStatus \cup {StatusError}
<1>1. getCurrentRoleHelper("POWER_ROLE", isConnected) \in {"NONE", "SOURCE", "SINK"}
  BY Zenon DEF getCurrentRoleHelper, NodeWords
<1>2. getCurrentRoleHelper("DATA_ROLE", isConnected) \in {"NONE", "HOST", "DEVICE"}
  BY Zenon DEF getCurrentRoleHelper, NodeWords
<1>3. getCurrentRoleHelper("MODE", isConnected) \in
          {"NONE", "UFP", "DFP", "AUDIO_ACCESSORY", "DEBUG_ACCESSORY", "ERROR"}
  BY Zenon DEF getCurrentRoleHelper, NodeWords
<1>4. QED
  BY <1>1, <1>2, <1>3 DEF getPortStatusHelper, PortStatus

\* What a write leaves in the nodes.
LEMMA WriteEffect ==
    ASSUME NodeWords, node \in [RoleTypes -> NodeValues], ignored \in BOOLEAN,
           NEW type \in RoleTypes, NEW value \in NodeValues, write(type, value),
           type = "MODE" => value \in {"sink", "source", "none", "dual"},
           type = "DATA_ROLE" => value \in {"host", "device"},
           type = "POWER_ROLE" => value \in {"source", "sink"}
    PROVE  /\ NodeWords' /\ node' \in [RoleTypes -> NodeValues] /\ ignored' \in BOOLEAN
           /\ type = "MODE" => ignored' \/ node'["MODE"] = value
           /\ type # "MODE" => node'["MODE"] = node["MODE"] /\ ignored' = ignored
<1>1. /\ type = "MODE" => ignored' \/ (node' = [node EXCEPT ![type] = value] /\ value # "none")
      /\ type # "MODE" => ignored' = ignored
      /\ ignored' \in BOOLEAN
      /\ \/ node' = [node EXCEPT ![type] = value] /\ (type = "MODE" => value # "none")
         \/ node' = node
  BY Zenon DEF write
<1>2. CASE node' = node
  <2>1. NodeWords' /\ node' \in [RoleTypes -> NodeValues] /\ node'["MODE"] = node["MODE"]
    BY <1>2 DEF NodeWords
  <2>2. type = "MODE" => ignored' \/ node'["MODE"] = value
    BY <1>1 DEF RoleTypes
  <2>3. QED
    BY <1>1, <2>1, <2>2, Zenon
<1>3. CASE node' = [node EXCEPT ![type] = value] /\ (type = "MODE" => value # "none")
  <2>1. NodeWords' /\ node' \in [RoleTypes -> NodeValues]
    BY <1>3 DEF NodeWords, RoleTypes
  <2>2. IF type = "MODE" THEN node'["MODE"] = value ELSE node'["MODE"] = node["MODE"]
    BY <1>3 DEF RoleTypes
  <2>3. QED
    BY <1>1, <2>1, <2>2, Zenon
<1>4. QED
  BY <1>1, <1>2, <1>3

\* The types, with what they rest on.
Typed == TypeOK /\ NodeWords /\ PollSet

\* Every step of switchRole(), in the order of the code.
switching(b) == (\E role \in Roles : switchRole(b, role)) \/ switchStep(b) \/ spuriousWakeup(b)

\* A step of switchRole() moves its own thread only, and within the call.
LEMMA SwitchMoves ==
    ASSUME Steps, NEW b \in Binders, switching(b)
    PROVE  /\ Steps' /\ pc[b] \notin Removal /\ pc'[b] \notin Removal
           /\ \A c \in Actors : c # b => pc'[c] = pc[c]
<1> DEFINE Targets == SwitchSteps \cup {"roleLock", "idle"}
<1>1. Targets \subseteq BinderStates /\ Targets \cap Removal = {}
  BY DEF SwitchSteps, AfterWrite, BinderStates, Removal
<1>2. pc[b] \in Targets /\ \E step \in Targets : goto(b, step)
  <2>1. CASE \E role \in Roles : switchRole(b, role)
    BY <2>1 DEF switchRole, SwitchSteps, AfterWrite
  <2>2. CASE takeRoleSwitchLock(b)
    BY <2>2 DEF takeRoleSwitchLock, SwitchSteps, AfterWrite
  <2>3. CASE openFails(b)
    BY <2>3 DEF openFails, SwitchSteps, AfterWrite
  <2>4. CASE writeRole(b)
    BY <2>4 DEF writeRole, SwitchSteps, AfterWrite
  <2>5. CASE readBack(b)
    BY <2>5 DEF readBack, SwitchSteps, AfterWrite
  <2>6. CASE armPartner(b)
    BY <2>6 DEF armPartner, SwitchSteps, AfterWrite
  <2>7. CASE writeMode(b)
    BY <2>7 DEF writeMode, SwitchSteps, AfterWrite
  <2>8. CASE waitPartner(b)
    BY <2>8 DEF waitPartner, SwitchSteps, AfterWrite
  <2>9. CASE waitTimeout(b)
    BY <2>9 DEF waitTimeout, SwitchSteps, AfterWrite
  <2>10. CASE partnerCheck(b)
    BY <2>10 DEF partnerCheck, SwitchSteps, AfterWrite
  <2>11. CASE timedOut(b)
    BY <2>11 DEF timedOut, SwitchSteps, AfterWrite
  <2>12. CASE switchToDrp(b)
    BY <2>12 DEF switchToDrp, SwitchSteps, AfterWrite
  <2>13. CASE notifyRoleSwitchStatus(b)
    BY <2>13 DEF notifyRoleSwitchStatus, SwitchSteps, AfterWrite
  <2>14. CASE spuriousWakeup(b)
    BY <2>14 DEF spuriousWakeup, SwitchSteps, AfterWrite
  <2>15. QED
    BY <2>1, <2>2, <2>3, <2>4, <2>5, <2>6, <2>7, <2>8, <2>9, <2>10, <2>11, <2>12, <2>13, <2>14 DEF switching, switchStep
<1>3. PICK step \in Targets : goto(b, step)
  BY <1>2
<1>4. b \in Actors /\ b \notin Workers /\ step \in BinderStates
  BY <1>1, Threads
<1>5. QED
  BY <1>1, <1>2, <1>3, <1>4, Goto

LEMMA SwitchKeepsTypes ==
    ASSUME IInv, NEW b \in Binders, switching(b)
    PROVE  Typed'
<1>1. /\ Steps /\ Flags /\ Sockets /\ OtherTypes /\ Told
      /\ NodeWords /\ PollSet /\ SwitchLocals
  BY TypeParts DEF IInv, SwitchInv
<1>2. UNCHANGED switchUnchanged
  BY Zenon DEF switching, switchStep, switchRole, takeRoleSwitchLock, openFails, writeRole, readBack, armPartner, writeMode, waitPartner, waitTimeout, partnerCheck, timedOut, switchToDrp, notifyRoleSwitchStatus, spuriousWakeup
<1>3. Sockets' /\ Told'
  BY <1>1, <1>2 DEF switchUnchanged, workerVars, pollVars, callbackVars, Sockets, Told
<1>4. PollSet'
  BY <1>1, <1>2, SwitchMoves, Threads DEF switchUnchanged, workerVars, pollVars, callbackVars, PollSet, Removal
<1>5. NodeWords' /\ node' \in [RoleTypes -> NodeValues] /\ ignored' \in BOOLEAN
  <2>1. node \in [RoleTypes -> NodeValues] /\ ignored \in BOOLEAN
    BY <1>1 DEF OtherTypes, Flags
  <2>2. CASE UNCHANGED nodeVars
    BY <1>1, <2>1, <2>2 DEF nodeVars, NodeWords
  <2>3. CASE writeRole(b)
    <3>1. newRole[b] \in PortRole /\ write(newRole[b][1], convertRoletoString(newRole[b]))
      BY <1>1, <2>3, SetsAssumption DEF writeRole, SwitchLocals, SwitchSteps
    <3>2. QED
      BY <1>1, <2>1, <3>1, RoleWords, WriteEffect
  <2>4. CASE writeMode(b)
    <3>1. /\ newRole[b] \in PortRole /\ newRole[b][1] = "MODE"
          /\ write("MODE", convertRoletoString(newRole[b])) \/ UNCHANGED nodeVars
      BY <1>1, <2>4, SetsAssumption DEF writeMode, SwitchLocals, SwitchSteps, isMode
    <3>2. QED
      BY <1>1, <2>1, <2>2, <3>1, RoleWords, WriteEffect DEF RoleTypes
  <2>5. CASE switchToDrp(b)
    <3>1. write("MODE", "dual") /\ "MODE" \in RoleTypes /\ "dual" \in NodeValues
      BY <2>5 DEF switchToDrp, RoleTypes, NodeValues
    <3>2. QED
      BY <1>1, <2>1, <3>1, WriteEffect
  <2>6. QED
    BY <2>2, <2>3, <2>4, <2>5, Zenon DEF switching, switchStep, switchRole, takeRoleSwitchLock, openFails, readBack, armPartner, waitPartner, waitTimeout, partnerCheck, timedOut, notifyRoleSwitchStatus, spuriousWakeup
<1>6. Flags'
  <2>1. roleSwitch \in [Binders -> BOOLEAN] /\ mPartnerUp \in BOOLEAN
    BY <1>1, Zenon DEF Flags
  <2>2. mPartnerUp' \in BOOLEAN
    BY <2>1, Zenon DEF lockVars, switching, switchStep, switchRole, takeRoleSwitchLock, openFails, writeRole, readBack, armPartner, writeMode, waitPartner, waitTimeout, partnerCheck, timedOut, switchToDrp, notifyRoleSwitchStatus, spuriousWakeup
  <2>3. \/ UNCHANGED roleSwitch
        \/ \E on \in BOOLEAN : roleSwitch' = [roleSwitch EXCEPT ![b] = on]
    BY <2>1, Zenon DEF switchVars, switching, switchStep, switchRole, takeRoleSwitchLock, openFails, writeRole, readBack, armPartner, writeMode, waitPartner, waitTimeout, partnerCheck, timedOut, switchToDrp, notifyRoleSwitchStatus, spuriousWakeup
  <2>4. roleSwitch' \in [Binders -> BOOLEAN]
    BY <2>1, <2>3
  <2>5. UNCHANGED <<destroyThread, crossed, connected, ports>>
    BY <1>2, Zenon DEF switchUnchanged, workerVars, pollVars, callbackVars, queryVars
  <2>6. QED
    BY <1>1, <1>5, <2>2, <2>4, <2>5, Zenon DEF Flags
<1>7. OtherTypes'
  <2>1. /\ roleSwitchOwner \in Actors \cup {"free"} /\ newRole \in [Binders -> PortRole \cup {NoRole}]
        /\ b \in Actors /\ Roles \subseteq PortRole
    BY <1>1, Threads, SetsAssumption DEF OtherTypes
  <2>2. /\ roleSwitchOwner' \in {roleSwitchOwner, b, "free"}
        /\ \/ UNCHANGED newRole
           \/ \E role \in Roles \cup {NoRole} : newRole' = [newRole EXCEPT ![b] = role]
    BY Zenon DEF lockVars, switchVars, switching, switchStep, switchRole, takeRoleSwitchLock, openFails, writeRole, readBack, armPartner, writeMode, waitPartner, waitTimeout, partnerCheck, timedOut, switchToDrp, notifyRoleSwitchStatus, spuriousWakeup
  <2>3. UNCHANGED <<mCallback_1_0, mPoll, joining, casted, sigusr1, partner>>
    BY <1>2, Zenon DEF switchUnchanged, workerVars, pollVars, callbackVars, queryVars
  <2>4. /\ roleSwitchOwner' \in Actors \cup {"free"}
        /\ newRole' \in [Binders -> PortRole \cup {NoRole}]
    BY <2>1, <2>2
  <2>5. QED
    BY <1>1, <1>5, <2>3, <2>4 DEF OtherTypes
<1>8. QED
  BY <1>1, <1>3, <1>4, <1>5, <1>6, <1>7, SwitchMoves, TypeParts DEF Typed

\* queryPortStatus() of a binder thread, and queryVersionHelper() of either.
querying(a) == (a \in Binders /\ queryPortStatus(a)) \/ queryVersionHelper(a)

\* A query moves its own thread only, and within the query.
LEMMA QueryMoves ==
    ASSUME Steps, NEW a \in Actors, querying(a)
    PROVE  /\ Steps' /\ \A c \in Actors : c # a => pc'[c] = pc[c]
           /\ pc[a] \in {"idle", "cast", "query", "reading"}
           /\ pc'[a] \in {"idle", "cast", "query", "reading", "trylock"}
           /\ a \in Workers => pc[a] # "idle" /\ pc'[a] # "idle"
           /\ a \in Binders => pc'[a] # "trylock"
<1>1. /\ pc[a] \in {"idle", "cast", "query", "reading"} /\ (a \in Workers => pc[a] # "idle")
      /\ \E step \in {"cast", "query", "reading", afterQuery(a)} : goto(a, step)
  <2>1. CASE a \in Binders /\ queryPortStatus(a)
    BY <2>1, Threads DEF queryPortStatus
  <2>2. CASE castCallback(a)
    BY <2>2 DEF castCallback
  <2>3. CASE queryNames(a)
    BY <2>3 DEF queryNames
  <2>4. CASE queryNotify(a)
    BY <2>4 DEF queryNotify
  <2>5. QED
    BY <2>1, <2>2, <2>3, <2>4 DEF querying, queryVersionHelper
<1>2. PICK step \in {"cast", "query", "reading", afterQuery(a)} : goto(a, step)
  BY <1>1
<1>3. /\ a \in Binders => step \in {"cast", "query", "reading", "idle"}
      /\ a \in Workers => step \in {"cast", "query", "reading", "trylock"}
  BY Threads DEF afterQuery
<1>4. /\ a \in Binders => step \in BinderStates
      /\ a \in Workers => step \in WorkerStates
  BY <1>3 DEF BinderStates, WorkerStates
<1>5. QED
  BY <1>1, <1>2, <1>3, <1>4, Goto DEF Actors

\* What a query leaves alone, and what it does to the locals and to the report.
LEMMA QueryEffect ==
    ASSUME NEW a \in Actors, querying(a)
    PROVE  /\ UNCHANGED <<callbackVars, lockVars, switchVars, workerVars, nodeVars, partner>>
           /\ \/ UNCHANGED casted
              \/ \E callback \in {mCallback_1_0, "NULL"} :
                     casted' = [casted EXCEPT ![a] = callback]
           /\ \/ UNCHANGED connected
              \/ \E on \in BOOLEAN : connected' = [connected EXCEPT ![a] = on]
           /\ \/ UNCHANGED ports
              \/ \E ok \in BOOLEAN : ports' = [ports EXCEPT ![a] = ok]
           /\ reported' \in {reported, getPortStatusHelper(connected[a]), StatusError}
<1>1. CASE a \in Binders /\ queryPortStatus(a)
  BY <1>1, Zenon DEF queryPortStatus, queryVars
<1>2. CASE castCallback(a)
  BY <1>2, Zenon DEF castCallback
<1>3. CASE queryNames(a)
  <2>1. \/ UNCHANGED ports
        \/ \E ok \in BOOLEAN : ports' = [ports EXCEPT ![a] = ok]
    BY <1>3, Zenon DEF queryNames
  <2>2. QED
    BY <1>3, <2>1, Zenon DEF queryNames
<1>4. CASE queryNotify(a)
  <2>1. reported' \in {reported, getPortStatusHelper(connected[a]), StatusError}
    BY <1>4, Zenon DEF queryNotify
  <2>2. \E ok \in BOOLEAN : ports' = [ports EXCEPT ![a] = ok]
    BY <1>4, Zenon DEF queryNotify
  <2>3. QED
    BY <1>4, <2>1, <2>2, Zenon DEF queryNotify
<1>5. QED
  BY <1>1, <1>2, <1>3, <1>4, Zenon DEF querying, queryVersionHelper

LEMMA QueryKeepsTypes ==
    ASSUME IInv, NEW a \in Actors, querying(a)
    PROVE  Typed'
<1>1. Steps /\ Flags /\ Sockets /\ OtherTypes /\ Told /\ NodeWords /\ PollSet
  BY TypeParts DEF IInv
<1>2. UNCHANGED <<callbackVars, lockVars, switchVars, workerVars, nodeVars, partner>>
  BY QueryEffect, Zenon
<1>3. Sockets' /\ NodeWords'
  BY <1>1, <1>2 DEF Sockets, NodeWords, workerVars, pollVars, callbackVars, nodeVars
<1>4. PollSet'
  BY <1>1, <1>2, QueryMoves, Threads DEF PollSet, Removal, workerVars, pollVars, callbackVars
<1>5. Told'
  <2>1. connected[a] \in BOOLEAN
    BY <1>1 DEF Flags
  <2>2. QED
    BY <1>1, <2>1, QueryEffect, StatusTyped DEF Told
<1>6. Flags'
  <2>1. connected \in [Actors -> BOOLEAN] /\ ports \in [Actors -> BOOLEAN]
    BY <1>1, Zenon DEF Flags
  <2>2. connected' \in [Actors -> BOOLEAN]
    BY <2>1, QueryEffect
  <2>3. ports' \in [Actors -> BOOLEAN]
    BY <2>1, QueryEffect
  <2>4. QED
    BY <1>1, <1>2, <2>2, <2>3, Zenon DEF Flags, lockVars, switchVars, workerVars, pollVars, callbackVars, nodeVars
<1>7. OtherTypes'
  <2>1. casted' \in [Actors -> Callbacks \cup {"NULL"}]
    BY <1>1, QueryEffect DEF OtherTypes
  <2>2. QED
    BY <1>1, <1>2, <2>1 DEF OtherTypes, lockVars, switchVars, workerVars, pollVars, callbackVars, nodeVars
<1>8. QED
  BY <1>1, <1>3, <1>4, <1>5, <1>6, <1>7, QueryMoves, TypeParts DEF Typed

\* setCallback(), up to the return from pthread_join().
setting(b) ==
    \/ b \in Setters /\ \E callback \in Callbacks \cup {"NULL"} : setCallback(b, callback)
    \/ killWorker(b) \/ joinWorker(b) \/ joinReturns(b)

\* setCallback() leaves the role switches and the nodes alone.
LEMMA SettingEffect ==
    ASSUME NEW b \in Binders, setting(b)
    PROVE  /\ UNCHANGED <<lockVars, switchVars, queryVars, socket, nodeVars, partner>>
           /\ reported' \in {reported, Untold}
           /\ destroyThread' \in {destroyThread, FALSE}
           /\ (crossed => crossed') /\ (crossed \in BOOLEAN => crossed' \in BOOLEAN)
<1>1. ASSUME NEW callback, setCallback(b, callback)
      PROVE  /\ UNCHANGED <<lockVars, switchVars, queryVars, socket, nodeVars, partner>>
             /\ reported' \in {reported, Untold}
             /\ destroyThread' \in {destroyThread, FALSE}
             /\ (crossed => crossed') /\ (crossed \in BOOLEAN => crossed' \in BOOLEAN)
  BY <1>1, Zenon DEF setCallback, workerVars, pollVars, callbackVars
<1>2. CASE killWorker(b)
  BY <1>2, Zenon DEF killWorker, workerVars, pollVars, callbackVars
<1>3. CASE joinWorker(b)
  BY <1>3, Zenon DEF joinWorker, workerVars, pollVars, callbackVars
<1>4. CASE joinReturns(b)
  BY <1>4, Zenon DEF joinReturns, workerVars, pollVars, callbackVars
<1>5. QED
  BY <1>1, <1>2, <1>3, <1>4, Zenon DEF setting

\* The branches of setCallback(): the callback is replaced, is taken away, a worker is
\* created for it, and pthread_create() fails.
Replaced(callback) ==
    /\ mCallback_1_0 = "NULL" <=> callback = "NULL"
    /\ mCallback_1_0' = callback /\ UNCHANGED <<crossed, pc, workerVars>>

TakenAway(b, callback) ==
    /\ callback = "NULL" /\ mCallback_1_0 # "NULL"
    /\ mCallback_1_0' = callback /\ goto(b, "kill") /\ UNCHANGED <<crossed, workerVars>>

Created(callback) ==
    /\ callback # "NULL" /\ mCallback_1_0 = "NULL"
    /\ destroyThread' = FALSE /\ crossed' = (crossed \/ Removing)
    /\ UNCHANGED <<joining, sigusr1, socket>>
    /\ \E w \in Workers : /\ pc[w] = "none" /\ mCallback_1_0' = callback
                          /\ mPoll' = w /\ goto(w, "create")

NotCreated(callback) ==
    /\ callback # "NULL" /\ mCallback_1_0 = "NULL"
    /\ destroyThread' = FALSE /\ crossed' = (crossed \/ Removing)
    /\ UNCHANGED <<joining, sigusr1, socket, mCallback_1_0, mPoll, pc>>

LEMMA SetCallbackCases ==
    ASSUME NEW b \in Binders, NEW callback, setCallback(b, callback)
    PROVE  /\ pc[b] = "idle"
           /\ Replaced(callback) \/ TakenAway(b, callback) \/ Created(callback) \/ NotCreated(callback)
<1>1. CASE mCallback_1_0 = "NULL" <=> callback = "NULL"
  BY <1>1, Zenon DEF setCallback, Replaced
<1>2. CASE callback = "NULL" /\ mCallback_1_0 # "NULL"
  BY <1>2, Zenon DEF setCallback, TakenAway
<1>3. CASE callback # "NULL" /\ mCallback_1_0 = "NULL"
  BY <1>3, Zenon DEF setCallback, Created, NotCreated, Removing
<1>4. QED
  BY <1>1, <1>2, <1>3, Zenon

LEMMA SettingKeepsTypes ==
    ASSUME IInv, NEW b \in Binders, setting(b)
    PROVE  Typed'
<1>1. Steps /\ Flags /\ Sockets /\ OtherTypes /\ Told /\ NodeWords /\ PollSet
  BY TypeParts DEF IInv
<1>2. UNCHANGED <<lockVars, switchVars, queryVars, socket, nodeVars, partner>>
  BY SettingEffect, Zenon
<1>3. Sockets' /\ NodeWords' /\ Told'
  BY <1>1, <1>2, SettingEffect DEF Sockets, NodeWords, Told, nodeVars
<1>4. Flags'
  BY <1>1, <1>2, SettingEffect, Zenon DEF Flags, lockVars, switchVars, queryVars, nodeVars
<1>5. /\ Steps' /\ PollSet' /\ mCallback_1_0' \in Callbacks \cup {"NULL"}
      /\ mPoll' \in Workers \cup {"none"} /\ sigusr1' \in SUBSET Workers
      /\ joining' \in [Binders -> Workers \cup {"none"}]
  <2>0. /\ mCallback_1_0 \in Callbacks \cup {"NULL"} /\ mPoll \in Workers \cup {"none"}
        /\ sigusr1 \in SUBSET Workers /\ b \in Actors /\ b \notin Workers
        /\ joining \in [Binders -> Workers \cup {"none"}] /\ "joining" \in BinderStates
        /\ "kill" \in BinderStates /\ "join" \in BinderStates /\ "idle" \in BinderStates
        /\ "create" \in WorkerStates /\ "none" \in WorkerStates
    BY <1>1, Threads DEF OtherTypes, BinderStates, WorkerStates
  <2>1. ASSUME NEW callback \in Callbacks \cup {"NULL"}, setCallback(b, callback)
        PROVE  /\ Steps' /\ PollSet' /\ mCallback_1_0' \in Callbacks \cup {"NULL"}
               /\ mPoll' \in Workers \cup {"none"} /\ sigusr1' \in SUBSET Workers
               /\ joining' \in [Binders -> Workers \cup {"none"}]
    <3>1. CASE Replaced(callback)
      BY <1>1, <2>0, <2>1, <3>1 DEF Replaced, PollSet, Removal, Steps, workerVars, pollVars, callbackVars
    <3>2. CASE TakenAway(b, callback)
      <4>1. Steps' /\ pc'[b] = "kill" /\ \A c \in Actors : c # b => pc'[c] = pc[c]
        BY <1>1, <2>0, <3>2, Goto DEF TakenAway
      <4>2. mPoll # "none" /\ UNCHANGED <<mPoll, joining, sigusr1>>
        BY <1>1, <3>2 DEF TakenAway, PollSet, workerVars, pollVars
      <4>3. QED
        BY <1>1, <2>0, <3>2, <4>1, <4>2, Threads DEF TakenAway, PollSet
    <3>3. CASE Created(callback)
      <4>1. PICK w \in Workers : mPoll' = w /\ goto(w, "create") /\ mCallback_1_0' = callback
        BY <3>3 DEF Created
      <4>2. w \in Actors /\ w \notin Binders
        BY Threads
      <4>3. Steps' /\ \A c \in Actors : c # w => pc'[c] = pc[c]
        BY <1>1, <2>0, <4>1, <4>2, Goto
      <4>4. UNCHANGED <<joining, sigusr1>>
        BY <3>3, Zenon DEF Created
      <4>5. QED
        BY <1>1, <2>0, <2>1, <4>1, <4>2, <4>3, <4>4, Threads DEF PollSet
    <3>4. CASE NotCreated(callback)
      BY <1>1, <2>0, <3>4 DEF NotCreated, PollSet, Removal, Steps
    <3>5. QED
      BY <2>1, <3>1, <3>2, <3>3, <3>4, SetCallbackCases
  <2>2. CASE killWorker(b)
    <3>1. goto(b, "join") /\ mPoll # "none" /\ UNCHANGED <<mCallback_1_0, mPoll, joining>>
      BY <1>1, <2>2 DEF killWorker, PollSet, Removal, pollVars, callbackVars
    <3>2. sigusr1' \in SUBSET Workers
      BY <2>0, <2>2, <3>1 DEF killWorker
    <3>3. Steps' /\ pc'[b] = "join" /\ \A c \in Actors : c # b => pc'[c] = pc[c]
      BY <1>1, <2>0, <3>1, Goto
    <3>4. QED
      BY <1>1, <2>0, <3>1, <3>2, <3>3, Threads DEF PollSet, Removal
  <2>3. CASE joinWorker(b)
    <3>1. mPoll \in Workers /\ UNCHANGED <<mCallback_1_0, mPoll, sigusr1>>
      BY <1>1, <2>0, <2>3 DEF joinWorker, PollSet, Removal, callbackVars
    <3>2. \/ goto(b, "idle") /\ UNCHANGED joining
          \/ goto(b, "joining") /\ joining' = [joining EXCEPT ![b] = mPoll]
      BY <2>3, Zenon DEF joinWorker
    <3>3. Steps' /\ \A c \in Actors : c # b => pc'[c] = pc[c]
      BY <1>1, <2>0, <3>2, Goto
    <3>4. /\ joining' \in [Binders -> Workers \cup {"none"}]
          /\ \A c \in Binders : pc'[c] = "joining" => joining'[c] \in Workers
      <4>1. CASE goto(b, "idle") /\ UNCHANGED joining
        BY <1>1, <2>0, <3>3, <4>1, Goto, Threads DEF PollSet, Removal
      <4>2. CASE goto(b, "joining") /\ joining' = [joining EXCEPT ![b] = mPoll]
        BY <1>1, <2>0, <3>1, <3>3, <4>2, Threads DEF PollSet, Removal
      <4>3. QED
        BY <3>2, <4>1, <4>2
    <3>5. QED
      BY <2>0, <3>1, <3>3, <3>4, Threads DEF PollSet, Removal
  <2>4. CASE joinReturns(b)
    <3>1. /\ pc' = [pc EXCEPT ![b] = "idle", ![joining[b]] = "none"] /\ joining[b] \in Workers
          /\ joining' = [joining EXCEPT ![b] = "none"] /\ mPoll \in Workers
          /\ UNCHANGED <<mCallback_1_0, mPoll, sigusr1>>
      BY <1>1, <2>0, <2>4 DEF joinReturns, PollSet, Removal, callbackVars
    <3>2. Steps' /\ \A c \in Binders : c # b => pc'[c] = pc[c] /\ joining'[c] = joining[c]
      BY <1>1, <2>0, <3>1, Threads DEF Steps
    <3>3. pc'[b] = "idle" /\ joining' \in [Binders -> Workers \cup {"none"}]
      BY <1>1, <2>0, <3>1, Threads DEF Steps
    <3>4. QED
      BY <1>1, <2>0, <3>1, <3>2, <3>3, Threads DEF PollSet, Removal
  <2>5. QED
    BY <2>1, <2>2, <2>3, <2>4 DEF setting
<1>6. OtherTypes'
  BY <1>1, <1>2, <1>5 DEF OtherTypes, lockVars, switchVars, queryVars, nodeVars
<1>7. QED
  BY <1>3, <1>4, <1>5, <1>6, TypeParts DEF Typed

\* The steps of the worker's loop outside queryVersionHelper().
working(w) ==
    \/ workStart(w) \/ workCheck(w) \/ workWait(w) \/ workReceive(w) \/ workDiscard(w)
    \/ partnerAdded(w)
    \/ tryRoleSwitchLock(w) \/ workDrp(w) \/ workFails(w) \/ sighandler(w)

\* A worker moves itself, and a partner's arrival wakes those who wait for it.
LEMMA WorkMoves ==
    ASSUME Steps, sigusr1 \subseteq Workers, NEW w \in Workers, working(w)
    PROVE  /\ Steps'
           /\ \A v \in Workers : v # w => pc'[v] = pc[v]
           /\ \A b \in Binders : \/ pc'[b] = pc[b]
                                 \/ partnerAdded(w) /\ pc[b] = "waiting" /\ pc'[b] = "woken"
<1>0. w \in Actors /\ w \notin Binders
  BY Threads
<1>1. CASE partnerAdded(w)
  <2>1. \A a \in Actors : pc'[a] = IF a = w THEN "cast"
                                   ELSE IF pc[a] = "waiting" THEN "woken" ELSE pc[a]
    BY <1>1 DEF partnerAdded
  <2>2. /\ \A b \in Binders : /\ pc'[b] \in BinderStates
                              /\ pc'[b] = pc[b] \/ (pc[b] = "waiting" /\ pc'[b] = "woken")
        /\ \A v \in Workers : pc'[v] \in WorkerStates /\ (v # w => pc'[v] = pc[v])
    <3>1. "woken" \in BinderStates /\ "cast" \in WorkerStates /\ "waiting" \notin WorkerStates
      BY DEF BinderStates, WorkerStates
    <3>2. \A b \in Binders : b \in Actors /\ b # w
      BY Threads
    <3>3. QED
      BY <2>1, <3>1, <3>2, Threads DEF Steps
  <2>3. pc' \in [Actors -> BinderStates \cup WorkerStates]
    <3>1. DOMAIN pc' = Actors /\ pc' = [a \in Actors |-> pc'[a]]
      BY <1>1 DEF partnerAdded
    <3>2. \A a \in Actors : pc'[a] \in BinderStates \cup WorkerStates
      BY <2>2 DEF Actors
    <3>3. QED
      BY <3>1, <3>2
  <2>4. QED
    BY <1>1, <2>2, <2>3 DEF Steps
<1>2. CASE ~partnerAdded(w)
  <2>1. \E step \in WorkerStates : goto(w, step)
    <3>1. CASE workStart(w)
      BY <3>1 DEF workStart, WorkerStates
    <3>2. CASE workCheck(w)
      BY <3>2 DEF workCheck, exit, WorkerStates
    <3>3. CASE workWait(w)
      BY <3>3 DEF workWait, WorkerStates
    <3>4. CASE workReceive(w)
      <4>1. \E step \in {"partner", "cast", "check"} : goto(w, step)
        BY <3>4, Zenon DEF workReceive
      <4>2. QED
        BY <4>1 DEF WorkerStates
    <3>5. CASE tryRoleSwitchLock(w)
      BY <3>5 DEF tryRoleSwitchLock, WorkerStates
    <3>6. CASE workDrp(w)
      BY <3>6 DEF workDrp, WorkerStates
    <3>7. CASE workFails(w)
      BY <3>7 DEF workFails, exit, WorkerStates
    <3>8. CASE sighandler(w)
      BY <3>8 DEF sighandler, Steps, WorkerStates
    <3>9. CASE workDiscard(w)
      BY <3>9 DEF workDiscard, WorkerStates
    <3>10. QED
      BY <1>2, <3>1, <3>2, <3>3, <3>4, <3>5, <3>6, <3>7, <3>8, <3>9 DEF working
  <2>2. PICK step \in WorkerStates : goto(w, step)
    BY <2>1
  <2>3. /\ Steps' /\ \A c \in Actors : c # w => pc'[c] = pc[c]
    BY <1>0, <2>2, Goto
  <2>4. QED
    BY <2>3, Threads
<1>3. QED
  BY <1>1, <1>2

\* What the worker's loop writes.
LEMMA WorkEffect ==
    ASSUME NEW w \in Workers, working(w)
    PROVE  /\ UNCHANGED <<callbackVars, switchVars, casted, connected, pollVars, partner, reported>>
           /\ roleSwitchOwner' \in {roleSwitchOwner, w, "free"}
           /\ sigusr1' \in {sigusr1, sigusr1 \ {w}}
           /\ mPartnerUp' \in {mPartnerUp, TRUE} /\ destroyThread' \in {destroyThread, TRUE}
           /\ UNCHANGED ports \/ ports' = [ports EXCEPT ![w] = FALSE]
           /\ UNCHANGED nodeVars \/ write("MODE", "dual")
           /\ \/ UNCHANGED socket
              \/ socket' = [socket EXCEPT ![w] = <<>>]
              \/ socket[w] # <<>> /\ socket' = [socket EXCEPT ![w] = Tail(socket[w])]
<1> USE DEF workUnchanged, lockVars, queryVars, workerVars, pollVars, callbackVars
<1>1. CASE workStart(w)
  BY <1>1, Zenon DEF workStart
<1>2. CASE workCheck(w)
  BY <1>2, Zenon DEF workCheck, exit
<1>3. CASE workWait(w)
  BY <1>3, Zenon DEF workWait
<1>4. CASE workReceive(w)
  BY <1>4, Zenon DEF workReceive
<1>5. CASE partnerAdded(w)
  BY <1>5, Zenon DEF partnerAdded
<1>6. CASE tryRoleSwitchLock(w)
  BY <1>6, Zenon DEF tryRoleSwitchLock
<1>7. CASE workDrp(w)
  BY <1>7, Zenon DEF workDrp
<1>8. CASE workFails(w)
  BY <1>8, Zenon DEF workFails, exit
<1>9. CASE sighandler(w)
  BY <1>9, Zenon DEF sighandler
<1>10. CASE workDiscard(w)
  BY <1>10, Zenon DEF workDiscard
<1>11. QED
  BY <1>1, <1>2, <1>3, <1>4, <1>5, <1>6, <1>7, <1>8, <1>9, <1>10, Zenon DEF working

LEMMA WorkKeepsTypes ==
    ASSUME IInv, NEW w \in Workers, working(w)
    PROVE  Typed'
<1>1. Steps /\ Flags /\ Sockets /\ OtherTypes /\ Told /\ NodeWords /\ PollSet
  BY TypeParts DEF IInv
<1>2. UNCHANGED <<callbackVars, switchVars, casted, connected, pollVars, partner, reported>>
  BY WorkEffect, Zenon
<1>3. Steps' /\ PollSet' /\ Told'
  BY <1>1, <1>2, WorkMoves DEF PollSet, Removal, Told, OtherTypes, callbackVars, pollVars
<1>4. Sockets'
  <2>1. /\ socket \in [Workers -> Seq(Uevents)] /\ SocketSize \in Nat
        /\ \A v \in Workers : Len(socket[v]) <= SocketSize
    BY <1>1, SizeAssumption DEF Sockets
  <2>2. CASE UNCHANGED socket
    BY <1>1, <2>2 DEF Sockets
  <2>3. ASSUME NEW messages \in Seq(Uevents), Len(messages) <= SocketSize,
               socket' = [socket EXCEPT ![w] = messages]
        PROVE  Sockets'
    <3>1. /\ socket' \in [Workers -> Seq(Uevents)] /\ socket'[w] = messages
          /\ \A v \in Workers : v # w => socket'[v] = socket[v]
      BY <2>1, <2>3
    <3>2. QED
      BY <2>1, <2>3, <3>1 DEF Sockets
  <2>4. <<>> \in Seq(Uevents) /\ Len(<<>>) <= SocketSize
    BY <2>1
  <2>5. CASE socket[w] # <<>> /\ socket' = [socket EXCEPT ![w] = Tail(socket[w])]
    <3>1. socket[w] \in Seq(Uevents) /\ Len(socket[w]) \in Nat /\ Len(socket[w]) <= SocketSize
      BY <2>1
    <3>2. Tail(socket[w]) \in Seq(Uevents) /\ Len(Tail(socket[w])) = Len(socket[w]) - 1
      BY <2>5, <3>1
    <3>3. Len(Tail(socket[w])) <= SocketSize
      BY <2>1, <3>1, <3>2
    <3>4. QED
      BY <2>3, <2>5, <3>2, <3>3, Zenon
  <2>6. QED
    BY <2>2, <2>3, <2>4, <2>5, WorkEffect
<1>5. NodeWords' /\ node' \in [RoleTypes -> NodeValues] /\ ignored' \in BOOLEAN
  <2>1. node \in [RoleTypes -> NodeValues] /\ ignored \in BOOLEAN
    BY <1>1 DEF OtherTypes, Flags
  <2>2. CASE UNCHANGED nodeVars
    BY <1>1, <2>1, <2>2 DEF nodeVars, NodeWords
  <2>3. CASE write("MODE", "dual")
    <3>1. "MODE" \in RoleTypes /\ "dual" \in NodeValues
      BY DEF RoleTypes, NodeValues
    <3>2. QED
      BY <1>1, <2>1, <2>3, <3>1, WriteEffect
  <2>4. QED
    BY <2>2, <2>3, WorkEffect
<1>6. Flags'
  <2>1. ports' \in [Actors -> BOOLEAN]
    BY <1>1, WorkEffect DEF Flags
  <2>2. mPartnerUp' \in BOOLEAN /\ destroyThread' \in BOOLEAN
    BY <1>1, WorkEffect, Zenon DEF Flags
  <2>3. QED
    BY <1>1, <1>2, <1>5, <2>1, <2>2, Zenon DEF Flags, switchVars, callbackVars
<1>7. OtherTypes'
  <2>1. roleSwitchOwner' \in Actors \cup {"free"} /\ sigusr1' \in SUBSET Workers
    BY <1>1, WorkEffect, Threads DEF OtherTypes
  <2>2. QED
    BY <1>1, <1>2, <1>5, <2>1 DEF OtherTypes, switchVars, callbackVars, pollVars
<1>8. QED
  BY <1>3, <1>4, <1>5, <1>6, <1>7, TypeParts DEF Typed

\* What the kernel does.
kernel == (\E kind \in PartnerKinds : plugIn(kind)) \/ unplug \/ otherUevent

LEMMA KernelKeepsTypes ==
    ASSUME IInv, kernel
    PROVE  Typed' /\ UNCHANGED kernelUnchanged
<1>1. Steps /\ Flags /\ Sockets /\ OtherTypes /\ Told /\ NodeWords /\ PollSet
  BY TypeParts DEF IInv
<1>2. /\ UNCHANGED kernelUnchanged /\ partner' \in PartnerKinds \cup {"absent", partner}
      /\ \E message \in Uevents : broadcast(message)
  BY DEF kernel, plugIn, unplug, otherUevent, Uevents
<1>3. Sockets'
  <2>1. PICK message \in Uevents : broadcast(message)
    BY <1>2
  <2>2. /\ socket' = [w \in Workers |-> socket'[w]]
        /\ \A w \in Workers :
               socket'[w] = socket[w] \/ (Len(socket[w]) < SocketSize
                                          /\ socket'[w] = Append(socket[w], message))
    BY <2>1 DEF broadcast
  <2>3. \A w \in Workers : socket'[w] \in Seq(Uevents) /\ Len(socket'[w]) <= SocketSize
    <3>1. TAKE w \in Workers
    <3>2. socket[w] \in Seq(Uevents) /\ Len(socket[w]) <= SocketSize /\ SocketSize \in Nat
      BY <1>1, SizeAssumption DEF Sockets
    <3>3. CASE socket'[w] = socket[w]
      BY <3>2, <3>3
    <3>4. CASE Len(socket[w]) < SocketSize /\ socket'[w] = Append(socket[w], message)
      <4>1. Append(socket[w], message) \in Seq(Uevents)
        BY <3>2
      <4>2. Len(Append(socket[w], message)) = Len(socket[w]) + 1 /\ Len(socket[w]) \in Nat
        BY <3>2
      <4>3. QED
        BY <3>2, <3>4, <4>1, <4>2
    <3>5. QED
      BY <2>2, <3>3, <3>4
  <2>4. QED
    BY <2>2, <2>3 DEF Sockets
<1>4. Steps' /\ Told' /\ NodeWords' /\ PollSet'
  BY <1>1, <1>2 DEF kernelUnchanged, pollVars, callbackVars, nodeVars, Steps, Told, NodeWords, PollSet, Removal
<1>5. Flags'
  BY <1>1, <1>2, Zenon DEF kernelUnchanged, pollVars, callbackVars, lockVars, queryVars, nodeVars, Flags
<1>6. OtherTypes'
  BY <1>1, <1>2 DEF kernelUnchanged, pollVars, callbackVars, lockVars, queryVars, nodeVars, OtherTypes
<1>7. QED
  BY <1>2, <1>3, <1>4, <1>5, <1>6, TypeParts DEF Typed

-----------------------------------------------------------------------------
(* The mode switch. *)

\* SwitchInv without the lock, for one call of switchRole().
CallInv(b) ==
    /\ pc[b] \in SwitchSteps \cup {"roleLock"} => newRole[b] \in Roles
    /\ pc[b] \in AfterWrite \cup {"armed", "drp"} => isMode(b)
    /\ pc[b] = "readBack" => ~isMode(b)
    /\ roleSwitch[b] => pc[b] = "notify"
    /\ pc[b] \in {"armed", "written", "waiting"} => ~mPartnerUp
    /\ pc[b] \in AfterWrite => ignored \/ node["MODE"] = convertRoletoString(newRole[b])
    /\ pc[b] = "notify" /\ isMode(b) =>
           /\ roleSwitch[b] => mPartnerUp
           /\ ignored \/ node["MODE"] = IF roleSwitch[b] THEN convertRoletoString(newRole[b])
                                        ELSE "dual"

LEMMA CallsApart ==
    /\ SwitchInv <=> RoleLock /\ \A b \in Binders : CallInv(b)
    /\ SwitchInv' <=> RoleLock' /\ \A b \in Binders : CallInv(b)'
BY Zenon DEF SwitchInv, CallInv, SwitchLocals, PartnerDown, ModeWritten, ModeSwitchOutcome

\* A call outside the critical section does not mind what others do.
LEMMA OutsideKept ==
    ASSUME NEW b \in Binders, CallInv(b), pc[b] \notin SwitchSteps, pc'[b] = pc[b],
           newRole'[b] = newRole[b], roleSwitch'[b] = roleSwitch[b]
    PROVE  CallInv(b)'
<1>1. /\ ~(roleSwitch[b]) /\ pc[b] \notin AfterWrite
      /\ pc[b] \notin {"open", "armed", "drp", "readBack", "notify", "written", "waiting"}
  BY Zenon DEF CallInv, SwitchSteps, AfterWrite
<1>2. pc'[b] \in SwitchSteps \cup {"roleLock"} => newRole'[b] \in Roles
  BY Zenon DEF CallInv
<1>3. QED
  BY <1>1, <1>2, Zenon DEF CallInv

\* Role switches, their lock and the nodes are left alone.
Beside ==
    /\ UNCHANGED <<lockVars, switchVars, nodeVars>>
    /\ \A b \in Binders : \/ pc'[b] = pc[b]
                          \/ /\ pc[b] \notin SwitchSteps \cup {"roleLock"}
                             /\ pc'[b] \notin SwitchSteps \cup {"roleLock"}
    /\ \A w \in Workers : pc'[w] = "drp" <=> pc[w] = "drp"

LEMMA BesideKeepsSwitch ==
    ASSUME SwitchInv, Beside
    PROVE  SwitchInv'
<1>1. RoleLock /\ \A b \in Binders : CallInv(b)
  BY CallsApart
<1>2. RoleLock'
  BY <1>1, Zenon DEF Beside, RoleLock, lockVars
<1>3. ASSUME NEW b \in Binders PROVE CallInv(b)'
  <2>1. /\ newRole' = newRole /\ roleSwitch' = roleSwitch /\ mPartnerUp' = mPartnerUp
        /\ node' = node /\ ignored' = ignored
    BY Zenon DEF Beside, lockVars, switchVars, nodeVars
  <2>2. CASE pc'[b] = pc[b]
    BY <1>1, <2>1, <2>2, Zenon DEF CallInv, isMode
  <2>3. CASE /\ pc[b] \notin SwitchSteps \cup {"roleLock"}
             /\ pc'[b] \notin SwitchSteps \cup {"roleLock"}
    <3>1. /\ ~(roleSwitch[b]) /\ pc'[b] \notin AfterWrite
          /\ pc'[b] \notin {"open", "armed", "drp", "readBack", "notify", "written", "waiting"}
      BY <1>1, <2>3, Zenon DEF CallInv, SwitchSteps, AfterWrite
    <3>2. QED
      BY <2>1, <2>3, <3>1, Zenon DEF CallInv
  <2>4. QED
    BY <2>2, <2>3, Zenon DEF Beside
<1>4. QED
  BY <1>2, <1>3, CallsApart

\* A step under the lock that keeps it has only its own call to answer for.
LEMMA UnderLock ==
    ASSUME IInv, NEW b \in Binders, switching(b), pc[b] \in SwitchSteps, pc'[b] \in SwitchSteps,
           UNCHANGED <<roleSwitchOwner, newRole>>,
           \A c \in Binders : c # b => roleSwitch'[c] = roleSwitch[c],
           CallInv(b)'
    PROVE  SwitchInv'
<1>1. RoleLock /\ Steps /\ \A c \in Binders : CallInv(c)
  BY CallsApart, TypeParts DEF IInv
<1>2. \A c \in Actors : c # b => pc'[c] = pc[c]
  BY <1>1, SwitchMoves
<1>3. RoleLock'
  BY <1>1, <1>2, Threads DEF RoleLock
<1>4. ASSUME NEW c \in Binders, c # b PROVE CallInv(c)'
  <2>1. pc[c] \notin SwitchSteps /\ pc'[c] = pc[c]
    BY <1>1, <1>2, <1>4, Threads DEF RoleLock
  <2>2. QED
    BY <1>1, <1>4, <2>1, OutsideKept
<1>5. QED
  BY <1>3, <1>4, CallsApart

\* What goto() does, without the types of the steps.
LEMMA GotoStep ==
    ASSUME Steps, NEW b \in Binders, NEW step, goto(b, step)
    PROVE  pc'[b] = step
BY Threads DEF Steps, goto

LEMMA SwitchKeepsSwitch ==
    ASSUME IInv, NEW b \in Binders, switching(b)
    PROVE  SwitchInv'
<1>1. /\ RoleLock /\ Steps /\ Flags /\ OtherTypes /\ NodeWords
      /\ CallInv(b) /\ \A c \in Binders : CallInv(c)
  BY CallsApart, TypeParts DEF IInv
<1>2. \A c \in Actors : c # b => pc'[c] = pc[c]
  BY <1>1, SwitchMoves
<1>3. /\ newRole \in [Binders -> PortRole \cup {NoRole}] /\ roleSwitch \in [Binders -> BOOLEAN]
      /\ node \in [RoleTypes -> NodeValues] /\ ignored \in BOOLEAN
  BY <1>1, Zenon DEF Flags, OtherTypes
<1>4. b \in Actors /\ b # "free" /\ \A w \in Workers : w # b
  BY Threads
<1>5. ASSUME NEW role \in Roles, switchRole(b, role)
      PROVE  SwitchInv'
  <2>1. /\ pc[b] = "idle" /\ pc'[b] = "roleLock"
        /\ newRole' = [newRole EXCEPT ![b] = role] /\ UNCHANGED <<lockVars, roleSwitch, nodeVars>>
    BY <1>1, <1>5, GotoStep DEF switchRole
  <2>2. newRole'[b] = role /\ \A c \in Binders : c # b => newRole'[c] = newRole[c]
    BY <1>3, <2>1
  <2>3. RoleLock'
    BY <1>1, <1>2, <1>4, <2>1, Threads DEF RoleLock, SwitchSteps, AfterWrite, lockVars
  <2>4. CallInv(b)'
    <3>1. ~(roleSwitch'[b])
      BY <1>1, <2>1, Zenon DEF CallInv
    <3>2. QED
      BY <1>5, <2>1, <2>2, <3>1, Zenon DEF CallInv, AfterWrite
  <2>5. ASSUME NEW c \in Binders, c # b PROVE CallInv(c)'
    <3>1. /\ pc'[c] = pc[c] /\ newRole'[c] = newRole[c] /\ roleSwitch' = roleSwitch
          /\ mPartnerUp' = mPartnerUp /\ node' = node /\ ignored' = ignored
      BY <1>2, <2>1, <2>2, <2>5, Threads DEF lockVars, nodeVars
    <3>2. QED
      BY <1>1, <3>1, Zenon DEF CallInv, isMode
  <2>6. QED
    BY <2>3, <2>4, <2>5, CallsApart
<1>6. CASE takeRoleSwitchLock(b)
  <2>1. /\ pc[b] = "roleLock" /\ pc'[b] = "open" /\ roleSwitchOwner = "free"
        /\ roleSwitchOwner' = b /\ UNCHANGED <<newRole, roleSwitch>>
    BY <1>1, <1>6, GotoStep DEF takeRoleSwitchLock, switchVars
  <2>2. RoleLock'
    BY <1>1, <1>2, <2>1, Threads DEF RoleLock, SwitchSteps
  <2>3. CallInv(b)'
    <3>1. ~(roleSwitch'[b]) /\ newRole'[b] \in Roles
      BY <1>1, <2>1, Zenon DEF CallInv
    <3>2. QED
      BY <2>1, <3>1, Zenon DEF CallInv, AfterWrite
  <2>4. ASSUME NEW c \in Binders, c # b PROVE CallInv(c)'
    <3>1. pc[c] \notin SwitchSteps
      BY <1>1, <2>1, Threads DEF RoleLock
    <3>2. QED
      BY <1>1, <1>2, <2>1, <2>4, <3>1, Threads, OutsideKept
  <2>5. QED
    BY <2>2, <2>3, <2>4, CallsApart
<1>7. CASE notifyRoleSwitchStatus(b)
  <2>1. /\ pc[b] = "notify" /\ pc'[b] = "idle" /\ roleSwitchOwner' = "free"
        /\ newRole' = [newRole EXCEPT ![b] = NoRole]
        /\ roleSwitch' = [roleSwitch EXCEPT ![b] = FALSE]
    BY <1>1, <1>7, GotoStep DEF notifyRoleSwitchStatus
  <2>2. /\ roleSwitch'[b] = FALSE
        /\ \A c \in Binders : c # b => newRole'[c] = newRole[c] /\ roleSwitch'[c] = roleSwitch[c]
    BY <1>3, <2>1
  <2>3. roleSwitchOwner = b
    BY <1>1, <2>1 DEF RoleLock, SwitchSteps
  <2>4. RoleLock'
    BY <1>1, <1>2, <1>4, <2>1, <2>3, Threads DEF RoleLock, SwitchSteps, AfterWrite
  <2>5. CallInv(b)'
    BY <2>1, <2>2, Zenon DEF CallInv, SwitchSteps, AfterWrite
  <2>6. ASSUME NEW c \in Binders, c # b PROVE CallInv(c)'
    <3>1. pc[c] \notin SwitchSteps
      BY <1>1, <2>3, <2>6 DEF RoleLock
    <3>2. QED
      BY <1>1, <1>2, <2>2, <2>6, <3>1, Threads, OutsideKept
  <2>7. QED
    BY <2>4, <2>5, <2>6, CallsApart
<1>8. CASE openFails(b)
  <2>1. /\ pc[b] = "open" /\ pc'[b] = IF isMode(b) THEN "drp" ELSE "notify"
        /\ UNCHANGED <<mPartnerUp, roleSwitchOwner, newRole, roleSwitch, node, ignored>>
    BY <1>1, <1>8, GotoStep DEF openFails, lockVars, switchVars, nodeVars
  <2>2. CallInv(b)'
    BY <1>1, <2>1, Zenon DEF CallInv, isMode, SwitchSteps, AfterWrite
  <2>3. QED
    BY <1>8, <2>1, <2>2, UnderLock DEF SwitchSteps, AfterWrite
<1>9. CASE writeRole(b)
  <2>1. /\ pc[b] = "open" /\ pc'[b] = "readBack" /\ ~isMode(b)
        /\ UNCHANGED <<mPartnerUp, roleSwitchOwner, newRole, roleSwitch>>
    BY <1>1, <1>9, GotoStep DEF writeRole, lockVars, switchVars, nodeVars
  <2>2. CallInv(b)'
    BY <1>1, <2>1, Zenon DEF CallInv, isMode, SwitchSteps, AfterWrite
  <2>3. QED
    BY <1>9, <2>1, <2>2, UnderLock DEF SwitchSteps, AfterWrite
<1>10. CASE readBack(b)
  <2>1. /\ pc[b] = "readBack" /\ pc'[b] = "notify"
        /\ UNCHANGED <<mPartnerUp, roleSwitchOwner, newRole, node, ignored>>
    BY <1>1, <1>10, GotoStep DEF readBack, lockVars, switchVars, nodeVars
  <2>2. \A c \in Binders : c # b => roleSwitch'[c] = roleSwitch[c]
    BY <1>3, <1>10 DEF readBack
  <2>3. CallInv(b)'
    BY <1>1, <2>1, Zenon DEF CallInv, isMode, SwitchSteps, AfterWrite
  <2>4. QED
    BY <1>10, <2>1, <2>2, <2>3, UnderLock DEF SwitchSteps, AfterWrite
<1>11. CASE armPartner(b)
  <2>1. /\ pc[b] = "open" /\ pc'[b] = "armed" /\ isMode(b) /\ mPartnerUp' = FALSE
        /\ UNCHANGED <<roleSwitchOwner, newRole, roleSwitch, node, ignored>>
    BY <1>1, <1>11, GotoStep DEF armPartner, lockVars, switchVars, nodeVars
  <2>2. CallInv(b)'
    BY <1>1, <2>1, Zenon DEF CallInv, isMode, SwitchSteps, AfterWrite
  <2>3. QED
    BY <1>11, <2>1, <2>2, UnderLock DEF SwitchSteps, AfterWrite
<1>12. CASE writeMode(b)
  <2>1. /\ pc[b] = "armed" /\ UNCHANGED <<mPartnerUp, roleSwitchOwner, newRole, roleSwitch>>
        /\ \/ pc'[b] = "written" /\ write("MODE", convertRoletoString(newRole[b]))
           \/ pc'[b] = "drp"
    BY <1>1, <1>12, GotoStep DEF writeMode, lockVars
  <2>2. newRole[b] \in PortRole /\ newRole[b][1] = "MODE"
    BY <1>1, <2>1, SetsAssumption DEF CallInv, isMode, SwitchSteps
  <2>3. pc'[b] = "written" => ignored' \/ node'["MODE"] = convertRoletoString(newRole[b])
    <3>1. "MODE" \in RoleTypes /\ convertRoletoString(newRole[b]) \in {"sink", "source", "none"}
      BY <2>2, RoleWords DEF RoleTypes
    <3>2. QED
      BY <1>1, <1>3, <2>1, <2>2, <3>1, RoleWords, WriteEffect
  <2>4. CallInv(b)'
    BY <1>1, <2>1, <2>3, Zenon DEF CallInv, isMode, SwitchSteps, AfterWrite
  <2>5. QED
    BY <1>12, <2>1, <2>4, UnderLock DEF SwitchSteps, AfterWrite
<1>13. CASE waitPartner(b)
  <2>1. /\ pc[b] = "written" /\ pc'[b] = "waiting"
        /\ UNCHANGED <<mPartnerUp, roleSwitchOwner, newRole, roleSwitch, node, ignored>>
    BY <1>1, <1>13, GotoStep DEF waitPartner, lockVars, switchVars, nodeVars
  <2>2. CallInv(b)'
    BY <1>1, <2>1, Zenon DEF CallInv, isMode, SwitchSteps, AfterWrite
  <2>3. QED
    BY <1>13, <2>1, <2>2, UnderLock DEF SwitchSteps, AfterWrite
<1>14. CASE waitTimeout(b)
  <2>1. /\ pc[b] = "waiting" /\ pc'[b] = "timedOut"
        /\ UNCHANGED <<mPartnerUp, roleSwitchOwner, newRole, roleSwitch, node, ignored>>
    BY <1>1, <1>14, GotoStep DEF waitTimeout, lockVars, switchVars, nodeVars
  <2>2. CallInv(b)'
    BY <1>1, <2>1, Zenon DEF CallInv, isMode, SwitchSteps, AfterWrite
  <2>3. QED
    BY <1>14, <2>1, <2>2, UnderLock DEF SwitchSteps, AfterWrite
<1>15. CASE spuriousWakeup(b)
  <2>1. /\ pc[b] = "waiting" /\ pc'[b] = "woken"
        /\ UNCHANGED <<mPartnerUp, roleSwitchOwner, newRole, roleSwitch, node, ignored>>
    BY <1>1, <1>15, GotoStep DEF spuriousWakeup, lockVars, switchVars, nodeVars
  <2>2. CallInv(b)'
    BY <1>1, <2>1, Zenon DEF CallInv, isMode, SwitchSteps, AfterWrite
  <2>3. QED
    BY <1>15, <2>1, <2>2, UnderLock DEF SwitchSteps, AfterWrite
<1>16. CASE partnerCheck(b)
  <2>1. /\ pc[b] = "woken" /\ pc'[b] = IF mPartnerUp THEN "notify" ELSE "written"
        /\ UNCHANGED <<mPartnerUp, roleSwitchOwner, newRole, node, ignored>>
        /\ roleSwitch' = [roleSwitch EXCEPT ![b] = mPartnerUp]
    BY <1>1, <1>16, GotoStep DEF partnerCheck, lockVars, nodeVars
  <2>2. /\ roleSwitch'[b] = mPartnerUp
        /\ \A c \in Binders : c # b => roleSwitch'[c] = roleSwitch[c]
    BY <1>3, <2>1
  <2>3. CallInv(b)'
    BY <1>1, <2>1, <2>2, Zenon DEF CallInv, isMode, SwitchSteps, AfterWrite
  <2>4. QED
    BY <1>16, <2>1, <2>2, <2>3, UnderLock DEF SwitchSteps, AfterWrite
<1>17. CASE timedOut(b)
  <2>1. /\ pc[b] = "timedOut" /\ pc'[b] = "drp"
        /\ UNCHANGED <<mPartnerUp, roleSwitchOwner, newRole, roleSwitch, node, ignored>>
    BY <1>1, <1>17, GotoStep DEF timedOut, lockVars, switchVars, nodeVars
  <2>2. CallInv(b)'
    BY <1>1, <2>1, Zenon DEF CallInv, isMode, SwitchSteps, AfterWrite
  <2>3. QED
    BY <1>17, <2>1, <2>2, UnderLock DEF SwitchSteps, AfterWrite
<1>18. CASE switchToDrp(b)
  <2>1. /\ pc[b] = "drp" /\ pc'[b] = "notify" /\ write("MODE", "dual")
        /\ UNCHANGED <<mPartnerUp, roleSwitchOwner, newRole, roleSwitch>>
    BY <1>1, <1>18, GotoStep DEF switchToDrp, lockVars, switchVars
  <2>2. ignored' \/ node'["MODE"] = "dual"
    <3>1. "MODE" \in RoleTypes /\ "dual" \in NodeValues
      BY DEF RoleTypes, NodeValues
    <3>2. QED
      BY <1>1, <1>3, <2>1, <3>1, WriteEffect
  <2>3. ~(roleSwitch'[b])
    BY <1>1, <2>1, Zenon DEF CallInv
  <2>4. CallInv(b)'
    BY <1>1, <2>1, <2>2, <2>3, Zenon DEF CallInv, isMode, SwitchSteps, AfterWrite
  <2>5. QED
    BY <1>18, <2>1, <2>4, UnderLock DEF SwitchSteps, AfterWrite
<1>19. QED
  BY <1>5, <1>6, <1>7, <1>8, <1>9, <1>10, <1>11, <1>12, <1>13, <1>14, <1>15, <1>16, <1>17, <1>18 DEF switching, switchStep

LEMMA WorkKeepsSwitch ==
    ASSUME IInv, NEW w \in Workers, working(w)
    PROVE  SwitchInv'
<1>1. /\ RoleLock /\ Steps /\ Flags /\ OtherTypes /\ SwitchInv
      /\ \A b \in Binders : CallInv(b)
  BY CallsApart, TypeParts DEF IInv
<1>2. /\ w \in Actors /\ w # "free" /\ pc[w] \in WorkerStates
      /\ \A b \in Binders : b \in Actors /\ b # w /\ b # "free"
  BY <1>1, Threads DEF Steps
<1>3. pc \in [Actors -> BinderStates \cup WorkerStates] /\ sigusr1 \subseteq Workers
  BY <1>1 DEF Steps, OtherTypes
<1>4. /\ \A v \in Workers : v # w => pc'[v] = pc[v]
      /\ \A b \in Binders : \/ pc'[b] = pc[b]
                            \/ partnerAdded(w) /\ pc[b] = "waiting" /\ pc'[b] = "woken"
  BY <1>1, <1>3, WorkMoves
<1>5. UNCHANGED switchVars
  BY WorkEffect, Zenon
<1>6. CASE partnerAdded(w)
  <2>1. /\ pc[w] = "partner" /\ pc'[w] = "cast" /\ mPartnerLockFree /\ mPartnerUp' = TRUE
        /\ UNCHANGED <<roleSwitchOwner, node, ignored>>
    BY <1>2, <1>6 DEF partnerAdded, nodeVars
  <2>2. RoleLock'
    BY <1>1, <1>4, <2>1, Zenon DEF RoleLock, SwitchSteps, AfterWrite
  <2>3. ASSUME NEW b \in Binders PROVE CallInv(b)'
    <3>1. pc[b] \notin {"armed", "written"} /\ newRole' = newRole /\ roleSwitch' = roleSwitch
      BY <1>5, <2>1, Zenon DEF mPartnerLockFree, switchVars
    <3>2. pc'[b] # "waiting"
      BY <1>2, <1>6 DEF partnerAdded
    <3>3. QED
      BY <1>1, <1>4, <2>1, <3>1, <3>2, Zenon DEF CallInv, isMode, SwitchSteps, AfterWrite
  <2>4. QED
    BY <2>2, <2>3, CallsApart
<1>7. CASE workDrp(w)
  <2>1. pc[w] = "drp" /\ pc'[w] = "check" /\ roleSwitchOwner' = "free"
    BY <1>2, <1>3, <1>7 DEF workDrp, goto
  <2>2. roleSwitchOwner = w /\ \A b \in Binders : pc'[b] = pc[b]
    BY <1>1, <1>4, <1>7, <2>1 DEF RoleLock, partnerAdded
  <2>3. RoleLock'
    BY <1>1, <1>2, <1>4, <2>1, <2>2, Threads DEF RoleLock
  <2>4. ASSUME NEW b \in Binders PROVE CallInv(b)'
    <3>1. pc[b] \notin SwitchSteps
      BY <1>1, <1>2, <2>2 DEF RoleLock
    <3>2. QED
      BY <1>1, <1>5, <2>2, <3>1, OutsideKept DEF switchVars
  <2>5. QED
    BY <2>3, <2>4, CallsApart
<1>8. CASE tryRoleSwitchLock(w) /\ pc'[w] = "drp"
  <2>1. /\ pc[w] = "trylock" /\ roleSwitchOwner = "free" /\ roleSwitchOwner' = w
        /\ UNCHANGED <<mPartnerUp, node, ignored>>
    BY <1>2, <1>3, <1>8 DEF tryRoleSwitchLock, goto, nodeVars
  <2>2. \A b \in Binders : pc'[b] = pc[b]
    BY <1>4, <2>1 DEF partnerAdded
  <2>3. RoleLock'
    BY <1>1, <1>2, <1>4, <1>8, <2>1, <2>2, Threads DEF RoleLock
  <2>4. ASSUME NEW b \in Binders PROVE CallInv(b)'
    <3>1. pc[b] \notin SwitchSteps
      BY <1>1, <1>2, <2>1 DEF RoleLock
    <3>2. QED
      BY <1>1, <1>5, <2>2, <3>1, OutsideKept DEF switchVars
  <2>5. QED
    BY <2>3, <2>4, CallsApart
<1>9. CASE ~partnerAdded(w) /\ ~workDrp(w) /\ ~(tryRoleSwitchLock(w) /\ pc'[w] = "drp")
  <2>1. UNCHANGED <<lockVars, nodeVars>> /\ (pc'[w] = "drp" <=> pc[w] = "drp")
    <3>1. CASE tryRoleSwitchLock(w)
      BY <1>2, <1>3, <1>9, <3>1 DEF tryRoleSwitchLock, goto, lockVars
    <3>2. CASE workReceive(w)
      <4>1. \E step \in {"partner", "cast", "check"} : goto(w, step)
        BY <3>2, Zenon DEF workReceive
      <4>2. QED
        BY <1>2, <1>3, <3>2, <4>1 DEF workReceive, goto
    <3>3. CASE workStart(w) \/ workWait(w)
      BY <1>2, <1>3, <3>3 DEF workStart, workWait, goto
    <3>4. CASE workCheck(w) \/ workFails(w)
      BY <1>2, <1>3, <3>4 DEF workCheck, workFails, exit, goto
    <3>5. CASE sighandler(w)
      BY <1>2, <1>3, <3>5 DEF sighandler, goto
    <3>6. CASE workDiscard(w)
      BY <1>2, <1>3, <3>6 DEF workDiscard, goto
    <3>7. QED
      BY <1>9, <3>1, <3>2, <3>3, <3>4, <3>5, <3>6 DEF working
  <2>2. Beside
    BY <1>4, <1>5, <1>9, <2>1, Zenon DEF Beside
  <2>3. QED
    BY <1>1, <2>2, BesideKeepsSwitch
<1>10. QED
  BY <1>6, <1>7, <1>8, <1>9

LEMMA OthersBeside ==
    ASSUME IInv,
           \/ \E a \in Actors : querying(a)
           \/ \E b \in Binders : setting(b)
           \/ kernel
    PROVE  SwitchInv'
<1>1. Steps /\ SwitchInv /\ PollSet /\ OtherTypes
  BY TypeParts DEF IInv
<1>2. ASSUME NEW a \in Actors, querying(a) PROVE Beside
  <2>1. UNCHANGED <<lockVars, switchVars, nodeVars>>
    BY <1>2, QueryEffect, Zenon
  <2>2. QED
    BY <1>1, <1>2, <2>1, QueryMoves, Threads DEF Beside, SwitchSteps, AfterWrite
<1>3. ASSUME NEW b \in Binders, setting(b) PROVE Beside
  <2>1. UNCHANGED <<lockVars, switchVars, nodeVars>>
    BY <1>3, SettingEffect, Zenon
  <2>2. /\ pc \in [Actors -> BinderStates \cup WorkerStates] /\ b \in Actors /\ b \notin Workers
        /\ \A c \in Binders : c \in Actors /\ c \notin Workers
    BY <1>1, Threads DEF Steps
  <2>3. CASE \E callback \in Callbacks \cup {"NULL"} : setCallback(b, callback)
    <3>1. PICK callback : setCallback(b, callback)
      BY <2>3
    <3>2. /\ pc[b] = "idle"
          /\ \/ UNCHANGED pc
             \/ goto(b, "kill")
             \/ \E w \in Workers : pc[w] = "none" /\ goto(w, "create")
      BY <3>1, SetCallbackCases, Zenon DEF Replaced, TakenAway, Created, NotCreated
    <3>3. QED
      BY <2>1, <2>2, <3>2, Threads DEF Beside, goto, SwitchSteps, AfterWrite
  <2>4. CASE killWorker(b)
    BY <2>1, <2>2, <2>4, Threads DEF Beside, killWorker, goto, SwitchSteps, AfterWrite
  <2>5. CASE joinWorker(b)
    <3>1. pc[b] = "join" /\ (goto(b, "idle") \/ goto(b, "joining"))
      BY <2>5, Zenon DEF joinWorker
    <3>2. QED
      BY <2>1, <2>2, <3>1, Threads DEF Beside, goto, SwitchSteps, AfterWrite
  <2>6. CASE joinReturns(b)
    <3>1. joining[b] \in Workers
      BY <1>1, <2>6 DEF joinReturns, PollSet, Removal
    <3>2. QED
      BY <2>1, <2>2, <2>6, <3>1, Threads DEF Beside, joinReturns, SwitchSteps, AfterWrite, Returned
  <2>7. QED
    BY <1>3, <2>3, <2>4, <2>5, <2>6 DEF setting
<1>4. CASE kernel
  <2>1. UNCHANGED kernelUnchanged
    BY <1>4, KernelKeepsTypes, Zenon
  <2>2. Beside
    BY <2>1 DEF Beside, kernelUnchanged, pollVars, callbackVars, lockVars, switchVars, nodeVars
  <2>3. QED
    BY <1>1, <2>2, BesideKeepsSwitch
<1>5. QED
  BY <1>1, <1>2, <1>3, <1>4, BesideKeepsSwitch

\* Every step is a step of one of these.
LEMMA NextSteps ==
    ASSUME Next
    PROVE  \/ \E b \in Binders : switching(b) \/ querying(b) \/ setting(b)
           \/ \E w \in Workers : querying(w) \/ working(w)
           \/ kernel
<1>1. Setters \subseteq Binders
  BY SetsAssumption
<1>2. QED
  BY <1>1, Zenon DEF Next, binderStep, workStep, switching, querying, setting, working, kernel

\* A stuttering step.
LEMMA StutterKeeps ==
    ASSUME IInv, UNCHANGED vars
    PROVE  IInv'
<1>1. Steps /\ Flags /\ Sockets /\ OtherTypes /\ Told /\ NodeWords /\ PollSet /\ SwitchInv
  BY TypeParts DEF IInv
<1>2. Beside
  BY Zenon DEF vars, Beside
<1>3. Flags'
  BY <1>1, Zenon DEF Flags, vars, lockVars, switchVars, queryVars, workerVars, pollVars, callbackVars, nodeVars
<1>4. Steps' /\ Sockets' /\ Told' /\ NodeWords' /\ PollSet'
  BY <1>1 DEF Steps, Sockets, Told, NodeWords, PollSet, Removal, vars, workerVars, pollVars, callbackVars, nodeVars
<1>5. OtherTypes'
  BY <1>1 DEF OtherTypes, vars, lockVars, switchVars, queryVars, workerVars, pollVars, callbackVars, nodeVars
<1>6. QED
  BY <1>1, <1>2, <1>3, <1>4, <1>5, BesideKeepsSwitch, TypeParts DEF IInv

LEMMA InitInv == Init => IInv
<1> SUFFICES ASSUME Init PROVE IInv
  OBVIOUS
<1>1. /\ pc = [a \in Actors |-> IF a \in Binders THEN "idle" ELSE "none"]
      /\ newRole = [b \in Binders |-> NoRole] /\ roleSwitch = [b \in Binders |-> FALSE]
      /\ node = [type \in RoleTypes |-> IF type = "MODE" THEN "dual" ELSE "none"]
      /\ socket = [w \in Workers |-> <<>>]
  BY Zenon DEF Init
<1>2. Steps
  BY <1>1, Threads DEF Steps, BinderStates, WorkerStates, Actors
<1>3. Flags
  <2>1. roleSwitch \in [Binders -> BOOLEAN]
    BY <1>1
  <2>2. connected \in [Actors -> BOOLEAN] /\ ports \in [Actors -> BOOLEAN]
    <3>1. connected = [a \in Actors |-> FALSE] /\ ports = [a \in Actors |-> FALSE]
      BY Zenon DEF Init
    <3>2. QED
      BY <3>1
  <2>3. QED
    BY <2>1, <2>2, Zenon DEF Init, Flags
<1>4. Sockets
  <2>1. <<>> \in Seq(Uevents) /\ Len(<<>>) <= SocketSize
    BY SizeAssumption
  <2>2. QED
    BY <1>1, <2>1 DEF Sockets
<1>5. NodeWords /\ node \in [RoleTypes -> NodeValues]
  BY <1>1 DEF NodeWords, RoleTypes, NodeValues
<1>6. OtherTypes
  <2>1. newRole \in [Binders -> PortRole \cup {NoRole}]
    BY <1>1
  <2>2. casted \in [Actors -> Callbacks \cup {"NULL"}]
    <3>1. casted = [a \in Actors |-> "NULL"]
      BY Zenon DEF Init
    <3>2. QED
      BY <3>1
  <2>3. sigusr1 \in SUBSET Workers
    <3>1. sigusr1 = {}
      BY Zenon DEF Init
    <3>2. QED
      BY <3>1
  <2>4. QED
    <3>1. joining \in [Binders -> Workers \cup {"none"}]
      <4>1. joining = [b \in Binders |-> "none"]
        BY Zenon DEF Init
      <4>2. QED
        BY <4>1
    <3>2. QED
      BY <1>5, <2>1, <2>2, <2>3, <3>1, Zenon DEF Init, OtherTypes
<1>7. Told
  BY Zenon DEF Init, Told
<1>8. /\ \A b \in Binders : pc[b] = "idle" /\ roleSwitch[b] = FALSE
      /\ \A w \in Workers : pc[w] = "none"
  BY <1>1, Threads
<1>9. PollSet
  BY <1>8, Zenon DEF Init, PollSet, Removal
<1>10. RoleLock
  <2>1. roleSwitchOwner = "free"
    BY Zenon DEF Init
  <2>2. QED
    BY <1>8, <2>1, Threads, Zenon DEF RoleLock, SwitchSteps, AfterWrite
<1>11. \A b \in Binders : CallInv(b)
  BY <1>8, Zenon DEF CallInv, SwitchSteps, AfterWrite
<1>12. QED
  BY <1>2, <1>3, <1>4, <1>5, <1>6, <1>7, <1>9, <1>10, <1>11, TypeParts, CallsApart DEF IInv

LEMMA NextInv == IInv /\ [Next]_vars => IInv'
<1> SUFFICES ASSUME IInv, [Next]_vars PROVE IInv'
  OBVIOUS
<1> USE DEF Typed, IInv
<1>1. ASSUME NEW b \in Binders, switching(b) PROVE IInv'
  BY <1>1, SwitchKeepsTypes, SwitchKeepsSwitch
<1>2. ASSUME NEW a \in Actors, querying(a) PROVE IInv'
  BY <1>2, QueryKeepsTypes, OthersBeside
<1>3. ASSUME NEW b \in Binders, setting(b) PROVE IInv'
  BY <1>3, SettingKeepsTypes, OthersBeside
<1>4. ASSUME NEW w \in Workers, working(w) PROVE IInv'
  BY <1>4, WorkKeepsTypes, WorkKeepsSwitch
<1>5. CASE kernel
  BY <1>5, KernelKeepsTypes, OthersBeside
<1>6. CASE UNCHANGED vars
  BY <1>6, StutterKeeps
<1>7. QED
  BY <1>1, <1>2, <1>3, <1>4, <1>5, <1>6, NextSteps, Threads

\* The inductive invariant holds in every reachable state of the HAL.
THEOREM UsbInvariant == Spec => []IInv
<1>1. IInv /\ [Next]_vars => IInv'
  BY NextInv
<1>2. QED
  BY InitInv, <1>1, PTL DEF Spec

\* Every variable of the HAL keeps its type; in particular a status that is reported
\* is one the interface has, whatever was written to the nodes.
THEOREM UsbTypes == Spec => []TypeOK
<1>1. IInv => TypeOK
  BY DEF IInv
<1>2. QED
  BY <1>1, UsbInvariant, PTL

\* No switchMode() waits for a partner whose arrival was already noted: mPartnerLock
\* covers the step from clearing mPartnerUp to the wait, and clearing it needs
\* mRoleSwitchLock.
THEOREM SignalNotLost == Spec => []NoSignalLost
<1>1. IInv => NoSignalLost
  BY Zenon DEF IInv, SwitchInv, PartnerDown, NoSignalLost
<1>2. QED
  BY <1>1, UsbInvariant, PTL

\* What switchRole() reports of a mode switch is what it left: the mode asked for and
\* a partner, or a dual port, unless the kernel ignored the last write.
THEOREM SwitchReportsOutcome == Spec => []ModeSwitchOutcome
<1>1. IInv => ModeSwitchOutcome
  BY DEF IInv, SwitchInv
<1>2. QED
  BY <1>1, UsbInvariant, PTL

LEMMA ModeStable ==
    ASSUME IInv, [Next]_vars, NEW b \in Binders, pc[b] \in AfterWrite
    PROVE  node'["MODE"] = node["MODE"]
<1>1. /\ RoleLock /\ roleSwitchOwner = b /\ \A w \in Workers : roleSwitchOwner # w
      /\ pc[b] \notin {"open", "armed", "drp"}
  BY Threads DEF IInv, SwitchInv, RoleLock, SwitchSteps, AfterWrite
<1>2. CASE UNCHANGED nodeVars
  BY <1>2 DEF nodeVars
<1>3. ASSUME NEW c \in Binders, switching(c)
      PROVE  UNCHANGED nodeVars
  <2>1. pc[c] \notin {"open", "armed", "drp"}
    BY <1>1 DEF RoleLock, SwitchSteps
  <2>2. QED
    BY <1>3, <2>1, Zenon DEF switching, switchStep, switchRole, takeRoleSwitchLock, openFails, writeRole,
       readBack, armPartner, writeMode, waitPartner, waitTimeout, partnerCheck, timedOut,
       switchToDrp, notifyRoleSwitchStatus, spuriousWakeup
<1>4. ASSUME NEW w \in Workers, working(w)
      PROVE  UNCHANGED nodeVars
  <2>1. pc[w] # "drp"
    BY <1>1 DEF RoleLock
  <2>2. QED
    BY <1>4, <2>1, Zenon DEF working, workStart, workCheck, workWait, workReceive, workDiscard,
       partnerAdded, tryRoleSwitchLock, workDrp, workFails, sighandler
<1>5. ASSUME NEW a \in Actors, querying(a) PROVE UNCHANGED nodeVars
  BY <1>5, QueryEffect, Zenon
<1>6. ASSUME NEW c \in Binders, setting(c) PROVE UNCHANGED nodeVars
  BY <1>6, SettingEffect, Zenon
<1>7. CASE kernel
  BY <1>7, KernelKeepsTypes DEF kernelUnchanged, pollVars, callbackVars, nodeVars
<1>8. CASE UNCHANGED vars
  BY <1>8 DEF vars, nodeVars
<1>9. QED
  BY <1>2, <1>3, <1>4, <1>5, <1>6, <1>7, <1>8, NextSteps, Threads

\* Nobody writes port_type while a mode switch waits for its partner: uevent_event()
\* writes it only with mRoleSwitchLock.
THEOREM ModeStaysDuringSwitch == Spec => ModeStableDuringSwitch
<1>1. IInv /\ [Next]_vars =>
          [(\E b \in Binders : pc[b] \in AfterWrite) => node'["MODE"] = node["MODE"]]_vars
  BY ModeStable
<1>2. QED
  BY <1>1, UsbInvariant, PTL DEF Spec, ModeStableDuringSwitch

-----------------------------------------------------------------------------
(* The life of the worker. *)

\* The callback and the birth and death of workers are left alone.
LifeBeside ==
    /\ UNCHANGED <<mCallback_1_0, crossed, destroyThread, mPoll, joining, sigusr1>>
    /\ \A b \in Binders : \/ pc'[b] = pc[b]
                          \/ pc[b] \notin Removal /\ pc'[b] \notin Removal
    /\ \A w \in Workers : pc'[w] = pc[w] \/ (workerAlive(w) /\ workerAlive(w)')

LEMMA BesideKeepsLife ==
    ASSUME WorkerLife, LifeBeside, sigusr1 \subseteq Workers
    PROVE  WorkerLife'
<1>1. /\ UNCHANGED <<mCallback_1_0, destroyThread, mPoll, joining, sigusr1>>
      /\ \A b \in Binders : /\ pc'[b] = "kill" <=> pc[b] = "kill"
                            /\ pc'[b] = "joining" <=> pc[b] = "joining"
                            /\ pc'[b] \in Removal <=> pc[b] \in Removal
      /\ \A w \in Workers : /\ pc'[w] = "none" <=> pc[w] = "none"
                            /\ pc'[w] = "exited" <=> pc[w] = "exited"
                            /\ workerAlive(w)' <=> workerAlive(w)
  BY Zenon DEF LifeBeside, workerAlive, Returned, Removal
<1>2. Removing' <=> Removing
  BY <1>1, Zenon DEF Removing
<1>3. OneRemoval'
  BY <1>1, Zenon DEF WorkerLife, OneRemoval
<1>4. MustRun'
  BY <1>1, Zenon DEF WorkerLife, MustRun
<1>5. OneWorker'
  BY <1>1, <1>2, Zenon DEF WorkerLife, OneWorker
<1>6. QED
  BY <1>3, <1>4, <1>5, Zenon DEF WorkerLife

\* Only setCallback(), a return from work() and the signal handler are not beside it.
LEMMA LifeOthers ==
    ASSUME IInv,
           \/ \E b \in Binders : switching(b)
           \/ \E a \in Actors : querying(a)
           \/ \E w \in Workers : working(w) /\ ~workCheck(w) /\ ~workFails(w) /\ ~sighandler(w)
           \/ kernel
           \/ UNCHANGED vars
    PROVE  LifeBeside
<1>1. Steps /\ OtherTypes
  BY TypeParts DEF IInv
<1>2. ASSUME NEW b \in Binders, switching(b) PROVE LifeBeside
  <2>1. UNCHANGED switchUnchanged
    BY <1>2, Zenon DEF switching, switchStep, switchRole, takeRoleSwitchLock, openFails, writeRole,
       readBack, armPartner, writeMode, waitPartner, waitTimeout, partnerCheck, timedOut,
       switchToDrp, notifyRoleSwitchStatus, spuriousWakeup
  <2>2. QED
    BY <1>1, <1>2, <2>1, SwitchMoves, Threads DEF LifeBeside, switchUnchanged, workerVars, pollVars, callbackVars
<1>3. ASSUME NEW a \in Actors, querying(a) PROVE LifeBeside
  <2>1. UNCHANGED <<callbackVars, workerVars>>
    BY <1>3, QueryEffect, Zenon
  <2>2. QED
    BY <1>1, <1>3, <2>1, QueryMoves, Threads DEF LifeBeside, Removal, workerVars, pollVars, callbackVars, workerAlive, Returned
<1>4. ASSUME NEW w \in Workers, working(w), ~workCheck(w), ~workFails(w), ~sighandler(w)
      PROVE  LifeBeside
  <2>1. /\ \A v \in Workers : v # w => pc'[v] = pc[v]
        /\ \A b \in Binders : pc'[b] = pc[b] \/ (pc[b] = "waiting" /\ pc'[b] = "woken")
    BY <1>1, <1>4, WorkMoves DEF OtherTypes
  <2>2. /\ w \in Actors /\ pc \in [Actors -> BinderStates \cup WorkerStates]
    BY <1>1, Threads DEF Steps
  <2>3. UNCHANGED <<mCallback_1_0, crossed, destroyThread, mPoll, joining, sigusr1>>
    BY <1>4, Zenon DEF working, workStart, workWait, workReceive, workDiscard, partnerAdded,
       tryRoleSwitchLock, workDrp, workUnchanged, workerVars, pollVars, callbackVars
  <2>4. /\ pc[w] \in {"create", "enter", "epoll", "partner", "trylock", "drp"}
        /\ pc'[w] \in {"check", "epoll", "partner", "cast", "drp", "discard"}
    <3>1. CASE workReceive(w)
      <4>1. pc[w] = "epoll" /\ \E step \in {"partner", "cast", "check"} : goto(w, step)
        BY <3>1, Zenon DEF workReceive
      <4>2. QED
        BY <2>2, <4>1 DEF goto
    <3>2. CASE workStart(w) \/ workWait(w)
      BY <2>2, <3>2 DEF workStart, workWait, goto
    <3>3. CASE partnerAdded(w)
      BY <2>2, <3>3 DEF partnerAdded
    <3>4. CASE tryRoleSwitchLock(w) \/ workDrp(w)
      BY <2>2, <3>4 DEF tryRoleSwitchLock, workDrp, goto
    <3>5. CASE workDiscard(w)
      BY <2>2, <3>5 DEF workDiscard, goto
    <3>6. QED
      BY <1>4, <3>1, <3>2, <3>3, <3>4, <3>5 DEF working
  <2>5. QED
    BY <2>1, <2>3, <2>4 DEF LifeBeside, Removal, workerAlive, Returned
<1>5. CASE kernel
  <2>1. UNCHANGED kernelUnchanged
    BY <1>5, KernelKeepsTypes, Zenon
  <2>2. QED
    BY <2>1 DEF LifeBeside, kernelUnchanged, pollVars, callbackVars
<1>6. CASE UNCHANGED vars
  BY <1>6 DEF LifeBeside, vars, workerVars, pollVars, callbackVars
<1>7. QED
  BY <1>2, <1>3, <1>4, <1>5, <1>6

\* The worker returns, or is told to.
LEMMA WorkKeepsLife ==
    ASSUME IInv, WorkerLife, NEW w \in Workers, workCheck(w) \/ workFails(w) \/ sighandler(w)
    PROVE  WorkerLife'
<1>1. /\ w \in Actors /\ pc \in [Actors -> BinderStates \cup WorkerStates]
      /\ Steps /\ sigusr1 \subseteq Workers /\ working(w)
  BY TypeParts, Threads DEF IInv, Steps, OtherTypes, working
<1>2. /\ \A v \in Workers : v # w => pc'[v] = pc[v]
      /\ \A b \in Binders : pc'[b] = pc[b]
  BY <1>1, WorkMoves DEF partnerAdded, workCheck, workFails, sighandler
<1>3. UNCHANGED <<mCallback_1_0, mPoll, joining>> /\ (Removing' <=> Removing)
  <2>1. UNCHANGED <<mCallback_1_0, mPoll, joining>>
    BY Zenon DEF workCheck, workFails, sighandler, workUnchanged, pollVars, callbackVars
  <2>2. QED
    BY <1>2, <2>1 DEF Removing
<1> DEFINE Needed == mCallback_1_0 # "NULL" \/ \E b \in Binders : pc[b] = "kill"
<1>4. Needed => /\ mPoll \in Workers /\ pc[mPoll] \notin {"none", "exited"}
                /\ ~destroyThread /\ sigusr1 = {}
  BY Zenon DEF WorkerLife, MustRun
<1>5. /\ \A v \in sigusr1 : workerAlive(v)
      /\ \A v \in Workers : pc[v] # "none" => v = mPoll /\ (mCallback_1_0 # "NULL" \/ Removing)
  BY Zenon DEF WorkerLife, OneWorker
<1>6. /\ pc[w] # "none" /\ sigusr1' \subseteq sigusr1
      /\ Needed => pc'[w] # "exited" /\ ~destroyThread' /\ pc'[w] # "none"
      /\ \A v \in sigusr1' : workerAlive(v)'
  <2>1. CASE workFails(w)
    <3>1. /\ pc[w] \in {"create", "epoll"} /\ pc'[w] = "failed" /\ sigusr1' = sigusr1 \ {w}
          /\ destroyThread' = destroyThread
      BY <1>1, <2>1 DEF workFails, exit, goto
    <3>2. \A v \in sigusr1' : workerAlive(v)'
      BY <1>1, <1>2, <1>5, <3>1 DEF workerAlive
    <3>3. QED
      BY <1>4, <3>1, <3>2
  <2>2. CASE workCheck(w) /\ destroyThread
    <3>1. /\ pc[w] \in {"check", "discard"} /\ pc'[w] = "exited" /\ sigusr1' = sigusr1 \ {w}
      BY <1>1, <2>2 DEF workCheck, exit, goto
    <3>2. \A v \in sigusr1' : workerAlive(v)'
      BY <1>1, <1>2, <1>5, <3>1 DEF workerAlive
    <3>3. QED
      BY <1>4, <2>2, <3>1, <3>2
  <2>3. CASE workCheck(w) /\ ~destroyThread
    <3>1. /\ pc[w] \in {"check", "discard"} /\ pc'[w] = "enter" /\ sigusr1' = sigusr1
          /\ destroyThread' = destroyThread
      BY <1>1, <2>3 DEF workCheck, goto
    <3>2. \A v \in sigusr1' : workerAlive(v)'
      BY <1>1, <1>2, <1>5, <3>1 DEF workerAlive, Returned
    <3>3. QED
      BY <1>4, <3>1, <3>2
  <2>4. CASE sighandler(w)
    <3>1. /\ w \in sigusr1 /\ sigusr1' = sigusr1 \ {w}
          /\ pc'[w] = IF pc[w] = "epoll" THEN "check" ELSE pc[w]
      BY <1>1, <2>4 DEF sighandler, goto
    <3>2. pc[w] # "none"
      BY <1>5, <3>1 DEF workerAlive
    <3>3. \A v \in sigusr1' : workerAlive(v)'
      BY <1>1, <1>2, <1>5, <3>1 DEF workerAlive
    <3>4. QED
      BY <1>4, <3>1, <3>2, <3>3
  <2>5. QED
    BY <2>1, <2>2, <2>3, <2>4
<1>7. MustRun'
  <2>1. (mCallback_1_0' # "NULL" \/ \E b \in Binders : pc'[b] = "kill") => Needed
    BY <1>2, <1>3
  <2>2. w = mPoll
    BY <1>5, <1>6
  <2>3. QED
    BY <1>3, <1>4, <1>6, <2>1, <2>2 DEF MustRun
<1>8. OneWorker'
  BY <1>2, <1>3, <1>5, <1>6 DEF OneWorker
<1>9. OneRemoval'
  BY <1>2, <1>3, Zenon DEF WorkerLife, OneRemoval
<1>10. QED
  BY <1>7, <1>8, <1>9, Zenon DEF WorkerLife

\* setCallback(): the worker that is killed and joined is the one that was created, and
\* there is no other, unless the callback is set while another thread removes one.
LEMMA SettingKeepsLife ==
    ASSUME IInv, WorkerLife, NEW b \in Binders, setting(b)
    PROVE  crossed' \/ WorkerLife'
<1>1. /\ Steps /\ pc \in [Actors -> BinderStates \cup WorkerStates] /\ sigusr1 \subseteq Workers
      /\ b \in Actors /\ mPoll \in Workers \cup {"none"}
      /\ joining \in [Binders -> Workers \cup {"none"}]
      /\ \A c \in Binders : c \in Actors /\ c \notin Workers
      /\ \A w \in Workers : w \in Actors /\ w \notin Binders
  BY TypeParts, Threads DEF IInv, Steps, OtherTypes
<1>2. OneRemoval /\ MustRun /\ OneWorker
  BY Zenon DEF WorkerLife
<1>3. ASSUME NEW callback, setCallback(b, callback)
      PROVE  crossed' \/ WorkerLife'
  <2>1. pc[b] = "idle"
    BY <1>3, SetCallbackCases
  <2>2. CASE Replaced(callback)
    <3>1. /\ mCallback_1_0' = "NULL" <=> mCallback_1_0 = "NULL"
          /\ UNCHANGED <<pc, destroyThread, mPoll, joining, sigusr1>>
      BY <2>2, Zenon DEF Replaced, workerVars, pollVars
    <3>2. OneRemoval' /\ MustRun' /\ OneWorker'
      BY <1>2, <3>1, Zenon DEF OneRemoval, MustRun, OneWorker, Removing, workerAlive
    <3>3. QED
      BY <3>2, Zenon DEF WorkerLife
  <2>3. CASE TakenAway(b, callback)
    <3>1. /\ pc'[b] = "kill" /\ \A c \in Actors : c # b => pc'[c] = pc[c]
          /\ UNCHANGED <<destroyThread, mPoll, joining, sigusr1>>
          /\ mCallback_1_0 # "NULL" /\ mCallback_1_0' = "NULL"
      BY <1>1, <2>3 DEF TakenAway, goto, workerVars, pollVars
    <3>2. Removing' /\ \A w \in Workers : pc'[w] = pc[w] /\ (workerAlive(w)' <=> workerAlive(w))
      BY <1>1, <3>1 DEF Removing, Removal, workerAlive
    <3>3. \A c \in Binders : pc[c] \notin Removal /\ joining[c] = "none"
      BY <1>2, <3>1 DEF OneRemoval, Removal
    <3>4. OneRemoval'
      BY <1>1, <3>1, <3>3 DEF OneRemoval
    <3>5. MustRun'
      BY <1>1, <1>2, <3>1, <3>2 DEF MustRun
    <3>6. OneWorker'
      BY <1>1, <1>2, <3>1, <3>2 DEF OneWorker
    <3>7. QED
      BY <3>4, <3>5, <3>6, Zenon DEF WorkerLife
  <2>4. CASE Removing /\ (Created(callback) \/ NotCreated(callback))
    BY <2>4, Zenon DEF Created, NotCreated
  <2>5. CASE ~Removing /\ Created(callback)
    <3>1. PICK w \in Workers : /\ pc[w] = "none" /\ mCallback_1_0' = callback
                               /\ mPoll' = w /\ goto(w, "create")
      BY <2>5, Zenon DEF Created
    <3>2. \A v \in Workers : pc[v] = "none"
      BY <1>2, <2>5 DEF Created, OneWorker
    <3>3. sigusr1 = {}
      BY <1>1, <1>2, <3>2 DEF workerAlive, OneWorker
    <3>4. pc'[w] = "create" /\ \A c \in Actors : c # w => pc'[c] = pc[c]
      BY <1>1, <3>1 DEF goto
    <3>5. OneRemoval'
      <4>1. \A c \in Binders : pc'[c] \notin Removal
        BY <1>1, <2>5, <3>4 DEF Removing
      <4>2. \A c \in Binders : joining'[c] = "none"
        BY <1>2, <2>5 DEF Created, OneRemoval, Removing, Removal
      <4>3. QED
        BY <4>1, <4>2 DEF OneRemoval
    <3>6. \A v \in Workers : pc'[v] # "none" => v = mPoll'
      BY <1>1, <3>1, <3>2, <3>4
    <3>7. /\ mPoll' \in Workers /\ pc'[mPoll'] \notin {"none", "exited"} /\ ~destroyThread'
          /\ sigusr1' = {} /\ mCallback_1_0' # "NULL"
      BY <2>5, <3>1, <3>3, <3>4 DEF Created
    <3>8. QED
      BY <3>5, <3>6, <3>7, Zenon DEF WorkerLife, MustRun, OneWorker
  <2>6. CASE ~Removing /\ NotCreated(callback)
    <3>1. /\ UNCHANGED <<pc, mCallback_1_0, mPoll, joining, sigusr1>> /\ ~destroyThread'
          /\ mCallback_1_0 = "NULL"
      BY <2>6, Zenon DEF NotCreated
    <3>2. OneRemoval' /\ OneWorker'
      BY <1>2, <3>1, Zenon DEF OneRemoval, OneWorker, Removing, workerAlive
    <3>3. MustRun'
      BY <2>6, <3>1, Zenon DEF MustRun, Removing, Removal
    <3>4. QED
      BY <3>2, <3>3, Zenon DEF WorkerLife
  <2>7. QED
    BY <1>3, <2>2, <2>3, <2>4, <2>5, <2>6, SetCallbackCases
<1>4. CASE killWorker(b)
  <2>1. /\ pc[b] = "kill" /\ pc'[b] = "join" /\ \A c \in Actors : c # b => pc'[c] = pc[c]
        /\ sigusr1' = (IF pc[mPoll] \in Returned \cup {"none"} THEN sigusr1 ELSE sigusr1 \cup {mPoll})
        /\ UNCHANGED <<mCallback_1_0, destroyThread, mPoll, joining>>
    BY <1>1, <1>4 DEF killWorker, goto, pollVars, callbackVars
  <2>2. mCallback_1_0 = "NULL" /\ Removing' /\ mPoll \in Workers
    BY <1>2, <2>1 DEF Removing, Removal, OneRemoval, MustRun
  <2>3. \A c \in Binders : pc'[c] # "kill" /\ (pc'[c] \in Removal => c = b)
    BY <1>1, <1>2, <2>1, <2>2 DEF OneRemoval, Removal
  <2>4. \A w \in Workers : pc'[w] = pc[w] /\ (pc'[w] # "none" => w = mPoll')
    BY <1>1, <1>2, <2>1 DEF OneWorker
  <2>5. \A w \in sigusr1' : workerAlive(w)'
    BY <1>1, <1>2, <2>1, <2>2, <2>4 DEF workerAlive, OneWorker
  <2>6. OneRemoval'
    <3>1. \A c \in Binders : joining'[c] = "none"
      BY <1>2, <2>1 DEF OneRemoval, Removal
    <3>2. QED
      BY <2>1, <2>2, <2>3, <3>1 DEF OneRemoval
  <2>7. QED
    BY <2>1, <2>2, <2>3, <2>4, <2>5, <2>6, Zenon DEF WorkerLife, MustRun, OneWorker
<1>5. CASE joinWorker(b)
  <2>1. /\ pc[b] = "join" /\ UNCHANGED <<mCallback_1_0, mPoll, sigusr1, destroyThread>>
        /\ IF pc[mPoll] = "none" \/ \E c \in Binders : joining[c] = mPoll
           THEN goto(b, "idle") /\ UNCHANGED joining
           ELSE goto(b, "joining") /\ joining' = [joining EXCEPT ![b] = mPoll]
    BY <1>5, Zenon DEF joinWorker, callbackVars
  <2>2. mCallback_1_0 = "NULL" /\ mPoll \in Workers
    BY <1>1, <1>2, <2>1 DEF IInv, PollSet, Removal, OneRemoval
  <2>3. \A c \in Binders : (c # b => pc[c] \notin Removal) /\ joining[c] = "none"
    BY <1>1, <1>2, <2>1 DEF OneRemoval, Removal
  <2>4. CASE pc[mPoll] = "none"
    <3>1. pc'[b] = "idle" /\ UNCHANGED joining /\ \A c \in Actors : c # b => pc'[c] = pc[c]
      BY <1>1, <2>1, <2>4 DEF goto
    <3>2. /\ \A c \in Binders : pc'[c] \notin Removal
          /\ \A w \in Workers : pc'[w] = "none"
      BY <1>1, <1>2, <2>3, <2>4, <3>1 DEF OneWorker, Removal
    <3>3. sigusr1' = {}
      BY <1>1, <1>2, <2>1, <3>1, <3>2 DEF workerAlive, OneWorker
    <3>4. \A c \in Binders : joining'[c] = "none" /\ pc'[c] # "kill"
      BY <2>3, <3>1, <3>2 DEF Removal
    <3>5. QED
      BY <2>1, <2>2, <3>2, <3>3, <3>4, Zenon DEF WorkerLife, OneRemoval, MustRun, OneWorker
  <2>5. CASE pc[mPoll] # "none"
    <3>1. ~(\E c \in Binders : joining[c] = mPoll)
      BY <2>2, <2>3, Threads
    <3>2. /\ pc'[b] = "joining" /\ \A c \in Actors : c # b => pc'[c] = pc[c]
          /\ joining' = [joining EXCEPT ![b] = mPoll]
      BY <1>1, <2>1, <2>5, <3>1 DEF goto
    <3>3. Removing' /\ \A c \in Binders : pc'[c] \in Removal => c = b
      BY <1>1, <2>3, <3>2 DEF Removing, Removal
    <3>4. OneRemoval'
      BY <1>1, <2>1, <2>2, <2>3, <3>2, <3>3 DEF OneRemoval
    <3>5. MustRun'
      BY <1>1, <2>1, <2>2, <3>2, <3>3 DEF MustRun, Removal
    <3>6. OneWorker'
      BY <1>1, <1>2, <2>1, <3>2, <3>3 DEF OneWorker, workerAlive
    <3>7. QED
      BY <3>4, <3>5, <3>6, Zenon DEF WorkerLife
  <2>6. QED
    BY <2>4, <2>5
<1>6. CASE joinReturns(b)
  <2>1. /\ pc[b] = "joining" /\ pc[joining[b]] \in Returned
        /\ pc' = [pc EXCEPT ![b] = "idle", ![joining[b]] = "none"]
        /\ joining' = [joining EXCEPT ![b] = "none"]
        /\ UNCHANGED <<mCallback_1_0, mPoll, sigusr1>>
    BY <1>6 DEF joinReturns, callbackVars
  <2>2. mCallback_1_0 = "NULL" /\ joining[b] \in Workers /\ joining[b] = mPoll
    BY <1>1, <1>2, <2>1, Threads DEF IInv, PollSet, Removal, OneRemoval
  <2>3. \A c \in Binders : pc'[c] \notin Removal /\ joining'[c] = "none"
    BY <1>1, <1>2, <2>1, <2>2 DEF OneRemoval, Removal
  <2>4. \A w \in Workers : pc'[w] = "none"
    BY <1>1, <1>2, <2>1, <2>2 DEF OneWorker
  <2>5. sigusr1' = {}
    BY <1>1, <1>2, <2>1, <2>2 DEF workerAlive, OneWorker
  <2>6. QED
    BY <2>1, <2>2, <2>3, <2>4, <2>5, Zenon DEF WorkerLife, OneRemoval, MustRun, OneWorker, Removal
<1>7. QED
  BY <1>3, <1>4, <1>5, <1>6 DEF setting

\* Nothing takes back that a callback was set during a removal.
LEMMA CrossedStays ==
    ASSUME IInv, [Next]_vars, crossed
    PROVE  crossed'
<1>1. CASE LifeBeside
  BY <1>1, Zenon DEF LifeBeside
<1>2. ASSUME NEW b \in Binders, setting(b) PROVE crossed'
  BY <1>2, SettingEffect, Zenon
<1>3. ASSUME NEW w \in Workers, workCheck(w) \/ workFails(w) \/ sighandler(w) PROVE crossed'
  BY <1>3, Zenon DEF workCheck, workFails, sighandler, workUnchanged, callbackVars
<1>4. QED
  BY <1>1, <1>2, <1>3, LifeOthers, NextSteps, Threads

\* The worker lives as long as the callback, whichever threads set and remove it: it is
\* created with the first one, is never told to exit while there is one, and is gone when
\* setCallback(NULL) has returned - as long as no setCallback() created a worker while
\* another was between its unlock and the end of its join.
THEOREM WorkerLivesWithCallback == Spec => []WorkerMatchesCallback
<1>1. Init => WorkerLife
  <2> SUFFICES ASSUME Init PROVE WorkerLife
    OBVIOUS
  <2>1. /\ pc = [a \in Actors |-> IF a \in Binders THEN "idle" ELSE "none"]
        /\ joining = [b \in Binders |-> "none"]
    BY Zenon DEF Init
  <2>2. /\ \A b \in Binders : pc[b] = "idle" /\ joining[b] = "none"
        /\ \A w \in Workers : pc[w] = "none"
    BY <2>1, Threads
  <2>3. mCallback_1_0 = "NULL" /\ sigusr1 = {}
    BY Zenon DEF Init
  <2>4. OneRemoval
    BY <2>2 DEF OneRemoval, Removal
  <2>5. QED
    BY <2>2, <2>3, <2>4, Zenon DEF WorkerLife, MustRun, OneWorker
<1>2. IInv /\ (crossed \/ WorkerLife) /\ [Next]_vars => (crossed \/ WorkerLife)'
  <2> SUFFICES ASSUME IInv, crossed \/ WorkerLife, [Next]_vars PROVE (crossed \/ WorkerLife)'
    OBVIOUS
  <2>1. CASE crossed
    BY <2>1, CrossedStays, Zenon
  <2>2. CASE WorkerLife
    <3>1. sigusr1 \subseteq Workers
      BY TypeParts DEF IInv, OtherTypes
    <3>2. CASE LifeBeside
      BY <2>2, <3>1, <3>2, BesideKeepsLife
    <3>3. CASE \E b \in Binders : setting(b)
      BY <2>2, <3>3, SettingKeepsLife, Zenon
    <3>4. CASE \E w \in Workers : workCheck(w) \/ workFails(w) \/ sighandler(w)
      BY <2>2, <3>4, WorkKeepsLife
    <3>5. QED
      BY <3>2, <3>3, <3>4, LifeOthers, NextSteps, Threads
  <2>3. QED
    BY <2>1, <2>2, Zenon
<1>3. crossed \/ WorkerLife => WorkerMatchesCallback
  <2> SUFFICES ASSUME WorkerLife PROVE WorkerMatchesCallback
    BY Zenon DEF WorkerMatchesCallback
  <2>1. mCallback_1_0 # "NULL" =>
            /\ \E w \in Workers : workerAlive(w) \/ pc[w] = "failed"
            /\ ~destroyThread
    BY Zenon DEF WorkerLife, MustRun, workerAlive, Returned
  <2>2. (mCallback_1_0 = "NULL" /\ \A b \in Binders : pc[b] \notin Removal) =>
            \A w \in Workers : ~workerAlive(w)
    BY Zenon DEF WorkerLife, OneWorker, workerAlive, Removing
  <2>3. QED
    BY <2>1, <2>2, Zenon DEF WorkerMatchesCallback
<1>4. QED
  BY <1>1, <1>2, <1>3, UsbInvariant, PTL DEF Spec

=============================================================================
