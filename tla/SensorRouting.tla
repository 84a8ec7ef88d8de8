---------------------------- MODULE SensorRouting ----------------------------
(***************************************************************************)
(* The sensors multi-HAL proxy (sensors/HalProxy.cpp) as a router: which   *)
(* sub-HALs are loaded, which sensors they publish and under which         *)
(* handles, where the framework's calls go, operation modes, the direct    *)
(* channel, dynamic sensors, and what initialize() does to all of these.   *)
(* The event path and the threads of initialize() are module HalProxy.     *)
(*                                                                         *)
(* The framework's calls come from the one binder thread (service.cpp), so *)
(* a call is one action; initialize() is split where a sub-HAL's thread in *)
(* onDynamicSensorsConnected/Disconnected can come between its steps.      *)
(***************************************************************************)
EXTENDS Integers, Sequences, FiniteSetsExt, SequencesExt

CONSTANTS
    HalsConf,       \* contents of hals.conf: sequences of Library
    DynamicSensors, \* [local handle -> [direct : BOOLEAN]]: what may be plugged in
    MaxInits,       \* bound: calls of initialize()
    MaxCalls,       \* bound: other calls of the frameworks
    MaxPlugs        \* bound: calls of onDynamicSensorsConnected/Disconnected

\* A library of hals.conf.  "symbol" is the entry point that dlsym finds first,
\* "version" what it returns; sensors: [local handle -> SensorFlags].
SensorFlags == [wake : BOOLEAN, direct : BOOLEAN, pickup : BOOLEAN]

\* A sub-HAL's handles are its own: no dynamic sensor has that of a listed one, or 0.
ASSUME RoutingAssumption ==
    /\ \A conf \in HalsConf : /\ conf \in Seq({conf[k] : k \in DOMAIN conf})
                              /\ Len(conf) <= 128   \* indices that an int32_t handle holds
    /\ \A conf \in HalsConf : \A k \in DOMAIN conf :
          /\ conf[k].opens \in BOOLEAN
          /\ conf[k].symbol \in {"2.0", "2.1", "none"}
          /\ conf[k].sensors \in [DOMAIN conf[k].sensors -> SensorFlags]
          /\ DOMAIN conf[k].sensors \subseteq Nat
          /\ DOMAIN conf[k].sensors \cap DOMAIN DynamicSensors = {}
    /\ DOMAIN DynamicSensors \subseteq Nat \ {0}
    /\ \A l \in DOMAIN DynamicSensors : DynamicSensors[l].direct \in BOOLEAN
    /\ MaxInits \in Nat /\ MaxCalls \in Nat /\ MaxPlugs \in Nat

VARIABLES
    mSubHalList,              \* the libraries that were loaded, in order
    mSensors,                 \* [handle -> Sensor]
    mDirectChannelSubHal,     \* an index, or NoSubHal for nullptr
    mCurrentOperationMode,
    mDynamicSensors,          \* [handle -> Sensor]
    mDynamicSensorsCallback,  \* the initialize() it belongs to; 0 for nullptr
    initPc, initNext,         \* the binder thread inside initialize()
    session,                  \* calls of initialize() so far: one framework each
    calls,                    \* other calls of the frameworks
    subMode, subActive,       \* per sub-HAL: operation mode, enabled local handles
    subDynamic,               \* its dynamic sensors, as it has announced them
    subReady,                 \* it was initialized and holds the callback
    plugs,                    \* such announcements so far
    dynCall,                  \* its call of onDynamicSensors...: what is still to do
    channel, reporting,       \* the direct channel's sub-HAL: channel open, reports on
    requested, fwReporting,   \* this framework's sensors: enabled, reporting directly
    fwDynamic,                \* the dynamic sensors this framework was told of
    stuck,                    \* history: sensors that refused to be disabled
    notReset,                 \* history: sub-HALs the last initialize() missed
    modeLost,                 \* history: sub-HALs whose mode the proxy cannot know
    overlapped                \* history: sub-HALs with a call under way in initialize()

proxyVars == <<mSubHalList, mSensors, mDirectChannelSubHal>>
dynVars == <<mDynamicSensors, mDynamicSensorsCallback, subDynamic, plugs, dynCall, fwDynamic,
             overlapped>>
modeVars == <<mCurrentOperationMode, subMode, modeLost>>
directVars == <<channel, reporting, fwReporting>>
activeVars == <<subActive, requested, stuck>>
initVars == <<initPc, initNext, session, subReady, notReset>>
vars == <<proxyVars, dynVars, modeVars, directVars, activeVars, initVars, calls>>

Modes == {"NORMAL", "DATA_INJECTION"}
NoSubHal == -1

\* The default-constructed SensorInfo that operator[] inserts: an empty entry.
DefaultSensor == [name |-> <<>>, handle |-> 0, direct |-> FALSE]

-----------------------------------------------------------------------------
(* Handles: a sub-HAL's index in the first byte, its own handle in the rest. *)

IndexUnit == 16777216   \* 1 << kBitsAfterSubHalIndex

subHalIndexIsClear(h) == h \in 0 .. IndexUnit - 1

\* sensorHandle | (index << 24), for a handle whose first byte is clear.
setSubHalIndex(h, i) == h + i * IndexUnit

\* An arithmetic shift: a negative handle has a negative index, as size_t a huge one.
extractSubHalIndex(h) == h \div IndexUnit

clearSubHalIndex(h) == h % IndexUnit

SubHals == 0 .. Len(mSubHalList) - 1

isSubHalIndexValid(h) == extractSubHalIndex(h) \in SubHals

-----------------------------------------------------------------------------
(* The constructor: sub-HALs, their sensors and the direct channel. *)

\* A library with an entry point of a version that returns this version.
Loads(lib) == lib.opens /\ lib.symbol # "none" /\ lib.version = lib.symbol

\* The libraries of the file that load, in its order.
initializeSubHalListFromConfigFile(conf) ==
    LET list[k \in 0 .. Len(conf)] ==
            IF k = 0 THEN <<>>
            ELSE IF Loads(conf[k]) THEN Append(list[k - 1], conf[k]) ELSE list[k - 1]
    IN  list[Len(conf)]

\* patchXiaomiPickupSensor(): only the wake-up version of this sensor is kept.
patchXiaomiPickupSensor(flags) == flags.pickup => flags.wake

\* The handles of a sub-HAL's list that initializeSensorList() does not skip.
Listed(subHal) == {l \in DOMAIN subHal.sensors : subHalIndexIsClear(l)}

\* Mutation: an index that counts from one.
DirectOwner_OneBased(list) ==
    LET owners == {i \in DOMAIN list : \E l \in Listed(list[i]) : list[i].sensors[l].direct}
    IN  IF owners = {} THEN NoSubHal ELSE Min(owners)

\* setDirectChannelFlags(): the first sub-HAL with a direct channel sensor gets
\* the direct channel, whether or not that sensor is kept.
DirectOwner(list) ==
    LET owners == {i \in 0 .. Len(list) - 1 : \E l \in Listed(list[i + 1]) :
                                                 list[i + 1].sensors[l].direct}
    IN  IF owners = {} THEN NoSubHal ELSE Min(owners)

\* setDirectChannelFlags(): what is left of a sensor's direct channel flags.
DirectFlag(list, i, l) == list[i + 1].sensors[l].direct /\ i = DirectOwner(list)

\* initializeSensorList(): the map mSensors.
initializeSensorList(list) ==
    LET named == UNION {{<<i, l>> : l \in {k \in Listed(list[i + 1]) :
                                             patchXiaomiPickupSensor(list[i + 1].sensors[k])}} :
                        i \in 0 .. Len(list) - 1}
        sensors == {[name |-> n, handle |-> setSubHalIndex(n[2], n[1]),
                     direct |-> DirectFlag(list, n[1], n[2])] : n \in named}
    IN  [h \in {s.handle : s \in sensors} |-> CHOOSE s \in sensors : s.handle = h]

NoSensors == [h \in {} |-> DefaultSensor]
IdleCall == [kind |-> "none", sensors |-> {}]

Init ==
    /\ \E conf \in HalsConf : mSubHalList = initializeSubHalListFromConfigFile(conf)
    /\ mSensors = initializeSensorList(mSubHalList)
    /\ mDirectChannelSubHal = DirectOwner(mSubHalList)
    /\ mCurrentOperationMode = "NORMAL"
    /\ mDynamicSensors = NoSensors /\ mDynamicSensorsCallback = 0
    /\ initPc = "idle" /\ initNext = 0 /\ session = 0 /\ calls = 0 /\ plugs = 0
    /\ subMode = [i \in SubHals |-> "NORMAL"]
    /\ subActive = [i \in SubHals |-> {}]
    /\ subDynamic = [i \in SubHals |-> {}]
    /\ subReady = [i \in SubHals |-> FALSE]
    /\ dynCall = [i \in SubHals |-> IdleCall]
    /\ channel = FALSE /\ reporting = {}
    /\ requested = {} /\ fwReporting = {} /\ fwDynamic = {}
    /\ stuck = {} /\ notReset = SubHals /\ modeLost = {} /\ overlapped = {}

-----------------------------------------------------------------------------
(* Calls of the framework.  A handle with an index out of range is answered *)
(* with BAD_VALUE and changes nothing.                                      *)

CanCall == initPc = "idle" /\ session > 0

Call == CanCall /\ calls < MaxCalls /\ calls' = calls + 1

\* getSensorsList(), empty entries included, and the dynamic sensors the framework was
\* told of.
Published == {mSensors[h] : h \in DOMAIN mSensors} \cup fwDynamic

\* External: the sensors a sub-HAL accepts calls for.
Knows(i, l) == l \in DOMAIN mSubHalList[i + 1].sensors \cup subDynamic[i]

\* Where a call on a handle goes: getSubHalForSensorHandle(), clearSubHalIndex().
\* batch() and flush() do nothing else, so they have no action of their own.
Delivered(h) == [to |-> extractSubHalIndex(h), handle |-> clearSubHalIndex(h)]

\* injectSensorData(): the types of event that are passed on, to Delivered(handle).
injectSensorData(type) == mCurrentOperationMode = "NORMAL" => type = "ADDITIONAL_INFO"

\* The sensor that a call is about; an empty entry has no name, only the handle 0.
Meant(s) == IF s = DefaultSensor THEN <<0, 0>> ELSE s.name

SwitchedTo(set, x, on) == IF on THEN set \cup {x} ELSE set \ {x}

activate(s, enabled) ==
    /\ Call /\ isSubHalIndexValid(s.handle)
    /\ LET d == Delivered(s.handle)
       IN  /\ Knows(d.to, d.handle)
           /\ subActive' = [subActive EXCEPT ![d.to] = SwitchedTo(@, d.handle, enabled)]
    /\ requested' = SwitchedTo(requested, Meant(s), enabled)
    /\ stuck' = stuck \ {Meant(s)}
    /\ UNCHANGED <<proxyVars, dynVars, modeVars, directVars, initVars>>

\* Mutation: the sub-HALs that were flipped are left as they are.
RolledBack_Not(mode, failing, refuse) ==
    [i \in SubHals |-> IF i < failing THEN mode ELSE subMode[i]]

\* The sub-HALs before the failing one are reset; the result of that is not looked at.
RolledBack(mode, failing, refuse) ==
    [i \in SubHals |-> IF i \in refuse THEN mode
                       ELSE IF i < failing THEN mCurrentOperationMode ELSE subMode[i]]

\* Sub-HAL "failing" refuses the mode (none does if it is past the last one), and
\* then those in "refuse" their old one.
setOperationMode(mode) ==
    /\ Call
    /\ \E failing \in SubHals \cup {Len(mSubHalList)} :
          IF failing \in SubHals
          THEN \E refuse \in SUBSET (0 .. failing - 1) :
                  /\ subMode' = RolledBack(mode, failing, refuse)
                  /\ modeLost' = (modeLost \ 0 .. failing - 1) \cup refuse
                  /\ UNCHANGED mCurrentOperationMode
          ELSE /\ subMode' = [i \in SubHals |-> mode]
               /\ modeLost' = {}
               /\ mCurrentOperationMode' = mode
    /\ UNCHANGED <<proxyVars, dynVars, directVars, activeVars, initVars>>

-----------------------------------------------------------------------------
(* The direct channel: one sub-HAL serves it; others are INVALID_OPERATION. *)

HasDirect == Call /\ mDirectChannelSubHal # NoSubHal

registerDirectChannel ==
    /\ HasDirect /\ ~channel
    /\ channel' = TRUE
    /\ UNCHANGED <<proxyVars, dynVars, modeVars, activeVars, initVars, reporting, fwReporting>>

\* External: a sub-HAL ends the reports to a channel that it closes.
unregisterDirectChannel ==
    /\ HasDirect /\ channel
    /\ channel' = FALSE /\ reporting' = {} /\ fwReporting' = {}
    /\ UNCHANGED <<proxyVars, dynVars, modeVars, activeVars, initVars>>

\* The framework asks only for sensors that are published with the direct flags.
configDirectReport(s, on) ==
    /\ HasDirect /\ channel /\ s.direct
    /\ LET l == clearSubHalIndex(s.handle)
       IN  /\ Knows(mDirectChannelSubHal, l)
           /\ reporting' = SwitchedTo(reporting, l, on)
    /\ fwReporting' = SwitchedTo(fwReporting, s.name, on)
    /\ UNCHANGED <<proxyVars, dynVars, modeVars, activeVars, initVars, channel>>

\* Mutation: the handle -1 is cleared of its index like any other.
StopAllHandle_Cleared == clearSubHalIndex(-1)

\* configDirectReport() passes the handle -1 on as it is.
StopAllHandle == -1

\* configDirectReport(-1, ..., STOP) on an open channel: the sub-HAL ends all reports.
stopAllDirectReports ==
    /\ HasDirect /\ channel
    /\ reporting' = IF StopAllHandle = -1 THEN {} ELSE reporting \ {StopAllHandle}
    /\ fwReporting' = {}
    /\ UNCHANGED <<proxyVars, dynVars, modeVars, activeVars, initVars, channel>>

-----------------------------------------------------------------------------
(* Dynamic sensors: a sub-HAL's thread changes the map under                *)
(* mDynamicSensorsMutex, and calls the framework back after it is released. *)

\* Mutation: the sensor is entered under the sub-HAL's own handle.
DynamicSensor_OwnHandle(i, l) == [name |-> <<i, l>>, handle |-> l,
                                  direct |-> DynamicSensors[l].direct]

DynamicSensor(i, l) == [name |-> <<i, l>>, handle |-> setSubHalIndex(l, i),
                        direct |-> DynamicSensors[l].direct]

\* A sub-HAL makes these calls one at a time, once it has the callback.
CanAnnounce(i) == subReady[i] /\ dynCall[i] = IdleCall /\ plugs < MaxPlugs /\ plugs' = plugs + 1

\* A call that begins between the clearing of the map and the new callback.
NowOverlapped(i) == IF initPc = "callback" THEN overlapped \cup {i} ELSE overlapped

onDynamicSensorsConnected(i, added) ==
    /\ CanAnnounce(i)
    /\ subDynamic' = [subDynamic EXCEPT ![i] = @ \cup added]
    /\ LET sensors == {DynamicSensor(i, l) : l \in {a \in added : subHalIndexIsClear(a)}}
       IN  /\ mDynamicSensors' =
                [h \in DOMAIN mDynamicSensors \cup {s.handle : s \in sensors} |->
                   IF \E s \in sensors : s.handle = h
                   THEN CHOOSE s \in sensors : s.handle = h ELSE mDynamicSensors[h]]
           /\ dynCall' = [dynCall EXCEPT ![i] = [kind |-> "connected", sensors |-> sensors]]
    /\ overlapped' = NowOverlapped(i)
    /\ UNCHANGED <<proxyVars, mDynamicSensorsCallback, fwDynamic, modeVars, directVars,
                   activeVars, initVars, calls>>

\* The removed handles that are in the map.
Removed(i, removed) ==
    {setSubHalIndex(l, i) : l \in {r \in removed : subHalIndexIsClear(r)}}
        \cap DOMAIN mDynamicSensors

\* A sensor that is gone is neither enabled nor reporting any more.
onDynamicSensorsDisconnected(i, removed) ==
    /\ CanAnnounce(i)
    /\ LET gone == Removed(i, removed)
       IN  /\ mDynamicSensors' = [h \in DOMAIN mDynamicSensors \ gone |-> mDynamicSensors[h]]
           /\ dynCall' = [dynCall EXCEPT ![i] = [kind |-> "disconnected",
                                                 sensors |-> {mDynamicSensors[h] : h \in gone}]]
    /\ subDynamic' = [subDynamic EXCEPT ![i] = @ \ removed]
    /\ subActive' = [subActive EXCEPT ![i] = @ \ removed]
    /\ stuck' = stuck \ ({i} \X removed)
    /\ reporting' = IF i = mDirectChannelSubHal THEN reporting \ removed ELSE reporting
    /\ overlapped' = NowOverlapped(i)
    /\ UNCHANGED <<proxyVars, mDynamicSensorsCallback, fwDynamic, modeVars, channel,
                   fwReporting, requested, initVars, calls>>

\* The callback as it is now: an old framework's is not there to hear it.
notifyDynamicSensors(i) ==
    /\ dynCall[i] # IdleCall
    /\ dynCall' = [dynCall EXCEPT ![i] = IdleCall]
    /\ LET sensors == IF mDynamicSensorsCallback = session THEN dynCall[i].sensors ELSE {}
           gone == {s.name : s \in IF dynCall[i].kind = "disconnected" THEN sensors ELSE {}}
       IN  /\ fwDynamic' = IF dynCall[i].kind = "connected" THEN fwDynamic \cup sensors
                           ELSE {s \in fwDynamic : s.name \notin gone}
           /\ requested' = requested \ gone
           /\ fwReporting' = fwReporting \ gone
    /\ UNCHANGED <<proxyVars, mDynamicSensors, mDynamicSensorsCallback, subDynamic, plugs,
                   overlapped, modeVars, channel, reporting, subActive, stuck, initVars, calls>>

\* The pending-writes thread counts the wake events of a chunk that it drops of an
\* oversized batch, with operator[]: a handle that was not listed, as that of a dynamic
\* sensor, is entered into mSensors.
countNumWakeupEvents(i, l) ==
    /\ l \in subActive[i]
    /\ LET h == setSubHalIndex(l, i)
       IN  /\ h \notin DOMAIN mSensors
           /\ mSensors' = [k \in DOMAIN mSensors \cup {h} |->
                             IF k = h THEN DefaultSensor ELSE mSensors[k]]
    /\ UNCHANGED <<mSubHalList, mDirectChannelSubHal, dynVars, modeVars, directVars,
                   activeVars, initVars, calls>>

-----------------------------------------------------------------------------
(* initialize(), called by a framework that has just started. *)

\* Mutation: the dynamic sensors are forgotten.
DisableTargets_Static == DOMAIN mSensors

\* The handles that disableAllSensors() deactivates.
DisableTargets == DOMAIN mSensors \cup DOMAIN mDynamicSensors

\* A dropped sensor 0 of the first sub-HAL, which was enabled through an empty entry.
Unlisted == {n \in {<<0, 0>>} : 0 \in SubHals /\ 0 \notin DisableTargets /\ 0 \in subActive[0]}

\* initializeCommon() up to disableAllSensors(), which ignores the results.  Sensors
\* that are in no map, after an earlier overlap, because they refused before it was
\* cleared or because they were not listed, are not switched off either.
disableAllSensors ==
    /\ initPc = "idle" /\ session < MaxInits
    /\ session' = session + 1
    /\ \E refuse \in SUBSET {<<extractSubHalIndex(h), clearSubHalIndex(h)>> : h \in DisableTargets} :
          LET off == {<<extractSubHalIndex(h), clearSubHalIndex(h)>> : h \in DisableTargets} \ refuse
          IN  /\ \A n \in refuse : n[2] \in subActive[n[1]]
              /\ subActive' = [i \in SubHals |-> {l \in subActive[i] : <<i, l>> \notin off}]
              /\ stuck' = refuse \cup (stuck \ off) \cup Unlisted
                             \cup UNION {{<<i, l>> : l \in subActive'[i]} : i \in overlapped}
    /\ requested' = {} /\ fwReporting' = {} /\ fwDynamic' = {}
    /\ initPc' = "clear"
    /\ UNCHANGED <<proxyVars, mDynamicSensors, mDynamicSensorsCallback, subDynamic, plugs, dynCall,
                   overlapped, modeVars, channel, reporting, initNext, subReady, notReset, calls>>

\* Mutation: the map keeps the old framework's sensors.
Cleared_Not == mDynamicSensors

Cleared == NoSensors

\* mDynamicSensors.clear(), without mDynamicSensorsMutex.
clearDynamicSensors ==
    /\ initPc = "clear"
    /\ mDynamicSensors' = Cleared
    /\ overlapped' = {i \in SubHals : dynCall[i] # IdleCall}
    /\ initPc' = "callback"
    /\ UNCHANGED <<proxyVars, mDynamicSensorsCallback, subDynamic, plugs, dynCall, fwDynamic, modeVars,
                   directVars, activeVars, initNext, session, subReady, notReset, calls>>

setDynamicSensorsCallback ==
    /\ initPc = "callback"
    /\ mDynamicSensorsCallback' = session
    /\ initPc' = "subHals" /\ initNext' = 0
    /\ UNCHANGED <<proxyVars, mDynamicSensors, subDynamic, plugs, dynCall, fwDynamic, overlapped, modeVars,
                   directVars, activeVars, session, subReady, notReset, calls>>

\* External: a sub-HAL's initialize() puts it back into its first state; it then
\* announces its dynamic sensors again.
initializeSubHal ==
    /\ initPc = "subHals" /\ initNext \in SubHals
    /\ subMode' = [subMode EXCEPT ![initNext] = "NORMAL"]
    /\ subActive' = [subActive EXCEPT ![initNext] = {}]
    /\ subDynamic' = [subDynamic EXCEPT ![initNext] = {}]
    /\ subReady' = [subReady EXCEPT ![initNext] = TRUE]
    /\ IF initNext = mDirectChannelSubHal
       THEN channel' = FALSE /\ reporting' = {} ELSE UNCHANGED <<channel, reporting>>
    /\ stuck' = {n \in stuck : n[1] # initNext}
    /\ initNext' = initNext + 1
    /\ UNCHANGED <<proxyVars, mDynamicSensors, mDynamicSensorsCallback, plugs, dynCall, fwDynamic,
                   overlapped, mCurrentOperationMode, modeLost, fwReporting, requested,
                   initPc, session, notReset, calls>>

InitialMode == "NORMAL"

\* The loop ends after the last sub-HAL, or at the first that fails.
finishInitialize ==
    /\ initPc = "subHals"
    /\ mCurrentOperationMode' = InitialMode
    /\ notReset' = initNext .. Len(mSubHalList) - 1
    /\ modeLost' = notReset'
    /\ initPc' = "idle"
    /\ UNCHANGED <<proxyVars, dynVars, subMode, directVars, activeVars, initNext, session,
                   subReady, calls>>

Next ==
    \/ \E s \in Published, b \in BOOLEAN : activate(s, b) \/ configDirectReport(s, b)
    \/ \E mode \in Modes : setOperationMode(mode)
    \/ registerDirectChannel \/ unregisterDirectChannel \/ stopAllDirectReports
    \/ \E i \in SubHals :
          \/ \E d \in SUBSET (DOMAIN DynamicSensors \ subDynamic[i]) \ {{}} :
                onDynamicSensorsConnected(i, d)
          \/ \E d \in SUBSET subDynamic[i] \ {{}} : onDynamicSensorsDisconnected(i, d)
          \/ notifyDynamicSensors(i)
          \/ \E l \in subActive[i] : countNumWakeupEvents(i, l)
    \/ disableAllSensors \/ clearDynamicSensors \/ setDynamicSensorsCallback
    \/ initializeSubHal \/ finishInitialize

Spec == Init /\ [][Next]_vars

-----------------------------------------------------------------------------
(* Properties. *)

Sensor == [name : {<<>>} \cup (SubHals \X Nat), handle : Nat, direct : BOOLEAN]

\* Every variable has its type; maps are keyed by handles.
TypeOK ==
    /\ mSensors \in [DOMAIN mSensors -> Sensor] /\ DOMAIN mSensors \subseteq Nat
    /\ mDynamicSensors \in [DOMAIN mDynamicSensors -> Sensor]
    /\ DOMAIN mDynamicSensors \subseteq Nat
    /\ mDirectChannelSubHal \in SubHals \cup {NoSubHal}
    /\ mCurrentOperationMode \in Modes /\ subMode \in [SubHals -> Modes]
    /\ mDynamicSensorsCallback \in 0 .. session /\ session \in 0 .. MaxInits /\ calls \in 0 .. MaxCalls
    /\ plugs \in 0 .. MaxPlugs
    /\ initPc \in {"idle", "clear", "callback", "subHals"}
    /\ initNext \in 0 .. Len(mSubHalList)
    /\ subActive \in [SubHals -> SUBSET Nat]
    /\ subDynamic \in [SubHals -> SUBSET DOMAIN DynamicSensors]
    /\ dynCall \in [SubHals -> [kind : {"none", "connected", "disconnected"},
                                sensors : SUBSET Sensor]]
    /\ subReady \in [SubHals -> BOOLEAN]
    /\ channel \in BOOLEAN /\ reporting \subseteq Nat
    /\ requested \cup fwReporting \cup stuck \subseteq SubHals \X Nat
    /\ fwDynamic \subseteq Sensor
    /\ notReset \cup modeLost \cup overlapped \subseteq SubHals

Static(i) == DOMAIN mSubHalList[i + 1].sensors

\* Whatever calls, plugging and restarts of the framework came before, a sub-HAL
\* has exactly those sensors enabled that this framework enabled (activate()), and
\* those it refused to disable when a failed initialize() did not reset it.
SensorsMatchRequests ==
    CanCall => \A i \in SubHals \ overlapped :
        subActive[i] = {l \in Static(i) \cup subDynamic[i] : <<i, l>> \in requested \cup stuck}

\* A call on the handle that a sensor is published under reaches its sub-HAL under the
\* sub-HAL's own handle, and a listed sensor with direct flags is one of the sub-HAL
\* with the direct channel.  Whatever operator[] enters, each listed sensor stays
\* published as it was; what it enters are empty entries, which name no sensor.
CallsReachOwner ==
    LET listed == initializeSensorList(mSubHalList)
    IN  /\ \A s \in Published \ {DefaultSensor} :
              <<Delivered(s.handle).to, Delivered(s.handle).handle>> = s.name
        /\ \A h \in DOMAIN mSensors :
              IF h \in DOMAIN listed
              THEN /\ mSensors[h] = listed[h]
                   /\ listed[h].direct => mDirectChannelSubHal = listed[h].name[1]
              ELSE mSensors[h] = DefaultSensor
        /\ DOMAIN listed \subseteq DOMAIN mSensors

\* The comment in setDirectChannelFlags(): sensors of sub-HALs other than the one with
\* the direct channel are published without direct channel capability.
DirectOnlyFromOwner ==
    \A s \in Published : s.direct => s.name[1] = mDirectChannelSubHal

\* The sub-HALs are in the mode that the proxy takes them to be in, after mode
\* changes that fail half-way and after initialize(), unless the reset of the mode
\* failed or initialize() stopped before them.  So data that injectSensorData() lets
\* through reaches sub-HALs in DATA_INJECTION mode; a restarted framework has to ask
\* for that mode again.
ModesAgree ==
    initPc = "idle" =>
        \A i \in SubHals \ modeLost :
            /\ subMode[i] = mCurrentOperationMode
            /\ injectSensorData("DATA") => subMode[i] = "DATA_INJECTION"

\* Between calls the framework knows exactly the dynamic sensors of mDynamicSensors,
\* so that a disconnection will be reported to it, also after it was restarted,
\* except of a sub-HAL that was in a call when initialize() cleared the map.
DynamicView ==
    initPc \in {"idle", "subHals"} =>
        \A i \in SubHals \ overlapped : dynCall[i] = IdleCall =>
            {s.handle : s \in {f \in fwDynamic : f.name[1] = i}}
                = {h \in DOMAIN mDynamicSensors : mDynamicSensors[h].name[1] = i}

\* The direct reports of the sub-HAL with the direct channel are those that the
\* framework has on, for the sensors that sub-HALs list; STOP for -1 ends them all.
ReportsMatch ==
    LET owner == mDirectChannelSubHal
    IN  CanCall /\ owner # NoSubHal /\ owner \notin notReset =>
          {<<owner, l>> : l \in reporting \cap Static(owner)}
              = {n \in fwReporting : n[2] \notin DOMAIN DynamicSensors}
=============================================================================
