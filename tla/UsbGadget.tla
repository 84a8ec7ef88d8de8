------------------------------- MODULE UsbGadget -------------------------------
(***************************************************************************)
(* The USB gadget HAL (usb/UsbGadget.cpp): setCurrentUsbFunctions() tears  *)
(* the configfs gadget down, sets the ids, links the functions, and leaves *)
(* pulling the gadget up to a monitor thread when a function is served by  *)
(* a user-space daemon over FunctionFS (ffs).                              *)
(*                                                                         *)
(* mLockSetCurrentFunction is held for a whole call, so a call that waits  *)
(* for it has no effect: one call is modelled at a time.  The monitor, the *)
(* ffs daemons and reset() interleave with each of its steps.              *)
(***************************************************************************)
EXTENDS Integers, Sequences, FiniteSets

CONSTANTS
    Requests,             \* sets of GadgetFunctions; {} is NONE
    BuildType,            \* ro.build.type
    BootMode,             \* ro.bootmode: "usbradio" or not
    PersistVendorConfig,  \* persist.vendor.usb.usbradio.config
    FilesFail,            \* the calls' writes and links in configfs may fail
    PullUpFails,          \* the monitor's write of the UDC may fail
    ResetCalled,          \* reset() may be called
    MaxInotify            \* bound: unread inotify events

GadgetFunction == {"MTP", "PTP", "MIDI", "ACCESSORY", "AUDIO_SOURCE", "RNDIS", "ADB"}

FfsLinks == {"ffs.mtp", "ffs.ptp", "ffs.adb"}

\* The links in CONFIG_PATH in the order in which setupFunctions() makes them: the
\* vendor's as their names come in the vendor configuration.
LinkOrder(vendor) ==
    LET first == IF vendor = "serial_cdev,diag" THEN "cser.dun.0" ELSE "diag.diag"
        second == IF vendor = "serial_cdev,diag" THEN "diag.diag" ELSE "cser.dun.0"
    IN  <<"ffs.mtp", "ffs.ptp", "midi.gs5", "accessory.gs2", "audio_source.gs3", "rndis.gs4",
          first, second, "gsi.rmnet", "ffs.adb">>
Links == {"ffs.mtp", "ffs.ptp", "midi.gs5", "accessory.gs2", "audio_source.gs3", "rndis.gs4",
          "diag.diag", "cser.dun.0", "gsi.rmnet", "ffs.adb"}

VendorConfigs == {"user", "", "diag", "serial_cdev,diag", "diag,serial_cdev",
                  "diag,serial_cdev,rmnet_gsi"}

ASSUME RequestsAssumption == Requests \subseteq SUBSET GadgetFunction
ASSUME ConfigAssumption ==
    /\ PersistVendorConfig \in VendorConfigs \ {"user"}
    /\ FilesFail \in BOOLEAN /\ PullUpFails \in BOOLEAN /\ ResetCalled \in BOOLEAN
    /\ MaxInotify \in Nat \ {0}

VARIABLES
    setPc,                        \* the step of setCurrentUsbFunctions()
    request, callback, status,    \* its arguments and its local status
    answered, lastStatus,         \* callbacks made for the request; the last one's status
    mCurrentUsbFunctions, mCurrentUsbFunctionsApplied,
    mMonitorCreated, mEndpointList, gadgetPullup,
    eventFd,                      \* 100 was written to mEventFd
    inotify,                      \* unread events of mInotifyFd
    monPc, writeUdc, monEvents,   \* the monitor thread and its locals
    links, usbId, pulledUp,       \* configfs: links, VID and PID, UDC bound
    vendorConfig,                 \* vendor.usb.config
    ffsUp                         \* the ffs daemons that have written descriptors

callVars == <<setPc, request, callback, status, answered, lastStatus>>
halVars == <<mCurrentUsbFunctions, mCurrentUsbFunctionsApplied, mMonitorCreated,
             mEndpointList, gadgetPullup>>
monVars == <<eventFd, inotify, monPc, writeUdc, monEvents>>
configfsVars == <<links, usbId, pulledUp, vendorConfig>>
vars == <<callVars, halVars, monVars, configfsVars, ffsUp>>

Statuses == {"SUCCESS", "ERROR", "CONFIGURATION_NOT_SUPPORTED"}
SetStates == {"idle", "clearApplied", "pullDown", "unlink", "stopMonitor", "join",
              "disconnected", "setup", "linking", "spawned", "cvWait", "answer", "error"}
MonStates == {"none", "start", "firstPullUp", "firstApplied", "epoll", "event", "pullUp",
              "applied", "exited"}

-----------------------------------------------------------------------------
(* Ids and links. *)

\* getVendorFunctions(); in usbradio mode it stores its answer in the property.
getVendorFunctions ==
    IF BuildType = "user" THEN "user"
    ELSE IF vendorConfig # "" THEN vendorConfig
    ELSE IF BootMode = "usbradio"
         THEN IF PersistVendorConfig # "" THEN PersistVendorConfig ELSE "diag"
         ELSE ""

setVendorConfig ==
    vendorConfig' = IF BuildType # "user" THEN getVendorFunctions ELSE vendorConfig

Row(fs, vendors, vid, pid) ==
    [functions |-> fs, vendors |-> vendors, id |-> <<vid, pid>>]
Plain == {"user", ""}

\* The cases of validateAndSetVidPid(); no row: CONFIGURATION_NOT_SUPPORTED.
VidPidTable ==
    { Row({"MTP"}, {"diag"}, "05C6", "901B"), Row({"MTP"}, Plain, "18d1", "4ee1"),
      Row({"ADB", "MTP"}, {"diag"}, "05C6", "903A"),
      Row({"ADB", "MTP"}, Plain, "18d1", "4ee2"),
      Row({"RNDIS"}, {"diag"}, "05C6", "902C"),
      Row({"RNDIS"}, {"serial_cdev,diag"}, "05C6", "90B5"),
      Row({"RNDIS"}, Plain, "18d1", "4ee3"),
      Row({"ADB", "RNDIS"}, {"diag"}, "05C6", "902D"),
      Row({"ADB", "RNDIS"}, {"serial_cdev,diag"}, "05C6", "90B6"),
      Row({"ADB", "RNDIS"}, Plain, "18d1", "4ee4"),
      Row({"PTP"}, Plain, "18d1", "4ee5"), Row({"ADB", "PTP"}, Plain, "18d1", "4ee6"),
      Row({"ADB"}, {"diag"}, "05C6", "901D"),
      Row({"ADB"}, {"diag,serial_cdev,rmnet_gsi"}, "05C6", "9091"),
      Row({"ADB"}, {"diag,serial_cdev"}, "05C6", "901F"),
      Row({"ADB"}, Plain, "18d1", "4ee7"),
      Row({"MIDI"}, Plain, "18d1", "4ee8"), Row({"ADB", "MIDI"}, Plain, "18d1", "4ee9"),
      Row({"ACCESSORY"}, VendorConfigs, "18d1", "2d00"),
      Row({"ADB", "ACCESSORY"}, VendorConfigs, "18d1", "2d01"),
      Row({"AUDIO_SOURCE"}, VendorConfigs, "18d1", "2d02"),
      Row({"ADB", "AUDIO_SOURCE"}, VendorConfigs, "18d1", "2d03"),
      Row({"ACCESSORY", "AUDIO_SOURCE"}, VendorConfigs, "18d1", "2d04"),
      Row({"ADB", "ACCESSORY", "AUDIO_SOURCE"}, VendorConfigs, "18d1", "2d05") }

RowsFor(fs, vendor) == {r \in VidPidTable : r.functions = fs /\ vendor \in r.vendors}

vendorLinks(vendor) ==
    (IF vendor \in VendorConfigs \ Plain THEN {"diag.diag"} ELSE {})
    \cup (IF vendor \notin Plain \cup {"diag"} THEN {"cser.dun.0"} ELSE {})
    \cup (IF vendor = "diag,serial_cdev,rmnet_gsi" THEN {"gsi.rmnet"} ELSE {})

\* The links setupFunctions() makes: PTP only without MTP.
linksFor(fs, vendor) ==
    (IF "MTP" \in fs THEN {"ffs.mtp"} ELSE IF "PTP" \in fs THEN {"ffs.ptp"} ELSE {})
    \cup (IF "MIDI" \in fs THEN {"midi.gs5"} ELSE {})
    \cup (IF "ACCESSORY" \in fs THEN {"accessory.gs2"} ELSE {})
    \cup (IF "AUDIO_SOURCE" \in fs THEN {"audio_source.gs3"} ELSE {})
    \cup (IF "RNDIS" \in fs THEN {"rndis.gs4"} ELSE {})
    \cup vendorLinks(vendor)
    \cup (IF "ADB" \in fs THEN {"ffs.adb"} ELSE {})

\* The kernel binds the gadget to the UDC when a function is linked, every ffs
\* function has its descriptors, and the UDC is not bound yet.
canPullUp == ~pulledUp /\ links # {} /\ links \cap FfsLinks \subseteq ffsUp

descriptorsPresent == mEndpointList \subseteq ffsUp

\* Mutation: tearDownGadget() takes mLock and keeps it while it joins.
mLockFree_NotInJoin == setPc \notin {"spawned", "answer", "join"}

\* mLock is held from setupFunctions()'s entry to the end but for the wait.
mLockFree == setPc \notin {"spawned", "answer"}

-----------------------------------------------------------------------------
(* setCurrentUsbFunctions *)

goto(pc) == setPc' = pc

\* Mutation: setupFunctions() answers and so does its caller.
reply_Twice(s) ==
    /\ answered' = IF callback THEN answered + 2 ELSE answered
    /\ lastStatus' = s

\* The callback, if there is one.
reply(s) ==
    /\ answered' = IF callback THEN answered + 1 ELSE answered
    /\ lastStatus' = s

setCurrentUsbFunctions(fs, cb) ==
    /\ setPc = "idle"
    /\ request' = fs /\ callback' = cb /\ answered' = 0
    /\ mCurrentUsbFunctions' = fs
    /\ goto("clearApplied")
    /\ UNCHANGED <<status, lastStatus, mCurrentUsbFunctionsApplied, mMonitorCreated,
                   mEndpointList, gadgetPullup, monVars, configfsVars, ffsUp>>

clearApplied ==
    /\ setPc = "clearApplied"
    /\ mCurrentUsbFunctionsApplied' = FALSE
    /\ goto("pullDown")
    /\ UNCHANGED <<request, callback, status, answered, lastStatus,
                   mCurrentUsbFunctions, mMonitorCreated, mEndpointList, gadgetPullup,
                   monVars, configfsVars, ffsUp>>

\* tearDownGadget(): a failure to write "none" is ignored.
pullDown ==
    /\ setPc = "pullDown"
    /\ \/ pulledUp' = FALSE
       \/ FilesFail /\ pulledUp' = pulledUp
    /\ goto("unlink")
    /\ UNCHANGED <<request, callback, status, answered, lastStatus, halVars,
                   monVars, links, usbId, vendorConfig, ffsUp>>

\* Mutation: the links stay.
unlinkFunctions_Skipped ==
    /\ setPc = "unlink"
    /\ goto("stopMonitor")
    /\ UNCHANGED <<request, callback, status, answered, lastStatus, halVars,
                   monVars, configfsVars, ffsUp>>

\* The class, protocol and descriptor writes and unlinkFunctions(); removing a
\* link of a bound gadget unbinds it.
unlinkFunctions ==
    /\ setPc = "unlink"
    /\ links' = {}
    /\ pulledUp' = (pulledUp /\ links = {})
    /\ goto("stopMonitor")
    /\ UNCHANGED <<request, callback, status, answered, lastStatus, halVars,
                   monVars, usbId, vendorConfig, ffsUp>>

\* One of them fails: some links stay, and so does the monitor.
unlinkFails ==
    /\ setPc = "unlink" /\ FilesFail
    /\ \E left \in SUBSET links :
           /\ links' = left
           /\ pulledUp' = (pulledUp /\ left = links)
    /\ status' = "ERROR"
    /\ goto("error")
    /\ UNCHANGED <<request, callback, answered, lastStatus, halVars, monVars,
                   usbId, vendorConfig, ffsUp>>

stopMonitor ==
    /\ setPc = "stopMonitor"
    /\ eventFd' = mMonitorCreated
    /\ goto("join")
    /\ UNCHANGED <<request, callback, status, answered, lastStatus, halVars,
                   inotify, monPc, writeUdc, monEvents, configfsVars, ffsUp>>

\* Mutation: the monitor is signalled and not joined.
joinMonitor_Skipped ==
    /\ setPc = "join"
    /\ mMonitorCreated' = FALSE
    /\ inotify' = 0 /\ mEndpointList' = {}
    /\ goto("disconnected")
    /\ UNCHANGED <<request, callback, status, answered, lastStatus,
                   mCurrentUsbFunctions, mCurrentUsbFunctionsApplied, gadgetPullup,
                   eventFd, monPc, writeUdc, monEvents, configfsVars, ffsUp>>

\* Mutation: the endpoint list of the last request is kept.
joinMonitor_KeepsEndpoints ==
    /\ setPc = "join"
    /\ mMonitorCreated => monPc = "exited"
    /\ mMonitorCreated' = FALSE
    /\ monPc' = "none" /\ eventFd' = FALSE /\ inotify' = 0
    /\ goto("disconnected")
    /\ UNCHANGED <<request, callback, status, answered, lastStatus,
                   mCurrentUsbFunctions, mCurrentUsbFunctionsApplied, mEndpointList,
                   gadgetPullup, writeUdc, monEvents, configfsVars, ffsUp>>

\* The join, the three descriptors closed and the endpoint list cleared.
joinMonitor ==
    /\ setPc = "join"
    /\ mMonitorCreated => monPc = "exited"
    /\ mMonitorCreated' = FALSE
    /\ monPc' = "none" /\ eventFd' = FALSE /\ inotify' = 0
    /\ mEndpointList' = {}
    /\ goto("disconnected")
    /\ UNCHANGED <<request, callback, status, answered, lastStatus,
                   mCurrentUsbFunctions, mCurrentUsbFunctionsApplied, gadgetPullup,
                   writeUdc, monEvents, configfsVars, ffsUp>>

tearDownGadget == pullDown \/ unlinkFunctions \/ unlinkFails \/ stopMonitor \/ joinMonitor

setNone ==
    /\ setPc = "disconnected" /\ request = {}
    /\ reply("SUCCESS")
    /\ goto("idle")
    /\ UNCHANGED <<request, callback, status, halVars, monVars, configfsVars,
                   ffsUp>>

\* Mutation: the ids of the last request stay.
validateAndSetVidPid_NotWritten ==
    /\ setPc = "disconnected" /\ request # {}
    /\ setVendorConfig
    /\ IF RowsFor(request, getVendorFunctions) = {}
       THEN status' = "CONFIGURATION_NOT_SUPPORTED" /\ goto("error")
       ELSE goto("setup") /\ UNCHANGED status
    /\ UNCHANGED <<request, callback, answered, lastStatus, halVars, monVars, links,
                   usbId, pulledUp, ffsUp>>

validateAndSetVidPid ==
    /\ setPc = "disconnected" /\ request # {}
    /\ setVendorConfig
    /\ IF RowsFor(request, getVendorFunctions) = {}
       THEN /\ status' = "CONFIGURATION_NOT_SUPPORTED"
            /\ goto("error")
            /\ UNCHANGED usbId
       ELSE \E r \in RowsFor(request, getVendorFunctions) :
               \/ /\ usbId' = r.id
                  /\ goto("setup")
                  /\ UNCHANGED status
               \/ /\ FilesFail
                  /\ usbId' \in {usbId, <<r.id[1], usbId[2]>>}
                  /\ status' = "ERROR"
                  /\ goto("error")
    /\ UNCHANGED <<request, callback, answered, lastStatus, halVars, monVars, links,
                   pulledUp, ffsUp>>

\* The links that setupFunctions() has still to make.
toLink == linksFor(request, getVendorFunctions) \ links

\* linkFunction() of the next one; the endpoints of an ffs function are listed then.
\* A gadget that is bound meanwhile gets the function when it is bound again.
linkFunction ==
    /\ setPc \in {"setup", "linking"}
    /\ LET order == LinkOrder(getVendorFunctions)
       IN  \E k \in DOMAIN order :
              /\ order[k] \in toLink /\ \A n \in 1 .. k - 1 : order[n] \notin toLink
              /\ links' = links \cup {order[k]}
              /\ mEndpointList' = mEndpointList \cup ({order[k]} \cap FfsLinks)
    /\ goto("linking")
    /\ UNCHANGED <<request, callback, status, answered, lastStatus, mCurrentUsbFunctions,
                   mCurrentUsbFunctionsApplied, mMonitorCreated, gadgetPullup, monVars,
                   usbId, pulledUp, vendorConfig, ffsUp>>

usesFfs == linksFor(request, getVendorFunctions) \cap FfsLinks # {}

\* A step of setupFunctions() fails; what was linked stays.  The kernel may refuse a
\* link to a gadget that is bound, and refuses to bind it twice.
setupFails ==
    /\ setPc \in {"setup", "linking"}
    /\ FilesFail \/ (pulledUp /\ (toLink # {} \/ ~usesFfs))
    /\ status' = "ERROR"
    /\ goto("error")
    /\ UNCHANGED <<request, callback, answered, lastStatus, halVars, monVars, configfsVars,
                   ffsUp>>

\* Mutation: the result of the write of the UDC is not looked at.
setupWithoutFfs_Unchecked ==
    /\ setPc = "linking" /\ toLink = {} /\ ~usesFfs
    /\ pulledUp' = TRUE
    /\ mCurrentUsbFunctionsApplied' = TRUE
    /\ reply("SUCCESS")
    /\ goto("idle")
    /\ UNCHANGED <<request, callback, status, mCurrentUsbFunctions, mMonitorCreated,
                   mEndpointList, gadgetPullup, monVars, links, usbId, vendorConfig, ffsUp>>

\* Without ffs functions the gadget is pulled up at once.
setupWithoutFfs ==
    /\ setPc = "linking" /\ toLink = {} /\ ~usesFfs /\ ~pulledUp
    /\ pulledUp' = TRUE
    /\ mCurrentUsbFunctionsApplied' = TRUE
    /\ reply("SUCCESS")
    /\ goto("idle")
    /\ UNCHANGED <<request, callback, status, mCurrentUsbFunctions, mMonitorCreated,
                   mEndpointList, gadgetPullup, monVars, links, usbId, vendorConfig, ffsUp>>

\* With ffs functions the monitor thread is created, under mLock.
setupMonitor ==
    /\ setPc = "linking" /\ toLink = {} /\ usesFfs
    /\ gadgetPullup' = FALSE
    /\ mMonitorCreated' = TRUE
    /\ monPc' = "start" /\ writeUdc' = TRUE /\ monEvents' = 0
    /\ eventFd' = FALSE /\ inotify' = 0
    /\ goto("spawned")
    /\ UNCHANGED <<request, callback, status, answered, lastStatus, mCurrentUsbFunctions,
                   mCurrentUsbFunctionsApplied, mEndpointList, configfsVars, ffsUp>>

setupFunctions == linkFunction \/ setupFails \/ setupWithoutFfs \/ setupMonitor

\* wait_for releases mLock; without a callback setupFunctions() returns.
setupWait ==
    /\ setPc = "spawned"
    /\ IF callback THEN goto("cvWait") /\ UNCHANGED lastStatus
                   ELSE goto("idle") /\ lastStatus' = "SUCCESS"
    /\ UNCHANGED <<request, callback, status, answered, halVars, monVars,
                   configfsVars, ffsUp>>

\* wait_for returns, on a notification or after the timeout, with mLock.
setupWaitReturns ==
    /\ setPc = "cvWait"
    /\ goto("answer")
    /\ UNCHANGED <<request, callback, status, answered, lastStatus, halVars,
                   monVars, configfsVars, ffsUp>>

\* Mutation: the answer is SUCCESS whether the gadget was pulled up or not.
setupAnswer_Always ==
    /\ setPc = "answer"
    /\ reply("SUCCESS")
    /\ goto("idle")
    /\ UNCHANGED <<request, callback, status, halVars, monVars, configfsVars,
                   ffsUp>>

setupAnswer ==
    /\ setPc = "answer"
    /\ reply(IF gadgetPullup THEN "SUCCESS" ELSE "ERROR")
    /\ goto("idle")
    /\ UNCHANGED <<request, callback, status, halVars, monVars, configfsVars,
                   ffsUp>>

setError ==
    /\ setPc = "error"
    /\ reply(status)
    /\ goto("idle")
    /\ UNCHANGED <<request, callback, status, halVars, monVars, configfsVars,
                   ffsUp>>

setterStep ==
    \/ clearApplied \/ tearDownGadget \/ setNone \/ validateAndSetVidPid \/ setupFunctions
    \/ setupWait \/ setupWaitReturns \/ setupAnswer \/ setError

-----------------------------------------------------------------------------
(* monitorFfs *)

monUnchanged == <<callVars, mCurrentUsbFunctions, mMonitorCreated, mEndpointList, eventFd,
                  links, usbId, vendorConfig, ffsUp>>

\* Mutation: the endpoints are not looked up before the first wait.
monStart_OnlyWaits ==
    /\ monPc = "start"
    /\ monPc' = "epoll"
    /\ UNCHANGED <<mCurrentUsbFunctionsApplied, gadgetPullup, inotify, writeUdc, monEvents,
                   pulledUp, monUnchanged>>

monStart ==
    /\ monPc = "start"
    /\ monPc' = IF descriptorsPresent THEN "firstPullUp" ELSE "epoll"
    /\ UNCHANGED <<mCurrentUsbFunctionsApplied, gadgetPullup, inotify, writeUdc, monEvents,
                   pulledUp, monUnchanged>>

\* The write of the UDC after the delay, without mLock; nothing else if it fails.
monPullUp(from, to, failed) ==
    /\ monPc = from
    /\ \/ canPullUp /\ pulledUp' = TRUE /\ monPc' = to
       \/ (~canPullUp \/ PullUpFails) /\ UNCHANGED pulledUp /\ monPc' = failed
    /\ UNCHANGED <<mCurrentUsbFunctionsApplied, gadgetPullup, inotify, writeUdc, monEvents,
                   monUnchanged>>

\* The flags set and the setter notified, under mLock.
monApplied(from, to) ==
    /\ monPc = from /\ mLockFree
    /\ mCurrentUsbFunctionsApplied' = TRUE
    /\ gadgetPullup' = TRUE
    /\ writeUdc' = FALSE
    /\ monPc' = to
    /\ UNCHANGED <<inotify, monEvents, pulledUp, monUnchanged>>

\* epoll_wait returns the inotify descriptor: all its events are read ...
monRead ==
    /\ monPc = "epoll" /\ inotify > 0
    /\ monEvents' = inotify
    /\ inotify' = 0
    /\ monPc' = "event"
    /\ UNCHANGED <<mCurrentUsbFunctionsApplied, gadgetPullup, writeUdc, pulledUp,
                   monUnchanged>>

\* ... and for each one the endpoints are looked up as they are now.
monEvent ==
    /\ monPc = "event"
    /\ IF monEvents = 0
       THEN monPc' = "epoll" /\ UNCHANGED <<writeUdc, monEvents>>
       ELSE /\ monEvents' = monEvents - 1
            /\ writeUdc' = (writeUdc \/ ~descriptorsPresent)
            /\ monPc' = IF descriptorsPresent /\ writeUdc THEN "pullUp" ELSE "event"
    /\ UNCHANGED <<mCurrentUsbFunctionsApplied, gadgetPullup, inotify, pulledUp,
                   monUnchanged>>

monStop ==
    /\ monPc = "epoll" /\ eventFd
    /\ monPc' = "exited"
    /\ UNCHANGED <<mCurrentUsbFunctionsApplied, gadgetPullup, inotify, writeUdc, monEvents,
                   pulledUp, monUnchanged>>

monitorFfs ==
    \/ monStart
    \/ monPullUp("firstPullUp", "firstApplied", "epoll")
    \/ monApplied("firstApplied", "epoll")
    \/ monRead \/ monEvent \/ monStop
    \/ monPullUp("pullUp", "applied", "event")
    \/ monApplied("applied", "event")

-----------------------------------------------------------------------------
(* The environment: ffs daemons (the kernel unbinds the gadget when the    *)
(* daemon of a linked function dies) and reset(), which takes no lock (it  *)
(* changes nothing if the write of "none" fails).                          *)

watched(f) == mMonitorCreated /\ f \in mEndpointList

ffsStart(f) ==
    /\ f \notin ffsUp /\ inotify < MaxInotify
    /\ ffsUp' = ffsUp \cup {f}
    /\ inotify' = IF watched(f) THEN inotify + 1 ELSE inotify
    /\ UNCHANGED <<callVars, halVars, eventFd, monPc, writeUdc, monEvents, configfsVars>>

ffsDies(f) ==
    /\ f \in ffsUp /\ inotify < MaxInotify
    /\ ffsUp' = ffsUp \ {f}
    /\ pulledUp' = (pulledUp /\ f \notin links)
    /\ inotify' = IF watched(f) THEN inotify + 1 ELSE inotify
    /\ UNCHANGED <<callVars, halVars, eventFd, monPc, writeUdc, monEvents, links, usbId,
                   vendorConfig>>

reset ==
    /\ ResetCalled /\ pulledUp
    /\ pulledUp' = FALSE
    /\ UNCHANGED <<callVars, halVars, monVars, links, usbId, vendorConfig, ffsUp>>

-----------------------------------------------------------------------------
Init ==
    /\ setPc = "idle" /\ request = {} /\ callback = FALSE /\ status = "SUCCESS"
    /\ answered = 0 /\ lastStatus = "SUCCESS"
    /\ mCurrentUsbFunctions = {} /\ mCurrentUsbFunctionsApplied = FALSE
    /\ mMonitorCreated = FALSE /\ mEndpointList = {} /\ gadgetPullup = FALSE
    /\ eventFd = FALSE /\ inotify = 0
    /\ monPc = "none" /\ writeUdc = TRUE /\ monEvents = 0
    /\ links = {} /\ usbId = <<"", "">> /\ pulledUp = FALSE /\ vendorConfig = ""
    /\ ffsUp = {}

Next ==
    \/ \E fs \in Requests, cb \in BOOLEAN : setCurrentUsbFunctions(fs, cb)
    \/ setterStep
    \/ monitorFfs
    \/ \E f \in FfsLinks : ffsStart(f) \/ ffsDies(f)
    \/ reset

Spec == Init /\ [][Next]_vars

\* The binder thread inside a call and the monitor thread are scheduled.  One
\* epoll_wait reports every descriptor that is ready, so a stream of inotify
\* events does not keep the monitor from seeing the event descriptor.
FairSpec ==
    /\ Spec
    /\ WF_vars(setterStep)
    /\ WF_vars(monitorFfs)
    /\ SF_vars(monStop)

-----------------------------------------------------------------------------
(* Properties. *)

\* The ids that can be in configfs, before and after the first request.
Vids == {""} \cup {r.id[1] : r \in VidPidTable}
Pids == {""} \cup {r.id[2] : r \in VidPidTable}

\* Every variable keeps its type; no request is answered twice.
TypeOK ==
    /\ setPc \in SetStates /\ request \in SUBSET GadgetFunction
    /\ callback \in BOOLEAN /\ status \in Statuses /\ lastStatus \in Statuses
    /\ answered \in 0..1
    /\ mCurrentUsbFunctions \in SUBSET GadgetFunction
    /\ mCurrentUsbFunctionsApplied \in BOOLEAN /\ mMonitorCreated \in BOOLEAN
    /\ mEndpointList \in SUBSET FfsLinks /\ gadgetPullup \in BOOLEAN
    /\ eventFd \in BOOLEAN /\ inotify \in Nat
    /\ monPc \in MonStates /\ writeUdc \in BOOLEAN /\ monEvents \in Nat
    /\ links \in SUBSET Links /\ pulledUp \in BOOLEAN
    /\ usbId[1] \in Vids /\ usbId[2] \in Pids
    /\ vendorConfig \in VendorConfigs
    /\ ffsUp \in SUBSET FfsLinks

\* setupFunctions() starts from a clean gadget after every teardown, those after
\* failed requests included: no monitor whose std::thread would be overwritten,
\* no endpoint, no link and no bound UDC of an earlier request.
SetupStartsClean ==
    setPc = "setup" => monPc = "none" /\ mEndpointList = {} /\ links = {} /\ ~pulledUp

monitorAlive == monPc \notin {"none", "exited"}

\* The endpoint list, which the monitor reads without a lock, does not change
\* while the monitor lives.
EndpointsStable == [][monitorAlive => mEndpointList' = mEndpointList]_vars

\* A request that was answered SUCCESS and not followed by another is applied,
\* with exactly its links.
SuccessMeansApplied ==
    (setPc = "idle" /\ answered = 1 /\ lastStatus = "SUCCESS" /\ request # {}) =>
        /\ mCurrentUsbFunctionsApplied
        /\ mCurrentUsbFunctions = request
        /\ links = linksFor(request, getVendorFunctions)

\* After a successful request for NONE the gadget stays down, although a monitor
\* may have been about to pull it up when the request came.
NoneMeansDown ==
    (setPc = "idle" /\ request = {} /\ lastStatus = "SUCCESS") =>
        ~pulledUp /\ monPc = "none"

\* The host sees the gadget only with the ids of the functions that are linked, unless
\* a request failed half way or is just making its links (enableUsbDataSignal() may bind
\* the gadget then; HostSeesAllLinks is about what comes of that).
HostSeesIds ==
    (pulledUp /\ lastStatus = "SUCCESS" /\ setPc \notin {"linking", "error"}) =>
        \E r \in VidPidTable :
            /\ r.id = usbId /\ getVendorFunctions \in r.vendors
            /\ links = linksFor(r.functions, getVendorFunctions)

\* A call returns, and has answered its callback: tearDownGadget() does not wait
\* for ever for a monitor that waits for mLock, or the other way round.
CallReturns ==
    setPc # "idle" ~> (setPc = "idle" /\ (callback => answered = 1))

\* Descriptors written at a later point than the request, after its timeout too,
\* still get the gadget pulled up, unless they vanish or a new request comes.
LateDescriptors ==
    (monitorAlive /\ ~gadgetPullup /\ descriptorsPresent) ~>
        (gadgetPullup \/ ~descriptorsPresent \/ ~monitorAlive \/ links = {})

\* The gadget is pulled up again if the user-space process dies and restarts.
PulledUpAgain ==
    (monitorAlive /\ gadgetPullup /\ descriptorsPresent /\ ~pulledUp) ~>
        (pulledUp \/ ~descriptorsPresent \/ ~monitorAlive \/ setPc # "idle")

=============================================================================
