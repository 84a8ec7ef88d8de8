---------------------------- MODULE UsbGadgetProofs ----------------------------
(***************************************************************************)
(* Proofs about UsbGadget for any requests, build, boot and vendor         *)
(* settings, with files that fail or not: type correctness, that every     *)
(* setup starts from a clean gadget, that the list the monitor reads       *)
(* without a lock is stable, that SUCCESS means applied, NONE means down,  *)
(* and that the host sees the ids of the linked functions.                 *)
(***************************************************************************)
EXTENDS UsbGadget, TLAPS

\* The monitor exists from its creation to its join, and in between no call gets
\* past the join of its teardown.
MonitorOwned ==
    /\ mMonitorCreated <=> monPc # "none"
    /\ setPc \in {"disconnected", "setup", "linking"} => monPc = "none"
    /\ setPc \in {"disconnected", "setup"} => mEndpointList = {}

\* From unlinkFunctions() to the first link nothing is linked, and the kernel binds
\* no gadget without a link.
TornDown ==
    /\ pulledUp => links # {}
    /\ setPc \in {"stopMonitor", "join", "disconnected", "setup"} => links = {}
    /\ setPc = "linking" => links # {}

\* What a call has done so far.
CallProgress ==
    /\ setPc # "idle" => answered = 0
    /\ setPc \in {"setup", "linking", "spawned", "cvWait", "answer"} => request # {}
    /\ setPc = "error" => status # "SUCCESS"
    /\ mCurrentUsbFunctions = request

\* The links and ids of the gadget are those of a row of the table.
RowMatches ==
    \E r \in VidPidTable :
        /\ r.id = usbId /\ getVendorFunctions \in r.vendors
        /\ links = linksFor(r.functions, getVendorFunctions)

\* The links a call makes are those of its request, whose ids were written before.
LinksOfRequest ==
    /\ setPc \in {"setup", "linking", "spawned", "cvWait", "answer"} =>
          \E r \in RowsFor(request, getVendorFunctions) : usbId = r.id
    /\ setPc = "linking" => links \subseteq linksFor(request, getVendorFunctions)
    /\ setPc \in {"spawned", "cvWait", "answer"} =>
          links = linksFor(request, getVendorFunctions)

\* The monitor of this call reports a pull-up together with "applied".
PullUpApplied ==
    setPc \in {"spawned", "cvWait", "answer"} /\ gadgetPullup => mCurrentUsbFunctionsApplied

\* What the last call left, until the next one unlinks it.
Outcome ==
    /\ setPc \in {"idle", "clearApplied", "pullDown", "unlink"} /\ lastStatus = "SUCCESS" =>
          links = {} \/ RowMatches
    /\ setPc = "idle" /\ request = {} /\ lastStatus = "SUCCESS" =>
          links = {} /\ monPc = "none"
    /\ SuccessMeansApplied

CallInv ==
    /\ MonitorOwned /\ TornDown /\ CallProgress /\ LinksOfRequest /\ PullUpApplied /\ Outcome

\* The inductive invariant.
IInv == TypeOK /\ CallInv

-----------------------------------------------------------------------------
\* What a step beside the calls may do: the monitor, the ffs daemons, reset() and
\* other writers of the UDC change no link and no state of the call; they bind only
\* a gadget with links, and report a pull-up only as applied.
Beside ==
    /\ UNCHANGED <<callVars, mCurrentUsbFunctions, mMonitorCreated, mEndpointList, links,
                   usbId, vendorConfig>>
    /\ pulledUp' => pulledUp \/ links # {}
    /\ monPc' = "none" <=> monPc = "none"
    /\ mCurrentUsbFunctionsApplied => mCurrentUsbFunctionsApplied'
    /\ gadgetPullup' => gadgetPullup \/ mCurrentUsbFunctionsApplied'

\* The vendor functions do not depend on when they are asked for: what
\* setVendorConfig stores is what getVendorFunctions() answered and will answer.
LEMMA VendorFixed ==
    UNCHANGED vendorConfig \/ setVendorConfig => getVendorFunctions' = getVendorFunctions
  <1>1. CASE UNCHANGED vendorConfig
    BY <1>1 DEF getVendorFunctions
  <1>2. CASE setVendorConfig
    BY <1>2 DEF setVendorConfig, getVendorFunctions
  <1> QED
    BY <1>1, <1>2

\* The answers of getVendorFunctions() that setVendorConfig stores.
LEMMA VendorType ==
    ASSUME vendorConfig \in VendorConfigs, BuildType # "user"
    PROVE  getVendorFunctions \in VendorConfigs
  BY ConfigAssumption DEF ConfigAssumption, getVendorFunctions, VendorConfigs

\* The links are those of LinkOrder.
LEMMA LinkType == \A vendor : \A k \in DOMAIN LinkOrder(vendor) : LinkOrder(vendor)[k] \in Links
  <1>1. ASSUME NEW a \in Links, NEW b \in Links,
               NEW k \in DOMAIN <<"ffs.mtp", "ffs.ptp", "midi.gs5", "accessory.gs2",
                                  "audio_source.gs3", "rndis.gs4", a, b, "gsi.rmnet", "ffs.adb">>
        PROVE  <<"ffs.mtp", "ffs.ptp", "midi.gs5", "accessory.gs2", "audio_source.gs3",
                 "rndis.gs4", a, b, "gsi.rmnet", "ffs.adb">>[k] \in Links
    BY DEF Links
  <1>2. "diag.diag" \in Links /\ "cser.dun.0" \in Links
    BY DEF Links
  <1> QED
    BY <1>1, <1>2 DEF LinkOrder

\* A row for the request is a row of the table with the request's functions.
LEMMA RowOfRequest ==
    ASSUME \E r \in RowsFor(request, getVendorFunctions) : usbId = r.id,
           links = linksFor(request, getVendorFunctions)
    PROVE  RowMatches
  BY DEF RowsFor, RowMatches

-----------------------------------------------------------------------------
\* The steps of the monitor, the daemons and reset() are steps beside the calls.
LEMMA MonitorBeside == TypeOK /\ monitorFfs => Beside
  <1> SUFFICES ASSUME TypeOK, monitorFfs PROVE Beside
    OBVIOUS
  <1>1. CASE monStart \/ monRead \/ monEvent \/ monStop
    BY <1>1 DEF monStart, monRead, monEvent, monStop, monUnchanged, callVars, Beside
  <1>2. ASSUME NEW from, NEW to, NEW failed, monPullUp(from, to, failed),
               "none" \notin {from, to, failed}
        PROVE  Beside
    BY <1>2 DEF monPullUp, canPullUp, monUnchanged, callVars, Beside
  <1>3. ASSUME NEW from, NEW to, monApplied(from, to), "none" \notin {from, to}
        PROVE  Beside
    BY <1>3 DEF monApplied, monUnchanged, callVars, Beside
  <1> QED
    BY <1>1, <1>2, <1>3 DEF monitorFfs

LEMMA EnvironmentBeside ==
    TypeOK /\ ((\E f \in FfsLinks : ffsStart(f) \/ ffsDies(f)) \/ reset) => Beside
  BY DEF ffsStart, ffsDies, reset, callVars, halVars, monVars, configfsVars, Beside, TypeOK

\* A step beside the calls keeps what the calls rely on.
LEMMA BesideKeeps == CallInv /\ Beside => CallInv'
  <1> SUFFICES ASSUME CallInv, Beside PROVE CallInv'
    OBVIOUS
  <1> USE DEF CallInv, Beside, callVars
  <1>1. getVendorFunctions' = getVendorFunctions
    BY VendorFixed
  <1>2. MonitorOwned' /\ TornDown' /\ CallProgress'
    BY DEF MonitorOwned, TornDown, CallProgress
  <1>3. RowMatches' <=> RowMatches
    BY <1>1 DEF RowMatches
  <1>4. LinksOfRequest'
    BY <1>1 DEF LinksOfRequest
  <1>5. PullUpApplied'
    BY DEF PullUpApplied
  <1>6. Outcome'
    BY <1>1, <1>3 DEF Outcome, SuccessMeansApplied
  <1> QED
    BY <1>2, <1>4, <1>5, <1>6

-----------------------------------------------------------------------------
\* The initial state satisfies the inductive invariant.
LEMMA InitIInv == Init => IInv
  <1> SUFFICES ASSUME Init PROVE IInv
    OBVIOUS
  <1>1. TypeOK
    <2>1. inotify = 0 /\ monEvents = 0 /\ answered = 0
      BY Zenon DEF Init
    <2>2. inotify \in Nat /\ monEvents \in Nat /\ answered \in 0 .. 1
      BY <2>1
    <2>4. usbId[1] = "" /\ usbId[2] = ""
      BY Zenon DEF Init
    <2>3. /\ setPc \in SetStates /\ status \in Statuses /\ lastStatus \in Statuses
          /\ monPc \in MonStates /\ vendorConfig \in VendorConfigs
      BY DEF Init, SetStates, Statuses, MonStates, VendorConfigs
    <2> QED
      BY <2>2, <2>3, <2>4, Zenon DEF Init, TypeOK, Vids, Pids
  <1>2. MonitorOwned /\ TornDown /\ CallProgress /\ LinksOfRequest /\ PullUpApplied
    BY DEF Init, MonitorOwned, TornDown, CallProgress, LinksOfRequest, PullUpApplied
  <1>3. Outcome
    BY DEF Init, Outcome, SuccessMeansApplied
  <1> QED
    BY <1>1, <1>2, <1>3 DEF IInv, CallInv


-----------------------------------------------------------------------------
\* The Boolean part of the type invariant, and the rest.
Booleans ==
    /\ callback \in BOOLEAN /\ mCurrentUsbFunctionsApplied \in BOOLEAN
    /\ mMonitorCreated \in BOOLEAN /\ gadgetPullup \in BOOLEAN /\ eventFd \in BOOLEAN
    /\ writeUdc \in BOOLEAN /\ pulledUp \in BOOLEAN

OtherTypes ==
    /\ setPc \in SetStates /\ request \in SUBSET GadgetFunction
    /\ status \in Statuses /\ lastStatus \in Statuses /\ answered \in 0 .. 1
    /\ mCurrentUsbFunctions \in SUBSET GadgetFunction
    /\ mEndpointList \in SUBSET FfsLinks /\ inotify \in Nat
    /\ monPc \in MonStates /\ monEvents \in Nat
    /\ links \in SUBSET Links
    /\ usbId[1] \in Vids /\ usbId[2] \in Pids
    /\ vendorConfig \in VendorConfigs
    /\ ffsUp \in SUBSET FfsLinks

LEMMA TypeParts ==
    /\ TypeOK <=> Booleans /\ OtherTypes
    /\ TypeOK' <=> Booleans' /\ OtherTypes'
  BY Zenon DEF TypeOK, Booleans, OtherTypes

\* Every step keeps the Booleans Boolean.
LEMMA NextBooleans == Booleans /\ Next => Booleans'
  <1> SUFFICES ASSUME Booleans, Next PROVE Booleans'
    OBVIOUS
  <1> USE DEF callVars, halVars, monVars, configfsVars, goto, reply, monUnchanged, Booleans
  <1>1. ASSUME NEW fs \in Requests, NEW cb \in BOOLEAN, setCurrentUsbFunctions(fs, cb)
        PROVE  Booleans'
    BY <1>1, Zenon DEF setCurrentUsbFunctions
  <1>2. CASE clearApplied \/ stopMonitor \/ joinMonitor \/ setNone \/ setError
    BY <1>2, Zenon DEF clearApplied, stopMonitor, joinMonitor, setNone, setError
  <1>3. CASE pullDown \/ unlinkFunctions \/ unlinkFails
    BY <1>3, Zenon DEF pullDown, unlinkFunctions, unlinkFails
  <1>4. CASE validateAndSetVidPid
    BY <1>4, Zenon DEF validateAndSetVidPid
  <1>5. CASE setupFunctions
    BY <1>5, Zenon DEF setupFunctions, linkFunction, setupFails, setupWithoutFfs, setupMonitor
  <1>6. CASE setupWait \/ setupWaitReturns \/ setupAnswer
    BY <1>6, Zenon DEF setupWait, setupWaitReturns, setupAnswer
  <1>7. CASE monStart \/ monRead \/ monEvent \/ monStop
    BY <1>7, Zenon DEF monStart, monRead, monEvent, monStop
  <1>8. ASSUME NEW from, NEW to, NEW failed, monPullUp(from, to, failed) PROVE Booleans'
    BY <1>8, Zenon DEF monPullUp
  <1>9. ASSUME NEW from, NEW to, monApplied(from, to) PROVE Booleans'
    BY <1>9, Zenon DEF monApplied
  <1>10. ASSUME NEW f \in FfsLinks, ffsStart(f) \/ ffsDies(f) PROVE Booleans'
    BY <1>10, Zenon DEF ffsStart, ffsDies
  <1>11. CASE reset
    BY <1>11, Zenon DEF reset
  <1> QED
    BY <1>1, <1>2, <1>3, <1>4, <1>5, <1>6, <1>7, <1>8, <1>9, <1>10, <1>11, Zenon
    DEF Next, setterStep, tearDownGadget, monitorFfs

\* Every step keeps the other types; the status of a call is answered once.
LEMMA NextOtherTypes == OtherTypes /\ CallProgress /\ Next => OtherTypes'
  <1> SUFFICES ASSUME OtherTypes, CallProgress, Next PROVE OtherTypes'
    OBVIOUS
  <1> USE DEF callVars, halVars, monVars, configfsVars, goto, monUnchanged, OtherTypes
  <1>1. ASSUME NEW fs \in Requests, NEW cb \in BOOLEAN, setCurrentUsbFunctions(fs, cb)
        PROVE  OtherTypes'
    BY <1>1, RequestsAssumption DEF RequestsAssumption, setCurrentUsbFunctions, SetStates
  <1>2. CASE clearApplied
    BY <1>2 DEF clearApplied, SetStates
  <1>3. CASE pullDown
    BY <1>3 DEF pullDown, SetStates
  <1>4. CASE unlinkFunctions
    BY <1>4 DEF unlinkFunctions, SetStates
  <1>5. CASE unlinkFails
    BY <1>5 DEF unlinkFails, SetStates, Statuses
  <1>6. CASE stopMonitor
    BY <1>6 DEF stopMonitor, SetStates
  <1>7. CASE joinMonitor
    BY <1>7 DEF joinMonitor, SetStates, MonStates
  <1>8. CASE setNone
    BY <1>8 DEF setNone, reply, CallProgress, SetStates, Statuses
  <1>9. CASE setupWithoutFfs
    BY <1>9 DEF setupWithoutFfs, reply, CallProgress, SetStates, Statuses
  <1>10. CASE setupAnswer
    BY <1>10 DEF setupAnswer, reply, CallProgress, SetStates, Statuses
  <1>11. CASE setError
    BY <1>11 DEF setError, reply, CallProgress, SetStates, Statuses
  <1>12. CASE validateAndSetVidPid
    <2>1. vendorConfig' \in VendorConfigs
      BY <1>12, VendorType DEF validateAndSetVidPid, setVendorConfig
    <2>2. usbId'[1] \in Vids /\ usbId'[2] \in Pids
      <3>1. \/ usbId' = usbId
            \/ \E r \in VidPidTable : usbId' = r.id \/ usbId' = <<r.id[1], usbId[2]>>
        BY <1>12, Zenon DEF validateAndSetVidPid, RowsFor
      <3>2. ASSUME NEW r \in VidPidTable PROVE r.id[1] \in Vids /\ r.id[2] \in Pids
        BY Zenon DEF Vids, Pids
      <3> QED
        BY <3>1, <3>2
    <2>3. setPc' \in SetStates /\ status' \in Statuses
      BY <1>12 DEF validateAndSetVidPid, SetStates, Statuses
    <2> QED
      BY <1>12, <2>1, <2>2, <2>3 DEF validateAndSetVidPid
  <1>13. CASE linkFunction
    BY <1>13, LinkType DEF linkFunction, SetStates
  <1>14. CASE setupFails
    BY <1>14 DEF setupFails, SetStates, Statuses
  <1>15. CASE setupMonitor
    BY <1>15 DEF setupMonitor, SetStates, MonStates
  <1>16. CASE setupWait \/ setupWaitReturns
    BY <1>16 DEF setupWait, setupWaitReturns, SetStates, Statuses
  <1>17. CASE monStart \/ monRead \/ monEvent \/ monStop
    BY <1>17 DEF monStart, monRead, monEvent, monStop, MonStates
  <1>18. ASSUME NEW from, NEW to \in MonStates, NEW failed \in MonStates,
               monPullUp(from, to, failed)
        PROVE  OtherTypes'
    BY <1>18 DEF monPullUp
  <1>19. ASSUME NEW from, NEW to \in MonStates, monApplied(from, to) PROVE OtherTypes'
    BY <1>19 DEF monApplied
  <1>20. ASSUME NEW f \in FfsLinks, ffsStart(f) \/ ffsDies(f) PROVE OtherTypes'
    BY <1>20 DEF ffsStart, ffsDies
  <1>21. CASE reset
    BY <1>21 DEF reset
  <1>22. {"epoll", "event", "firstApplied", "applied"} \subseteq MonStates
    BY DEF MonStates
  <1> QED
    BY <1>1, <1>2, <1>3, <1>4, <1>5, <1>6, <1>7, <1>8, <1>9, <1>10, <1>11, <1>12,
       <1>13, <1>14, <1>15, <1>16, <1>17, <1>18, <1>19, <1>20, <1>21, <1>22
    DEF Next, setterStep, tearDownGadget, setupFunctions, monitorFfs

-----------------------------------------------------------------------------
\* What a step leaves alone keeps LinksOfRequest and RowMatches.
LEMMA SameLinks ==
    ASSUME UNCHANGED <<links, usbId>>, UNCHANGED vendorConfig
    PROVE  getVendorFunctions' = getVendorFunctions /\ (RowMatches' <=> RowMatches)
  BY VendorFixed DEF RowMatches

\* A new call keeps what the last one left.
LEMMA EntryStep ==
    ASSUME CallInv, NEW fs \in Requests, NEW cb \in BOOLEAN, setCurrentUsbFunctions(fs, cb)
    PROVE  CallInv'
  <1> USE DEF CallInv, setCurrentUsbFunctions, goto, halVars, monVars, configfsVars
  <1>1. getVendorFunctions' = getVendorFunctions /\ (RowMatches' <=> RowMatches)
    BY SameLinks
  <1>2. MonitorOwned' /\ TornDown' /\ CallProgress'
    BY DEF MonitorOwned, TornDown, CallProgress
  <1>3. LinksOfRequest' /\ PullUpApplied'
    BY DEF LinksOfRequest, PullUpApplied
  <1>4. Outcome'
    BY <1>1 DEF Outcome, SuccessMeansApplied
  <1> QED
    BY <1>2, <1>3, <1>4

\* So do clearApplied and the teardown, each of whose steps may fail.
LEMMA TearDownStep ==
    ASSUME TypeOK, CallInv, clearApplied \/ tearDownGadget PROVE CallInv'
  <1> USE DEF CallInv, goto, callVars, halVars, monVars, configfsVars
  <1>1. CASE clearApplied
    <2> USE <1>1 DEF clearApplied
    <2>1. getVendorFunctions' = getVendorFunctions /\ (RowMatches' <=> RowMatches)
      BY SameLinks
    <2>2. MonitorOwned'
      BY DEF MonitorOwned
    <2>3. TornDown'
      BY DEF TornDown
    <2>4. CallProgress' /\ PullUpApplied'
      BY DEF CallProgress, PullUpApplied
    <2>5. LinksOfRequest' /\ Outcome'
      BY <2>1 DEF LinksOfRequest, Outcome, SuccessMeansApplied
    <2> QED
      BY <2>2, <2>3, <2>4, <2>5
  <1>2. CASE pullDown
    <2> USE <1>2 DEF pullDown
    <2>1. getVendorFunctions' = getVendorFunctions /\ (RowMatches' <=> RowMatches)
      BY SameLinks
    <2>2. MonitorOwned'
      BY DEF MonitorOwned
    <2>3. TornDown'
      BY DEF TornDown
    <2>4. CallProgress' /\ PullUpApplied'
      BY DEF CallProgress, PullUpApplied
    <2>5. LinksOfRequest' /\ Outcome'
      BY <2>1 DEF LinksOfRequest, Outcome, SuccessMeansApplied
    <2> QED
      BY <2>2, <2>3, <2>4, <2>5
  <1>3. CASE unlinkFunctions
    <2> USE <1>3 DEF unlinkFunctions
    <2>2. MonitorOwned'
      BY DEF MonitorOwned
    <2>3. TornDown'
      BY DEF TornDown
    <2>4. CallProgress' /\ PullUpApplied'
      BY DEF CallProgress, PullUpApplied
    <2>5. LinksOfRequest' /\ Outcome'
      BY DEF LinksOfRequest, Outcome, SuccessMeansApplied
    <2> QED
      BY <2>2, <2>3, <2>4, <2>5
  <1>4. CASE unlinkFails
    <2> USE <1>4 DEF unlinkFails
    <2>2. MonitorOwned'
      BY DEF MonitorOwned
    <2>3. TornDown'
      BY DEF TornDown
    <2>4. CallProgress' /\ PullUpApplied'
      BY DEF CallProgress, PullUpApplied
    <2>5. LinksOfRequest' /\ Outcome'
      BY DEF LinksOfRequest, Outcome, SuccessMeansApplied
    <2> QED
      BY <2>2, <2>3, <2>4, <2>5
  <1>5. CASE stopMonitor
    <2> USE <1>5 DEF stopMonitor
    <2>1. getVendorFunctions' = getVendorFunctions /\ (RowMatches' <=> RowMatches)
      BY SameLinks
    <2>2. MonitorOwned'
      BY DEF MonitorOwned
    <2>3. TornDown'
      BY DEF TornDown
    <2>4. CallProgress' /\ PullUpApplied'
      BY DEF CallProgress, PullUpApplied
    <2>5. LinksOfRequest' /\ Outcome'
      BY <2>1 DEF LinksOfRequest, Outcome, SuccessMeansApplied
    <2> QED
      BY <2>2, <2>3, <2>4, <2>5
  <1>6. CASE joinMonitor
    <2> USE <1>6 DEF joinMonitor
    <2>1. getVendorFunctions' = getVendorFunctions /\ (RowMatches' <=> RowMatches)
      BY SameLinks
    <2>2. MonitorOwned'
      BY DEF MonitorOwned
    <2>3. TornDown'
      BY DEF TornDown
    <2>4. CallProgress' /\ PullUpApplied'
      BY DEF CallProgress, PullUpApplied
    <2>5. LinksOfRequest' /\ Outcome'
      BY <2>1 DEF LinksOfRequest, Outcome, SuccessMeansApplied
    <2> QED
      BY <2>2, <2>3, <2>4, <2>5
  <1> QED
    BY <1>1, <1>2, <1>3, <1>4, <1>5, <1>6 DEF tearDownGadget

\* So do the choice of the ids and setupFunctions().
LEMMA SetupStep ==
    ASSUME TypeOK, CallInv, validateAndSetVidPid \/ setupFunctions PROVE CallInv'
  <1> USE DEF CallInv, goto, reply, callVars, halVars, monVars, configfsVars
  <1>1. CASE validateAndSetVidPid
    <2> USE <1>1 DEF validateAndSetVidPid
    <2>2. MonitorOwned'
      BY DEF MonitorOwned
    <2>3. TornDown'
      BY DEF TornDown
    <2>4. CallProgress' /\ PullUpApplied'
      BY DEF CallProgress, PullUpApplied
    <2>5. LinksOfRequest' /\ Outcome'
      <3>1. getVendorFunctions' = getVendorFunctions
        BY VendorFixed
      <3> QED
        BY <3>1 DEF LinksOfRequest, Outcome, SuccessMeansApplied
    <2> QED
      BY <2>2, <2>3, <2>4, <2>5
  <1>2. CASE linkFunction
    <2> USE <1>2 DEF linkFunction
    <2>2. MonitorOwned'
      BY DEF MonitorOwned
    <2>3. TornDown'
      BY DEF TornDown
    <2>4. CallProgress' /\ PullUpApplied'
      BY DEF CallProgress, PullUpApplied
    <2>5. LinksOfRequest' /\ Outcome'
      <3>1. getVendorFunctions' = getVendorFunctions
        BY VendorFixed
      <3>2. links' \subseteq linksFor(request, getVendorFunctions)
        BY DEF LinksOfRequest, TornDown, toLink
      <3> QED
        BY <3>1, <3>2 DEF LinksOfRequest, Outcome, SuccessMeansApplied
    <2> QED
      BY <2>2, <2>3, <2>4, <2>5
  <1>3. CASE setupFails
    <2> USE <1>3 DEF setupFails
    <2>1. getVendorFunctions' = getVendorFunctions /\ (RowMatches' <=> RowMatches)
      BY SameLinks
    <2>2. MonitorOwned'
      BY DEF MonitorOwned
    <2>3. TornDown'
      BY DEF TornDown
    <2>4. CallProgress' /\ PullUpApplied'
      BY DEF CallProgress, PullUpApplied
    <2>5. LinksOfRequest' /\ Outcome'
      BY <2>1 DEF LinksOfRequest, Outcome, SuccessMeansApplied
    <2> QED
      BY <2>2, <2>3, <2>4, <2>5
  <1>4. CASE setupWithoutFfs
    <2> USE <1>4 DEF setupWithoutFfs
    <2>2. MonitorOwned'
      BY DEF MonitorOwned
    <2>3. TornDown'
      BY DEF TornDown
    <2>4. CallProgress' /\ PullUpApplied'
      BY DEF CallProgress, PullUpApplied
    <2>5. LinksOfRequest' /\ Outcome'
      <3>1. getVendorFunctions' = getVendorFunctions /\ (RowMatches' <=> RowMatches)
        BY SameLinks
      <3>2. links = linksFor(request, getVendorFunctions)
        BY DEF LinksOfRequest, toLink
      <3>3. RowMatches
        BY <3>2, RowOfRequest DEF LinksOfRequest
      <3> QED
        BY <3>1, <3>2, <3>3 DEF LinksOfRequest, Outcome, SuccessMeansApplied, CallProgress
    <2> QED
      BY <2>2, <2>3, <2>4, <2>5
  <1>5. CASE setupMonitor
    <2> USE <1>5 DEF setupMonitor
    <2>2. MonitorOwned'
      BY DEF MonitorOwned
    <2>3. TornDown'
      BY DEF TornDown
    <2>4. CallProgress' /\ PullUpApplied'
      BY DEF CallProgress, PullUpApplied
    <2>5. LinksOfRequest' /\ Outcome'
      <3>1. getVendorFunctions' = getVendorFunctions
        BY VendorFixed
      <3>2. links = linksFor(request, getVendorFunctions)
        BY DEF LinksOfRequest, toLink
      <3> QED
        BY <3>1, <3>2 DEF LinksOfRequest, Outcome, SuccessMeansApplied
    <2> QED
      BY <2>2, <2>3, <2>4, <2>5
  <1> QED
    BY <1>1, <1>2, <1>3, <1>4, <1>5 DEF setupFunctions

\* So do the wait for the monitor and the answers.
LEMMA AnswerStep ==
    ASSUME TypeOK, CallInv,
           setNone \/ setupWait \/ setupWaitReturns \/ setupAnswer \/ setError
    PROVE  CallInv'
  <1> USE DEF CallInv, goto, reply, callVars, halVars, monVars, configfsVars
  <1>1. CASE setNone
    <2> USE <1>1 DEF setNone
    <2>1. getVendorFunctions' = getVendorFunctions /\ (RowMatches' <=> RowMatches)
      BY SameLinks
    <2>2. MonitorOwned'
      BY DEF MonitorOwned
    <2>3. TornDown'
      BY DEF TornDown
    <2>4. CallProgress' /\ PullUpApplied'
      BY DEF CallProgress, PullUpApplied
    <2>5. LinksOfRequest' /\ Outcome'
      BY <2>1 DEF LinksOfRequest, Outcome, SuccessMeansApplied, MonitorOwned, TornDown
    <2> QED
      BY <2>2, <2>3, <2>4, <2>5
  <1>2. CASE setupWait
    <2> USE <1>2 DEF setupWait
    <2>2. MonitorOwned'
      BY DEF MonitorOwned
    <2>3. TornDown'
      BY DEF TornDown
    <2>4. CallProgress' /\ PullUpApplied'
      BY DEF CallProgress, PullUpApplied
    <2>1. getVendorFunctions' = getVendorFunctions /\ (RowMatches' <=> RowMatches)
      BY SameLinks
    <2>6. RowMatches
      BY RowOfRequest DEF LinksOfRequest
    <2>5. LinksOfRequest' /\ Outcome'
      BY <2>1, <2>6
      DEF LinksOfRequest, Outcome, SuccessMeansApplied, CallProgress, PullUpApplied
    <2> QED
      BY <2>2, <2>3, <2>4, <2>5
  <1>3. CASE setupWaitReturns
    <2> USE <1>3 DEF setupWaitReturns
    <2>1. getVendorFunctions' = getVendorFunctions /\ (RowMatches' <=> RowMatches)
      BY SameLinks
    <2>2. MonitorOwned'
      BY DEF MonitorOwned
    <2>3. TornDown'
      BY DEF TornDown
    <2>4. CallProgress' /\ PullUpApplied'
      BY DEF CallProgress, PullUpApplied
    <2>5. LinksOfRequest' /\ Outcome'
      BY <2>1 DEF LinksOfRequest, Outcome, SuccessMeansApplied
    <2> QED
      BY <2>2, <2>3, <2>4, <2>5
  <1>4. CASE setupAnswer
    <2> USE <1>4 DEF setupAnswer
    <2>2. MonitorOwned'
      BY DEF MonitorOwned
    <2>3. TornDown'
      BY DEF TornDown
    <2>4. CallProgress' /\ PullUpApplied'
      BY DEF CallProgress, PullUpApplied
    <2>1. getVendorFunctions' = getVendorFunctions /\ (RowMatches' <=> RowMatches)
      BY SameLinks
    <2>6. RowMatches
      BY RowOfRequest DEF LinksOfRequest
    <2>5. LinksOfRequest' /\ Outcome'
      BY <2>1, <2>6
      DEF LinksOfRequest, Outcome, SuccessMeansApplied, CallProgress, PullUpApplied
    <2> QED
      BY <2>2, <2>3, <2>4, <2>5
  <1>5. CASE setError
    <2> USE <1>5 DEF setError
    <2>1. getVendorFunctions' = getVendorFunctions /\ (RowMatches' <=> RowMatches)
      BY SameLinks
    <2>2. MonitorOwned'
      BY DEF MonitorOwned
    <2>3. TornDown'
      BY DEF TornDown
    <2>4. CallProgress' /\ PullUpApplied'
      BY DEF CallProgress, PullUpApplied
    <2>5. LinksOfRequest' /\ Outcome'
      BY <2>1 DEF LinksOfRequest, Outcome, SuccessMeansApplied, CallProgress
    <2> QED
      BY <2>2, <2>3, <2>4, <2>5
  <1> QED
    BY <1>1, <1>2, <1>3, <1>4, <1>5

\* Every step keeps the inductive invariant.
LEMMA NextIInv == IInv /\ [Next]_vars => IInv'
  <1> SUFFICES ASSUME IInv, [Next]_vars PROVE IInv'
    OBVIOUS
  <1>1. CASE Next
    <2>1. TypeOK'
      BY <1>1, TypeParts, NextBooleans, NextOtherTypes DEF IInv, CallInv
    <2>2. CASE monitorFfs \/ (\E f \in FfsLinks : ffsStart(f) \/ ffsDies(f)) \/ reset
      BY <2>1, <2>2, MonitorBeside, EnvironmentBeside, BesideKeeps DEF IInv
    <2>3. CASE \E fs \in Requests, cb \in BOOLEAN : setCurrentUsbFunctions(fs, cb)
      BY <2>1, <2>3, EntryStep DEF IInv
    <2>4. CASE setterStep
      BY <2>1, <2>4, TearDownStep, SetupStep, AnswerStep DEF IInv, setterStep
    <2> QED
      BY <1>1, <2>2, <2>3, <2>4 DEF Next
  <1>2. CASE UNCHANGED vars
    <2>1. TypeOK'
      BY <1>2
      DEF IInv, TypeOK, vars, callVars, halVars, monVars, configfsVars
    <2>2. Beside
      BY <1>2 DEF Beside, vars, halVars, monVars, configfsVars
    <2> QED
      BY <2>1, <2>2, BesideKeeps DEF IInv
  <1> QED
    BY <1>1, <1>2

-----------------------------------------------------------------------------
\* What the inductive invariant says of setups, answers, NONE and the host's view.
LEMMA IInvImplies ==
    IInv => SetupStartsClean /\ SuccessMeansApplied /\ NoneMeansDown /\ HostSeesIds
  <1> SUFFICES ASSUME IInv
               PROVE  SetupStartsClean /\ SuccessMeansApplied /\ NoneMeansDown /\ HostSeesIds
    OBVIOUS
  <1> USE DEF IInv, CallInv
  <1>1. SetupStartsClean
    BY DEF MonitorOwned, TornDown, SetupStartsClean
  <1>2. SuccessMeansApplied
    BY DEF Outcome
  <1>3. NoneMeansDown
    BY DEF Outcome, TornDown, NoneMeansDown
  <1>4. HostSeesIds
    <2> SUFFICES ASSUME pulledUp, lastStatus = "SUCCESS", setPc \notin {"linking", "error"}
                 PROVE  RowMatches
      BY DEF HostSeesIds, RowMatches
    <2>1. links # {}
      BY DEF TornDown
    <2>2. CASE setPc \in {"idle", "clearApplied", "pullDown", "unlink"}
      BY <2>1, <2>2 DEF Outcome
    <2>3. CASE setPc \in {"spawned", "cvWait", "answer"}
      BY <2>3, RowOfRequest DEF LinksOfRequest
    <2>4. CASE setPc \in {"stopMonitor", "join", "disconnected", "setup"}
      BY <2>1, <2>4 DEF TornDown
    <2> QED
      BY <2>2, <2>3, <2>4 DEF TypeOK, SetStates
  <1> QED
    BY <1>1, <1>2, <1>3, <1>4

\* Only the join, after which no monitor is left, and the links made before a new
\* one exists change the endpoint list.
LEMMA EndpointStep ==
    IInv /\ [Next]_vars => (monitorAlive => mEndpointList' = mEndpointList)
  <1> SUFFICES ASSUME IInv, [Next]_vars, monitorAlive PROVE mEndpointList' = mEndpointList
    OBVIOUS
  <1> USE DEF IInv, CallInv, halVars
  <1>1. ~joinMonitor /\ ~linkFunction
    BY DEF joinMonitor, linkFunction, MonitorOwned, monitorAlive
  <1>2. CASE monitorFfs \/ (\E f \in FfsLinks : ffsStart(f) \/ ffsDies(f)) \/ reset
    BY <1>2, MonitorBeside, EnvironmentBeside DEF Beside
  <1>3. CASE \E fs \in Requests, cb \in BOOLEAN : setCurrentUsbFunctions(fs, cb)
    BY <1>3 DEF setCurrentUsbFunctions
  <1>4. CASE setterStep
    BY <1>1, <1>4
    DEF setterStep, clearApplied, tearDownGadget, pullDown, unlinkFunctions, unlinkFails,
        stopMonitor, setNone, validateAndSetVidPid, setupFunctions, setupFails,
        setupWithoutFfs, setupMonitor, setupWait, setupWaitReturns, setupAnswer, setError
  <1>5. CASE UNCHANGED vars
    BY <1>5 DEF vars
  <1> QED
    BY <1>2, <1>3, <1>4, <1>5 DEF Next

-----------------------------------------------------------------------------
\* The gadget HAL alone satisfies the inductive invariant.
THEOREM GadgetInvariant == Spec => []IInv
  BY InitIInv, NextIInv, PTL DEF Spec

\* Types, and with them that no request is answered twice.
THEOREM GadgetTypes == Spec => []TypeOK
  <1>1. IInv => TypeOK
    BY DEF IInv
  <1> QED
    BY <1>1, GadgetInvariant, PTL

\* Clean setups, true answers of SUCCESS, NONE that stays down, and ids that match
\* the links, for the gadget HAL alone.
THEOREM GadgetSafety ==
    Spec => [](SetupStartsClean /\ SuccessMeansApplied /\ NoneMeansDown /\ HostSeesIds)
  BY IInvImplies, GadgetInvariant, PTL

\* The endpoint list does not change while a monitor lives that reads it without a
\* lock.
THEOREM GadgetEndpoints == Spec => EndpointsStable
  <1>1. IInv /\ [Next]_vars => [monitorAlive => mEndpointList' = mEndpointList]_vars
    BY EndpointStep
  <1> QED
    BY <1>1, GadgetInvariant, PTL DEF Spec, EndpointsStable
=============================================================================
