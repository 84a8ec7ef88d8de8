-------------------------- MODULE UsbDataSignalProofs --------------------------
(***************************************************************************)
(* Proofs about UsbDataSignal: enableUsbDataSignal(), which writes the UDC *)
(* without any lock, disturbs none of the properties proved of the gadget  *)
(* HAL alone, and the host sees all functions of a request that was        *)
(* answered SUCCESS.                                                       *)
(***************************************************************************)
EXTENDS UsbDataSignal, UsbGadgetProofs

\* A gadget that is bound shows the host what is linked, from the pull-up by the
\* monitor of the call on, and after the call while its answer SUCCESS stands.  In
\* between the host may see fewer functions: the data signal may have bound the
\* gadget before the last link was made.
HostView ==
    /\ /\ setPc \in {"spawned", "cvWait", "answer"}
       /\ gadgetPullup \/ monPc \in {"firstApplied", "applied"}
       /\ pulledUp
       => hostLinks = links
    /\ setPc = "idle" /\ answered = 1 /\ lastStatus = "SUCCESS" /\ pulledUp =>
          hostLinks = links

\* The inductive invariant of the two HALs.
HalsIInv == IInv /\ HostView

-----------------------------------------------------------------------------
\* The host's view follows the UDC: what it saw of a bound gadget it still sees, and
\* a gadget that is bound anew shows what is linked.
LEMMA ViewFollows ==
    ASSUME HostSees, UNCHANGED links, pulledUp => hostLinks = links, pulledUp'
    PROVE  hostLinks' = links'
  BY DEF HostSees

\* The write of the UDC by enableUsbDataSignal() is a step beside the calls.
LEMMA WriteBeside == writePullup => Beside /\ HostSees /\ UNCHANGED <<monPc, gadgetPullup>>
  BY DEF writePullup, canPullUp, callVars, halVars, monVars, Beside

LEMMA WriteTypeOK == TypeOK /\ writePullup => TypeOK'
  <1> SUFFICES ASSUME TypeOK, writePullup PROVE TypeOK'
    OBVIOUS
  <1>1. pulledUp' \in BOOLEAN
    BY Zenon DEF writePullup, TypeOK
  <1>2. Booleans'
    BY <1>1, Zenon DEF writePullup, TypeOK, Booleans, callVars, halVars, monVars
  <1>3. OtherTypes'
    BY TypeParts DEF writePullup, OtherTypes, callVars, halVars, monVars
  <1> QED
    BY <1>2, <1>3, TypeParts

\* A step beside the calls that is no pull-up of the monitor keeps the host's view.
LEMMA BesideKeepsView ==
    ASSUME HostView, Beside, HostSees,
           (gadgetPullup' \/ monPc' \in {"firstApplied", "applied"}) =>
               (gadgetPullup \/ monPc \in {"firstApplied", "applied"})
    PROVE  HostView'
  BY ViewFollows DEF HostView, Beside, callVars

\* So does a pull-up of the monitor: the gadget was not bound, all links were made.
LEMMA MonitorKeepsView ==
    ASSUME TypeOK, HostView, monitorFfs, HostSees PROVE HostView'
  <1>1. Beside
    BY MonitorBeside
  <1>2. CASE monStart \/ monRead \/ monEvent \/ monStop
    BY <1>1, <1>2, BesideKeepsView DEF monStart, monRead, monEvent, monStop
  <1>3. ASSUME NEW from, NEW to, NEW failed, monPullUp(from, to, failed),
               failed \notin {"firstApplied", "applied"}
        PROVE  HostView'
    <2>1. CASE ~pulledUp
      BY <1>1, <2>1, ViewFollows DEF HostView, Beside, callVars
    <2>2. CASE pulledUp
      BY <1>1, <1>3, <2>2, BesideKeepsView DEF monPullUp, canPullUp
    <2> QED
      BY <2>1, <2>2
  <1>4. ASSUME NEW from \in {"firstApplied", "applied"}, NEW to, monApplied(from, to)
        PROVE  HostView'
    BY <1>1, <1>4, BesideKeepsView DEF monApplied
  <1> QED
    BY <1>2, <1>3, <1>4 DEF monitorFfs

\* So do the steps of a call: SUCCESS is answered after a pull-up that was looked at.
LEMMA CallKeepsView ==
    ASSUME IInv, HostView, setterStep, HostSees PROVE HostView'
  <1> USE DEF IInv, CallInv, goto, callVars, halVars, monVars, configfsVars
  <1>1. CASE clearApplied \/ tearDownGadget \/ validateAndSetVidPid
    BY <1>1
    DEF clearApplied, tearDownGadget, pullDown, unlinkFunctions, unlinkFails, stopMonitor,
        joinMonitor, validateAndSetVidPid, HostView
  <1>2. CASE setNone
    BY <1>2 DEF setNone, TornDown, HostView
  <1>3. CASE linkFunction \/ setupFails \/ setupMonitor
    BY <1>3 DEF linkFunction, setupFails, setupMonitor, HostView
  <1>4. CASE setupWithoutFfs
    BY <1>4, ViewFollows DEF setupWithoutFfs, HostView
  <1>5. CASE setupWait \/ setupWaitReturns
    BY <1>5, ViewFollows DEF setupWait, setupWaitReturns, CallProgress, HostView
  <1>6. CASE setupAnswer
    BY <1>6, ViewFollows DEF setupAnswer, reply, HostView
  <1>7. CASE setError
    BY <1>7 DEF setError, reply, CallProgress, HostView
  <1> QED
    BY <1>1, <1>2, <1>3, <1>4, <1>5, <1>6, <1>7 DEF setterStep, setupFunctions

\* Every step of the two HALs keeps the inductive invariant.
LEMMA HalsNextIInv == HalsIInv /\ [HalsNext]_hals => HalsIInv'
  <1> SUFFICES ASSUME HalsIInv, [HalsNext]_hals PROVE HalsIInv'
    OBVIOUS
  <1> USE DEF HalsIInv
  <1>1. CASE gadgetStep
    <2>1. IInv' /\ Next /\ HostSees
      BY <1>1, NextIInv DEF gadgetStep
    <2>2. CASE monitorFfs
      BY <2>1, <2>2, MonitorKeepsView DEF IInv
    <2>3. CASE (\E f \in FfsLinks : ffsStart(f) \/ ffsDies(f)) \/ reset
      <3>1. Beside /\ UNCHANGED <<gadgetPullup, monPc>>
        BY <2>3, EnvironmentBeside DEF IInv, ffsStart, ffsDies, reset, halVars, monVars
      <3> QED
        BY <2>1, <3>1, BesideKeepsView
    <2>4. CASE \E fs \in Requests, cb \in BOOLEAN : setCurrentUsbFunctions(fs, cb)
      BY <2>1, <2>4 DEF setCurrentUsbFunctions, goto, HostView
    <2>5. CASE setterStep
      BY <2>1, <2>5, CallKeepsView
    <2> QED
      BY <2>1, <2>2, <2>3, <2>4, <2>5 DEF Next
  <1>2. CASE writePullup
    <2>1. IInv'
      BY <1>2, WriteTypeOK, WriteBeside, BesideKeeps DEF IInv
    <2>2. HostView'
      BY <1>2, WriteBeside, BesideKeepsView
    <2> QED
      BY <2>1, <2>2
  <1>3. CASE UNCHANGED <<vars, hostLinks>>
    <2>1. IInv'
      BY <1>3, NextIInv
    <2>2. HostView'
      BY <1>3 DEF HostView, vars, callVars, halVars, monVars, configfsVars
    <2> QED
      BY <2>1, <2>2
  <1> QED
    BY <1>1, <1>2, <1>3 DEF HalsNext, enableUsbDataSignal, hals

-----------------------------------------------------------------------------
\* The inductive invariant holds in every state of the two HALs.
THEOREM HalsInvariant == HalsSpec => []HalsIInv
  <1>1. HalsInit => HalsIInv
    BY InitIInv DEF HalsInit, HalsIInv, HostView, Init
  <1> QED
    BY <1>1, HalsNextIInv, PTL DEF HalsSpec

\* Types, and with them that no request is answered twice, whatever fails.
THEOREM HalsTypes == HalsSpec => []TypeOK
  <1>1. HalsIInv => TypeOK
    BY DEF HalsIInv, IInv
  <1> QED
    BY <1>1, HalsInvariant, PTL

\* Every setupFunctions() starts without monitor, endpoints, links and bound UDC,
\* although teardowns may fail half way and the data signal may bind the gadget.
THEOREM CleanSetup == HalsSpec => []SetupStartsClean
  <1>1. HalsIInv => SetupStartsClean
    BY IInvImplies DEF HalsIInv
  <1> QED
    BY <1>1, HalsInvariant, PTL

\* An answer SUCCESS stands for functions that are applied with all their links.
THEOREM TrueSuccess == HalsSpec => []SuccessMeansApplied
  <1>1. HalsIInv => SuccessMeansApplied
    BY IInvImplies DEF HalsIInv
  <1> QED
    BY <1>1, HalsInvariant, PTL

\* After a successful request for NONE nobody pulls the gadget up.
THEOREM NoneStaysDown == HalsSpec => []NoneMeansDown
  <1>1. HalsIInv => NoneMeansDown
    BY IInvImplies DEF HalsIInv
  <1> QED
    BY <1>1, HalsInvariant, PTL

\* The host sees the ids of the functions that are linked.
THEOREM IdsMatchLinks == HalsSpec => []HostSeesIds
  <1>1. HalsIInv => HostSeesIds
    BY IInvImplies DEF HalsIInv
  <1> QED
    BY <1>1, HalsInvariant, PTL

\* The host sees all functions of a request that was answered SUCCESS.
THEOREM AllLinksSeen == HalsSpec => []HostSeesAllLinks
  <1>1. HalsIInv => HostSeesAllLinks
    BY DEF HalsIInv, HostView, HostSeesAllLinks
  <1> QED
    BY <1>1, HalsInvariant, PTL

\* The endpoint list does not change while a monitor lives that reads it without a
\* lock, with both HALs at work.
THEOREM StableEndpoints == HalsSpec => EndpointsStable
  <1>1. HalsIInv /\ [HalsNext]_hals => [monitorAlive => mEndpointList' = mEndpointList]_vars
    <2> SUFFICES ASSUME HalsIInv, [HalsNext]_hals, monitorAlive
                 PROVE  mEndpointList' = mEndpointList
      OBVIOUS
    <2>1. CASE gadgetStep
      BY <2>1, EndpointStep DEF HalsIInv, gadgetStep
    <2>2. CASE writePullup
      BY <2>2, WriteBeside DEF Beside
    <2>3. CASE UNCHANGED vars
      BY <2>3 DEF vars, halVars
    <2> QED
      BY <2>1, <2>2, <2>3 DEF HalsNext, enableUsbDataSignal, hals
  <1> QED
    BY <1>1, HalsInvariant, PTL DEF HalsSpec, EndpointsStable
=============================================================================
