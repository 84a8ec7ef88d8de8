---------------------------- MODULE UsbDataSignal ----------------------------
(***************************************************************************)
(* The two HALs of the USB service on one UDC: the gadget HAL of module    *)
(* UsbGadget, and enableUsbDataSignal() of the type-C HAL (usb/Usb.cpp),   *)
(* which pulls the same gadget up and down.  The service has two binder    *)
(* threads, and no lock is shared, so that the call can come between any   *)
(* two steps of setCurrentUsbFunctions() and of its monitor.               *)
(***************************************************************************)
EXTENDS UsbGadget

VARIABLES
    dataPc,     \* enableUsbDataSignal(): the argument, while the UDC is not written
    hostLinks   \* the functions that the gadget had when it was bound

hals == <<vars, dataPc, hostLinks>>

\* The host sees the functions as they were linked when the UDC was written.
HostSees ==
    hostLinks' = IF ~pulledUp' THEN {} ELSE IF pulledUp THEN hostLinks ELSE links'

\* The write of "1" or "0" to the controller's data file, which nothing reads back;
\* a failure only changes the result.
enableUsbDataSignal(enable) ==
    /\ dataPc = "idle"
    /\ dataPc' = IF enable THEN "pullUp" ELSE "pullDown"
    /\ UNCHANGED <<vars, hostLinks>>

\* The write of the UDC, whatever became of the first one.
writePullup ==
    /\ dataPc # "idle"
    /\ \/ dataPc = "pullUp" /\ canPullUp /\ pulledUp' = TRUE
       \/ dataPc = "pullUp" /\ (~canPullUp \/ FilesFail) /\ UNCHANGED pulledUp
       \/ dataPc = "pullDown" /\ pulledUp' = FALSE
       \/ dataPc = "pullDown" /\ FilesFail /\ UNCHANGED pulledUp
    /\ dataPc' = "idle"
    /\ UNCHANGED <<callVars, halVars, monVars, links, usbId, vendorConfig, ffsUp>>
    /\ HostSees

HalsInit == Init /\ dataPc = "idle" /\ hostLinks = {}

\* A step of the gadget HAL or of its environment.
gadgetStep == Next /\ HostSees /\ UNCHANGED dataPc

HalsNext ==
    \/ gadgetStep
    \/ \E enable \in BOOLEAN : enableUsbDataSignal(enable)
    \/ writePullup

HalsSpec == HalsInit /\ [][HalsNext]_hals

-----------------------------------------------------------------------------
(* Properties. *)

\* A request that was answered SUCCESS shows the host all its functions whenever
\* the gadget is up, although enableUsbDataSignal() may have pulled the gadget up
\* between two of its links.
HostSeesAllLinks ==
    (pulledUp /\ setPc = "idle" /\ answered = 1 /\ lastStatus = "SUCCESS") => hostLinks = links
=============================================================================
