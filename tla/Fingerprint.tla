----------------------------- MODULE Fingerprint -----------------------------
(***************************************************************************)
(* The fingerprint HAL service (fingerprint/BiometricsFingerprint.cpp and  *)
(* service.cpp).  The constructor tries the vendor modules in order and    *)
(* records in a persistent property which one it opened; the one binder    *)
(* thread then passes the clients' calls on to the device, and a thread of *)
(* the vendor library sends messages back through notify(), from the       *)
(* moment the device has the callback.  A process that ends is started     *)
(* again by init, with nothing left of it but the property.                *)
(***************************************************************************)
EXTENDS Integers, Sequences

CONSTANTS
    Clients,        \* callbacks passed to setNotify()
    DeviceResults,  \* what the vendor library's functions return
    DeviceCodes,    \* the codes of its error and acquired messages
    MaxStarts       \* bound: processes

NoClient == "noClient"   \* nullptr
NoDevice == [hal |-> "none", start |-> 0]   \* nullptr

ASSUME FingerprintAssumption ==
    /\ NoClient \notin Clients
    /\ DeviceResults \subseteq Int /\ DeviceCodes \subseteq Int
    /\ MaxStarts \in Nat \ {0}

VARIABLES
    pc,               \* main(): the constructor, registration, the binder loop
    trying,           \* the place in fpHals that the constructor is at
    starts,           \* processes so far
    callbackSet,      \* modules with a device that accepted set_notify()
    leaked,           \* modules with a device that was opened and given up
    mDevice,          \* a device: [hal, start], or NoDevice
    currentHal,       \* FpHal; "garbage" before it is assigned
    mClientCallback,
    property,         \* persist.vendor.sys.fp.vendor
    notWritten,       \* history: this process could not write it
    token,            \* what setNotify() returned to each client, last
    answer,           \* the last answer: the device's result, the client's status
    delivered         \* the last message a client got, and what the device sent

procVars == <<pc, trying, starts, callbackSet, leaked, mDevice, currentHal>>
propertyVars == <<property, notWritten>>
vars == <<procVars, mClientCallback, propertyVars, token, answer, delivered>>

-----------------------------------------------------------------------------
(* Codes.  The known ones of fingerprint.h, in order. *)

VendorBase == 1000   \* FINGERPRINT_ERROR_VENDOR_BASE, FINGERPRINT_ACQUIRED_VENDOR_BASE
Errors == <<"HW_UNAVAILABLE", "UNABLE_TO_PROCESS", "TIMEOUT", "NO_SPACE", "CANCELED",
            "UNABLE_TO_REMOVE", "LOCKOUT">>
Acquired == [c \in 0 .. 5 |-> <<"GOOD", "PARTIAL", "INSUFFICIENT", "IMAGER_DIRTY",
                                "TOO_SLOW", "TOO_FAST">>[c + 1]]

\* RequestStatus: zero, the negative errno values below, and one for SYS_UNKNOWN.
SYS_OK == 0
SYS_UNKNOWN == 1
SYS_EINVAL == -22
Statuses == {SYS_OK, -2, -4, -5, -11, -12, -13, -14, -16, SYS_EINVAL, -28, -110}

\* Mutation: the result is passed on as it is.
ErrorFilter_Raw(error) == error

ErrorFilter(error) == IF error \in Statuses THEN error ELSE SYS_UNKNOWN

\* Mutation: the first vendor code is not one.
Translated_Above(code, known, unknown) ==
    IF code \in DOMAIN known THEN [what |-> known[code], vendorCode |-> 0]
    ELSE IF code > VendorBase THEN [what |-> "VENDOR", vendorCode |-> code - VendorBase]
    ELSE [what |-> unknown, vendorCode |-> 0]

\* The common part of the two filters below.
Translated(code, known, unknown) ==
    IF code \in DOMAIN known THEN [what |-> known[code], vendorCode |-> 0]
    ELSE IF code >= VendorBase THEN [what |-> "VENDOR", vendorCode |-> code - VendorBase]
    ELSE [what |-> unknown, vendorCode |-> 0]

VendorErrorFilter(error) == Translated(error, Errors, "UNABLE_TO_PROCESS")
VendorAcquiredFilter(info) == Translated(info, Acquired, "INSUFFICIENT")

-----------------------------------------------------------------------------
(* The process: BiometricsFingerprint(), main() and its end. *)

\* fpHals: a map, so it is walked in the order of its keys.
fpHals == <<"fpc", "goodix">>

NoAnswer == [result |-> 0, status |-> 0]
NoMessage == [to |-> NoClient, token |-> NoDevice, sent |-> [type |-> "NONE"],
              got |-> [what |-> "NONE", vendorCode |-> 0]]

Init ==
    /\ pc = "open" /\ trying = 1 /\ starts = 1
    /\ callbackSet = {} /\ leaked = {}
    /\ mDevice = NoDevice /\ currentHal = "garbage" /\ mClientCallback = NoClient
    /\ property = "" /\ notWritten = FALSE
    /\ token = [c \in Clients |-> NoDevice]
    /\ answer = NoAnswer /\ delivered = NoMessage

\* openHal() fails: no module, no open method, open() fails, and then nothing is
\* left behind; or the version is wrong or set_notify() fails on an open device.
openHalFails ==
    /\ pc = "open" /\ trying <= Len(fpHals)
    /\ \E opened \in BOOLEAN : leaked' = IF opened THEN leaked \cup {fpHals[trying]} ELSE leaked
    /\ trying' = trying + 1
    /\ UNCHANGED <<pc, starts, callbackSet, mDevice, currentHal, mClientCallback, propertyVars,
                   token, answer, delivered>>

\* openHal() succeeds; mDevice is assigned only after it has returned.
openHal ==
    /\ pc = "open" /\ trying <= Len(fpHals)
    /\ callbackSet' = callbackSet \cup {fpHals[trying]}
    /\ pc' = "opened"
    /\ UNCHANGED <<trying, starts, leaked, mDevice, currentHal, mClientCallback, propertyVars,
                   token, answer, delivered>>

\* Mutation: the loop goes on with the next module.
useDevice_NoBreak ==
    /\ pc = "opened"
    /\ mDevice' = [hal |-> fpHals[trying], start |-> starts]
    /\ currentHal' = fpHals[trying]
    /\ pc' = "open" /\ trying' = trying + 1
    /\ UNCHANGED <<starts, callbackSet, leaked, mClientCallback, propertyVars, token, answer,
                   delivered>>

\* mDevice and currentHal are assigned and the loop is left.
useDevice ==
    /\ pc = "opened"
    /\ mDevice' = [hal |-> fpHals[trying], start |-> starts]
    /\ currentHal' = fpHals[trying]
    /\ pc' = "setProperty"
    /\ UNCHANGED <<trying, starts, callbackSet, leaked, mClientCallback, propertyVars, token, answer,
                   delivered>>

noDevice ==
    /\ pc = "open" /\ trying > Len(fpHals)
    /\ pc' = "setProperty"
    /\ UNCHANGED <<trying, starts, callbackSet, leaked, mDevice, currentHal, mClientCallback,
                   propertyVars, token, answer, delivered>>

\* FpHalToString() of a member that was never assigned: whatever memory held.
FpHalToString(hal) == IF hal = "garbage" THEN {"fpc", "goodix", "none"} ELSE {hal}

\* Mutation: a property that is there already is left alone.
PropertyValue_Once == IF property = "" THEN FpHalToString(currentHal) ELSE {property}

PropertyValue == FpHalToString(currentHal)

\* The result of SetProperty() is not looked at: when it fails the old value stays.
setProperty ==
    /\ pc = "setProperty"
    /\ \/ property' \in PropertyValue /\ UNCHANGED notWritten
       \/ notWritten' = TRUE /\ UNCHANGED property
    /\ pc' = "register"
    /\ UNCHANGED <<trying, starts, callbackSet, leaked, mDevice, currentHal, mClientCallback,
                   token, answer, delivered>>

registerAsService ==
    /\ pc = "register"
    /\ pc' = "serving"
    /\ UNCHANGED <<trying, starts, callbackSet, leaked, mDevice, currentHal, mClientCallback,
                   propertyVars, token, answer, delivered>>

\* The process ends and init starts it again.
Restart ==
    /\ starts < MaxStarts
    /\ starts' = starts + 1
    /\ pc' = "open" /\ trying' = 1 /\ callbackSet' = {} /\ leaked' = {}
    /\ mDevice' = NoDevice /\ currentHal' = "garbage" /\ mClientCallback' = NoClient
    /\ notWritten' = FALSE
    /\ UNCHANGED <<property, token, answer, delivered>>

\* main() returns 1 when the service cannot be registered.
registrationFails == pc = "register" /\ Restart

\* The vendor library or the kernel may end the process at any time.
crash == Restart

-----------------------------------------------------------------------------
(* Calls of the clients, on the one binder thread. *)

\* Mutation: the service is registered as soon as there is an instance.
Serving_Early == pc \in {"open", "opened", "serving"}

Serving == pc = "serving"

setNotify(client) ==
    /\ Serving
    /\ mClientCallback' = client
    /\ token' = [token EXCEPT ![client] = mDevice]
    /\ UNCHANGED <<procVars, propertyVars, answer, delivered>>

\* enroll(), postEnroll(), cancel(), enumerate(), remove(), authenticate(), and
\* setActiveGroup() with a good path.  preEnroll() and getAuthenticatorId() are
\* passed through without a status.
request ==
    /\ Serving /\ mDevice # NoDevice
    /\ \E r \in DeviceResults : answer' = [result |-> r, status |-> ErrorFilter(r)]
    /\ UNCHANGED <<procVars, mClientCallback, propertyVars, token, delivered>>

\* setActiveGroup() with a path of a bad length or one that cannot be written: the
\* device is not called, so that it does not matter whether there is one.
setActiveGroup_badPath ==
    /\ Serving
    /\ answer' = [result |-> SYS_EINVAL, status |-> SYS_EINVAL]
    /\ UNCHANGED <<procVars, mClientCallback, propertyVars, token, delivered>>

\* Any other call without a device goes through a null pointer.
requestWithoutDevice == Serving /\ mDevice = NoDevice /\ Restart

-----------------------------------------------------------------------------
(* notify(), on a thread of the vendor library. *)

\* Messages: error and acquired with a code, authenticated with a finger (0: not
\* recognized), and those about templates (enrolling, removed, enumerating), whose
\* fields are passed on as they are.
Messages ==
    [type : {"ERROR", "ACQUIRED"}, code : DeviceCodes]
        \cup [type : {"AUTHENTICATED"}, code : {0, 1}] \cup [type : {"TEMPLATE"}, code : {0}]

\* For AUTHENTICATED, "what" is whether the auth token is passed on.
Got(msg) ==
    CASE msg.type = "ERROR" -> VendorErrorFilter(msg.code)
      [] msg.type = "ACQUIRED" -> VendorAcquiredFilter(msg.code)
      [] msg.type = "AUTHENTICATED" ->
            [what |-> IF msg.code # 0 THEN "HAT" ELSE "EMPTY", vendorCode |-> 0]
      [] msg.type = "TEMPLATE" -> [what |-> "TEMPLATE", vendorCode |-> 0]

notify(msg) ==
    /\ callbackSet # {}
    /\ mClientCallback # NoClient
    /\ delivered' = [to |-> mClientCallback, token |-> mDevice, sent |-> msg, got |-> Got(msg)]
    /\ UNCHANGED <<procVars, mClientCallback, propertyVars, token, answer>>

Next ==
    \/ openHalFails \/ openHal \/ useDevice \/ noDevice \/ setProperty
    \/ registerAsService \/ registrationFails \/ crash
    \/ \E c \in Clients : setNotify(c)
    \/ request \/ setActiveGroup_badPath \/ requestWithoutDevice
    \/ \E msg \in Messages : notify(msg)

Spec == Init /\ [][Next]_vars

-----------------------------------------------------------------------------
(* Properties. *)

Devices == {NoDevice} \cup [hal : {fpHals[i] : i \in DOMAIN fpHals}, start : 1 .. MaxStarts]

\* Every variable has its type.
TypeOK ==
    /\ pc \in {"open", "opened", "setProperty", "register", "serving"}
    /\ trying \in 1 .. Len(fpHals) + 1 /\ starts \in 1 .. MaxStarts
    /\ callbackSet \cup leaked \subseteq {"fpc", "goodix"}
    /\ mDevice \in Devices /\ currentHal \in {"fpc", "goodix", "garbage"}
    /\ mClientCallback \in Clients \cup {NoClient}
    /\ property \in {"", "fpc", "goodix", "none"} /\ notWritten \in BOOLEAN
    /\ token \in [Clients -> Devices]
    /\ answer.result \in DeviceResults \cup {0, SYS_EINVAL}
    /\ answer.status \in Statuses \cup {SYS_UNKNOWN}
    /\ delivered.to \in Clients \cup {NoClient} /\ delivered.token \in Devices

\* setNotify() returns the address of the device "because HAL 2.1 doesn't have a way
\* to propagate a unique token": a client that gets a message has the token of the
\* process that sent it, and of a device, although the vendor's thread may call
\* notify() before the constructor has assigned mDevice, and after a restart.
TokenOfSender ==
    mClientCallback # NoClient /\ callbackSet # {} =>
        token[mClientCallback] = mDevice /\ mDevice # NoDevice

\* Once the service is registered, the persistent property names the module whose
\* device is used, whatever an earlier process has left in it, unless SetProperty()
\* failed in this process.
PropertyNamesDevice ==
    pc = "serving" /\ mDevice # NoDevice => notWritten \/ property = mDevice.hal

\* Only one device can send messages, it is the one that requests go to, and none that
\* openHal() has given up without closing it.
OneDeviceTalks ==
    /\ \A hal \in callbackSet : /\ trying \in DOMAIN fpHals /\ hal = fpHals[trying]
                                 /\ hal \notin leaked
    /\ pc = "serving" => (mDevice = NoDevice <=> callbackSet = {})

\* What the client can tell from a translated code is what the vendor library sent:
\* known and vendor codes are recovered (a vendor code from the base upwards), only
\* unknown ones become the general code; success is reported for success only; and
\* an auth token is passed on for a recognized finger only.
CodesSurvive ==
    LET sent == delivered.sent
        got == delivered.got
        known == IF sent.type = "ERROR" THEN Errors ELSE Acquired
    IN  /\ answer.status = SYS_OK <=> answer.result = 0
        /\ sent.type \in {"ERROR", "ACQUIRED"} =>
              \/ got.what = "VENDOR" /\ got.vendorCode + VendorBase = sent.code
              \/ got.what # "VENDOR" /\ sent.code \in DOMAIN known /\ got.what = known[sent.code]
              \/ /\ sent.code < VendorBase /\ sent.code \notin DOMAIN known
                 /\ got.what \in {"UNABLE_TO_PROCESS", "INSUFFICIENT"}
        /\ got.what = "HAT" => sent.type = "AUTHENTICATED" /\ sent.code # 0
=============================================================================
