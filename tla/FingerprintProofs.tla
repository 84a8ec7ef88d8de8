--------------------------- MODULE FingerprintProofs ---------------------------
(***************************************************************************)
(* Proofs about Fingerprint for any clients, any results and codes of the  *)
(* vendor library and any number of restarts: type correctness, that a     *)
(* client has the token of the device whose messages it gets, that the     *)
(* persistent property names the device in use, that only one device can   *)
(* send messages, and that codes survive their translation.                *)
(***************************************************************************)
EXTENDS Fingerprint, TLAPS

\* The device that openHal() opens for the module at the constructor's place.
OpenedDevice == [hal |-> fpHals[trying], start |-> starts]

\* How far the constructor is decides whether a device has the callback and
\* whether mDevice and currentHal are assigned.
Constructing ==
    /\ pc = "open" => callbackSet = {} /\ mDevice = NoDevice /\ currentHal = "garbage"
    /\ pc = "opened" => /\ trying \in 1 .. 2 /\ callbackSet = {fpHals[trying]}
                        /\ mDevice = NoDevice
    /\ pc \in {"setProperty", "register", "serving"} =>
          \/ mDevice = NoDevice /\ callbackSet = {}
          \/ /\ trying \in 1 .. 2 /\ callbackSet = {fpHals[trying]}
             /\ mDevice = OpenedDevice /\ currentHal = fpHals[trying]

\* Devices are left open only by modules before the constructor's place.
LeftOpen ==
    /\ trying = 1 => leaked = {}
    /\ trying = 2 => leaked \subseteq {"fpc"}

\* From the write on, if it succeeded, the property names the module of the device.
PropertyWritten ==
    pc \in {"register", "serving"} /\ mDevice # NoDevice => notWritten \/ property = currentHal

\* There is a client only while calls are served, and it has mDevice as its token.
ClientHasToken ==
    mClientCallback # NoClient => pc = "serving" /\ token[mClientCallback] = mDevice

\* The inductive invariant.
IInv == TypeOK /\ Constructing /\ LeftOpen /\ PropertyWritten /\ ClientHasToken /\ CodesSurvive

-----------------------------------------------------------------------------
\* The two modules of fpHals.
LEMMA FpHals ==
    /\ Len(fpHals) = 2 /\ DOMAIN fpHals = 1 .. 2
    /\ fpHals[1] = "fpc" /\ fpHals[2] = "goodix"
  BY DEF fpHals

\* The range of the constructor's place, and where its loop ends.
LEMMA Places ==
    /\ 1 .. Len(fpHals) + 1 = 1 .. 3
    /\ \A n \in Int : n <= Len(fpHals) <=> n <= 2
  BY DEF fpHals

\* The null pointer and the devices of the two modules.
LEMMA DevicesOfHals ==
    /\ NoDevice \in Devices
    /\ \A hal \in {"fpc", "goodix"}, n \in 1 .. MaxStarts : [hal |-> hal, start |-> n] \in Devices
  BY FpHals DEF Devices

\* A device that openHal() has opened is one, and is not the null pointer.
LEMMA OpenedIsDevice ==
    ASSUME trying \in 1 .. 2, starts \in 1 .. MaxStarts, MaxStarts \in Nat
    PROVE  /\ OpenedDevice \in Devices /\ OpenedDevice # NoDevice
           /\ OpenedDevice.hal = fpHals[trying]
  <1>1. fpHals[trying] \in {"fpc", "goodix"}
    BY FpHals
  <1>2. OpenedDevice.start # 0 /\ OpenedDevice.hal = fpHals[trying]
    BY DEF OpenedDevice
  <1> QED
    BY <1>1, <1>2, DevicesOfHals DEF OpenedDevice, NoDevice

\* ErrorFilter() answers SYS_OK for a success only, and with a status always.
LEMMA ErrorFilterKeepsSuccess ==
    ASSUME NEW r \in Int
    PROVE  /\ ErrorFilter(r) \in Statuses \cup {SYS_UNKNOWN}
           /\ ErrorFilter(r) = SYS_OK <=> r = 0
  BY DEF ErrorFilter, Statuses, SYS_OK, SYS_UNKNOWN, SYS_EINVAL

\* What CodesSurvive says of one message.
Survives(sent, got) ==
    LET known == IF sent.type = "ERROR" THEN Errors ELSE Acquired
    IN  /\ sent.type \in {"ERROR", "ACQUIRED"} =>
              \/ got.what = "VENDOR" /\ got.vendorCode + VendorBase = sent.code
              \/ got.what # "VENDOR" /\ sent.code \in DOMAIN known /\ got.what = known[sent.code]
              \/ /\ sent.code < VendorBase /\ sent.code \notin DOMAIN known
                 /\ got.what \in {"UNABLE_TO_PROCESS", "INSUFFICIENT"}
        /\ got.what = "HAT" => sent.type = "AUTHENTICATED" /\ sent.code # 0

\* The known codes have names of their own.
LEMMA KnownCodes ==
    /\ \A c \in DOMAIN Errors : Errors[c] \notin {"VENDOR", "HAT"}
    /\ \A c \in DOMAIN Acquired : Acquired[c] \notin {"VENDOR", "HAT"}
  <1>1. DOMAIN Errors = 1 .. 7 /\ DOMAIN Acquired = 0 .. 5
    BY DEF Errors, Acquired
  <1>2. \A c \in 1 .. 7 : Errors[c] \notin {"VENDOR", "HAT"}
    BY DEF Errors
  <1>3. \A c \in 0 .. 5 : Acquired[c] \notin {"VENDOR", "HAT"}
    BY DEF Acquired
  <1> QED
    BY <1>1, <1>2, <1>3

\* The common part of the filters: a code is recovered, or is an unknown one.
LEMMA TranslatedRecovers ==
    ASSUME NEW code \in Int, NEW known, NEW unknown \in {"UNABLE_TO_PROCESS", "INSUFFICIENT"},
           \A c \in DOMAIN known : known[c] \notin {"VENDOR", "HAT"}
    PROVE  LET got == Translated(code, known, unknown)
           IN  /\ \/ got.what = "VENDOR" /\ got.vendorCode + VendorBase = code
                  \/ got.what # "VENDOR" /\ code \in DOMAIN known /\ got.what = known[code]
                  \/ code < VendorBase /\ code \notin DOMAIN known /\ got.what = unknown
               /\ got.what # "HAT"
  <1>1. CASE code \in DOMAIN known
    BY <1>1 DEF Translated
  <1>2. CASE code \notin DOMAIN known /\ code >= VendorBase
    BY <1>2 DEF Translated, VendorBase
  <1>3. CASE code \notin DOMAIN known /\ ~(code >= VendorBase)
    BY <1>3 DEF Translated, VendorBase
  <1> QED
    BY <1>1, <1>2, <1>3

\* Every message that notify() translates survives.
LEMMA GotSurvives ==
    ASSUME NEW msg \in Messages PROVE Survives(msg, Got(msg))
  <1>1. CASE msg.type = "ERROR"
    <2>1. msg.code \in Int
      BY <1>1, FingerprintAssumption DEF Messages, FingerprintAssumption
    <2>2. Got(msg) = Translated(msg.code, Errors, "UNABLE_TO_PROCESS")
      BY <1>1 DEF Got, VendorErrorFilter
    <2> QED
      BY <1>1, <2>1, <2>2, KnownCodes, TranslatedRecovers DEF Survives
  <1>2. CASE msg.type = "ACQUIRED"
    <2>1. msg.code \in Int
      BY <1>2, FingerprintAssumption DEF Messages, FingerprintAssumption
    <2>2. Got(msg) = Translated(msg.code, Acquired, "INSUFFICIENT")
      BY <1>2 DEF Got, VendorAcquiredFilter
    <2> QED
      BY <1>2, <2>1, <2>2, KnownCodes, TranslatedRecovers DEF Survives
  <1>3. CASE msg.type = "AUTHENTICATED"
    BY <1>3 DEF Got, Survives
  <1>4. CASE msg.type = "TEMPLATE"
    BY <1>4 DEF Got, Survives
  <1> QED
    BY <1>1, <1>2, <1>3, <1>4 DEF Messages

\* CodesSurvive of the last answer and the last message.
LEMMA CodesSurviveParts ==
    CodesSurvive <=> /\ answer.status = SYS_OK <=> answer.result = 0
                     /\ Survives(delivered.sent, delivered.got)
  BY Zenon DEF CodesSurvive, Survives

-----------------------------------------------------------------------------
\* The initial state satisfies the inductive invariant.
LEMMA InitIInv == Init => IInv
  <1> SUFFICES ASSUME Init PROVE IInv
    OBVIOUS
  <1>1. TypeOK
    <2>1. trying \in 1 .. Len(fpHals) + 1 /\ starts \in 1 .. MaxStarts
      <3>1. trying = 1 /\ starts = 1
        BY Zenon DEF Init
      <3> QED
        BY <3>1, Places, FingerprintAssumption DEF FingerprintAssumption
    <2>2. /\ answer.result \in DeviceResults \cup {0, SYS_EINVAL}
          /\ answer.status \in Statuses \cup {SYS_UNKNOWN}
          /\ delivered.to = NoClient /\ delivered.token = NoDevice
      BY DEF Init, NoAnswer, NoMessage, Statuses, SYS_OK
    <2> QED
      BY <2>1, <2>2, DevicesOfHals DEF Init, TypeOK
  <1>2. Constructing /\ LeftOpen /\ PropertyWritten /\ ClientHasToken
    BY DEF Init, Constructing, LeftOpen, PropertyWritten, ClientHasToken
  <1>3. Survives(delivered.sent, delivered.got)
    BY DEF Init, Survives, NoMessage
  <1>4. CodesSurvive
    BY <1>3, CodesSurviveParts DEF Init, NoAnswer, SYS_OK
  <1> QED
    BY <1>1, <1>2, <1>4 DEF IInv

\* A step that leaves the last answer and message alone keeps CodesSurvive.
LEMMA CodesUnchanged ==
    CodesSurvive /\ UNCHANGED <<answer, delivered>> => CodesSurvive'
  BY Zenon DEF CodesSurvive

\* The steps of the constructor and of main() keep the inductive invariant.
LEMMA ConstructorStep ==
    ASSUME IInv,
           openHalFails \/ openHal \/ useDevice \/ noDevice \/ setProperty \/ registerAsService
    PROVE  IInv'
  <1> USE DEF IInv
  <1>0. CodesSurvive'
    BY CodesUnchanged
    DEF openHalFails, openHal, useDevice, noDevice, setProperty, registerAsService
  <1>1. mClientCallback = NoClient /\ mClientCallback' = NoClient
    BY DEF ClientHasToken, openHalFails, openHal, useDevice, noDevice, setProperty,
           registerAsService
  <1>2. ClientHasToken'
    BY <1>1 DEF ClientHasToken
  <1>3. CASE openHalFails
    <2>1. trying' \in 1 .. Len(fpHals) + 1 /\ fpHals[trying] \in {"fpc", "goodix"}
      <3>1. trying \in 1 .. 3 /\ trying <= Len(fpHals) /\ trying' = trying + 1
        BY <1>3, Places, Zenon DEF openHalFails, TypeOK
      <3> QED
        BY <3>1, Places, FpHals
    <2>3. TypeOK'
      BY <1>3, <2>1 DEF openHalFails, TypeOK, propertyVars
    <2>2. Constructing' /\ PropertyWritten'
      BY <1>3 DEF openHalFails, Constructing, PropertyWritten, propertyVars
    <2>4. LeftOpen'
      <3>1. trying \in 1 .. 3 /\ trying' = trying + 1
        BY <1>3, Places, Zenon DEF openHalFails, TypeOK
      <3>2. leaked' \subseteq leaked \cup {fpHals[trying]}
        BY <1>3 DEF openHalFails
      <3> QED
        BY <3>1, <3>2, FpHals DEF LeftOpen
    <2> QED
      BY <1>0, <1>2, <2>2, <2>3, <2>4
  <1>4. CASE openHal
    <2>1. trying \in 1 .. 2
      <3>1. trying \in 1 .. 3 /\ trying <= Len(fpHals)
        BY <1>4, Places, Zenon DEF openHal, TypeOK
      <3> QED
        BY <3>1, Places
    <2>4. fpHals[trying] \in {"fpc", "goodix"}
      BY <2>1, FpHals
    <2>2. TypeOK'
      BY <1>4, <2>4 DEF openHal, TypeOK, propertyVars
    <2>3. Constructing' /\ LeftOpen' /\ PropertyWritten'
      BY <1>4, <2>1 DEF openHal, Constructing, LeftOpen, PropertyWritten, propertyVars
    <2> QED
      BY <1>0, <1>2, <2>2, <2>3
  <1>5. CASE useDevice
    <2>1. trying \in 1 .. 2 /\ starts \in 1 .. MaxStarts /\ MaxStarts \in Nat
      BY <1>5, FingerprintAssumption DEF useDevice, Constructing, TypeOK, FingerprintAssumption
    <2>2. mDevice' = OpenedDevice /\ mDevice' \in Devices /\ OpenedDevice' = OpenedDevice
      BY <1>5, <2>1, OpenedIsDevice DEF useDevice, OpenedDevice
    <2>5. fpHals[trying] \in {"fpc", "goodix"}
      BY <2>1, FpHals
    <2>3. TypeOK'
      BY <1>5, <2>2, <2>5 DEF useDevice, TypeOK, propertyVars
    <2>4. Constructing' /\ LeftOpen' /\ PropertyWritten'
      BY <1>5, <2>1, <2>2 DEF useDevice, Constructing, LeftOpen, PropertyWritten, propertyVars
    <2> QED
      BY <1>0, <1>2, <2>3, <2>4
  <1>6. CASE noDevice
    <2>1. TypeOK'
      BY <1>6 DEF noDevice, TypeOK, propertyVars
    <2>2. Constructing' /\ LeftOpen' /\ PropertyWritten'
      BY <1>6 DEF noDevice, Constructing, LeftOpen, PropertyWritten, propertyVars
    <2> QED
      BY <1>0, <1>2, <2>1, <2>2
  <1>7. CASE setProperty
    <2>1. TypeOK'
      BY <1>7 DEF setProperty, TypeOK, PropertyValue, FpHalToString
    <2>2. Constructing' /\ LeftOpen'
      BY <1>7 DEF setProperty, Constructing, LeftOpen, OpenedDevice
    <2>3. PropertyWritten'
      <3>0. CASE notWritten' = TRUE
        BY <3>0 DEF PropertyWritten
      <3> SUFFICES ASSUME mDevice # NoDevice, property' \in PropertyValue
                   PROVE  property' = currentHal
        BY <1>7, <3>0 DEF setProperty, PropertyWritten
      <3>1. trying \in 1 .. 2 /\ currentHal = fpHals[trying]
        BY <1>7 DEF setProperty, Constructing
      <3>2. currentHal # "garbage"
        BY <3>1, FpHals
      <3> QED
        BY <3>2 DEF PropertyValue, FpHalToString
    <2> QED
      BY <1>0, <1>2, <2>1, <2>2, <2>3
  <1>8. CASE registerAsService
    <2>1. TypeOK'
      BY <1>8 DEF registerAsService, TypeOK, propertyVars
    <2>2. Constructing' /\ LeftOpen' /\ PropertyWritten'
      BY <1>8 DEF registerAsService, Constructing, LeftOpen, PropertyWritten, OpenedDevice, propertyVars
    <2> QED
      BY <1>0, <1>2, <2>1, <2>2
  <1> QED
    BY <1>3, <1>4, <1>5, <1>6, <1>7, <1>8

\* So does the end of a process, after which only the property is left.
LEMMA RestartStep == ASSUME IInv, Restart PROVE IInv'
  <1> USE DEF IInv, Restart
  <1>1. TypeOK'
    <2>1. trying' \in 1 .. Len(fpHals) + 1 /\ starts' \in 1 .. MaxStarts
      <3>1. /\ trying' = 1 /\ starts' = starts + 1 /\ starts < MaxStarts
            /\ starts \in 1 .. MaxStarts
        BY Zenon DEF TypeOK
      <3> QED
        BY <3>1, Places, FingerprintAssumption DEF FingerprintAssumption
    <2> QED
      BY <2>1, DevicesOfHals DEF TypeOK
  <1>2. Constructing' /\ LeftOpen' /\ PropertyWritten' /\ ClientHasToken'
    BY DEF Constructing, LeftOpen, PropertyWritten, ClientHasToken
  <1>3. CodesSurvive'
    BY CodesUnchanged
  <1> QED
    BY <1>1, <1>2, <1>3

\* So do the calls of the clients.
LEMMA CallStep ==
    ASSUME IInv, (\E c \in Clients : setNotify(c)) \/ request \/ setActiveGroup_badPath
    PROVE  IInv'
  <1> USE DEF IInv, Serving
  <1>1. UNCHANGED procVars /\ UNCHANGED propertyVars /\ pc = "serving"
    BY DEF setNotify, request, setActiveGroup_badPath
  <1>2. Constructing' /\ LeftOpen' /\ PropertyWritten'
    BY <1>1 DEF procVars, propertyVars, Constructing, LeftOpen, PropertyWritten, OpenedDevice
  <1>3. ASSUME NEW c \in Clients, setNotify(c) PROVE IInv'
    <2>1. TypeOK'
      BY <1>3 DEF setNotify, TypeOK, procVars, propertyVars
    <2>2. ClientHasToken'
      BY <1>3 DEF setNotify, ClientHasToken, TypeOK, procVars, propertyVars
    <2>3. CodesSurvive'
      BY <1>3, CodesUnchanged DEF setNotify
    <2> QED
      BY <1>2, <2>1, <2>2, <2>3
  <1>4. ASSUME NEW r \in Int, r \in DeviceResults \cup {SYS_EINVAL},
               answer' = [result |-> r, status |-> ErrorFilter(r)],
               UNCHANGED <<procVars, mClientCallback, propertyVars, token, delivered>>
        PROVE  IInv'
    <2>1. answer'.result = r /\ answer'.status = ErrorFilter(r)
      BY <1>4
    <2>2. TypeOK'
      BY <1>4, <2>1, ErrorFilterKeepsSuccess DEF TypeOK, procVars, propertyVars
    <2>3. ClientHasToken'
      BY <1>4 DEF ClientHasToken, procVars
    <2>4. CodesSurvive'
      BY <1>4, <2>1, ErrorFilterKeepsSuccess DEF CodesSurvive
    <2> QED
      BY <1>2, <2>2, <2>3, <2>4
  <1>5. CASE request
    BY <1>4, <1>5, FingerprintAssumption DEF request, FingerprintAssumption
  <1>6. CASE setActiveGroup_badPath
    <2>1. SYS_EINVAL \in Int /\ ErrorFilter(SYS_EINVAL) = SYS_EINVAL
      BY DEF ErrorFilter, Statuses, SYS_EINVAL
    <2> QED
      BY <1>4, <1>6, <2>1 DEF setActiveGroup_badPath
  <1> QED
    BY <1>3, <1>5, <1>6

\* And notify(), on the vendor's thread.
LEMMA NotifyStep ==
    ASSUME IInv, NEW msg \in Messages, notify(msg) PROVE IInv'
  <1> USE DEF IInv, notify
  <1>1. delivered' = [to |-> mClientCallback, token |-> mDevice, sent |-> msg, got |-> Got(msg)]
    OBVIOUS
  <1>2. delivered'.to = mClientCallback /\ delivered'.token = mDevice
    BY <1>1
  <1>7. TypeOK'
    BY <1>2 DEF TypeOK, procVars, propertyVars
  <1>3. Constructing' /\ LeftOpen' /\ PropertyWritten' /\ ClientHasToken'
    BY DEF procVars, propertyVars, Constructing, LeftOpen, PropertyWritten, ClientHasToken, OpenedDevice
  <1>4. delivered'.sent = msg /\ delivered'.got = Got(msg)
    BY <1>1
  <1>5. Survives(delivered'.sent, delivered'.got)
    BY <1>4, GotSurvives
  <1>6. CodesSurvive'
    BY <1>5 DEF CodesSurvive, Survives
  <1> QED
    BY <1>3, <1>6, <1>7

\* Every step keeps the inductive invariant.
LEMMA NextIInv == IInv /\ [Next]_vars => IInv'
  <1> SUFFICES ASSUME IInv, [Next]_vars PROVE IInv'
    OBVIOUS
  <1>1. CASE registrationFails \/ crash \/ requestWithoutDevice
    BY <1>1, RestartStep DEF registrationFails, crash, requestWithoutDevice
  <1>2. CASE UNCHANGED vars
    <2>1. TypeOK'
      BY <1>2 DEF vars, procVars, propertyVars, IInv, TypeOK
    <2>2. Constructing' /\ LeftOpen' /\ PropertyWritten' /\ ClientHasToken'
      BY <1>2
      DEF vars, procVars, propertyVars, IInv, Constructing, LeftOpen, PropertyWritten,
          ClientHasToken, OpenedDevice
    <2>3. CodesSurvive'
      BY <1>2, CodesUnchanged DEF vars, IInv
    <2> QED
      BY <2>1, <2>2, <2>3 DEF IInv
  <1> QED
    BY <1>1, <1>2, ConstructorStep, CallStep, NotifyStep DEF Next

-----------------------------------------------------------------------------
\* The inductive invariant holds in every state of the service.
THEOREM SafetyInvariant == Spec => []IInv
  BY InitIInv, NextIInv, PTL DEF Spec

\* Every variable keeps its type, across any number of restarts.
THEOREM TypeCorrect == Spec => []TypeOK
  <1>1. IInv => TypeOK
    BY DEF IInv
  <1> QED
    BY <1>1, SafetyInvariant, PTL

\* A client that may get messages has the token of the device that sends them, and
\* mDevice is assigned: notify() cannot run between openHal() and the assignment
\* with a client to tell.
THEOREM TokensMatch == Spec => []TokenOfSender
  <1>1. IInv => TokenOfSender
    <2> SUFFICES ASSUME IInv, mClientCallback # NoClient, callbackSet # {}
                 PROVE  token[mClientCallback] = mDevice /\ mDevice # NoDevice
      BY DEF TokenOfSender
    <2>1. pc = "serving" /\ token[mClientCallback] = mDevice
      BY DEF IInv, ClientHasToken
    <2>2. trying \in 1 .. 2 /\ mDevice = OpenedDevice
      BY <2>1 DEF IInv, Constructing
    <2>3. starts \in 1 .. MaxStarts /\ MaxStarts \in Nat
      BY FingerprintAssumption DEF IInv, TypeOK, FingerprintAssumption
    <2> QED
      BY <2>1, <2>2, <2>3, OpenedIsDevice
  <1> QED
    BY <1>1, SafetyInvariant, PTL

\* While calls are served the persistent property names the module of the device,
\* whatever earlier processes have left in it, unless this one could not write it.
THEOREM PropertyCorrect == Spec => []PropertyNamesDevice
  <1>1. IInv => PropertyNamesDevice
    <2> SUFFICES ASSUME IInv, pc = "serving", mDevice # NoDevice
                 PROVE  notWritten \/ property = mDevice.hal
      BY DEF PropertyNamesDevice
    <2>1. mDevice = OpenedDevice /\ currentHal = fpHals[trying]
      BY DEF IInv, Constructing
    <2>2. notWritten \/ property = currentHal
      BY DEF IInv, PropertyWritten
    <2> QED
      BY <2>1, <2>2 DEF OpenedDevice
  <1> QED
    BY <1>1, SafetyInvariant, PTL

\* Only the device at the constructor's place in fpHals has the callback; it is none
\* that was given up, and while calls are served it is the one in mDevice.
THEOREM OnlyOneDevice == Spec => []OneDeviceTalks
  <1>1. IInv => OneDeviceTalks
    <2> SUFFICES ASSUME IInv PROVE OneDeviceTalks
      OBVIOUS
    <2>1. starts \in 1 .. MaxStarts /\ MaxStarts \in Nat
      BY FingerprintAssumption DEF IInv, TypeOK, FingerprintAssumption
    <2>2. ASSUME NEW hal \in callbackSet
          PROVE  trying \in DOMAIN fpHals /\ hal = fpHals[trying] /\ hal \notin leaked
      <3>1. pc \in {"opened", "setProperty", "register", "serving"}
        BY <2>2, Zenon DEF IInv, Constructing, TypeOK
      <3>2. trying \in 1 .. 2 /\ hal = fpHals[trying]
        BY <2>2, <3>1 DEF IInv, Constructing
      <3> QED
        BY <3>2, FpHals DEF IInv, LeftOpen
    <2>3. ASSUME pc = "serving" PROVE mDevice = NoDevice <=> callbackSet = {}
      BY <2>1, <2>3, OpenedIsDevice DEF IInv, Constructing
    <2> QED
      BY <2>2, <2>3 DEF OneDeviceTalks
  <1> QED
    BY <1>1, SafetyInvariant, PTL

\* Every code that reaches the client can be recovered, or was an unknown one, for
\* any codes and results of the vendor library.
THEOREM CodesRecovered == Spec => []CodesSurvive
  <1>1. IInv => CodesSurvive
    BY DEF IInv
  <1> QED
    BY <1>1, SafetyInvariant, PTL
=============================================================================
