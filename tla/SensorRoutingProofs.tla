------------------------- MODULE SensorRoutingProofs -------------------------
(***************************************************************************)
(* What holds of the routing of the sensors proxy for every hals.conf with *)
(* as many sub-HALs as a handle can tell apart, any sensors, and any       *)
(* number of calls and restarts of the framework.                          *)
(***************************************************************************)
EXTENDS SensorRouting, ListLemmas

Clear == 0 .. IndexUnit - 1

Known(i) == Static(i) \cup subDynamic[i]

\* What can be announced by a sub-HAL, and by any of them.
DynamicOf(i) == {DynamicSensor(i, l) : l \in DOMAIN DynamicSensors \cap Clear}
AllDynamic == UNION {DynamicOf(i) : i \in SubHals}

\* Bounds and the steps of initialize().
Counters ==
    /\ mDynamicSensorsCallback \in 0 .. session /\ session \in 0 .. MaxInits
    /\ calls \in 0 .. MaxCalls /\ plugs \in 0 .. MaxPlugs
    /\ initPc \in {"idle", "clear", "callback", "subHals"} /\ initNext \in 0 .. Len(mSubHalList)

\* What was loaded: a list, of libraries whose handles are their own.
ListOK ==
    /\ Len(mSubHalList) \in Nat
    /\ \A i \in SubHals : Static(i) \subseteq Nat /\ Static(i) \cap DOMAIN DynamicSensors = {}
    /\ mDirectChannelSubHal \in SubHals \cup {NoSubHal}

\* The keys of mSensors are handles of sub-HALs; an entry is the sensor that was
\* listed under its key, or what operator[] inserted.
SensorShape ==
    /\ mSensors \in [DOMAIN mSensors -> Sensor] /\ DOMAIN mSensors \subseteq Nat
    /\ \A h \in DOMAIN mSensors :
          LET i == extractSubHalIndex(h)
              l == clearSubHalIndex(h)
          IN  /\ i \in SubHals
              /\ \/ mSensors[h] = DefaultSensor
                 \/ /\ l \in Static(i) /\ mSensors[h].name = <<i, l>> /\ mSensors[h].handle = h
                    /\ mSensors[h].direct => i = mDirectChannelSubHal

\* Each listed sensor is in mSensors as it was listed; every other entry is empty.
KeepsListed(sensors, listed) ==
    /\ \A h \in DOMAIN sensors :
          sensors[h] = IF h \in DOMAIN listed THEN listed[h] ELSE DefaultSensor
    /\ DOMAIN listed \subseteq DOMAIN sensors
ListingKept == KeepsListed(mSensors, initializeSensorList(mSubHalList))

\* Modes: those already initialized again are back in the first mode.
ModesInv ==
    /\ mCurrentOperationMode \in Modes /\ subMode \in [SubHals -> Modes]
    /\ modeLost \subseteq SubHals
    /\ initPc = "subHals" => \A i \in SubHals : i < initNext => subMode[i] = InitialMode
    /\ ModesAgree

\* Dynamic sensors are the sub-HALs'; in the map they are under their handles, and
\* what a sub-HAL is taking back it does not have any more.
DynamicShape ==
    /\ mDynamicSensors \in [DOMAIN mDynamicSensors -> AllDynamic]
    /\ \A h \in DOMAIN mDynamicSensors : mDynamicSensors[h].handle = h
    /\ fwDynamic \subseteq AllDynamic
    /\ subDynamic \in [SubHals -> SUBSET DOMAIN DynamicSensors]
    /\ overlapped \subseteq SubHals
    /\ dynCall \in [SubHals -> [kind : {"none", "connected", "disconnected"},
                                sensors : SUBSET AllDynamic]]
    /\ \A i \in SubHals : /\ dynCall[i].sensors \subseteq DynamicOf(i)
                          /\ dynCall[i] = IdleCall \/ dynCall[i].kind \in {"connected", "disconnected"}
                          /\ dynCall[i].kind = "disconnected" =>
                                 \A l \in subDynamic[i] : DynamicSensor(i, l) \notin dynCall[i].sensors

\* The callback is the present framework's, except between the two steps of
\* initialize() where it still is the one before.
Phases ==
    /\ initPc \in {"idle", "subHals"} => mDynamicSensorsCallback = session
    /\ initPc \in {"clear", "callback"} => mDynamicSensorsCallback # session /\ fwDynamic = {}

InMap == {mDynamicSensors[h] : h \in DOMAIN mDynamicSensors}

\* The map is what the framework was told, with the announcement under way.
ViewOf(i) ==
    /\ dynCall[i] = IdleCall => InMap \cap DynamicOf(i) = fwDynamic \cap DynamicOf(i)
    /\ dynCall[i].kind = "connected" =>
           InMap \cap DynamicOf(i) = (fwDynamic \cap DynamicOf(i)) \cup dynCall[i].sensors
    /\ dynCall[i].kind = "disconnected" =>
           InMap \cap DynamicOf(i) = (fwDynamic \cap DynamicOf(i)) \ dynCall[i].sensors

Views ==
    \A i \in SubHals \ overlapped :
        /\ initPc # "clear" => ViewOf(i)
        /\ initPc = "callback" => dynCall[i] = IdleCall

\* Only sensors that a sub-HAL has are enabled, and what is stuck is enabled; a
\* framework that is inside initialize() has asked for nothing yet.
ActiveKnown ==
    /\ subActive \in [SubHals -> SUBSET Nat]
    /\ \A i \in SubHals : subActive[i] \subseteq Known(i) \cap Clear
    /\ requested \subseteq SubHals \X Nat /\ stuck \subseteq SubHals \X Nat
    /\ \A n \in stuck : n[2] \in subActive[n[1]]
    /\ initPc # "idle" => requested = {}

Enabled(i) == subActive[i] = {l \in Known(i) : <<i, l>> \in requested \cup stuck}

\* A sensor that was asked for is in mSensors, or was reached through an empty entry, or
\* is one the framework was told of that the sub-HAL still has or is just taking back.
Asked(i) ==
    \A l \in Nat : <<i, l>> \in requested =>
        \/ l \in Static(i) \cap Clear /\ (setSubHalIndex(l, i) \in DOMAIN mSensors \/ <<i, l>> = <<0, 0>>)
        \/ /\ l \in DOMAIN DynamicSensors \cap Clear /\ DynamicSensor(i, l) \in fwDynamic
           /\ \/ l \in subDynamic[i]
              \/ dynCall[i].kind = "disconnected" /\ DynamicSensor(i, l) \in dynCall[i].sensors

Requests ==
    \A i \in SubHals : initPc = "clear" \/ i \notin overlapped => Enabled(i) /\ Asked(i)

\* The direct reports of the sub-HAL with the direct channel, once it is reset.
Reports ==
    LET owner == mDirectChannelSubHal
    IN  /\ channel \in BOOLEAN /\ subReady \in [SubHals -> BOOLEAN]
        /\ reporting \subseteq Nat /\ fwReporting \subseteq SubHals \X Nat
        /\ notReset \subseteq SubHals
        /\ initPc # "idle" => fwReporting = {}
        /\ \A n \in fwReporting : n[2] \notin DOMAIN DynamicSensors =>
               owner \in SubHals /\ n[1] = owner /\ n[2] \in Static(owner)
        /\ initPc = "subHals" /\ owner \in SubHals /\ owner < initNext =>
               reporting \cap Static(owner) = {}
        /\ initPc = "idle" /\ owner \in SubHals /\ owner \notin notReset =>
               \A l \in Static(owner) : l \in reporting <=> <<owner, l>> \in fwReporting

\* The inductive invariant.
IInv ==
    /\ Counters /\ ListOK /\ SensorShape /\ ListingKept /\ ModesInv /\ DynamicShape /\ Phases /\ Views
    /\ ActiveKnown /\ Requests /\ Reports

-----------------------------------------------------------------------------
(* Lemmas about the operators. *)

LEMMA ClearHandles ==
    /\ IndexUnit \in Nat /\ IndexUnit > 0 /\ Clear \subseteq Nat
    /\ \A l : subHalIndexIsClear(l) <=> l \in Clear
    /\ \A l \in Int : l \in Clear <=> 0 <= l /\ l < IndexUnit
<1>1. IndexUnit \in Nat /\ IndexUnit > 0
  BY SMT DEF IndexUnit
<1>2. Clear \subseteq Nat /\ \A l \in Int : l \in Clear <=> 0 <= l /\ l < IndexUnit
  BY <1>1, SMT DEF Clear
<1>3. QED
  BY <1>1, <1>2, Zenon DEF Clear, subHalIndexIsClear

\* Handles: a sub-HAL's index and its own handle are found again in what
\* setSubHalIndex() makes of them, and every handle is made so.
LEMMA Handles ==
    /\ \A l \in Clear, i \in Nat :
           /\ setSubHalIndex(l, i) \in Nat
           /\ extractSubHalIndex(setSubHalIndex(l, i)) = i
           /\ clearSubHalIndex(setSubHalIndex(l, i)) = l
    /\ \A h \in Nat :
           /\ clearSubHalIndex(h) \in Clear /\ extractSubHalIndex(h) \in Nat
           /\ h = setSubHalIndex(clearSubHalIndex(h), extractSubHalIndex(h))
<1>1. ASSUME NEW l \in Clear, NEW i \in Nat
      PROVE  /\ setSubHalIndex(l, i) \in Nat
             /\ extractSubHalIndex(setSubHalIndex(l, i)) = i
             /\ clearSubHalIndex(setSubHalIndex(l, i)) = l
  <2>1. l \in Int /\ 0 <= l /\ l < IndexUnit
    BY ClearHandles
  <2>2. QED
    BY <2>1, SMT DEF setSubHalIndex, extractSubHalIndex, clearSubHalIndex, IndexUnit
<1>2. ASSUME NEW h \in Nat
      PROVE  /\ clearSubHalIndex(h) \in Clear /\ extractSubHalIndex(h) \in Nat
             /\ h = setSubHalIndex(clearSubHalIndex(h), extractSubHalIndex(h))
  <2>1. /\ clearSubHalIndex(h) \in Int
        /\ 0 <= clearSubHalIndex(h) /\ clearSubHalIndex(h) < IndexUnit
        /\ extractSubHalIndex(h) \in Nat
        /\ h = setSubHalIndex(clearSubHalIndex(h), extractSubHalIndex(h))
    BY SMT DEF setSubHalIndex, extractSubHalIndex, clearSubHalIndex, IndexUnit
  <2>2. QED
    BY <2>1, ClearHandles
<1>3. QED
  BY <1>1, <1>2, SMT

\* The loop over hals.conf, as a function of the lines that were read.
LoadStep(conf, k, before) == IF Loads(conf[k]) THEN Append(before, conf[k]) ELSE before
LoadsUpTo(conf, n, list) ==
    list = [k \in 0 .. n |-> IF k = 0 THEN <<>> ELSE LoadStep(conf, k, list[k - 1])]

\* initializeSubHalListFromConfigFile() returns a list of libraries of the file.
LEMMA LoadedList ==
    ASSUME NEW conf \in HalsConf
    PROVE  initializeSubHalListFromConfigFile(conf) \in Seq({conf[k] : k \in DOMAIN conf})
<1> DEFINE Libs == {conf[k] : k \in DOMAIN conf}
           Good(n, list) == /\ LoadsUpTo(conf, n, list)
                            /\ \A k \in 0 .. n : list[k] \in Seq(Libs)
<1>1. Len(conf) \in Nat /\ \A k \in 1 .. Len(conf) : conf[k] \in Libs
  BY RoutingAssumption
<1>2. ASSUME NEW n \in Nat, n < Len(conf), NEW list, Good(n, list)
      PROVE  \E longer : Good(n + 1, longer)
  <2> DEFINE longer == [k \in 0 .. n + 1 |-> IF k <= n THEN list[k] ELSE LoadStep(conf, k, list[n])]
  <2>1. conf[n + 1] \in Libs /\ list[n] \in Seq(Libs)
    BY <1>1, <1>2
  <2>2. LoadStep(conf, n + 1, list[n]) \in Seq(Libs)
    BY <2>1 DEF LoadStep
  <2>3. \A k \in 0 .. n + 1 : longer[k] \in Seq(Libs)
    BY <1>2, <2>2
  <2>4. LoadsUpTo(conf, n + 1, longer)
    <3>1. ASSUME NEW k \in 0 .. n + 1
          PROVE  longer[k] = IF k = 0 THEN <<>> ELSE LoadStep(conf, k, longer[k - 1])
      <4>1. CASE k = n + 1
        BY <4>1
      <4>2. CASE k <= n
        <5>1. longer[k] = list[k] /\ (k # 0 => longer[k - 1] = list[k - 1])
          BY <4>2
        <5>2. list[k] = IF k = 0 THEN <<>> ELSE LoadStep(conf, k, list[k - 1])
          BY <1>2, <4>2 DEF LoadsUpTo
        <5>3. QED
          BY <5>1, <5>2
      <4>3. QED
        BY <4>1, <4>2
    <3>2. QED
      BY <3>1 DEF LoadsUpTo
  <2>5. QED
    BY <2>3, <2>4
<1>3. \E list : Good(0, list)
  <2> DEFINE first == [k \in 0 .. 0 |-> <<>>]
  <2>1. Good(0, first)
    BY DEF LoadsUpTo
  <2>2. QED
    BY <2>1
<1>4. \E list : Good(Len(conf), list)
  <2> DEFINE Bad == {n \in Nat : n <= Len(conf) /\ ~ \E list : Good(n, list)}
  <2> HIDE DEF Good
  <2>1. SUFFICES ASSUME Bad # {} PROVE FALSE
    BY <1>1
  <2>2. PICK n \in Bad : \A m \in Bad : n <= m
    BY <2>1, LeastNatural
  <2>3. n # 0 /\ n \in Nat /\ n <= Len(conf)
    BY <1>3, <2>2
  <2>4. n - 1 \in Nat /\ n - 1 < Len(conf) /\ n - 1 \notin Bad
    <3>1. n - 1 \in Nat /\ n - 1 < Len(conf)
      BY <1>1, <2>3
    <3>2. ~(n <= n - 1)
      BY <2>3
    <3>3. QED
      BY <2>2, <3>1, <3>2
  <2>5. PICK list : Good(n - 1, list)
    BY <1>1, <2>4
  <2>6. \E longer : Good((n - 1) + 1, longer)
    BY <1>2, <2>4, <2>5
  <2>7. QED
    BY <2>2, <2>3, <2>6
<1>5. ASSUME NEW f, NEW g, LoadsUpTo(conf, Len(conf), f), LoadsUpTo(conf, Len(conf), g)
      PROVE  f = g
  <2> DEFINE Differ == {n \in 0 .. Len(conf) : f[n] # g[n]}
  <2>1. CASE Differ = {}
    <3>1. \A n \in 0 .. Len(conf) : f[n] = g[n]
      BY <2>1
    <3>2. QED
      BY <1>5, <3>1 DEF LoadsUpTo
  <2>2. CASE Differ # {}
    <3>0. Differ \subseteq Nat
      BY <1>1
    <3>1. PICK n \in Differ : \A m \in Differ : n <= m
      <4> HIDE DEF Differ
      <4>1. QED
        BY <2>2, <3>0, LeastNatural
    <3>2. CASE n = 0
      BY <1>1, <1>5, <3>1, <3>2 DEF LoadsUpTo
    <3>3. CASE n # 0
      <4>1. n \in 1 .. Len(conf) /\ n - 1 \in 0 .. Len(conf) /\ n - 1 \notin Differ
        BY <1>1, <3>1, <3>3
      <4>2. f[n] = LoadStep(conf, n, f[n - 1]) /\ g[n] = LoadStep(conf, n, g[n - 1])
        BY <1>5, <4>1 DEF LoadsUpTo
      <4>3. QED
        BY <3>1, <4>1, <4>2
    <3>4. QED
      BY <3>2, <3>3
  <2>3. QED
    BY <2>1, <2>2
<1>6. PICK list : Good(Len(conf), list)
  BY <1>4
<1>7. initializeSubHalListFromConfigFile(conf) = list[Len(conf)]
  <2>1. list = CHOOSE f : LoadsUpTo(conf, Len(conf), f)
    BY <1>5, <1>6
  <2>2. initializeSubHalListFromConfigFile(conf) = (CHOOSE f : LoadsUpTo(conf, Len(conf), f))[Len(conf)]
    BY Zenon DEF initializeSubHalListFromConfigFile, LoadsUpTo, LoadStep
  <2>3. QED
    BY <2>1, <2>2
<1>8. QED
  BY <1>1, <1>6, <1>7

\* The indices of a list of sub-HALs.
LEMMA Indices ==
    ASSUME Len(mSubHalList) \in Nat
    PROVE  \A i : i \in SubHals <=> i \in Nat /\ i < Len(mSubHalList)
BY DEF SubHals

\* The direct channel goes to a sub-HAL of the list, or to none.
LEMMA DirectOwnerInList ==
    ASSUME NEW list, Len(list) \in Nat
    PROVE  DirectOwner(list) \in (0 .. Len(list) - 1) \cup {NoSubHal}
<1> DEFINE owners == {i \in 0 .. Len(list) - 1 : \E l \in Listed(list[i + 1]) :
                                                    list[i + 1].sensors[l].direct}
<1>1. DirectOwner(list) = IF owners = {} THEN NoSubHal ELSE Min(owners)
  BY DEF DirectOwner
<1>2. owners \subseteq Nat /\ owners \subseteq 0 .. Len(list) - 1
  OBVIOUS
<1> HIDE DEF owners
<1>3. CASE owners # {}
  <2>1. \E x \in owners : \A y \in owners : x <= y
    BY <1>2, <1>3, LeastNatural
  <2>2. Min(owners) \in owners
    BY <2>1 DEF Min
  <2>3. QED
    BY <1>1, <1>2, <1>3, <2>2
<1>4. QED
  BY <1>1, <1>3

\* What initializeSensorList() enters into mSensors.
LEMMA ListedSensors ==
    ASSUME NEW list, Len(list) \in Nat, NEW h \in DOMAIN initializeSensorList(list)
    PROVE  \E i \in 0 .. Len(list) - 1 : \E l \in DOMAIN list[i + 1].sensors \cap Clear :
               /\ h = setSubHalIndex(l, i)
               /\ initializeSensorList(list)[h] =
                      [name |-> <<i, l>>, handle |-> h, direct |-> DirectFlag(list, i, l)]
<1> DEFINE named == UNION {{<<i, l>> : l \in {k \in Listed(list[i + 1]) :
                                             patchXiaomiPickupSensor(list[i + 1].sensors[k])}} :
                           i \in 0 .. Len(list) - 1}
           sensors == {[name |-> n, handle |-> setSubHalIndex(n[2], n[1]),
                        direct |-> DirectFlag(list, n[1], n[2])] : n \in named}
           handles == {s.handle : s \in sensors}
<1>1. initializeSensorList(list) = [k \in handles |-> CHOOSE s \in sensors : s.handle = k]
  BY DEF initializeSensorList
<1>2. h \in handles
  BY <1>1
<1>3. PICK s \in sensors : s.handle = h /\ initializeSensorList(list)[h] = s
  <2> HIDE DEF sensors
  <2>1. \E s \in sensors : s.handle = h
    BY <1>2
  <2>2. initializeSensorList(list)[h] = CHOOSE s \in sensors : s.handle = h
    BY <1>1, <1>2
  <2>3. QED
    BY <2>1, <2>2
<1>4. PICK n \in named : s = [name |-> n, handle |-> setSubHalIndex(n[2], n[1]),
                              direct |-> DirectFlag(list, n[1], n[2])]
  BY <1>3
<1>5. PICK i \in 0 .. Len(list) - 1 : \E l \in Listed(list[i + 1]) : n = <<i, l>>
  OBVIOUS
<1>6. PICK l \in Listed(list[i + 1]) : n = <<i, l>>
  BY <1>5
<1>7. l \in DOMAIN list[i + 1].sensors \cap Clear
  BY ClearHandles DEF Listed
<1>8. h = setSubHalIndex(l, i) /\ s = [name |-> <<i, l>>, handle |-> h, direct |-> DirectFlag(list, i, l)]
  BY <1>3, <1>4, <1>6
<1>9. QED
  BY <1>3, <1>7, <1>8

\* A dynamic sensor is known by its name, and by its handle.
LEMMA DynamicFacts ==
    ASSUME ListOK
    PROVE  /\ \A i \in SubHals, l \in DOMAIN DynamicSensors \cap Clear :
                  /\ DynamicSensor(i, l).name = <<i, l>>
                  /\ DynamicSensor(i, l).handle = setSubHalIndex(l, i)
                  /\ extractSubHalIndex(setSubHalIndex(l, i)) = i
                  /\ clearSubHalIndex(setSubHalIndex(l, i)) = l
                  /\ setSubHalIndex(l, i) \in Nat
                  /\ DynamicSensor(i, l) \in Sensor /\ DynamicSensor(i, l) \in DynamicOf(i)
           /\ \A i \in SubHals : \A s \in DynamicOf(i) :
                  \E l \in DOMAIN DynamicSensors \cap Clear : s = DynamicSensor(i, l)
           /\ \A i \in SubHals : DynamicOf(i) \subseteq AllDynamic
           /\ AllDynamic \subseteq Sensor
<1>1. \A i \in SubHals : i \in Nat
  BY Indices DEF ListOK
<1>2. ASSUME NEW i \in SubHals, NEW l \in DOMAIN DynamicSensors \cap Clear
      PROVE  /\ DynamicSensor(i, l).name = <<i, l>>
             /\ DynamicSensor(i, l).handle = setSubHalIndex(l, i)
             /\ extractSubHalIndex(setSubHalIndex(l, i)) = i
             /\ clearSubHalIndex(setSubHalIndex(l, i)) = l
             /\ setSubHalIndex(l, i) \in Nat
             /\ DynamicSensor(i, l) \in Sensor /\ DynamicSensor(i, l) \in DynamicOf(i)
  <2>1. l \in Nat /\ DynamicSensors[l].direct \in BOOLEAN
    BY RoutingAssumption
  <2>2. /\ extractSubHalIndex(setSubHalIndex(l, i)) = i
        /\ clearSubHalIndex(setSubHalIndex(l, i)) = l
        /\ setSubHalIndex(l, i) \in Nat
    BY <1>1, Handles
  <2>3. /\ DynamicSensor(i, l).name = <<i, l>>
        /\ DynamicSensor(i, l).handle = setSubHalIndex(l, i)
    BY DEF DynamicSensor
  <2>4. DynamicSensor(i, l) \in Sensor
    BY <2>1, <2>2 DEF DynamicSensor, Sensor
  <2>5. DynamicSensor(i, l) \in DynamicOf(i)
    BY DEF DynamicOf
  <2>6. QED
    BY <2>2, <2>3, <2>4, <2>5
<1>3. \A i \in SubHals : \A s \in DynamicOf(i) :
          \E l \in DOMAIN DynamicSensors \cap Clear : s = DynamicSensor(i, l)
  BY DEF DynamicOf
<1>4. \A i \in SubHals : DynamicOf(i) \subseteq AllDynamic
  BY DEF AllDynamic
<1>5. AllDynamic \subseteq Sensor
  BY <1>2, <1>3 DEF AllDynamic
<1>6. QED
  BY <1>2, <1>3, <1>4, <1>5

\* The list and what is made of it stay.
LEMMA ListKept ==
    ASSUME UNCHANGED mSubHalList
    PROVE  /\ SubHals' = SubHals /\ Sensor' = Sensor /\ AllDynamic' = AllDynamic
           /\ \A i : Static(i)' = Static(i)
BY DEF SubHals, Sensor, AllDynamic, Static

\* The constructor leaves a state of the invariant.
LEMMA InitInv == Init => IInv
<1> SUFFICES ASSUME Init PROVE IInv
  OBVIOUS
<1>1. PICK conf \in HalsConf : mSubHalList = initializeSubHalListFromConfigFile(conf)
  BY Zenon DEF Init
<1>2. /\ mSensors = initializeSensorList(mSubHalList)
      /\ mDirectChannelSubHal = DirectOwner(mSubHalList)
  BY Zenon DEF Init
<1>3. /\ Len(mSubHalList) \in Nat
      /\ \A i \in SubHals : \E k \in DOMAIN conf : mSubHalList[i + 1] = conf[k]
  <2>1. mSubHalList \in Seq({conf[k] : k \in DOMAIN conf})
    BY <1>1, LoadedList
  <2>2. Len(mSubHalList) \in Nat
    BY <2>1
  <2>3. ASSUME NEW i \in SubHals PROVE i + 1 \in 1 .. Len(mSubHalList)
    BY <2>2 DEF SubHals
  <2>4. ASSUME NEW i \in SubHals PROVE mSubHalList[i + 1] \in {conf[k] : k \in DOMAIN conf}
    BY <2>1, <2>3
  <2>5. QED
    BY <2>2, <2>4
<1>4. \A i \in SubHals : /\ Static(i) \subseteq Nat /\ Static(i) \cap DOMAIN DynamicSensors = {}
                         /\ \A l \in Static(i) : mSubHalList[i + 1].sensors[l].direct \in BOOLEAN
  <2> SUFFICES ASSUME NEW i \in SubHals
               PROVE  /\ Static(i) \subseteq Nat /\ Static(i) \cap DOMAIN DynamicSensors = {}
                      /\ \A l \in Static(i) : mSubHalList[i + 1].sensors[l].direct \in BOOLEAN
    OBVIOUS
  <2>1. PICK k \in DOMAIN conf : mSubHalList[i + 1] = conf[k]
    BY <1>3
  <2>2. /\ conf[k].sensors \in [DOMAIN conf[k].sensors -> SensorFlags]
        /\ DOMAIN conf[k].sensors \subseteq Nat
        /\ DOMAIN conf[k].sensors \cap DOMAIN DynamicSensors = {}
    BY RoutingAssumption, Zenon
  <2>3. \A l \in DOMAIN conf[k].sensors : conf[k].sensors[l].direct \in BOOLEAN
    BY <2>2 DEF SensorFlags
  <2>4. QED
    BY <2>1, <2>2, <2>3 DEF Static
<1>5. ListOK
  BY <1>2, <1>3, <1>4, DirectOwnerInList DEF ListOK, SubHals
<1>6. SensorShape
  <2>1. ASSUME NEW h \in DOMAIN mSensors
        PROVE  /\ h \in Nat /\ mSensors[h] \in Sensor
               /\ extractSubHalIndex(h) \in SubHals
               /\ clearSubHalIndex(h) \in Static(extractSubHalIndex(h))
               /\ mSensors[h].name = <<extractSubHalIndex(h), clearSubHalIndex(h)>>
               /\ mSensors[h].handle = h
               /\ mSensors[h].direct => extractSubHalIndex(h) = mDirectChannelSubHal
    <3>1. PICK i \in SubHals : \E l \in Static(i) \cap Clear :
               /\ h = setSubHalIndex(l, i)
               /\ mSensors[h] = [name |-> <<i, l>>, handle |-> h, direct |-> DirectFlag(mSubHalList, i, l)]
      BY <1>2, <1>3, ListedSensors DEF SubHals, Static
    <3>2. PICK l \in Static(i) \cap Clear :
               /\ h = setSubHalIndex(l, i)
               /\ mSensors[h] = [name |-> <<i, l>>, handle |-> h, direct |-> DirectFlag(mSubHalList, i, l)]
      BY <3>1
    <3>3. i \in Nat /\ l \in Nat
      BY <1>3, <1>4, Indices
    <3>4. h \in Nat /\ extractSubHalIndex(h) = i /\ clearSubHalIndex(h) = l
      BY <3>2, <3>3, Handles
    <3>5. DirectFlag(mSubHalList, i, l) \in BOOLEAN /\ (DirectFlag(mSubHalList, i, l) => i = mDirectChannelSubHal)
      BY <1>2, <1>4 DEF DirectFlag
    <3>6. mSensors[h] \in Sensor
      BY <3>2, <3>3, <3>4, <3>5 DEF Sensor
    <3>7. QED
      BY <3>2, <3>4, <3>5, <3>6
  <2>2. mSensors \in [DOMAIN mSensors -> Sensor]
    <3>1. mSensors = [h \in DOMAIN mSensors |-> mSensors[h]]
      BY <1>2 DEF initializeSensorList
    <3>2. QED
      BY <2>1, <3>1
  <2>3. QED
    BY <2>1, <2>2 DEF SensorShape
<1>7. Counters
  <2>1. /\ mDynamicSensorsCallback = 0 /\ initNext = 0 /\ session = 0 /\ calls = 0 /\ plugs = 0
        /\ initPc = "idle"
    BY Zenon DEF Init
  <2>2. MaxInits \in Nat /\ MaxCalls \in Nat /\ MaxPlugs \in Nat
    BY RoutingAssumption
  <2>3. QED
    BY <1>3, <2>1, <2>2 DEF Counters
<1>8. ModesInv
  <2>1. /\ mCurrentOperationMode = "NORMAL" /\ subMode = [i \in SubHals |-> "NORMAL"]
        /\ modeLost = {} /\ initPc = "idle"
    BY Zenon DEF Init
  <2>2. QED
    BY <2>1 DEF ModesInv, Modes, ModesAgree, injectSensorData
<1>9. DynamicShape /\ Phases /\ Views
  <2>1. /\ mDynamicSensors = NoSensors /\ mDynamicSensorsCallback = 0 /\ session = 0 /\ initPc = "idle"
        /\ subDynamic = [i \in SubHals |-> {}] /\ dynCall = [i \in SubHals |-> IdleCall]
        /\ fwDynamic = {} /\ overlapped = {}
    BY Zenon DEF Init
  <2>2. DOMAIN mDynamicSensors = {} /\ mDynamicSensors \in [{} -> AllDynamic]
    BY <2>1 DEF NoSensors
  <2>3. InMap = {}
    BY <2>2 DEF InMap
  <2>4. IdleCall.kind = "none" /\ IdleCall.sensors = {}
    BY DEF IdleCall
  <2>5. DynamicShape
    BY <2>1, <2>2, <2>4 DEF DynamicShape, IdleCall
  <2>6. Phases
    BY <2>1 DEF Phases
  <2>7. Views
    BY <2>1, <2>3, <2>4 DEF Views, ViewOf
  <2>8. QED
    BY <2>5, <2>6, <2>7
<1>10. ActiveKnown /\ Requests
  <2>1. /\ subActive = [i \in SubHals |-> {}] /\ requested = {} /\ stuck = {}
    BY Zenon DEF Init
  <2>2. QED
    BY <2>1 DEF ActiveKnown, Requests, Enabled, Asked
<1>11. Reports
  <2>1. /\ channel = FALSE /\ reporting = {} /\ fwReporting = {} /\ notReset = SubHals
        /\ subReady = [i \in SubHals |-> FALSE]
    BY Zenon DEF Init
  <2>2. QED
    BY <2>1 DEF Reports
<1>12. ListingKept
  <2>1. ASSUME NEW listed, mSensors = listed PROVE KeepsListed(mSensors, listed)
    BY <2>1 DEF KeepsListed
  <2>2. QED
    BY <1>2, <2>1 DEF ListingKept
<1>13. QED
  BY <1>5, <1>6, <1>7, <1>8, <1>9, <1>10, <1>11, <1>12 DEF IInv

-----------------------------------------------------------------------------
(* Which actions change what. *)

LEMMA ListFrame ==
    ASSUME [Next]_vars
    PROVE  UNCHANGED <<mSubHalList, mDirectChannelSubHal>>
BY ZenonT(60)
DEF Next, vars, proxyVars, activate, configDirectReport, setOperationMode,
    registerDirectChannel, unregisterDirectChannel, stopAllDirectReports,
    onDynamicSensorsConnected, onDynamicSensorsDisconnected, notifyDynamicSensors,
    countNumWakeupEvents, disableAllSensors, clearDynamicSensors,
    setDynamicSensorsCallback, initializeSubHal, finishInitialize

LEMMA CounterFrame ==
    ASSUME [Next]_vars
    PROVE  /\ calls' = calls \/ (calls < MaxCalls /\ calls' = calls + 1)
           /\ plugs' = plugs \/ (plugs < MaxPlugs /\ plugs' = plugs + 1)
           /\ \/ UNCHANGED <<mDynamicSensorsCallback, session, initPc, initNext>>
              \/ disableAllSensors \/ clearDynamicSensors \/ setDynamicSensorsCallback
              \/ initializeSubHal \/ finishInitialize
<1>1. Call \/ UNCHANGED calls
  BY ZenonT(60)
  DEF Next, vars, HasDirect, activate, configDirectReport, setOperationMode,
      registerDirectChannel, unregisterDirectChannel, stopAllDirectReports,
      onDynamicSensorsConnected, onDynamicSensorsDisconnected, notifyDynamicSensors,
      countNumWakeupEvents, disableAllSensors, clearDynamicSensors,
      setDynamicSensorsCallback, initializeSubHal, finishInitialize
<1>2. (\E i \in SubHals : CanAnnounce(i)) \/ UNCHANGED plugs
  BY ZenonT(60)
  DEF Next, vars, dynVars, activate, configDirectReport, setOperationMode,
      registerDirectChannel, unregisterDirectChannel, stopAllDirectReports,
      onDynamicSensorsConnected, onDynamicSensorsDisconnected, notifyDynamicSensors,
      countNumWakeupEvents, disableAllSensors, clearDynamicSensors,
      setDynamicSensorsCallback, initializeSubHal, finishInitialize
<1> DEFINE Initializing == \/ disableAllSensors \/ clearDynamicSensors \/ setDynamicSensorsCallback
                           \/ initializeSubHal \/ finishInitialize
<1>3. \/ UNCHANGED <<mDynamicSensorsCallback, session, initPc, initNext>> \/ Initializing
  <2>1. UNCHANGED mDynamicSensorsCallback \/ Initializing
    BY ZenonT(60)
    DEF Next, vars, dynVars, activate, configDirectReport, setOperationMode, registerDirectChannel,
        unregisterDirectChannel, stopAllDirectReports, onDynamicSensorsConnected,
        onDynamicSensorsDisconnected, notifyDynamicSensors, countNumWakeupEvents
  <2>2. UNCHANGED initVars \/ Initializing
    BY ZenonT(60)
    DEF Next, vars, activate, configDirectReport, setOperationMode, registerDirectChannel,
        unregisterDirectChannel, stopAllDirectReports, onDynamicSensorsConnected,
        onDynamicSensorsDisconnected, notifyDynamicSensors, countNumWakeupEvents
  <2> HIDE DEF Initializing
  <2>3. QED
    BY <2>1, <2>2, Zenon DEF initVars
<1>4. calls' = calls \/ (calls < MaxCalls /\ calls' = calls + 1)
  BY <1>1, SMT DEF Call
<1>5. plugs' = plugs \/ (plugs < MaxPlugs /\ plugs' = plugs + 1)
  BY <1>2, SMT DEF CanAnnounce
<1>6. QED
  BY <1>3, <1>4, <1>5

LEMMA SensorFrame ==
    ASSUME [Next]_vars
    PROVE  \/ UNCHANGED mSensors
           \/ \E i \in SubHals : \E l \in subActive[i] : countNumWakeupEvents(i, l)
BY ZenonT(60)
DEF Next, vars, proxyVars, activate, configDirectReport, setOperationMode,
    registerDirectChannel, unregisterDirectChannel, stopAllDirectReports,
    onDynamicSensorsConnected, onDynamicSensorsDisconnected, notifyDynamicSensors,
    disableAllSensors, clearDynamicSensors, setDynamicSensorsCallback, initializeSubHal,
    finishInitialize

LEMMA ModeFrame ==
    ASSUME [Next]_vars
    PROVE  \/ UNCHANGED <<mCurrentOperationMode, subMode, modeLost, initPc, initNext>>
           \/ \E mode \in Modes : setOperationMode(mode)
           \/ disableAllSensors \/ clearDynamicSensors \/ setDynamicSensorsCallback
           \/ initializeSubHal \/ finishInitialize
<1> DEFINE Initializing == \/ disableAllSensors \/ clearDynamicSensors \/ setDynamicSensorsCallback
                           \/ initializeSubHal \/ finishInitialize
<1>1. UNCHANGED modeVars \/ (\E mode \in Modes : setOperationMode(mode)) \/ Initializing
  BY ZenonT(60)
  DEF Next, vars, activate, configDirectReport, registerDirectChannel,
      unregisterDirectChannel, stopAllDirectReports, onDynamicSensorsConnected,
      onDynamicSensorsDisconnected, notifyDynamicSensors, countNumWakeupEvents
<1>2. UNCHANGED <<initPc, initNext>> \/ Initializing
  BY CounterFrame
<1>3. QED
  BY <1>1, <1>2 DEF modeVars

LEMMA CountersStep == IInv /\ [Next]_vars => Counters'
<1> SUFFICES ASSUME IInv, [Next]_vars PROVE Counters'
  OBVIOUS
<1>1. Counters /\ Len(mSubHalList) \in Nat /\ Len(mSubHalList)' = Len(mSubHalList)
  BY ListFrame DEF IInv, ListOK
<1>2. calls' \in 0 .. MaxCalls /\ plugs' \in 0 .. MaxPlugs
  BY <1>1, CounterFrame, RoutingAssumption DEF Counters
<1> DEFINE Rest == /\ mDynamicSensorsCallback \in 0 .. session /\ session \in 0 .. MaxInits
                   /\ initPc \in {"idle", "clear", "callback", "subHals"}
                   /\ initNext \in 0 .. Len(mSubHalList)
<1>3. Rest'
  <2>1. CASE UNCHANGED <<mDynamicSensorsCallback, session, initPc, initNext>>
    BY <1>1, <2>1 DEF Counters
  <2>2. CASE disableAllSensors
    <3>1. /\ session < MaxInits /\ session' = session + 1 /\ initPc' = "clear"
          /\ UNCHANGED <<mDynamicSensorsCallback, initNext>>
      BY <2>2, Zenon DEF disableAllSensors
    <3>2. QED
      BY <1>1, <3>1, RoutingAssumption DEF Counters
  <2>3. CASE clearDynamicSensors
    BY <1>1, <2>3 DEF Counters, clearDynamicSensors
  <2>4. CASE setDynamicSensorsCallback
    BY <1>1, <2>4 DEF Counters, setDynamicSensorsCallback
  <2>5. CASE initializeSubHal
    <3>1. /\ initNext \in SubHals /\ initNext' = initNext + 1
          /\ UNCHANGED <<mDynamicSensorsCallback, session, initPc>>
      BY <2>5, Zenon DEF initializeSubHal
    <3>2. QED
      BY <1>1, <3>1, Indices DEF Counters
  <2>6. CASE finishInitialize
    <3>1. initPc' = "idle" /\ UNCHANGED <<mDynamicSensorsCallback, session, initNext>>
      BY <2>6, Zenon DEF finishInitialize, dynVars
    <3>2. QED
      BY <1>1, <3>1 DEF Counters
  <2>7. QED
    BY <2>1, <2>2, <2>3, <2>4, <2>5, <2>6, CounterFrame
<1>4. QED
  BY <1>2, <1>3 DEF Counters

LEMMA ListStep == IInv /\ [Next]_vars => ListOK'
<1> SUFFICES ASSUME IInv, [Next]_vars PROVE ListOK'
  OBVIOUS
<1>1. ListOK /\ UNCHANGED <<mSubHalList, mDirectChannelSubHal>>
  BY ListFrame DEF IInv
<1>2. QED
  BY <1>1, ListKept DEF ListOK

LEMMA SensorStep == IInv /\ [Next]_vars => SensorShape'
<1> SUFFICES ASSUME IInv, [Next]_vars PROVE SensorShape'
  OBVIOUS
<1>1. /\ ListOK /\ SensorShape /\ ActiveKnown /\ UNCHANGED <<mSubHalList, mDirectChannelSubHal>>
      /\ SubHals' = SubHals /\ Sensor' = Sensor /\ \A i : Static(i)' = Static(i)
  BY ListFrame, ListKept DEF IInv
<1>2. CASE UNCHANGED mSensors
  BY <1>1, <1>2 DEF SensorShape
<1>3. ASSUME NEW i \in SubHals, NEW l \in subActive[i], countNumWakeupEvents(i, l)
      PROVE  SensorShape'
  <2> DEFINE h == setSubHalIndex(l, i)
  <2>1. /\ l \in subActive[i]
        /\ mSensors' = [k \in DOMAIN mSensors \cup {h} |->
                          IF k = h THEN DefaultSensor ELSE mSensors[k]]
    BY <1>3, Zenon DEF countNumWakeupEvents
  <2>2. l \in Clear /\ i \in Nat
    BY <1>1, <2>1, Indices DEF ActiveKnown, ListOK
  <2>3. h \in Nat /\ extractSubHalIndex(h) = i
    BY <2>2, Handles
  <2>4. DefaultSensor \in Sensor
    BY DEF DefaultSensor, Sensor
  <2> HIDE DEF h
  <2>5. DOMAIN mSensors' = DOMAIN mSensors \cup {h} /\ mSensors'[h] = DefaultSensor
    BY <2>1
  <2>6. \A k \in DOMAIN mSensors : mSensors'[k] = DefaultSensor \/ mSensors'[k] = mSensors[k]
    BY <2>1
  <2>7. mSensors' \in [DOMAIN mSensors' -> Sensor] /\ DOMAIN mSensors' \subseteq Nat
    BY <1>1, <2>1, <2>3, <2>4 DEF SensorShape
  <2>8. QED
    BY <1>1, <2>3, <2>5, <2>6, <2>7, Zenon DEF SensorShape
<1>4. QED
  BY <1>2, <1>3, SensorFrame

LEMMA ListingStep == IInv /\ [Next]_vars => ListingKept'
<1> SUFFICES ASSUME IInv, [Next]_vars PROVE ListingKept'
  OBVIOUS
<1>1. ListingKept /\ UNCHANGED mSubHalList
  BY ListFrame DEF IInv
<1>2. CASE UNCHANGED mSensors
  BY <1>1, <1>2 DEF ListingKept
<1>3. ASSUME NEW i \in SubHals, NEW l \in subActive[i], countNumWakeupEvents(i, l)
      PROVE  ListingKept'
  <2>1. PICK h : /\ h \notin DOMAIN mSensors
                 /\ mSensors' = [k \in DOMAIN mSensors \cup {h} |->
                                   IF k = h THEN DefaultSensor ELSE mSensors[k]]
    BY <1>3, Zenon DEF countNumWakeupEvents
  <2>2. ASSUME NEW listed, KeepsListed(mSensors, listed) PROVE KeepsListed(mSensors', listed)
    BY <2>1, <2>2 DEF KeepsListed
  <2>3. QED
    BY <1>1, <2>2 DEF ListingKept
<1>4. QED
  BY <1>2, <1>3, SensorFrame

LEMMA ModesStep == IInv /\ [Next]_vars => ModesInv'
<1> SUFFICES ASSUME IInv, [Next]_vars PROVE ModesInv'
  OBVIOUS
<1>1. /\ ListOK /\ Counters /\ ModesInv /\ SubHals' = SubHals
  BY ListFrame, ListKept DEF IInv
<1> DEFINE Kinds == /\ mCurrentOperationMode \in Modes /\ subMode \in [SubHals -> Modes]
                    /\ modeLost \subseteq SubHals
           Agree == \A i \in SubHals \ modeLost : subMode[i] = mCurrentOperationMode
           Fresh == \A i \in SubHals : i < initNext => subMode[i] = InitialMode
<1>2. Kinds /\ (initPc = "idle" => Agree) /\ (initPc = "subHals" => Fresh)
  BY <1>1 DEF ModesInv, ModesAgree
<1>3. SUFFICES Kinds' /\ (initPc = "idle" => Agree)' /\ (initPc = "subHals" => Fresh)'
  BY DEF ModesInv, ModesAgree, Modes, injectSensorData
<1>4. CASE UNCHANGED <<mCurrentOperationMode, subMode, modeLost, initPc, initNext>>
  BY <1>1, <1>2, <1>4
<1>5. ASSUME NEW mode \in Modes, setOperationMode(mode)
      PROVE  Kinds' /\ (initPc = "idle" => Agree)' /\ (initPc = "subHals" => Fresh)'
  <2>1. /\ initPc = "idle" /\ initPc' = "idle"
        /\ \E failing \in SubHals \cup {Len(mSubHalList)} :
              IF failing \in SubHals
              THEN \E refuse \in SUBSET (0 .. failing - 1) :
                      /\ subMode' = RolledBack(mode, failing, refuse)
                      /\ modeLost' = (modeLost \ 0 .. failing - 1) \cup refuse
                      /\ UNCHANGED mCurrentOperationMode
              ELSE /\ subMode' = [i \in SubHals |-> mode]
                   /\ modeLost' = {}
                   /\ mCurrentOperationMode' = mode
    BY <1>5, Zenon DEF setOperationMode, Call, CanCall, initVars
  <2>2. PICK failing \in SubHals \cup {Len(mSubHalList)} :
              IF failing \in SubHals
              THEN \E refuse \in SUBSET (0 .. failing - 1) :
                      /\ subMode' = RolledBack(mode, failing, refuse)
                      /\ modeLost' = (modeLost \ 0 .. failing - 1) \cup refuse
                      /\ UNCHANGED mCurrentOperationMode
              ELSE /\ subMode' = [i \in SubHals |-> mode]
                   /\ modeLost' = {}
                   /\ mCurrentOperationMode' = mode
    BY <2>1, Zenon
  <2>3. CASE failing \notin SubHals
    BY <1>1, <2>1, <2>2, <2>3
  <2>4. CASE failing \in SubHals
    <3>1. PICK refuse \in SUBSET (0 .. failing - 1) :
                      /\ subMode' = RolledBack(mode, failing, refuse)
                      /\ modeLost' = (modeLost \ 0 .. failing - 1) \cup refuse
                      /\ UNCHANGED mCurrentOperationMode
      BY <2>2, <2>4, Zenon
    <3>2. Len(mSubHalList) \in Nat /\ (0 .. failing - 1) \subseteq SubHals
      BY <1>1, <2>4 DEF ListOK, SubHals
    <3>3. Kinds'
      BY <1>1, <1>2, <3>1, <3>2 DEF RolledBack
    <3>4. Agree'
      <4> SUFFICES ASSUME NEW i \in SubHals, i \notin modeLost'
                   PROVE  subMode'[i] = mCurrentOperationMode
        BY <1>1, <3>1
      <4>1. subMode'[i] = IF i \in refuse THEN mode
                          ELSE IF i < failing THEN mCurrentOperationMode ELSE subMode[i]
        BY <3>1 DEF RolledBack
      <4>2. i \notin refuse
        BY <3>1
      <4>3. i < failing \/ i \notin modeLost
        BY <3>1, <3>2, <2>4 DEF SubHals
      <4>4. QED
        BY <1>2, <2>1, <4>1, <4>2, <4>3
    <3>5. QED
      BY <2>1, <3>3, <3>4
  <2>5. QED
    BY <2>3, <2>4
<1>6. CASE disableAllSensors
  <2>1. initPc' = "clear" /\ UNCHANGED <<mCurrentOperationMode, subMode, modeLost>>
    BY <1>6, Zenon DEF disableAllSensors, modeVars
  <2>2. QED
    BY <1>1, <1>2, <2>1
<1>7. CASE clearDynamicSensors
  <2>1. initPc' = "callback" /\ UNCHANGED <<mCurrentOperationMode, subMode, modeLost>>
    BY <1>7, Zenon DEF clearDynamicSensors, modeVars
  <2>2. QED
    BY <1>1, <1>2, <2>1
<1>8. CASE setDynamicSensorsCallback
  <2>1. initPc' = "subHals" /\ initNext' = 0 /\ UNCHANGED <<mCurrentOperationMode, subMode, modeLost>>
    BY <1>8, Zenon DEF setDynamicSensorsCallback, modeVars
  <2>2. \A i \in SubHals : ~(i < 0)
    BY <1>1, Indices DEF ListOK
  <2>3. QED
    BY <1>1, <1>2, <2>1, <2>2
<1>9. CASE initializeSubHal
  <2>1. /\ initPc = "subHals" /\ initPc' = "subHals" /\ initNext \in SubHals /\ initNext' = initNext + 1
        /\ subMode' = [subMode EXCEPT ![initNext] = "NORMAL"]
        /\ UNCHANGED <<mCurrentOperationMode, modeLost>>
    BY <1>9, Zenon DEF initializeSubHal
  <2>2. \A i \in SubHals : i < initNext + 1 => i = initNext \/ i < initNext
    BY <1>1, Indices DEF ListOK, Counters
  <2>3. Kinds'
    BY <1>1, <1>2, <2>1 DEF Modes
  <2>4. Fresh'
    BY <1>1, <1>2, <2>1, <2>2 DEF InitialMode
  <2>5. QED
    BY <2>1, <2>3, <2>4
<1>10. CASE finishInitialize
  <2>1. /\ initPc = "subHals" /\ initPc' = "idle" /\ mCurrentOperationMode' = InitialMode
        /\ modeLost' = initNext .. Len(mSubHalList) - 1 /\ UNCHANGED subMode
    BY <1>10, Zenon DEF finishInitialize
  <2>2. initNext .. Len(mSubHalList) - 1 \subseteq SubHals
    BY <1>1 DEF ListOK, SubHals, Counters
  <2>3. \A i \in SubHals : i \notin initNext .. Len(mSubHalList) - 1 => i < initNext
    BY <1>1 DEF ListOK, SubHals, Counters
  <2>4. Kinds'
    BY <1>1, <1>2, <2>1, <2>2 DEF Modes, InitialMode
  <2>5. Agree'
    BY <1>1, <1>2, <2>1, <2>3
  <2>6. QED
    BY <2>1, <2>4, <2>5
<1>11. QED
  BY <1>4, <1>5, <1>6, <1>7, <1>8, <1>9, <1>10, ModeFrame

-----------------------------------------------------------------------------
(* Dynamic sensors. *)

LEMMA DynamicFrame ==
    ASSUME [Next]_vars
    PROVE  \/ UNCHANGED <<mDynamicSensors, mDynamicSensorsCallback, subDynamic, dynCall, fwDynamic,
                          overlapped, initPc, session>>
           \/ \E i \in SubHals : \/ \E d \in SUBSET (DOMAIN DynamicSensors \ subDynamic[i]) :
                                       onDynamicSensorsConnected(i, d)
                                 \/ \E d \in SUBSET subDynamic[i] : onDynamicSensorsDisconnected(i, d)
                                 \/ notifyDynamicSensors(i)
           \/ disableAllSensors \/ clearDynamicSensors \/ setDynamicSensorsCallback
           \/ initializeSubHal \/ finishInitialize
BY ZenonT(60)
DEF Next, vars, dynVars, initVars, activate, configDirectReport, setOperationMode,
    registerDirectChannel, unregisterDirectChannel, stopAllDirectReports,
    countNumWakeupEvents

\* Two dynamic sensors with one name, or with one handle, are the same.
LEMMA DynamicNames ==
    ASSUME ListOK
    PROVE  /\ \A s, t \in AllDynamic : s.name = t.name \/ s.handle = t.handle => s = t
           /\ \A i, j \in SubHals : i # j => DynamicOf(i) \cap DynamicOf(j) = {}
           /\ \A i \in SubHals : \A s \in DynamicOf(i) : s.name[1] = i
           /\ \A s \in AllDynamic : \E i \in SubHals : s \in DynamicOf(i)
<1>1. \A s \in AllDynamic : \E i \in SubHals : s \in DynamicOf(i)
  BY DEF AllDynamic
<1>2. ASSUME NEW s \in AllDynamic, NEW t \in AllDynamic, s.name = t.name \/ s.handle = t.handle
      PROVE  s = t
  <2>1. PICK i \in SubHals, l \in DOMAIN DynamicSensors \cap Clear : s = DynamicSensor(i, l)
    BY <1>1, DynamicFacts
  <2>2. PICK j \in SubHals, m \in DOMAIN DynamicSensors \cap Clear : t = DynamicSensor(j, m)
    BY <1>1, DynamicFacts
  <2>3. /\ s.name = <<i, l>> /\ extractSubHalIndex(s.handle) = i /\ clearSubHalIndex(s.handle) = l
        /\ t.name = <<j, m>> /\ extractSubHalIndex(t.handle) = j /\ clearSubHalIndex(t.handle) = m
    BY <2>1, <2>2, DynamicFacts
  <2>4. i = j /\ l = m
    BY <1>2, <2>3
  <2>5. QED
    BY <2>1, <2>2, <2>4
<1>3. ASSUME NEW i \in SubHals, NEW s \in DynamicOf(i) PROVE s.name[1] = i
  <2>1. PICK l \in DOMAIN DynamicSensors \cap Clear : s = DynamicSensor(i, l)
    BY DynamicFacts
  <2>2. s.name = <<i, l>>
    BY <2>1, DynamicFacts
  <2>3. QED
    BY <2>2
<1>4. QED
  BY <1>1, <1>2, <1>3

\* A sensor's handle is in the map when the sensor is.
LEMMA MapFacts ==
    ASSUME ListOK, DynamicShape
    PROVE  /\ InMap \subseteq AllDynamic
           /\ \A s \in InMap : s.handle \in DOMAIN mDynamicSensors /\ mDynamicSensors[s.handle] = s
           /\ \A s \in AllDynamic : s.handle \in DOMAIN mDynamicSensors => s \in InMap
<1>1. InMap \subseteq AllDynamic
  BY DEF DynamicShape, InMap
<1>2. \A s \in InMap : s.handle \in DOMAIN mDynamicSensors /\ mDynamicSensors[s.handle] = s
  BY DEF DynamicShape, InMap
<1>3. ASSUME NEW s \in AllDynamic, s.handle \in DOMAIN mDynamicSensors PROVE s \in InMap
  <2>1. /\ mDynamicSensors[s.handle] \in AllDynamic /\ mDynamicSensors[s.handle].handle = s.handle
        /\ mDynamicSensors[s.handle] \in InMap
    BY <1>3 DEF DynamicShape, InMap
  <2>2. QED
    BY <2>1, DynamicNames
<1>4. QED
  BY <1>1, <1>2, <1>3

\* The keys of the map are the handles of its sensors.
MapShape == /\ mDynamicSensors \in [DOMAIN mDynamicSensors -> AllDynamic]
            /\ \A h \in DOMAIN mDynamicSensors : mDynamicSensors[h].handle = h

\* A sub-HAL announces sensors: they are in the map and will be told.
LEMMA ConnectedEffect ==
    ASSUME ListOK, DynamicShape, UNCHANGED mSubHalList,
           NEW i \in SubHals, NEW d \in SUBSET (DOMAIN DynamicSensors \ subDynamic[i]),
           onDynamicSensorsConnected(i, d)
    PROVE  \E new \in SUBSET DynamicOf(i) :
              /\ MapShape' /\ InMap' = InMap \cup new
              /\ dynCall[i] = IdleCall
              /\ dynCall' = [dynCall EXCEPT ![i] = [kind |-> "connected", sensors |-> new]]
              /\ subDynamic' = [subDynamic EXCEPT ![i] = @ \cup d]
              /\ overlapped' = NowOverlapped(i)
              /\ UNCHANGED <<fwDynamic, mDynamicSensorsCallback, session, initPc>>
<1> DEFINE new == {DynamicSensor(i, l) : l \in {a \in d : subHalIndexIsClear(a)}}
           handles == {s.handle : s \in new}
<1>1. new \subseteq DynamicOf(i) /\ new \subseteq AllDynamic
  BY ClearHandles, DynamicFacts DEF DynamicOf
<1>2. /\ mDynamicSensors' =
             [h \in DOMAIN mDynamicSensors \cup handles |->
                   IF \E s \in new : s.handle = h
                   THEN CHOOSE s \in new : s.handle = h ELSE mDynamicSensors[h]]
      /\ dynCall[i] = IdleCall
      /\ dynCall' = [dynCall EXCEPT ![i] = [kind |-> "connected", sensors |-> new]]
      /\ subDynamic' = [subDynamic EXCEPT ![i] = @ \cup d]
      /\ overlapped' = NowOverlapped(i)
      /\ UNCHANGED <<fwDynamic, mDynamicSensorsCallback, session, initPc>>
  BY Zenon DEF onDynamicSensorsConnected, CanAnnounce, initVars
<1> HIDE DEF new
<1>3. DOMAIN mDynamicSensors' = DOMAIN mDynamicSensors \cup handles
  BY <1>2
<1>4. ASSUME NEW s \in new PROVE s.handle \in DOMAIN mDynamicSensors' /\ mDynamicSensors'[s.handle] = s
  <2>1. s.handle \in handles /\ s.handle \in DOMAIN mDynamicSensors'
    BY <1>3
  <2>2. mDynamicSensors'[s.handle] = CHOOSE t \in new : t.handle = s.handle
    BY <1>2, <2>1
  <2>3. \A t \in new : t.handle = s.handle => t = s
    BY <1>1, DynamicNames
  <2>4. QED
    BY <2>1, <2>2, <2>3
<1>5. ASSUME NEW h \in DOMAIN mDynamicSensors, h \notin handles PROVE mDynamicSensors'[h] = mDynamicSensors[h]
  BY <1>2, <1>5
<1>6. MapShape'
  <2>1. AllDynamic' = AllDynamic
    BY ListKept
  <2>2. ASSUME NEW h \in DOMAIN mDynamicSensors'
        PROVE  mDynamicSensors'[h] \in AllDynamic /\ mDynamicSensors'[h].handle = h
    <3>1. CASE h \in handles
      BY <1>1, <1>4, <3>1
    <3>2. CASE h \notin handles
      BY <1>3, <1>5, <3>2 DEF DynamicShape
    <3>3. QED
      BY <3>1, <3>2
  <2>3. mDynamicSensors' = [h \in DOMAIN mDynamicSensors' |-> mDynamicSensors'[h]]
    BY <1>2
  <2>4. mDynamicSensors' \in [DOMAIN mDynamicSensors' -> AllDynamic]
    BY <2>2, <2>3
  <2>5. QED
    BY <2>1, <2>2, <2>4 DEF MapShape
<1>7. InMap' = InMap \cup new
  <2>1. InMap' = {mDynamicSensors'[h] : h \in DOMAIN mDynamicSensors'}
    BY DEF InMap
  <2>2. ASSUME NEW s \in InMap PROVE s \in InMap'
    <3>1. s \in AllDynamic /\ s.handle \in DOMAIN mDynamicSensors /\ mDynamicSensors[s.handle] = s
      BY MapFacts
    <3>2. CASE s.handle \in handles
      BY <1>1, <1>4, <2>1, <3>1, <3>2, DynamicNames
    <3>3. CASE s.handle \notin handles
      BY <1>3, <1>5, <2>1, <3>1, <3>3
    <3>4. QED
      BY <3>2, <3>3
  <2>3. new \subseteq InMap'
    BY <1>4, <2>1
  <2>4. ASSUME NEW s \in InMap' PROVE s \in InMap \cup new
    <3>1. PICK h \in DOMAIN mDynamicSensors' : s = mDynamicSensors'[h]
      BY <2>1
    <3>2. CASE h \in handles
      BY <1>4, <3>1, <3>2
    <3>3. CASE h \notin handles
      BY <1>3, <1>5, <3>1, <3>3 DEF InMap
    <3>4. QED
      BY <3>2, <3>3
  <2>5. QED
    BY <2>2, <2>3, <2>4
<1>8. QED
  BY <1>1, <1>2, <1>6, <1>7, Zenon

\* A sub-HAL takes sensors back: those in the map leave it and will be told.
LEMMA DisconnectedEffect ==
    ASSUME ListOK, DynamicShape, UNCHANGED mSubHalList,
           NEW i \in SubHals, NEW d \in SUBSET subDynamic[i], onDynamicSensorsDisconnected(i, d)
    PROVE  \E old \in SUBSET DynamicOf(i) :
              /\ MapShape' /\ InMap' = InMap \ old
              /\ \A l \in DOMAIN DynamicSensors \cap Clear :
                    DynamicSensor(i, l) \in old <=> l \in d /\ DynamicSensor(i, l) \in InMap
              /\ dynCall[i] = IdleCall
              /\ dynCall' = [dynCall EXCEPT ![i] = [kind |-> "disconnected", sensors |-> old]]
              /\ subDynamic' = [subDynamic EXCEPT ![i] = @ \ d]
              /\ overlapped' = NowOverlapped(i)
              /\ UNCHANGED <<fwDynamic, mDynamicSensorsCallback, session, initPc>>
<1> DEFINE gone == Removed(i, d)
           old == {mDynamicSensors[h] : h \in gone}
<1>1. /\ mDynamicSensors' = [h \in DOMAIN mDynamicSensors \ gone |-> mDynamicSensors[h]]
      /\ dynCall[i] = IdleCall
      /\ dynCall' = [dynCall EXCEPT ![i] = [kind |-> "disconnected", sensors |-> old]]
      /\ subDynamic' = [subDynamic EXCEPT ![i] = @ \ d]
      /\ overlapped' = NowOverlapped(i)
      /\ UNCHANGED <<fwDynamic, mDynamicSensorsCallback, session, initPc>>
  BY Zenon DEF onDynamicSensorsDisconnected, CanAnnounce, initVars
<1>2. d \subseteq DOMAIN DynamicSensors
  BY DEF DynamicShape
<1>3. \A h : h \in gone <=> h \in DOMAIN mDynamicSensors /\ \E l \in d \cap Clear : h = setSubHalIndex(l, i)
  BY ClearHandles DEF Removed
<1> HIDE DEF gone
<1>4. \A l \in DOMAIN DynamicSensors \cap Clear :
          DynamicSensor(i, l) \in old <=> l \in d /\ DynamicSensor(i, l) \in InMap
  <2> SUFFICES ASSUME NEW l \in DOMAIN DynamicSensors \cap Clear
               PROVE  DynamicSensor(i, l) \in old <=> l \in d /\ DynamicSensor(i, l) \in InMap
    OBVIOUS
  <2>1. DynamicSensor(i, l) \in AllDynamic /\ DynamicSensor(i, l).handle = setSubHalIndex(l, i)
    BY DynamicFacts
  <2>2. ASSUME l \in d, DynamicSensor(i, l) \in InMap PROVE DynamicSensor(i, l) \in old
    BY <1>3, <2>1, <2>2, MapFacts
  <2>3. ASSUME DynamicSensor(i, l) \in old PROVE l \in d /\ DynamicSensor(i, l) \in InMap
    <3>1. PICK h \in gone : DynamicSensor(i, l) = mDynamicSensors[h]
      BY <2>3
    <3>2. h \in DOMAIN mDynamicSensors /\ DynamicSensor(i, l) \in InMap
      BY <1>3, <3>1 DEF InMap
    <3>3. h = setSubHalIndex(l, i)
      BY <2>1, <3>1, <3>2 DEF DynamicShape
    <3>4. PICK m \in d \cap Clear : h = setSubHalIndex(m, i)
      BY <1>3
    <3>5. clearSubHalIndex(h) = l /\ clearSubHalIndex(h) = m
      BY <1>2, <3>3, <3>4, DynamicFacts
    <3>6. QED
      BY <3>2, <3>4, <3>5
  <2>4. QED
    BY <2>2, <2>3
<1>5. old \subseteq DynamicOf(i)
  <2> SUFFICES ASSUME NEW s \in old PROVE s \in DynamicOf(i)
    OBVIOUS
  <2>1. PICK h \in gone : s = mDynamicSensors[h]
    OBVIOUS
  <2>2. PICK l \in d \cap Clear : h = setSubHalIndex(l, i)
    BY <1>3
  <2>3. s \in AllDynamic /\ s.handle = h
    BY <1>3, <2>1 DEF DynamicShape
  <2>4. DynamicSensor(i, l) \in DynamicOf(i) /\ DynamicSensor(i, l) \in AllDynamic /\ DynamicSensor(i, l).handle = h
    BY <1>2, <2>2, DynamicFacts
  <2>5. QED
    BY <2>3, <2>4, DynamicNames
<1>6. MapShape'
  <2>1. AllDynamic' = AllDynamic
    BY ListKept
  <2>2. QED
    BY <1>1, <2>1 DEF MapShape, DynamicShape
<1>7. InMap' = InMap \ old
  <2>1. InMap' = {mDynamicSensors[h] : h \in DOMAIN mDynamicSensors \ gone}
    BY <1>1 DEF InMap
  <2>2. InMap = {mDynamicSensors[h] : h \in DOMAIN mDynamicSensors}
    BY DEF InMap
  <2>3. \A h, k \in DOMAIN mDynamicSensors : mDynamicSensors[h] = mDynamicSensors[k] => h = k
    BY DEF DynamicShape
  <2>4. gone \subseteq DOMAIN mDynamicSensors
    BY <1>3
  <2>5. QED
    BY <2>1, <2>2, <2>3, <2>4
<1> HIDE DEF old
<1>8. QED
  BY <1>1, <1>4, <1>5, <1>6, <1>7, Zenon

\* The framework hears of an announcement when the callback is its own.
LEMMA NotifyEffect ==
    ASSUME ListOK, DynamicShape, NEW i \in SubHals, notifyDynamicSensors(i)
    PROVE  /\ dynCall[i] # IdleCall /\ dynCall' = [dynCall EXCEPT ![i] = IdleCall]
           /\ dynCall[i].kind \in {"connected", "disconnected"}
           /\ UNCHANGED <<mDynamicSensors, mDynamicSensorsCallback, subDynamic, overlapped, initPc, session>>
           /\ mDynamicSensorsCallback # session => UNCHANGED <<fwDynamic, requested, fwReporting>>
           /\ dynCall[i].kind = "connected" => UNCHANGED <<requested, fwReporting>>
           /\ mDynamicSensorsCallback = session /\ dynCall[i].kind = "connected" =>
                  fwDynamic' = fwDynamic \cup dynCall[i].sensors
           /\ mDynamicSensorsCallback = session /\ dynCall[i].kind = "disconnected" =>
                  /\ fwDynamic' = fwDynamic \ dynCall[i].sensors
                  /\ requested' = requested \ {s.name : s \in dynCall[i].sensors}
                  /\ fwReporting' = fwReporting \ {s.name : s \in dynCall[i].sensors}
<1> DEFINE heard == IF mDynamicSensorsCallback = session THEN dynCall[i].sensors ELSE {}
           gone == {s.name : s \in IF dynCall[i].kind = "disconnected" THEN heard ELSE {}}
<1>1. /\ dynCall[i] # IdleCall /\ dynCall' = [dynCall EXCEPT ![i] = IdleCall]
      /\ UNCHANGED <<mDynamicSensors, mDynamicSensorsCallback, subDynamic, overlapped, initPc, session>>
      /\ fwDynamic' = IF dynCall[i].kind = "connected" THEN fwDynamic \cup heard
                      ELSE {s \in fwDynamic : s.name \notin gone}
      /\ requested' = requested \ gone
      /\ fwReporting' = fwReporting \ gone
  BY Zenon DEF notifyDynamicSensors, initVars
<1>2. dynCall[i].kind \in {"connected", "disconnected"}
  BY <1>1 DEF DynamicShape
<1>3. CASE dynCall[i].kind = "connected"
  <2>1. gone = {}
    BY <1>3
  <2>2. QED
    BY <1>1, <1>2, <1>3, <2>1
<1>4. CASE dynCall[i].kind = "disconnected" /\ mDynamicSensorsCallback # session
  <2>1. gone = {}
    BY <1>4
  <2>2. QED
    BY <1>1, <1>2, <1>4, <2>1
<1>5. CASE dynCall[i].kind = "disconnected" /\ mDynamicSensorsCallback = session
  <2>1. gone = {s.name : s \in dynCall[i].sensors}
    BY <1>5
  <2>2. dynCall[i].sensors \subseteq AllDynamic /\ fwDynamic \subseteq AllDynamic
    BY DynamicFacts DEF DynamicShape
  <2>3. {s \in fwDynamic : s.name \notin gone} = fwDynamic \ dynCall[i].sensors
    BY <2>1, <2>2, DynamicNames
  <2>4. QED
    BY <1>1, <1>2, <1>5, <2>1, <2>3
<1>6. QED
  BY <1>2, <1>3, <1>4, <1>5

LEMMA ShapeStep == IInv /\ [Next]_vars => DynamicShape'
<1> SUFFICES ASSUME IInv, [Next]_vars PROVE DynamicShape'
  OBVIOUS
<1>1. /\ ListOK /\ DynamicShape /\ Counters /\ UNCHANGED mSubHalList
      /\ SubHals' = SubHals /\ AllDynamic' = AllDynamic
      /\ \A i : DynamicOf(i)' = DynamicOf(i)
  BY ListFrame, ListKept DEF IInv, DynamicOf
<1>2. MapShape
  BY <1>1 DEF DynamicShape, MapShape
<1> DEFINE Sets == /\ fwDynamic \subseteq AllDynamic
                   /\ subDynamic \in [SubHals -> SUBSET DOMAIN DynamicSensors]
                   /\ overlapped \subseteq SubHals
           Calls == dynCall \in [SubHals -> [kind : {"none", "connected", "disconnected"},
                                             sensors : SUBSET AllDynamic]]
           CallOK(i) == /\ dynCall[i].sensors \subseteq DynamicOf(i)
                        /\ \/ dynCall[i] = IdleCall
                           \/ dynCall[i].kind \in {"connected", "disconnected"}
                        /\ dynCall[i].kind = "disconnected" =>
                              \A l \in subDynamic[i] : DynamicSensor(i, l) \notin dynCall[i].sensors
<1>3. Sets /\ Calls /\ \A i \in SubHals : CallOK(i)
  BY <1>1 DEF DynamicShape
<1>4. SUFFICES MapShape' /\ Sets' /\ Calls' /\ \A i \in SubHals : CallOK(i)'
  BY <1>1 DEF DynamicShape, MapShape
<1>5. CASE UNCHANGED <<mDynamicSensors, mDynamicSensorsCallback, subDynamic, dynCall, fwDynamic,
                       overlapped, initPc, session>>
  BY <1>1, <1>2, <1>3, <1>5 DEF MapShape
<1>6. ASSUME NEW i \in SubHals, NEW d \in SUBSET (DOMAIN DynamicSensors \ subDynamic[i]),
             onDynamicSensorsConnected(i, d)
      PROVE  MapShape' /\ Sets' /\ Calls' /\ \A j \in SubHals : CallOK(j)'
  <2>1. PICK new \in SUBSET DynamicOf(i) :
              /\ MapShape' /\ InMap' = InMap \cup new
              /\ dynCall[i] = IdleCall
              /\ dynCall' = [dynCall EXCEPT ![i] = [kind |-> "connected", sensors |-> new]]
              /\ subDynamic' = [subDynamic EXCEPT ![i] = @ \cup d]
              /\ overlapped' = NowOverlapped(i)
              /\ UNCHANGED <<fwDynamic, mDynamicSensorsCallback, session, initPc>>
    BY <1>1, <1>6, ConnectedEffect
  <2>2. Sets'
    BY <1>1, <1>3, <2>1 DEF NowOverlapped
  <2>3. new \subseteq AllDynamic
    BY <1>1, DynamicFacts
  <2>4. Calls'
    BY <1>1, <1>3, <2>1, <2>3
  <2>5. ASSUME NEW j \in SubHals PROVE CallOK(j)'
    <3>1. CASE j = i
      BY <1>1, <1>3, <2>1, <3>1
    <3>2. CASE j # i
      <4>1. dynCall'[j] = dynCall[j] /\ subDynamic'[j] = subDynamic[j]
        BY <1>3, <2>1, <3>2
      <4>2. QED
        BY <1>1, <1>3, <4>1
    <3>3. QED
      BY <3>1, <3>2
  <2>6. QED
    BY <2>1, <2>2, <2>4, <2>5
<1>7. ASSUME NEW i \in SubHals, NEW d \in SUBSET subDynamic[i], onDynamicSensorsDisconnected(i, d)
      PROVE  MapShape' /\ Sets' /\ Calls' /\ \A j \in SubHals : CallOK(j)'
  <2>1. PICK old \in SUBSET DynamicOf(i) :
              /\ MapShape' /\ InMap' = InMap \ old
              /\ \A l \in DOMAIN DynamicSensors \cap Clear :
                    DynamicSensor(i, l) \in old <=> l \in d /\ DynamicSensor(i, l) \in InMap
              /\ dynCall[i] = IdleCall
              /\ dynCall' = [dynCall EXCEPT ![i] = [kind |-> "disconnected", sensors |-> old]]
              /\ subDynamic' = [subDynamic EXCEPT ![i] = @ \ d]
              /\ overlapped' = NowOverlapped(i)
              /\ UNCHANGED <<fwDynamic, mDynamicSensorsCallback, session, initPc>>
    BY <1>1, <1>7, DisconnectedEffect
  <2>2. Sets'
    BY <1>1, <1>3, <2>1 DEF NowOverlapped
  <2>3. old \subseteq AllDynamic
    BY <1>1, DynamicFacts
  <2>4. Calls'
    BY <1>1, <1>3, <2>1, <2>3
  <2>5. ASSUME NEW j \in SubHals PROVE CallOK(j)'
    <3>1. CASE j = i
      <4>1. subDynamic'[i] = subDynamic[i] \ d /\ dynCall'[i] = [kind |-> "disconnected", sensors |-> old]
        BY <1>3, <2>1
      <4>2. ASSUME NEW l \in subDynamic[i] \ d, DynamicSensor(i, l) \in old PROVE FALSE
        <5>1. PICK m \in DOMAIN DynamicSensors \cap Clear : DynamicSensor(i, l) = DynamicSensor(i, m)
          BY <1>1, <4>2, DynamicFacts
        <5>2. l = m
          BY <5>1 DEF DynamicSensor
        <5>3. QED
          BY <2>1, <4>2, <5>1, <5>2
      <4>3. QED
        BY <1>1, <3>1, <4>1, <4>2
    <3>2. CASE j # i
      <4>1. dynCall'[j] = dynCall[j] /\ subDynamic'[j] = subDynamic[j]
        BY <1>3, <2>1, <3>2
      <4>2. QED
        BY <1>1, <1>3, <4>1
    <3>3. QED
      BY <3>1, <3>2
  <2>6. QED
    BY <2>1, <2>2, <2>4, <2>5
<1>8. ASSUME NEW i \in SubHals, notifyDynamicSensors(i)
      PROVE  MapShape' /\ Sets' /\ Calls' /\ \A j \in SubHals : CallOK(j)'
  <2>1. /\ dynCall' = [dynCall EXCEPT ![i] = IdleCall]
        /\ UNCHANGED <<mDynamicSensors, subDynamic, overlapped>>
        /\ fwDynamic' \subseteq fwDynamic \cup dynCall[i].sensors
    <3>1. fwDynamic' = fwDynamic \/ fwDynamic' = fwDynamic \cup dynCall[i].sensors
            \/ fwDynamic' = fwDynamic \ dynCall[i].sensors
      BY <1>1, <1>8, NotifyEffect
    <3>2. QED
      BY <1>1, <1>8, <3>1, NotifyEffect
  <2>2. dynCall[i].sensors \subseteq AllDynamic
    BY <1>1, <1>3, DynamicFacts
  <2>3. MapShape' /\ Sets'
    BY <1>1, <1>2, <1>3, <2>1, <2>2 DEF MapShape
  <2>4. Calls'
    BY <1>1, <1>3, <2>1 DEF IdleCall
  <2>5. ASSUME NEW j \in SubHals PROVE CallOK(j)'
    <3>1. CASE j = i
      BY <1>1, <1>3, <2>1, <3>1 DEF IdleCall
    <3>2. CASE j # i
      <4>1. dynCall'[j] = dynCall[j] /\ subDynamic'[j] = subDynamic[j]
        BY <1>3, <2>1, <3>2
      <4>2. QED
        BY <1>1, <1>3, <4>1
    <3>3. QED
      BY <3>1, <3>2
  <2>6. QED
    BY <2>3, <2>4, <2>5
<1>9. CASE disableAllSensors
  <2>1. /\ UNCHANGED <<mDynamicSensors, subDynamic, dynCall, overlapped>> /\ fwDynamic' = {}
    BY <1>9, Zenon DEF disableAllSensors
  <2>2. QED
    BY <1>1, <1>2, <1>3, <2>1 DEF MapShape
<1>10. CASE clearDynamicSensors
  <2>1. /\ mDynamicSensors' = NoSensors /\ overlapped' = {i \in SubHals : dynCall[i] # IdleCall}
        /\ UNCHANGED <<subDynamic, dynCall, fwDynamic>>
    BY <1>10, Zenon DEF clearDynamicSensors, Cleared
  <2>2. MapShape'
    BY <2>1 DEF MapShape, NoSensors
  <2>3. QED
    BY <1>1, <1>3, <2>1, <2>2
<1>11. CASE setDynamicSensorsCallback
  <2>1. UNCHANGED <<mDynamicSensors, subDynamic, dynCall, fwDynamic, overlapped>>
    BY <1>11, Zenon DEF setDynamicSensorsCallback
  <2>2. QED
    BY <1>1, <1>2, <1>3, <2>1 DEF MapShape
<1>12. CASE initializeSubHal
  <2>1. /\ UNCHANGED <<mDynamicSensors, dynCall, fwDynamic, overlapped>>
        /\ initNext \in SubHals /\ subDynamic' = [subDynamic EXCEPT ![initNext] = {}]
    BY <1>12, Zenon DEF initializeSubHal
  <2>2. \A j \in SubHals : subDynamic'[j] \subseteq subDynamic[j]
    BY <1>3, <2>1
  <2>3. MapShape' /\ Sets' /\ Calls'
    BY <1>1, <1>2, <1>3, <2>1 DEF MapShape
  <2>4. QED
    BY <1>1, <1>3, <2>1, <2>2, <2>3
<1>13. CASE finishInitialize
  <2>1. UNCHANGED <<mDynamicSensors, subDynamic, dynCall, fwDynamic, overlapped>>
    BY <1>13, Zenon DEF finishInitialize, dynVars
  <2>2. QED
    BY <1>1, <1>2, <1>3, <2>1 DEF MapShape
<1>14. QED
  BY <1>5, <1>6, <1>7, <1>8, <1>9, <1>10, <1>11, <1>12, <1>13, DynamicFrame

LEMMA PhasesStep == IInv /\ [Next]_vars => Phases'
<1> SUFFICES ASSUME IInv, [Next]_vars PROVE Phases'
  OBVIOUS
<1>1. /\ ListOK /\ DynamicShape /\ Counters /\ Phases /\ UNCHANGED mSubHalList
  BY ListFrame DEF IInv
<1>2. CASE UNCHANGED <<mDynamicSensors, mDynamicSensorsCallback, subDynamic, dynCall, fwDynamic,
                       overlapped, initPc, session>>
  BY <1>1, <1>2 DEF Phases
<1>3. ASSUME NEW i \in SubHals, NEW d \in SUBSET (DOMAIN DynamicSensors \ subDynamic[i]),
             onDynamicSensorsConnected(i, d)
      PROVE  Phases'
  <2>1. UNCHANGED <<fwDynamic, mDynamicSensorsCallback, session, initPc>>
    BY <1>3, Zenon DEF onDynamicSensorsConnected, initVars
  <2>2. QED
    BY <1>1, <2>1 DEF Phases
<1>4. ASSUME NEW i \in SubHals, NEW d \in SUBSET subDynamic[i], onDynamicSensorsDisconnected(i, d)
      PROVE  Phases'
  <2>1. UNCHANGED <<fwDynamic, mDynamicSensorsCallback, session, initPc>>
    BY <1>4, Zenon DEF onDynamicSensorsDisconnected, initVars
  <2>2. QED
    BY <1>1, <2>1 DEF Phases
<1>5. ASSUME NEW i \in SubHals, notifyDynamicSensors(i) PROVE Phases'
  BY <1>1, <1>5, NotifyEffect DEF Phases
<1>6. CASE disableAllSensors
  <2>1. /\ initPc' = "clear" /\ session' = session + 1 /\ fwDynamic' = {}
        /\ UNCHANGED mDynamicSensorsCallback
    BY <1>6, Zenon DEF disableAllSensors
  <2>2. mDynamicSensorsCallback' # session'
    BY <1>1, <2>1, RoutingAssumption DEF Counters
  <2>3. QED
    BY <2>1, <2>2 DEF Phases
<1>7. CASE clearDynamicSensors
  BY <1>1, <1>7 DEF Phases, clearDynamicSensors
<1>8. CASE setDynamicSensorsCallback
  BY <1>1, <1>8 DEF Phases, setDynamicSensorsCallback
<1>9. CASE initializeSubHal
  <2>1. UNCHANGED <<fwDynamic, mDynamicSensorsCallback, session, initPc>>
    BY <1>9, Zenon DEF initializeSubHal
  <2>2. QED
    BY <1>1, <2>1 DEF Phases
<1>10. CASE finishInitialize
  <2>1. /\ initPc = "subHals" /\ initPc' = "idle"
        /\ UNCHANGED <<fwDynamic, mDynamicSensorsCallback, session>>
    BY <1>10, Zenon DEF finishInitialize, dynVars
  <2>2. QED
    BY <1>1, <2>1 DEF Phases
<1>11. QED
  BY <1>2, <1>3, <1>4, <1>5, <1>6, <1>7, <1>8, <1>9, <1>10, DynamicFrame

\* What a sub-HAL's view depends on.
LEMMA SameView ==
    ASSUME NEW j, UNCHANGED fwDynamic, dynCall'[j] = dynCall[j], DynamicOf(j)' = DynamicOf(j),
           InMap' \cap DynamicOf(j) = InMap \cap DynamicOf(j), ViewOf(j)
    PROVE  ViewOf(j)'
BY DEF ViewOf

LEMMA ViewsStep == IInv /\ [Next]_vars => Views'
<1> SUFFICES ASSUME IInv, [Next]_vars PROVE Views'
  OBVIOUS
<1>1. /\ ListOK /\ DynamicShape /\ Counters /\ Phases /\ Views /\ UNCHANGED mSubHalList
      /\ SubHals' = SubHals /\ \A i : DynamicOf(i)' = DynamicOf(i)
  BY ListFrame, ListKept DEF IInv, DynamicOf
<1>2. IdleCall.kind = "none" /\ IdleCall.sensors = {}
  BY DEF IdleCall
<1>3. \A j \in SubHals \ overlapped : /\ initPc # "clear" => ViewOf(j)
                                      /\ initPc = "callback" => dynCall[j] = IdleCall
  BY <1>1 DEF Views
<1>4. CASE UNCHANGED <<mDynamicSensors, mDynamicSensorsCallback, subDynamic, dynCall, fwDynamic,
                       overlapped, initPc, session>>
  <2>1. InMap' = InMap
    BY <1>4 DEF InMap
  <2>2. QED
    BY <1>1, <1>3, <1>4, <2>1, SameView DEF Views
<1>5. ASSUME NEW i \in SubHals, NEW d \in SUBSET (DOMAIN DynamicSensors \ subDynamic[i]),
             onDynamicSensorsConnected(i, d)
      PROVE  Views'
  <2>1. PICK new \in SUBSET DynamicOf(i) :
              /\ MapShape' /\ InMap' = InMap \cup new
              /\ dynCall[i] = IdleCall
              /\ dynCall' = [dynCall EXCEPT ![i] = [kind |-> "connected", sensors |-> new]]
              /\ subDynamic' = [subDynamic EXCEPT ![i] = @ \cup d]
              /\ overlapped' = NowOverlapped(i)
              /\ UNCHANGED <<fwDynamic, mDynamicSensorsCallback, session, initPc>>
    BY <1>1, <1>5, ConnectedEffect
  <2>2. ASSUME NEW j \in SubHals, j \notin overlapped'
        PROVE  (initPc # "clear" => ViewOf(j)') /\ (initPc = "callback" => dynCall'[j] = IdleCall)
    <3>1. j \notin overlapped /\ (j = i => initPc # "callback")
      BY <2>1, <2>2 DEF NowOverlapped
    <3>2. CASE j = i
      <4>1. dynCall'[i] = [kind |-> "connected", sensors |-> new] /\ dynCall'[i] # IdleCall
        BY <1>1, <1>2, <2>1 DEF DynamicShape
      <4>2. ASSUME initPc # "clear" PROVE ViewOf(i)'
        <5>1. InMap \cap DynamicOf(i) = fwDynamic \cap DynamicOf(i)
          BY <1>3, <2>1, <3>1, <3>2, <4>2 DEF ViewOf
        <5>2. InMap' \cap DynamicOf(i) = (fwDynamic \cap DynamicOf(i)) \cup new
          BY <2>1, <5>1
        <5>3. QED
          BY <1>1, <2>1, <4>1, <5>2 DEF ViewOf
      <4>3. QED
        BY <3>1, <3>2, <4>2
    <3>3. CASE j # i
      <4>1. dynCall'[j] = dynCall[j]
        BY <1>1, <2>1, <3>3 DEF DynamicShape
      <4>2. InMap' \cap DynamicOf(j) = InMap \cap DynamicOf(j)
        BY <1>1, <2>1, <3>3, DynamicNames
      <4>3. QED
        BY <1>1, <1>3, <2>1, <3>1, <4>1, <4>2, SameView
    <3>4. QED
      BY <3>2, <3>3
  <2>3. QED
    BY <1>1, <2>1, <2>2 DEF Views
<1>6. ASSUME NEW i \in SubHals, NEW d \in SUBSET subDynamic[i], onDynamicSensorsDisconnected(i, d)
      PROVE  Views'
  <2>1. PICK old \in SUBSET DynamicOf(i) :
              /\ MapShape' /\ InMap' = InMap \ old
              /\ \A l \in DOMAIN DynamicSensors \cap Clear :
                    DynamicSensor(i, l) \in old <=> l \in d /\ DynamicSensor(i, l) \in InMap
              /\ dynCall[i] = IdleCall
              /\ dynCall' = [dynCall EXCEPT ![i] = [kind |-> "disconnected", sensors |-> old]]
              /\ subDynamic' = [subDynamic EXCEPT ![i] = @ \ d]
              /\ overlapped' = NowOverlapped(i)
              /\ UNCHANGED <<fwDynamic, mDynamicSensorsCallback, session, initPc>>
    BY <1>1, <1>6, DisconnectedEffect
  <2>2. ASSUME NEW j \in SubHals, j \notin overlapped'
        PROVE  (initPc # "clear" => ViewOf(j)') /\ (initPc = "callback" => dynCall'[j] = IdleCall)
    <3>1. j \notin overlapped /\ (j = i => initPc # "callback")
      BY <2>1, <2>2 DEF NowOverlapped
    <3>2. CASE j = i
      <4>1. dynCall'[i] = [kind |-> "disconnected", sensors |-> old] /\ dynCall'[i] # IdleCall
        BY <1>1, <1>2, <2>1 DEF DynamicShape
      <4>2. ASSUME initPc # "clear" PROVE ViewOf(i)'
        <5>1. InMap \cap DynamicOf(i) = fwDynamic \cap DynamicOf(i)
          BY <1>3, <2>1, <3>1, <3>2, <4>2 DEF ViewOf
        <5>2. InMap' \cap DynamicOf(i) = (fwDynamic \cap DynamicOf(i)) \ old
          BY <2>1, <5>1
        <5>3. QED
          BY <1>1, <2>1, <4>1, <5>2 DEF ViewOf
      <4>3. QED
        BY <3>1, <3>2, <4>2
    <3>3. CASE j # i
      <4>1. dynCall'[j] = dynCall[j]
        BY <1>1, <2>1, <3>3 DEF DynamicShape
      <4>2. InMap' \cap DynamicOf(j) = InMap \cap DynamicOf(j)
        BY <1>1, <2>1, <3>3, DynamicNames
      <4>3. QED
        BY <1>1, <1>3, <2>1, <3>1, <4>1, <4>2, SameView
    <3>4. QED
      BY <3>2, <3>3
  <2>3. QED
    BY <1>1, <2>1, <2>2 DEF Views
<1>7. ASSUME NEW i \in SubHals, notifyDynamicSensors(i) PROVE Views'
  <2>1. /\ dynCall[i] # IdleCall /\ dynCall' = [dynCall EXCEPT ![i] = IdleCall]
        /\ dynCall[i].kind \in {"connected", "disconnected"}
        /\ dynCall[i].sensors \subseteq DynamicOf(i)
        /\ UNCHANGED <<mDynamicSensors, overlapped, initPc>> /\ InMap' = InMap
    BY <1>1, <1>7, NotifyEffect DEF DynamicShape, InMap
  <2>2. ASSUME NEW j \in SubHals, j \notin overlapped
        PROVE  (initPc # "clear" => ViewOf(j)') /\ (initPc = "callback" => dynCall'[j] = IdleCall)
    <3>1. CASE j = i
      <4>1. initPc # "callback" /\ dynCall'[i] = IdleCall
        BY <1>1, <1>3, <2>1, <2>2, <3>1 DEF DynamicShape
      <4>2. ASSUME initPc # "clear" PROVE ViewOf(i)'
        <5>1. initPc \in {"idle", "subHals"} /\ mDynamicSensorsCallback = session
          BY <1>1, <4>1, <4>2 DEF Counters, Phases
        <5>2. InMap \cap DynamicOf(i) = fwDynamic' \cap DynamicOf(i)
          <6>1. CASE dynCall[i].kind = "connected"
            <7>1. fwDynamic' = fwDynamic \cup dynCall[i].sensors
              BY <1>1, <1>7, <5>1, <6>1, NotifyEffect
            <7>2. InMap \cap DynamicOf(i) = (fwDynamic \cap DynamicOf(i)) \cup dynCall[i].sensors
              BY <1>3, <2>2, <3>1, <4>2, <6>1 DEF ViewOf
            <7>3. QED
              BY <2>1, <7>1, <7>2
          <6>2. CASE dynCall[i].kind = "disconnected"
            <7>1. fwDynamic' = fwDynamic \ dynCall[i].sensors
              BY <1>1, <1>7, <5>1, <6>2, NotifyEffect
            <7>2. InMap \cap DynamicOf(i) = (fwDynamic \cap DynamicOf(i)) \ dynCall[i].sensors
              BY <1>3, <2>2, <3>1, <4>2, <6>2 DEF ViewOf
            <7>3. QED
              BY <2>1, <7>1, <7>2
          <6>3. QED
            BY <2>1, <6>1, <6>2
        <5>3. QED
          BY <1>1, <1>2, <2>1, <4>1, <5>2 DEF ViewOf
      <4>3. QED
        BY <3>1, <4>1, <4>2
    <3>2. CASE j # i
      <4>1. dynCall'[j] = dynCall[j]
        BY <1>1, <2>1, <3>2 DEF DynamicShape
      <4>2. \/ fwDynamic' = fwDynamic
            \/ fwDynamic' = fwDynamic \cup dynCall[i].sensors
            \/ fwDynamic' = fwDynamic \ dynCall[i].sensors
        BY <1>1, <1>7, NotifyEffect
      <4>3. dynCall[i].sensors \cap DynamicOf(j) = {}
        BY <1>1, <2>1, <3>2, DynamicNames
      <4>4. fwDynamic' \cap DynamicOf(j) = fwDynamic \cap DynamicOf(j)
        BY <4>2, <4>3
      <4>5. QED
        BY <1>1, <1>3, <2>1, <2>2, <4>1, <4>4 DEF ViewOf
    <3>3. QED
      BY <3>1, <3>2
  <2>3. QED
    BY <1>1, <2>1, <2>2 DEF Views
<1>8. CASE disableAllSensors
  <2>1. initPc' = "clear"
    BY <1>8, Zenon DEF disableAllSensors
  <2>2. QED
    BY <2>1 DEF Views
<1>9. CASE clearDynamicSensors
  <2>1. /\ initPc = "clear" /\ initPc' = "callback" /\ mDynamicSensors' = NoSensors
        /\ overlapped' = {i \in SubHals : dynCall[i] # IdleCall}
        /\ UNCHANGED <<dynCall, fwDynamic>>
    BY <1>9, Zenon DEF clearDynamicSensors, Cleared
  <2>2. InMap' = {} /\ fwDynamic' = {}
    BY <1>1, <2>1 DEF InMap, NoSensors, Phases
  <2>3. ASSUME NEW j \in SubHals, j \notin overlapped' PROVE dynCall'[j] = IdleCall /\ ViewOf(j)'
    <3>1. dynCall'[j] = IdleCall
      BY <2>1, <2>3
    <3>2. QED
      BY <1>2, <2>2, <3>1 DEF ViewOf
  <2>4. QED
    BY <1>1, <2>3 DEF Views
<1>10. CASE setDynamicSensorsCallback
  <2>1. /\ initPc = "callback" /\ initPc' = "subHals"
        /\ UNCHANGED <<mDynamicSensors, dynCall, fwDynamic, overlapped>>
    BY <1>10, Zenon DEF setDynamicSensorsCallback
  <2>2. InMap' = InMap
    BY <2>1 DEF InMap
  <2>3. QED
    BY <1>1, <1>3, <2>1, <2>2, SameView DEF Views
<1>11. CASE initializeSubHal
  <2>1. UNCHANGED <<mDynamicSensors, dynCall, fwDynamic, overlapped, initPc>>
    BY <1>11, Zenon DEF initializeSubHal
  <2>2. InMap' = InMap
    BY <2>1 DEF InMap
  <2>3. QED
    BY <1>1, <1>3, <2>1, <2>2, SameView DEF Views
<1>12. CASE finishInitialize
  <2>1. /\ initPc = "subHals" /\ initPc' = "idle"
        /\ UNCHANGED <<mDynamicSensors, dynCall, fwDynamic, overlapped>>
    BY <1>12, Zenon DEF finishInitialize, dynVars
  <2>2. InMap' = InMap
    BY <2>1 DEF InMap
  <2>3. QED
    BY <1>1, <1>3, <2>1, <2>2, SameView DEF Views
<1>13. QED
  BY <1>4, <1>5, <1>6, <1>7, <1>8, <1>9, <1>10, <1>11, <1>12, DynamicFrame

-----------------------------------------------------------------------------
(* Enabled sensors. *)

LEMMA RequestFrame ==
    ASSUME [Next]_vars
    PROVE  \/ UNCHANGED <<subActive, requested, stuck, subDynamic, overlapped, dynCall, initPc, fwDynamic>>
           \/ \E s \in Published, b \in BOOLEAN : activate(s, b)
           \/ \E i \in SubHals : \/ \E d \in SUBSET (DOMAIN DynamicSensors \ subDynamic[i]) :
                                       onDynamicSensorsConnected(i, d)
                                 \/ \E d \in SUBSET subDynamic[i] : onDynamicSensorsDisconnected(i, d)
                                 \/ notifyDynamicSensors(i)
           \/ disableAllSensors \/ clearDynamicSensors \/ setDynamicSensorsCallback
           \/ initializeSubHal \/ finishInitialize
BY ZenonT(60)
DEF Next, vars, dynVars, initVars, activeVars, configDirectReport, setOperationMode,
    registerDirectChannel, unregisterDirectChannel, stopAllDirectReports,
    countNumWakeupEvents

\* Nothing is ever taken out of mSensors.
LEMMA SensorsGrow ==
    ASSUME [Next]_vars
    PROVE  DOMAIN mSensors \subseteq DOMAIN mSensors'
<1>1. ASSUME NEW i \in SubHals, NEW l \in subActive[i], countNumWakeupEvents(i, l)
      PROVE  DOMAIN mSensors \subseteq DOMAIN mSensors'
  BY <1>1 DEF countNumWakeupEvents
<1>2. QED
  BY <1>1, SensorFrame

\* What the steps below use of the invariant and of what never changes.
LEMMA Common ==
    ASSUME IInv, [Next]_vars
    PROVE  /\ Counters /\ ListOK /\ SensorShape /\ DynamicShape /\ Phases /\ Views
           /\ ActiveKnown /\ Requests
           /\ UNCHANGED <<mSubHalList, mDirectChannelSubHal>> /\ SubHals' = SubHals
           /\ \A i : DynamicOf(i)' = DynamicOf(i) /\ Static(i)' = Static(i)
           /\ DOMAIN mSensors \subseteq DOMAIN mSensors'
           /\ \A i \in SubHals : /\ Known(i) \subseteq Nat /\ i \in Nat
                                 /\ Static(i) \cap DOMAIN DynamicSensors = {}
                                 /\ subDynamic[i] \subseteq DOMAIN DynamicSensors
           /\ DOMAIN DynamicSensors \subseteq Nat
<1>1. /\ Counters /\ ListOK /\ SensorShape /\ DynamicShape /\ Phases /\ Views
      /\ ActiveKnown /\ Requests
  BY DEF IInv
<1>2. /\ UNCHANGED <<mSubHalList, mDirectChannelSubHal>> /\ SubHals' = SubHals
      /\ \A i : Static(i)' = Static(i)
      /\ DOMAIN mSensors \subseteq DOMAIN mSensors'
  BY ListFrame, ListKept, SensorsGrow
<1>3. \A i : DynamicOf(i)' = DynamicOf(i)
  BY DEF DynamicOf
<1>4. DOMAIN DynamicSensors \subseteq Nat
  BY RoutingAssumption
<1>5. \A i \in SubHals : /\ Known(i) \subseteq Nat /\ i \in Nat
                         /\ Static(i) \cap DOMAIN DynamicSensors = {}
                         /\ subDynamic[i] \subseteq DOMAIN DynamicSensors
  BY <1>1, <1>4, Indices DEF ListOK, DynamicShape, Known
<1>6. QED
  BY <1>1, <1>2, <1>3, <1>4, <1>5

\* A sub-HAL's part of the invariant when a step does not concern it.
LEMMA SameRequests ==
    ASSUME NEW j, Known(j) \subseteq Nat, Static(j)' = Static(j), DOMAIN mSensors \subseteq DOMAIN mSensors',
           subActive'[j] = subActive[j], subDynamic'[j] = subDynamic[j], dynCall'[j] = dynCall[j],
           \A l \in Nat : <<j, l>> \in requested' <=> <<j, l>> \in requested,
           \A l \in Nat : <<j, l>> \in stuck' <=> <<j, l>> \in stuck,
           \A s \in DynamicOf(j) : s \in fwDynamic => s \in fwDynamic',
           Enabled(j), Asked(j)
    PROVE  Enabled(j)' /\ Asked(j)'
<1>1. Known(j)' = Known(j)
  BY DEF Known
<1>2. Enabled(j)'
  BY <1>1 DEF Enabled
<1>3. \A l \in DOMAIN DynamicSensors \cap Clear : DynamicSensor(j, l) \in DynamicOf(j)
  BY DEF DynamicOf
<1>4. Asked(j)'
  BY <1>3 DEF Asked
<1>5. QED
  BY <1>2, <1>4

\* Where a published sensor comes from, and where calls on its handle go.
LEMMA PublishedFacts ==
    ASSUME ListOK, SensorShape, DynamicShape, NEW s \in Published, s # DefaultSensor
    PROVE  \E i \in SubHals, l \in Clear :
              /\ s.name = <<i, l>>
              /\ extractSubHalIndex(s.handle) = i /\ clearSubHalIndex(s.handle) = l
              /\ \/ /\ l \in Static(i) /\ setSubHalIndex(l, i) \in DOMAIN mSensors
                    /\ s.direct => i = mDirectChannelSubHal
                 \/ l \in DOMAIN DynamicSensors /\ s = DynamicSensor(i, l) /\ s \in fwDynamic
<1>1. CASE s \in fwDynamic
  <2>1. PICK i \in SubHals, l \in DOMAIN DynamicSensors \cap Clear : s = DynamicSensor(i, l)
    BY <1>1, DynamicFacts, DynamicNames DEF DynamicShape
  <2>2. /\ s.name = <<i, l>>
        /\ extractSubHalIndex(s.handle) = i /\ clearSubHalIndex(s.handle) = l
    BY <2>1, DynamicFacts
  <2>3. QED
    BY <1>1, <2>1, <2>2
<1>2. CASE s \notin fwDynamic
  <2>1. PICK h \in DOMAIN mSensors : s = mSensors[h]
    BY <1>2 DEF Published
  <2>2. h \in Nat
    BY DEF SensorShape
  <2>3. /\ extractSubHalIndex(h) \in SubHals
        /\ clearSubHalIndex(h) \in Static(extractSubHalIndex(h))
        /\ s.name = <<extractSubHalIndex(h), clearSubHalIndex(h)>> /\ s.handle = h
        /\ s.direct => extractSubHalIndex(h) = mDirectChannelSubHal
    BY <2>1, Zenon DEF SensorShape
  <2>4. clearSubHalIndex(h) \in Clear /\ h = setSubHalIndex(clearSubHalIndex(h), extractSubHalIndex(h))
    BY <2>2, Handles
  <2>5. QED
    BY <2>3, <2>4
<1>3. QED
  BY <1>1, <1>2

\* An empty entry has the handle of sensor 0 of the first sub-HAL.
LEMMA EmptyEntry ==
    /\ extractSubHalIndex(DefaultSensor.handle) = 0 /\ clearSubHalIndex(DefaultSensor.handle) = 0
    /\ DefaultSensor.direct = FALSE /\ 0 \in Clear /\ setSubHalIndex(0, 0) = 0
<1>1. 0 \in Clear /\ setSubHalIndex(0, 0) = 0
  BY ClearHandles, SMT DEF setSubHalIndex
<1>2. extractSubHalIndex(0) = 0 /\ clearSubHalIndex(0) = 0
  BY <1>1, Handles
<1>3. QED
  BY <1>1, <1>2 DEF DefaultSensor

LEMMA ActivateRequests ==
    ASSUME IInv, [Next]_vars, NEW s \in Published, NEW b \in BOOLEAN, activate(s, b)
    PROVE  ActiveKnown' /\ Requests'
<1>1. PICK i \in SubHals, l \in Clear :
              /\ Meant(s) = <<i, l>>
              /\ extractSubHalIndex(s.handle) = i /\ clearSubHalIndex(s.handle) = l
              /\ \/ l \in Static(i) /\ setSubHalIndex(l, i) \in DOMAIN mSensors
                 \/ l \in DOMAIN DynamicSensors /\ s = DynamicSensor(i, l) /\ s \in fwDynamic
                 \/ <<i, l>> = <<0, 0>>
  <2>1. CASE s = DefaultSensor
    <3>1. 0 \in SubHals
      BY <2>1, EmptyEntry DEF activate, isSubHalIndexValid
    <3>2. QED
      BY <2>1, <3>1, EmptyEntry DEF Meant
  <2>2. CASE s # DefaultSensor
    BY <2>2, PublishedFacts DEF IInv, Meant
  <2>3. QED
    BY <2>1, <2>2
<1>2. Delivered(s.handle).to = i /\ Delivered(s.handle).handle = l
  BY <1>1 DEF Delivered
<1>3. /\ initPc = "idle" /\ Knows(i, l)
      /\ subActive' = [subActive EXCEPT ![i] = SwitchedTo(@, l, b)]
      /\ requested' = SwitchedTo(requested, <<i, l>>, b) /\ stuck' = stuck \ {<<i, l>>}
      /\ UNCHANGED <<subDynamic, overlapped, dynCall, initPc, fwDynamic>>
  BY <1>1, <1>2, Zenon DEF activate, Call, CanCall, dynVars, initVars
<1>4. l \in Known(i) /\ l \in Nat
  BY <1>3, Common, ClearHandles DEF Knows, Known, Static
<1>5. /\ subActive \in [SubHals -> SUBSET Nat]
      /\ \A j \in SubHals : subActive[j] \subseteq Known(j) \cap Clear
      /\ requested \subseteq SubHals \X Nat /\ stuck \subseteq SubHals \X Nat
      /\ \A n \in stuck : n[2] \in subActive[n[1]]
      /\ SubHals' = SubHals /\ \A j \in SubHals : Known(j)' = Known(j)
  BY <1>3, Common DEF ActiveKnown, Known
<1>6. subActive'[i] = SwitchedTo(subActive[i], l, b) /\ \A j \in SubHals : j # i => subActive'[j] = subActive[j]
  BY <1>3, <1>5
<1>7. ActiveKnown'
  <2>1. subActive' \in [SubHals -> SUBSET Nat]
    BY <1>3, <1>4, <1>5 DEF SwitchedTo
  <2>2. \A j \in SubHals : subActive'[j] \subseteq Known(j) \cap Clear
    BY <1>4, <1>5, <1>6 DEF SwitchedTo
  <2>3. requested' \subseteq SubHals \X Nat /\ stuck' \subseteq SubHals \X Nat
    BY <1>3, <1>4, <1>5 DEF SwitchedTo
  <2>4. ASSUME NEW n \in stuck' PROVE n[2] \in subActive'[n[1]]
    <3>1. n \in stuck /\ n # <<i, l>> /\ n[1] \in SubHals /\ n = <<n[1], n[2]>>
      BY <1>3, <1>5
    <3>2. n[2] \in subActive[n[1]] /\ (n[1] = i => n[2] # l)
      BY <1>5, <3>1
    <3>3. QED
      BY <1>6, <3>1, <3>2 DEF SwitchedTo
  <2>5. QED
    BY <1>3, <1>5, <2>1, <2>2, <2>3, <2>4 DEF ActiveKnown
<1>8. ASSUME NEW j \in SubHals, j \notin overlapped PROVE Enabled(j)' /\ Asked(j)'
  <2>1. Enabled(j) /\ Asked(j) /\ Known(j) \subseteq Nat /\ Static(j)' = Static(j)
        /\ DOMAIN mSensors \subseteq DOMAIN mSensors'
    BY <1>8, Common DEF Requests
  <2>2. CASE j # i
    <3>1. /\ \A m \in Nat : <<j, m>> \in requested' <=> <<j, m>> \in requested
          /\ \A m \in Nat : <<j, m>> \in stuck' <=> <<j, m>> \in stuck
      BY <1>3, <2>2 DEF SwitchedTo
    <3>2. QED
      BY <1>3, <1>6, <2>1, <2>2, <3>1, SameRequests
  <2>3. CASE j = i
    <3>1. /\ \A m \in Nat : m # l => (<<i, m>> \in requested' <=> <<i, m>> \in requested)
          /\ \A m \in Nat : m # l => (<<i, m>> \in stuck' <=> <<i, m>> \in stuck)
          /\ (<<i, l>> \in requested' <=> b) /\ <<i, l>> \notin stuck'
      BY <1>3 DEF SwitchedTo
    <3>2. \A m : m \in subActive'[i] <=> IF m = l THEN b ELSE m \in subActive[i]
      BY <1>6 DEF SwitchedTo
    <3>3. Enabled(i)'
      BY <1>4, <1>5, <2>1, <2>3, <3>1, <3>2 DEF Enabled
    <3>4. Asked(i)'
      <4>1. Static(i) \cap DOMAIN DynamicSensors = {}
        BY Common
      <4>2. l \in Static(i) \/ l \in subDynamic[i]
        BY <1>4 DEF Known
      <4>3. \/ l \in Static(i) \cap Clear /\ (setSubHalIndex(l, i) \in DOMAIN mSensors \/ <<i, l>> = <<0, 0>>)
            \/ /\ l \in DOMAIN DynamicSensors \cap Clear /\ DynamicSensor(i, l) \in fwDynamic
               /\ l \in subDynamic[i]
        <5>1. 0 \notin subDynamic[i]
          BY RoutingAssumption, Common
        <5>2. QED
          BY <1>1, <4>1, <4>2, <5>1
      <4>4. QED
        BY <1>3, <2>1, <2>3, <3>1, <4>3 DEF Asked
    <3>5. QED
      BY <2>3, <3>3, <3>4
  <2>4. QED
    BY <2>2, <2>3
<1>9. QED
  BY <1>3, <1>5, <1>7, <1>8 DEF Requests

LEMMA ConnectedRequests ==
    ASSUME IInv, [Next]_vars, NEW i \in SubHals,
           NEW d \in SUBSET (DOMAIN DynamicSensors \ subDynamic[i]), onDynamicSensorsConnected(i, d)
    PROVE  ActiveKnown' /\ Requests'
<1>1. PICK new \in SUBSET DynamicOf(i) :
              /\ MapShape' /\ InMap' = InMap \cup new
              /\ dynCall[i] = IdleCall
              /\ dynCall' = [dynCall EXCEPT ![i] = [kind |-> "connected", sensors |-> new]]
              /\ subDynamic' = [subDynamic EXCEPT ![i] = @ \cup d]
              /\ overlapped' = NowOverlapped(i)
              /\ UNCHANGED <<fwDynamic, mDynamicSensorsCallback, session, initPc>>
  BY Common, ConnectedEffect
<1>2. UNCHANGED <<subActive, requested, stuck>>
  BY Zenon DEF onDynamicSensorsConnected, activeVars
<1>3. /\ subDynamic'[i] = subDynamic[i] \cup d
      /\ \A j \in SubHals : j # i => subDynamic'[j] = subDynamic[j] /\ dynCall'[j] = dynCall[j]
      /\ IdleCall.kind = "none"
  BY <1>1, Common DEF DynamicShape, IdleCall
<1>4. /\ Known(i)' = Known(i) \cup d
      /\ \A j \in SubHals : j # i => Known(j)' = Known(j)
  BY <1>3, Common DEF Known
<1>5. overlapped \subseteq overlapped'
  BY <1>1 DEF NowOverlapped
<1>6. ActiveKnown'
  BY <1>1, <1>2, <1>4, Common DEF ActiveKnown
<1>7. ASSUME NEW j \in SubHals, initPc = "clear" \/ j \notin overlapped' PROVE Enabled(j)' /\ Asked(j)'
  <2>1. /\ Enabled(j) /\ Asked(j) /\ Known(j) \subseteq Nat /\ Static(j)' = Static(j)
        /\ DOMAIN mSensors \subseteq DOMAIN mSensors'
    BY <1>5, <1>7, Common DEF Requests
  <2>2. CASE j # i
    BY <1>1, <1>2, <1>3, <2>1, <2>2, SameRequests
  <2>3. CASE j = i
    <3>1. ASSUME NEW l \in d PROVE l \notin Known(i) /\ l \in Nat /\ <<i, l>> \notin requested \cup stuck
      <4>1. l \in Nat /\ l \notin subDynamic[i] /\ l \notin Static(i)
        BY Common
      <4>2. <<i, l>> \notin requested
        BY <1>1, <1>3, <2>1, <2>3, <4>1 DEF Asked
      <4>3. <<i, l>> \notin stuck
        BY <4>1, Common DEF ActiveKnown, Known
      <4>4. QED
        BY <4>1, <4>2, <4>3 DEF Known
    <3>2. Enabled(i)'
      BY <1>2, <1>4, <2>1, <2>3, <3>1 DEF Enabled
    <3>3. Asked(i)'
      BY <1>1, <1>2, <1>3, <2>1, <2>3 DEF Asked
    <3>4. QED
      BY <2>3, <3>2, <3>3
  <2>4. QED
    BY <2>2, <2>3
<1>8. QED
  BY <1>1, <1>6, <1>7, Common DEF Requests

LEMMA DisconnectedRequests ==
    ASSUME IInv, [Next]_vars, NEW i \in SubHals,
           NEW d \in SUBSET subDynamic[i], onDynamicSensorsDisconnected(i, d)
    PROVE  ActiveKnown' /\ Requests'
<1>1. PICK old \in SUBSET DynamicOf(i) :
              /\ MapShape' /\ InMap' = InMap \ old
              /\ \A l \in DOMAIN DynamicSensors \cap Clear :
                    DynamicSensor(i, l) \in old <=> l \in d /\ DynamicSensor(i, l) \in InMap
              /\ dynCall[i] = IdleCall
              /\ dynCall' = [dynCall EXCEPT ![i] = [kind |-> "disconnected", sensors |-> old]]
              /\ subDynamic' = [subDynamic EXCEPT ![i] = @ \ d]
              /\ overlapped' = NowOverlapped(i)
              /\ UNCHANGED <<fwDynamic, mDynamicSensorsCallback, session, initPc>>
  BY Common, DisconnectedEffect
<1>2. /\ subActive' = [subActive EXCEPT ![i] = @ \ d] /\ stuck' = stuck \ ({i} \X d)
      /\ UNCHANGED requested
  BY Zenon DEF onDynamicSensorsDisconnected
<1>3. /\ subDynamic'[i] = subDynamic[i] \ d
      /\ dynCall'[i] = [kind |-> "disconnected", sensors |-> old]
      /\ \A j \in SubHals : j # i => subDynamic'[j] = subDynamic[j] /\ dynCall'[j] = dynCall[j]
      /\ IdleCall.kind = "none"
  BY <1>1, Common DEF DynamicShape, IdleCall
<1>4. /\ subActive'[i] = subActive[i] \ d
      /\ \A j \in SubHals : j # i => subActive'[j] = subActive[j]
  BY <1>2, Common DEF ActiveKnown
<1>5. /\ Known(i)' = Known(i) \ d
      /\ \A j \in SubHals : j # i => Known(j)' = Known(j)
  BY <1>3, Common DEF Known
<1>6. overlapped \subseteq overlapped'
  BY <1>1 DEF NowOverlapped
<1>7. ActiveKnown'
  <2>1. subActive' \in [SubHals -> SUBSET Nat]
    BY <1>2, Common DEF ActiveKnown
  <2>2. \A j \in SubHals : subActive'[j] \subseteq Known(j)' \cap Clear
    BY <1>4, <1>5, Common DEF ActiveKnown
  <2>3. ASSUME NEW n \in stuck' PROVE n[2] \in subActive'[n[1]]
    <3>1. n \in stuck /\ n \notin {i} \X d /\ n[1] \in SubHals /\ n = <<n[1], n[2]>>
      BY <1>2, Common DEF ActiveKnown
    <3>2. n[2] \in subActive[n[1]] /\ (n[1] = i => n[2] \notin d)
      BY <3>1, Common DEF ActiveKnown
    <3>3. QED
      BY <1>4, <3>1, <3>2
  <2>4. QED
    BY <1>1, <1>2, <2>1, <2>2, <2>3, Common DEF ActiveKnown
<1>8. ASSUME NEW j \in SubHals, initPc = "clear" \/ j \notin overlapped' PROVE Enabled(j)' /\ Asked(j)'
  <2>1. /\ Enabled(j) /\ Asked(j) /\ Known(j) \subseteq Nat /\ Static(j)' = Static(j)
        /\ DOMAIN mSensors \subseteq DOMAIN mSensors'
    BY <1>6, <1>8, Common DEF Requests
  <2>2. CASE j # i
    <3>1. \A l \in Nat : <<j, l>> \in stuck' <=> <<j, l>> \in stuck
      BY <1>2, <2>2
    <3>2. QED
      BY <1>1, <1>2, <1>3, <1>4, <2>1, <2>2, <3>1, SameRequests
  <2>3. CASE j = i
    <3>1. Enabled(i)'
      BY <1>2, <1>4, <1>5, <2>1, <2>3 DEF Enabled
    <3>2. ASSUME NEW l \in Nat, <<i, l>> \in requested, l \in d, DynamicSensor(i, l) \in fwDynamic,
                 l \in DOMAIN DynamicSensors \cap Clear
          PROVE  DynamicSensor(i, l) \in old
      <4>1. initPc = "idle"
        BY <3>2, Common DEF ActiveKnown
      <4>2. InMap \cap DynamicOf(i) = fwDynamic \cap DynamicOf(i)
        BY <1>1, <1>6, <1>8, <2>3, <4>1, Common DEF Views, ViewOf
      <4>3. DynamicSensor(i, l) \in DynamicOf(i)
        BY <3>2, Common, DynamicFacts
      <4>4. QED
        BY <1>1, <3>2, <4>2, <4>3
    <3>3. Asked(i)'
      <4> SUFFICES ASSUME NEW l \in Nat, <<i, l>> \in requested
                   PROVE  \/ l \in Static(i) \cap Clear /\ (setSubHalIndex(l, i) \in DOMAIN mSensors \/ <<i, l>> = <<0, 0>>)
                          \/ /\ l \in DOMAIN DynamicSensors \cap Clear /\ DynamicSensor(i, l) \in fwDynamic
                             /\ (l \in subDynamic'[i] \/ DynamicSensor(i, l) \in old)
        BY <1>1, <1>2, <1>3, <2>1, <2>3 DEF Asked
      <4>1. \/ l \in Static(i) \cap Clear /\ (setSubHalIndex(l, i) \in DOMAIN mSensors \/ <<i, l>> = <<0, 0>>)
            \/ /\ l \in DOMAIN DynamicSensors \cap Clear /\ DynamicSensor(i, l) \in fwDynamic
               /\ l \in subDynamic[i]
        BY <1>1, <1>3, <2>1, <2>3 DEF Asked
      <4>2. QED
        BY <1>3, <3>2, <4>1
    <3>4. QED
      BY <2>3, <3>1, <3>3
  <2>4. QED
    BY <2>2, <2>3
<1>9. QED
  BY <1>1, <1>7, <1>8, Common DEF Requests

LEMMA NotifyRequests ==
    ASSUME IInv, [Next]_vars, NEW i \in SubHals, notifyDynamicSensors(i)
    PROVE  ActiveKnown' /\ Requests'
<1>1. /\ dynCall' = [dynCall EXCEPT ![i] = IdleCall]
      /\ dynCall[i].kind \in {"connected", "disconnected"}
      /\ UNCHANGED <<subDynamic, overlapped, initPc>>
  BY Common, NotifyEffect
<1>2. UNCHANGED <<subActive, stuck>>
  BY Zenon DEF notifyDynamicSensors
<1> DEFINE gone == {s.name : s \in dynCall[i].sensors}
<1>3. requested' = requested \/ (dynCall[i].kind = "disconnected" /\ requested' = requested \ gone)
  BY Common, NotifyEffect
<1>4. \A j \in SubHals : j # i => dynCall'[j] = dynCall[j]
  BY <1>1, Common DEF DynamicShape
<1>5. /\ dynCall[i].sensors \subseteq DynamicOf(i)
      /\ dynCall[i].kind = "disconnected" =>
             \A l \in subDynamic[i] : DynamicSensor(i, l) \notin dynCall[i].sensors
  BY Common DEF DynamicShape
<1>6. \A n \in gone : \E l \in DOMAIN DynamicSensors \cap Clear :
                          n = <<i, l>> /\ DynamicSensor(i, l) \in dynCall[i].sensors
  <2> SUFFICES ASSUME NEW s \in dynCall[i].sensors
               PROVE  \E l \in DOMAIN DynamicSensors \cap Clear :
                          s.name = <<i, l>> /\ DynamicSensor(i, l) \in dynCall[i].sensors
    OBVIOUS
  <2>1. PICK l \in DOMAIN DynamicSensors \cap Clear : s = DynamicSensor(i, l)
    BY <1>5, Common, DynamicFacts
  <2>2. QED
    BY <2>1, Common, DynamicFacts
<1> HIDE DEF gone
<1>7. /\ \A j \in SubHals : Known(j)' = Known(j)
      /\ requested' \subseteq requested
  BY <1>1, <1>3, Common DEF Known
<1>8. ActiveKnown'
  BY <1>1, <1>2, <1>7, Common DEF ActiveKnown
<1>9. ASSUME NEW j \in SubHals, initPc = "clear" \/ j \notin overlapped PROVE Enabled(j)' /\ Asked(j)'
  <2>1. /\ Enabled(j) /\ Asked(j) /\ Known(j) \subseteq Nat /\ Static(j)' = Static(j)
        /\ DOMAIN mSensors \subseteq DOMAIN mSensors'
    BY <1>9, Common DEF Requests
  <2>2. CASE j # i
    <3>1. \A l \in Nat : <<j, l>> \in requested' <=> <<j, l>> \in requested
      BY <1>3, <1>6, <2>2
    <3>2. \A s \in DynamicOf(j) : s \in fwDynamic => s \in fwDynamic'
      <4>1. dynCall[i].sensors \cap DynamicOf(j) = {}
        BY <1>5, <2>2, Common, DynamicNames
      <4>2. \/ fwDynamic' = fwDynamic
            \/ fwDynamic' = fwDynamic \cup dynCall[i].sensors
            \/ fwDynamic' = fwDynamic \ dynCall[i].sensors
        BY Common, NotifyEffect
      <4>3. QED
        BY <4>1, <4>2
    <3>3. QED
      BY <1>1, <1>2, <1>4, <2>1, <2>2, <3>1, <3>2, SameRequests
  <2>3. CASE j = i
    <3>1. ASSUME NEW l \in Known(i) PROVE <<i, l>> \in requested' <=> <<i, l>> \in requested
      <4>1. ASSUME dynCall[i].kind = "disconnected", <<i, l>> \in gone PROVE FALSE
        <5>1. PICK m \in DOMAIN DynamicSensors \cap Clear :
                     <<i, l>> = <<i, m>> /\ DynamicSensor(i, m) \in dynCall[i].sensors
          BY <1>6, <4>1
        <5>2. l = m /\ l \in DOMAIN DynamicSensors /\ l \notin Static(i)
          BY <5>1, Common
        <5>3. l \in subDynamic[i]
          BY <5>2 DEF Known
        <5>4. QED
          BY <1>5, <4>1, <5>1, <5>2, <5>3
      <4>2. QED
        BY <1>3, <4>1
    <3>2. Enabled(i)'
      BY <1>2, <1>7, <2>1, <2>3, <3>1 DEF Enabled
    <3>3. Asked(i)'
      <4> SUFFICES ASSUME NEW l \in Nat, <<i, l>> \in requested'
                   PROVE  \/ l \in Static(i) \cap Clear /\ (setSubHalIndex(l, i) \in DOMAIN mSensors \/ <<i, l>> = <<0, 0>>)
                          \/ /\ l \in DOMAIN DynamicSensors \cap Clear /\ DynamicSensor(i, l) \in fwDynamic'
                             /\ l \in subDynamic[i]
        BY <1>1, <2>1, <2>3 DEF Asked
      <4>1. <<i, l>> \in requested /\ initPc = "idle" /\ mDynamicSensorsCallback = session
        BY <1>7, Common DEF ActiveKnown, Phases
      <4>2. \/ l \in Static(i) \cap Clear /\ (setSubHalIndex(l, i) \in DOMAIN mSensors \/ <<i, l>> = <<0, 0>>)
            \/ /\ l \in DOMAIN DynamicSensors \cap Clear /\ DynamicSensor(i, l) \in fwDynamic
               /\ \/ l \in subDynamic[i]
                  \/ dynCall[i].kind = "disconnected" /\ DynamicSensor(i, l) \in dynCall[i].sensors
        BY <2>1, <2>3, <4>1 DEF Asked
      <4>3. CASE dynCall[i].kind = "connected"
        BY <4>1, <4>2, <4>3, Common, NotifyEffect
      <4>4. CASE dynCall[i].kind = "disconnected"
        <5>1. fwDynamic' = fwDynamic \ dynCall[i].sensors /\ requested' = requested \ gone
          BY <4>1, <4>4, Common, NotifyEffect DEF gone
        <5>2. ASSUME l \in DOMAIN DynamicSensors \cap Clear, DynamicSensor(i, l) \in dynCall[i].sensors
              PROVE  <<i, l>> \in gone
          BY <5>2, Common, DynamicFacts DEF gone
        <5>3. QED
          BY <4>2, <5>1, <5>2
      <4>5. QED
        BY <1>1, <4>3, <4>4
    <3>4. QED
      BY <2>3, <3>2, <3>3
  <2>4. QED
    BY <2>2, <2>3
<1>10. QED
  BY <1>1, <1>8, <1>9, Common DEF Requests

\* disableAllSensors() reaches every sensor that the framework before had enabled:
\* its handle is in one of the two maps.
LEMMA DisableRequests ==
    ASSUME IInv, [Next]_vars, disableAllSensors
    PROVE  ActiveKnown' /\ Requests'
<1> DEFINE Targets == {<<extractSubHalIndex(h), clearSubHalIndex(h)>> : h \in DisableTargets}
<1>1. /\ initPc = "idle" /\ initPc' = "clear" /\ requested' = {}
      /\ UNCHANGED <<subDynamic, overlapped, dynCall>>
  BY Zenon DEF disableAllSensors
<1>2. PICK refuse \in SUBSET Targets :
          /\ \A n \in refuse : n[2] \in subActive[n[1]]
          /\ subActive' = [i \in SubHals |-> {l \in subActive[i] : <<i, l>> \notin Targets \ refuse}]
          /\ stuck' = refuse \cup (stuck \ (Targets \ refuse)) \cup Unlisted
                         \cup UNION {{<<i, l>> : l \in subActive'[i]} : i \in overlapped}
  BY Zenon DEF disableAllSensors
<1>3. ASSUME NEW h \in DisableTargets
      PROVE  h \in Nat /\ extractSubHalIndex(h) \in SubHals /\ clearSubHalIndex(h) \in Nat
  <2>1. CASE h \in DOMAIN mSensors
    <3>1. h \in Nat /\ extractSubHalIndex(h) \in SubHals
      BY <2>1, Common DEF SensorShape
    <3>2. QED
      BY <3>1, Handles, ClearHandles
  <2>2. CASE h \in DOMAIN mDynamicSensors
    <3>1. mDynamicSensors[h] \in AllDynamic /\ mDynamicSensors[h].handle = h
      BY <2>2, Common DEF DynamicShape
    <3>2. PICK i \in SubHals, l \in DOMAIN DynamicSensors \cap Clear : mDynamicSensors[h] = DynamicSensor(i, l)
      BY <3>1, Common, DynamicFacts, DynamicNames
    <3>3. extractSubHalIndex(h) = i /\ clearSubHalIndex(h) = l /\ l \in Nat
      BY <3>1, <3>2, Common, DynamicFacts
    <3>4. h \in Nat
      BY <3>1, Common, DynamicFacts DEF Sensor
    <3>5. QED
      BY <3>3, <3>4
  <2>3. QED
    BY <1>3, <2>1, <2>2 DEF DisableTargets
<1>31. /\ Targets \subseteq SubHals \X Nat
       /\ <<0, 0>> \in Targets <=> 0 \in DisableTargets
  <2>1. Targets \subseteq SubHals \X Nat
    BY <1>3
  <2>2. 0 \in DisableTargets => <<0, 0>> \in Targets
    BY EmptyEntry DEF DefaultSensor
  <2>3. ASSUME <<0, 0>> \in Targets PROVE 0 \in DisableTargets
    <3>1. PICK h \in DisableTargets : extractSubHalIndex(h) = 0 /\ clearSubHalIndex(h) = 0
      BY <2>3
    <3>2. h = setSubHalIndex(0, 0)
      BY <1>3, <3>1, Handles
    <3>3. QED
      BY <3>2, EmptyEntry
  <2>4. QED
    BY <2>1, <2>2, <2>3
<1>4. ASSUME NEW i \in SubHals, NEW l \in Clear,
             setSubHalIndex(l, i) \in DOMAIN mSensors \cup DOMAIN mDynamicSensors
      PROVE  <<i, l>> \in Targets
  <2>1. /\ extractSubHalIndex(setSubHalIndex(l, i)) = i
        /\ clearSubHalIndex(setSubHalIndex(l, i)) = l
    BY Common, Handles
  <2>2. QED
    BY <1>4, <2>1 DEF DisableTargets
<1> HIDE DEF Targets
<1>5. /\ subActive \in [SubHals -> SUBSET Nat]
      /\ \A j \in SubHals : subActive[j] \subseteq Known(j) \cap Clear
      /\ stuck \subseteq SubHals \X Nat
      /\ \A n \in stuck : n[2] \in subActive[n[1]]
      /\ SubHals' = SubHals /\ \A j \in SubHals : Known(j)' = Known(j)
      /\ overlapped \subseteq SubHals
  BY <1>1, Common DEF ActiveKnown, Known, DynamicShape
<1>6. \A j \in SubHals : \A l : l \in subActive'[j] <=> l \in subActive[j] /\ <<j, l>> \notin Targets \ refuse
  BY <1>2
<1>7. \A n : n \in stuck' <=> \/ n \in refuse
                              \/ n \in stuck /\ n \notin Targets \ refuse
                              \/ \E i \in overlapped : \E l \in subActive'[i] : n = <<i, l>>
                              \/ n \in Unlisted
  <2> DEFINE Lost == UNION {{<<i, l>> : l \in subActive'[i]} : i \in overlapped}
  <2>1. \A n : n \in Lost <=> \E i \in overlapped : \E l \in subActive'[i] : n = <<i, l>>
    OBVIOUS
  <2>2. stuck' = refuse \cup (stuck \ (Targets \ refuse)) \cup Unlisted \cup Lost
    BY <1>2, Zenon
  <2> HIDE DEF Lost
  <2>3. QED
    BY <2>1, <2>2
<1>8. \A n \in stuck' : n \in SubHals \X Nat /\ n[2] \in subActive'[n[1]]
  <2> SUFFICES ASSUME NEW n \in stuck' PROVE n \in SubHals \X Nat /\ n[2] \in subActive'[n[1]]
    OBVIOUS
  <2>1. CASE \E i \in overlapped : \E l \in subActive'[i] : n = <<i, l>>
    <3>1. PICK i \in overlapped : \E l \in subActive'[i] : n = <<i, l>>
      BY <2>1
    <3>2. PICK l \in subActive'[i] : n = <<i, l>>
      BY <3>1
    <3>3. i \in SubHals /\ l \in Nat
      BY <1>5, <1>6, <3>2
    <3>4. QED
      BY <3>2, <3>3
  <2>2. CASE n \in refuse
    <3>1. n \in SubHals \X Nat /\ n[1] \in SubHals /\ n = <<n[1], n[2]>>
      BY <1>31, <2>2
    <3>2. QED
      BY <1>2, <1>6, <2>2, <3>1
  <2>3. CASE n \in stuck /\ n \notin Targets \ refuse
    <3>1. n \in SubHals \X Nat /\ n[1] \in SubHals /\ n = <<n[1], n[2]>>
      BY <1>5, <2>3
    <3>2. QED
      BY <1>5, <1>6, <2>3, <3>1
  <2>4. CASE n \in Unlisted
    <3>1. n = <<0, 0>> /\ 0 \in SubHals /\ 0 \notin DisableTargets /\ 0 \in subActive[0]
      BY <2>4 DEF Unlisted
    <3>2. QED
      BY <1>6, <1>31, <3>1
  <2>5. QED
    BY <1>7, <2>1, <2>2, <2>3, <2>4
<1>9. ActiveKnown'
  <2>1. subActive' \in [SubHals -> SUBSET Nat]
    BY <1>2, <1>5
  <2>2. \A j \in SubHals : subActive'[j] \subseteq Known(j) \cap Clear
    BY <1>5, <1>6
  <2>3. QED
    BY <1>1, <1>5, <1>8, <2>1, <2>2 DEF ActiveKnown
<1>10. ASSUME NEW j \in SubHals, NEW l \in subActive'[j] PROVE <<j, l>> \in stuck'
  <2>1. l \in subActive[j] /\ <<j, l>> \notin Targets \ refuse /\ l \in Known(j) /\ l \in Clear /\ l \in Nat
    BY <1>5, <1>6
  <2>2. CASE j \in overlapped
    BY <1>7, <2>2
  <2>3. CASE j \notin overlapped
    <3>1. Enabled(j) /\ Asked(j)
      BY <2>3, Common DEF Requests
    <3>2. <<j, l>> \in requested \cup stuck
      BY <2>1, <3>1 DEF Enabled
    <3>3. CASE <<j, l>> \in stuck
      BY <1>7, <2>1, <3>3
    <3>4. CASE <<j, l>> \in requested
      <4>1. \/ setSubHalIndex(l, j) \in DOMAIN mSensors
            \/ <<j, l>> = <<0, 0>>
            \/ /\ l \in DOMAIN DynamicSensors \cap Clear /\ DynamicSensor(j, l) \in fwDynamic
        BY <2>1, <3>1, <3>4 DEF Asked
      <4>2. ASSUME l \in DOMAIN DynamicSensors \cap Clear, DynamicSensor(j, l) \in fwDynamic
            PROVE  setSubHalIndex(l, j) \in DOMAIN mDynamicSensors
        <5>1. l \in subDynamic[j]
          BY <2>1, <4>2, Common DEF Known
        <5>2. dynCall[j].kind = "disconnected" => DynamicSensor(j, l) \notin dynCall[j].sensors
          BY <5>1, Common DEF DynamicShape
        <5>3. /\ DynamicSensor(j, l) \in DynamicOf(j) /\ DynamicSensor(j, l) \in AllDynamic
              /\ DynamicSensor(j, l).handle = setSubHalIndex(l, j)
          BY <4>2, Common, DynamicFacts
        <5>4. ViewOf(j) /\ (dynCall[j] = IdleCall \/ dynCall[j].kind \in {"connected", "disconnected"})
          BY <1>1, <2>3, Common DEF Views, DynamicShape
        <5>5. DynamicSensor(j, l) \in InMap
          BY <4>2, <5>2, <5>3, <5>4 DEF ViewOf
        <5>6. QED
          BY <5>3, <5>5, Common, MapFacts
      <4>3. CASE setSubHalIndex(l, j) \in DOMAIN mSensors \cup DOMAIN mDynamicSensors
        <5>1. <<j, l>> \in refuse
          BY <1>4, <2>1, <4>3
        <5>2. QED
          BY <1>7, <5>1
      <4>4. CASE <<j, l>> = <<0, 0>>
        <5>1. j = 0 /\ l = 0
          BY <4>4
        <5>2. CASE 0 \in DisableTargets
          <6>1. <<j, l>> \in refuse
            BY <1>31, <2>1, <5>1, <5>2
          <6>2. QED
            BY <1>7, <6>1
        <5>3. CASE 0 \notin DisableTargets
          <6>1. <<j, l>> \in Unlisted
            BY <2>1, <5>1, <5>3 DEF Unlisted
          <6>2. QED
            BY <1>7, <6>1
        <5>4. QED
          BY <5>2, <5>3
      <4>5. QED
        BY <4>1, <4>2, <4>3, <4>4
    <3>5. QED
      BY <3>2, <3>3, <3>4
  <2>4. QED
    BY <2>2, <2>3
<1>11. ASSUME NEW j \in SubHals PROVE Enabled(j)' /\ Asked(j)'
  <2>1. \A l \in subActive'[j] : l \in Known(j)' /\ <<j, l>> \in stuck'
    BY <1>5, <1>6, <1>10
  <2>2. \A l : <<j, l>> \in stuck' => l \in subActive'[j]
    BY <1>8
  <2>3. QED
    BY <1>1, <2>1, <2>2 DEF Enabled, Asked
<1>12. QED
  BY <1>5, <1>9, <1>11 DEF Requests

LEMMA RequestsStep == IInv /\ [Next]_vars => ActiveKnown' /\ Requests'
<1> SUFFICES ASSUME IInv, [Next]_vars PROVE ActiveKnown' /\ Requests'
  OBVIOUS
<1>1. CASE UNCHANGED <<subActive, requested, stuck, subDynamic, overlapped, dynCall, initPc, fwDynamic>>
  <2>1. ActiveKnown'
    BY <1>1, Common DEF ActiveKnown, Known
  <2>2. ASSUME NEW j \in SubHals, initPc = "clear" \/ j \notin overlapped PROVE Enabled(j)' /\ Asked(j)'
    BY <1>1, <2>2, Common, SameRequests DEF Requests
  <2>3. QED
    BY <1>1, <2>1, <2>2, Common DEF Requests
<1>2. CASE clearDynamicSensors
  <2>1. /\ initPc = "clear" /\ initPc' = "callback"
        /\ UNCHANGED <<subDynamic, dynCall, fwDynamic, subActive, requested, stuck>>
    BY <1>2, Zenon DEF clearDynamicSensors, activeVars
  <2>2. ActiveKnown'
    BY <2>1, Common DEF ActiveKnown, Known
  <2>3. ASSUME NEW j \in SubHals PROVE Enabled(j)' /\ Asked(j)'
    BY <2>1, Common, SameRequests DEF Requests
  <2>4. QED
    BY <2>2, <2>3, Common DEF Requests
<1>3. CASE setDynamicSensorsCallback
  <2>1. /\ initPc = "callback" /\ initPc' = "subHals"
        /\ UNCHANGED <<subDynamic, dynCall, fwDynamic, overlapped, subActive, requested, stuck>>
    BY <1>3, Zenon DEF setDynamicSensorsCallback, activeVars
  <2>2. ActiveKnown'
    BY <2>1, Common DEF ActiveKnown, Known
  <2>3. ASSUME NEW j \in SubHals, j \notin overlapped PROVE Enabled(j)' /\ Asked(j)'
    BY <2>1, <2>3, Common, SameRequests DEF Requests
  <2>4. QED
    BY <2>1, <2>2, <2>3, Common DEF Requests
<1>4. CASE finishInitialize
  <2>1. /\ initPc = "subHals" /\ initPc' = "idle"
        /\ UNCHANGED <<subDynamic, dynCall, fwDynamic, overlapped, subActive, requested, stuck>>
    BY <1>4, Zenon DEF finishInitialize, activeVars, dynVars
  <2>2. ActiveKnown'
    BY <2>1, Common DEF ActiveKnown, Known
  <2>3. ASSUME NEW j \in SubHals, j \notin overlapped PROVE Enabled(j)' /\ Asked(j)'
    BY <2>1, <2>3, Common, SameRequests DEF Requests
  <2>4. QED
    BY <2>1, <2>2, <2>3, Common DEF Requests
<1>5. CASE initializeSubHal
  <2>1. /\ initPc = "subHals" /\ initNext \in SubHals
        /\ subActive' = [subActive EXCEPT ![initNext] = {}]
        /\ subDynamic' = [subDynamic EXCEPT ![initNext] = {}]
        /\ stuck' = {n \in stuck : n[1] # initNext}
        /\ UNCHANGED <<dynCall, fwDynamic, overlapped, requested, initPc>>
    BY <1>5, Zenon DEF initializeSubHal
  <2>2. /\ subActive'[initNext] = {} /\ subDynamic'[initNext] = {}
        /\ \A j \in SubHals : j # initNext => subActive'[j] = subActive[j] /\ subDynamic'[j] = subDynamic[j]
    BY <2>1, Common DEF ActiveKnown, DynamicShape
  <2>3. requested = {} /\ requested' = {}
    BY <2>1, Common DEF ActiveKnown
  <2>4. ActiveKnown'
    <3>1. subActive' \in [SubHals -> SUBSET Nat]
      BY <2>1, Common DEF ActiveKnown
    <3>2. \A j \in SubHals : subActive'[j] \subseteq Known(j)' \cap Clear
      BY <2>2, Common DEF ActiveKnown, Known
    <3>3. ASSUME NEW n \in stuck' PROVE n[2] \in subActive'[n[1]]
      <4>1. n \in stuck /\ n[1] # initNext /\ n[1] \in SubHals
        BY <2>1, Common DEF ActiveKnown
      <4>2. QED
        BY <2>2, <4>1, Common DEF ActiveKnown
    <3>4. QED
      BY <2>1, <2>3, <3>1, <3>2, <3>3, Common DEF ActiveKnown
  <2>5. ASSUME NEW j \in SubHals, j \notin overlapped PROVE Enabled(j)' /\ Asked(j)'
    <3>1. CASE j = initNext
      <4>1. \A l : <<j, l>> \notin stuck'
        BY <2>1, <3>1
      <4>2. QED
        BY <2>2, <2>3, <3>1, <4>1 DEF Enabled, Asked
    <3>2. CASE j # initNext
      <4>1. \A l \in Nat : <<j, l>> \in stuck' <=> <<j, l>> \in stuck
        BY <2>1, <3>2
      <4>2. Enabled(j) /\ Asked(j)
        BY <2>5, Common DEF Requests
      <4>3. QED
        BY <2>1, <2>2, <3>2, <4>1, <4>2, Common, SameRequests
    <3>3. QED
      BY <3>1, <3>2
  <2>6. QED
    BY <2>1, <2>4, <2>5, Common DEF Requests
<1>6. QED
  BY <1>1, <1>2, <1>3, <1>4, <1>5, RequestFrame, ActivateRequests, ConnectedRequests,
     DisconnectedRequests, NotifyRequests, DisableRequests

-----------------------------------------------------------------------------
(* Direct reports. *)

LEMMA ReportFrame ==
    ASSUME [Next]_vars
    PROVE  \/ UNCHANGED <<channel, reporting, fwReporting, notReset, initPc, initNext, subReady>>
           \/ \E s \in Published, b \in BOOLEAN : configDirectReport(s, b)
           \/ registerDirectChannel \/ unregisterDirectChannel \/ stopAllDirectReports
           \/ \E i \in SubHals : \/ \E d \in SUBSET subDynamic[i] : onDynamicSensorsDisconnected(i, d)
                                 \/ notifyDynamicSensors(i)
           \/ disableAllSensors \/ clearDynamicSensors \/ setDynamicSensorsCallback
           \/ initializeSubHal \/ finishInitialize
BY ZenonT(60)
DEF Next, vars, directVars, initVars, activate, setOperationMode,
    onDynamicSensorsConnected, countNumWakeupEvents

LEMMA ReportsStep == IInv /\ [Next]_vars => Reports'
<1> SUFFICES ASSUME IInv, [Next]_vars PROVE Reports'
  OBVIOUS
<1> DEFINE owner == mDirectChannelSubHal
           Kinds == /\ channel \in BOOLEAN /\ subReady \in [SubHals -> BOOLEAN]
                    /\ reporting \subseteq Nat /\ fwReporting \subseteq SubHals \X Nat
                    /\ notReset \subseteq SubHals
                    /\ initPc # "idle" => fwReporting = {}
           Listing == \A n \in fwReporting : n[2] \notin DOMAIN DynamicSensors =>
                          owner \in SubHals /\ n[1] = owner /\ n[2] \in Static(owner)
           Reset == initPc = "subHals" /\ owner \in SubHals /\ owner < initNext =>
                        reporting \cap Static(owner) = {}
           Same == owner \in SubHals =>
                       \A l \in Static(owner) : l \in reporting <=> <<owner, l>> \in fwReporting
           Match == initPc = "idle" /\ owner \in SubHals /\ owner \notin notReset => Same
<1>1. Kinds /\ Listing /\ Reset /\ Match
  BY DEF IInv, Reports
<1>2. SUFFICES Kinds' /\ Listing' /\ Reset' /\ Match'
  BY DEF Reports
<1>3. /\ owner' = owner /\ Static(owner)' = Static(owner) /\ SubHals' = SubHals
      /\ owner \in SubHals \cup {NoSubHal}
  BY Common DEF ListOK
<1>4. owner \in SubHals => /\ Static(owner) \cap DOMAIN DynamicSensors = {}
                           /\ Static(owner) \subseteq Nat /\ owner \in Nat
  BY Common DEF ListOK
<1>5. CASE UNCHANGED <<channel, reporting, fwReporting, notReset, initPc, initNext, subReady>>
  BY <1>1, <1>3, <1>5
<1>6. ASSUME NEW s \in Published, NEW b \in BOOLEAN, configDirectReport(s, b)
      PROVE  Kinds' /\ Listing' /\ Reset' /\ Match'
  <2>1. PICK i \in SubHals, l \in Clear :
              /\ s.name = <<i, l>>
              /\ extractSubHalIndex(s.handle) = i /\ clearSubHalIndex(s.handle) = l
              /\ \/ /\ l \in Static(i) /\ setSubHalIndex(l, i) \in DOMAIN mSensors
                    /\ s.direct => i = mDirectChannelSubHal
                 \/ l \in DOMAIN DynamicSensors /\ s = DynamicSensor(i, l) /\ s \in fwDynamic
    <3>1. s # DefaultSensor
      BY <1>6, EmptyEntry DEF configDirectReport
    <3>2. QED
      BY <3>1, Common, PublishedFacts
  <2>2. /\ initPc = "idle" /\ s.direct /\ owner # NoSubHal
        /\ reporting' = SwitchedTo(reporting, l, b)
        /\ fwReporting' = SwitchedTo(fwReporting, <<i, l>>, b)
        /\ UNCHANGED <<channel, notReset, initPc, initNext, subReady>>
    BY <1>6, <2>1, Zenon DEF configDirectReport, HasDirect, Call, CanCall, initVars
  <2>3. owner \in SubHals /\ l \in Nat
    BY <1>3, <2>2, ClearHandles
  <2>4. (l \in Static(owner) /\ i = owner) \/ (l \in DOMAIN DynamicSensors /\ l \notin Static(owner))
    BY <1>4, <2>1, <2>2, <2>3
  <2>5. Kinds'
    BY <1>1, <1>3, <2>2, <2>3 DEF SwitchedTo
  <2>6. Listing'
    <3> SUFFICES ASSUME NEW n \in fwReporting', n[2] \notin DOMAIN DynamicSensors
                 PROVE  n[1] = owner /\ n[2] \in Static(owner)
      BY <1>3, <2>3
    <3>1. n \in fwReporting \/ n = <<i, l>>
      BY <2>2 DEF SwitchedTo
    <3>2. CASE n = <<i, l>>
      BY <2>4, <3>2
    <3>3. QED
      BY <1>1, <3>1, <3>2
  <2>7. ASSUME Same PROVE Same'
    <3> SUFFICES ASSUME NEW m \in Static(owner)
                 PROVE  m \in reporting' <=> <<owner, m>> \in fwReporting'
      BY <1>3
    <3>1. CASE m = l
      BY <2>2, <2>4, <3>1 DEF SwitchedTo
    <3>2. CASE m # l
      <4>1. (m \in reporting' <=> m \in reporting) /\ (<<owner, m>> \in fwReporting' <=> <<owner, m>> \in fwReporting)
        BY <2>2, <3>2 DEF SwitchedTo
      <4>2. QED
        BY <2>3, <2>7, <4>1
    <3>3. QED
      BY <3>1, <3>2
  <2>8. QED
    BY <1>1, <1>3, <2>2, <2>5, <2>6, <2>7
<1>7. CASE registerDirectChannel
  <2>1. channel' = TRUE /\ UNCHANGED <<reporting, fwReporting, notReset, initPc, initNext, subReady>>
    BY <1>7, Zenon DEF registerDirectChannel, initVars
  <2>2. QED
    BY <1>1, <1>3, <2>1
<1>8. CASE unregisterDirectChannel
  <2>1. /\ initPc = "idle" /\ channel' = FALSE /\ reporting' = {} /\ fwReporting' = {}
        /\ UNCHANGED <<notReset, initPc, initNext, subReady>>
    BY <1>8, Zenon DEF unregisterDirectChannel, HasDirect, Call, CanCall, initVars
  <2>2. QED
    BY <1>1, <1>3, <2>1
<1>9. CASE stopAllDirectReports
  <2>1. /\ reporting' = IF StopAllHandle = -1 THEN {} ELSE reporting \ {StopAllHandle}
        /\ initPc = "idle" /\ fwReporting' = {} /\ UNCHANGED <<channel, notReset, initPc, initNext, subReady>>
    BY <1>9, Zenon DEF stopAllDirectReports, HasDirect, Call, CanCall, initVars
  <2>2. reporting' = {}
    BY <2>1 DEF StopAllHandle
  <2>3. QED
    BY <1>1, <1>3, <2>1, <2>2
<1>10. ASSUME NEW i \in SubHals, NEW d \in SUBSET subDynamic[i], onDynamicSensorsDisconnected(i, d)
       PROVE  Kinds' /\ Listing' /\ Reset' /\ Match'
  <2>1. /\ reporting' = IF i = owner THEN reporting \ d ELSE reporting
        /\ UNCHANGED <<channel, fwReporting, notReset, initPc, initNext, subReady>>
    BY <1>10, Zenon DEF onDynamicSensorsDisconnected, initVars
  <2>2. d \subseteq DOMAIN DynamicSensors
    BY Common
  <2>3. owner \in SubHals => \A l \in Static(owner) : l \in reporting' <=> l \in reporting
    BY <1>4, <2>1, <2>2
  <2>4. Kinds' /\ Listing'
    BY <1>1, <1>3, <2>1
  <2>5. Reset' /\ Match'
    BY <1>1, <1>3, <2>1, <2>3
  <2>6. QED
    BY <2>4, <2>5
<1>11. ASSUME NEW i \in SubHals, notifyDynamicSensors(i) PROVE Kinds' /\ Listing' /\ Reset' /\ Match'
  <2> DEFINE gone == {s.name : s \in dynCall[i].sensors}
  <2>1. UNCHANGED <<channel, reporting, notReset, initPc, initNext, subReady>>
    BY <1>11, Zenon DEF notifyDynamicSensors, initVars
  <2>2. fwReporting' = fwReporting \/ fwReporting' = fwReporting \ gone
    BY <1>11, Common, NotifyEffect
  <2>3. \A n \in gone : n[2] \in DOMAIN DynamicSensors
    <3> SUFFICES ASSUME NEW s \in dynCall[i].sensors PROVE s.name[2] \in DOMAIN DynamicSensors
      OBVIOUS
    <3>1. s \in DynamicOf(i)
      BY Common DEF DynamicShape
    <3>2. PICK l \in DOMAIN DynamicSensors \cap Clear : s = DynamicSensor(i, l)
      BY <3>1, Common, DynamicFacts
    <3>3. s.name = <<i, l>>
      BY <3>2, Common, DynamicFacts
    <3>4. QED
      BY <3>3
  <2> HIDE DEF gone
  <2>4. owner \in SubHals => \A l \in Static(owner) : <<owner, l>> \in fwReporting' <=> <<owner, l>> \in fwReporting
    BY <1>4, <2>2, <2>3
  <2>5. Kinds' /\ Listing'
    BY <1>1, <1>3, <2>1, <2>2
  <2>6. Reset' /\ Match'
    BY <1>1, <1>3, <2>1, <2>4
  <2>7. QED
    BY <2>5, <2>6
<1>12. CASE disableAllSensors
  <2>1. fwReporting' = {} /\ initPc' = "clear" /\ UNCHANGED <<channel, reporting, notReset, subReady>>
    BY <1>12, Zenon DEF disableAllSensors
  <2>2. QED
    BY <1>1, <1>3, <2>1
<1>13. CASE clearDynamicSensors
  <2>1. /\ initPc = "clear" /\ initPc' = "callback"
        /\ UNCHANGED <<channel, reporting, fwReporting, notReset, subReady>>
    BY <1>13, Zenon DEF clearDynamicSensors, directVars
  <2>2. QED
    BY <1>1, <1>3, <2>1
<1>14. CASE setDynamicSensorsCallback
  <2>1. /\ initPc = "callback" /\ initPc' = "subHals" /\ initNext' = 0
        /\ UNCHANGED <<channel, reporting, fwReporting, notReset, subReady>>
    BY <1>14, Zenon DEF setDynamicSensorsCallback, directVars
  <2>2. owner \in SubHals => ~(owner < 0)
    BY <1>4
  <2>3. QED
    BY <1>1, <1>3, <2>1, <2>2
<1>15. CASE initializeSubHal
  <2>1. /\ initPc = "subHals" /\ initNext \in SubHals /\ initNext' = initNext + 1
        /\ subReady' = [subReady EXCEPT ![initNext] = TRUE]
        /\ IF initNext = owner THEN channel' = FALSE /\ reporting' = {} ELSE UNCHANGED <<channel, reporting>>
        /\ UNCHANGED <<fwReporting, notReset, initPc>>
    BY <1>15, Zenon DEF initializeSubHal
  <2>2. initNext \in Nat /\ (owner \in SubHals /\ owner < initNext + 1 => owner = initNext \/ owner < initNext)
    BY <1>4, <2>1, Common
  <2>3. Kinds'
    BY <1>1, <1>3, <2>1
  <2>4. Reset'
    BY <1>1, <1>3, <2>1, <2>2
  <2>5. QED
    BY <1>1, <1>3, <2>1, <2>3, <2>4
<1>16. CASE finishInitialize
  <2>1. /\ initPc = "subHals" /\ initPc' = "idle" /\ notReset' = initNext .. Len(mSubHalList) - 1
        /\ UNCHANGED <<channel, reporting, fwReporting, subReady>>
    BY <1>16, Zenon DEF finishInitialize, directVars
  <2>2. /\ initNext .. Len(mSubHalList) - 1 \subseteq SubHals
        /\ owner \in SubHals /\ owner \notin initNext .. Len(mSubHalList) - 1 => owner < initNext
    BY Common DEF ListOK, SubHals, Counters
  <2>3. fwReporting = {}
    BY <1>1, <2>1
  <2>4. Kinds' /\ Listing'
    BY <1>1, <1>3, <2>1, <2>2, <2>3
  <2>5. Match'
    BY <1>1, <1>3, <2>1, <2>2, <2>3
  <2>6. QED
    BY <2>1, <2>4, <2>5
<1>17. QED
  BY <1>5, <1>6, <1>7, <1>8, <1>9, <1>10, <1>11, <1>12, <1>13, <1>14, <1>15, <1>16, ReportFrame

-----------------------------------------------------------------------------
(* The theorems. *)

\* The invariant holds of every reachable state, for every hals.conf, any sub-HALs
\* and any number of initialize() calls, framework calls and announcements.
THEOREM RoutingInvariant == Spec => []IInv
<1>1. IInv /\ [Next]_vars => IInv'
  BY CountersStep, ListStep, SensorStep, ListingStep, ModesStep, ShapeStep, PhasesStep, ViewsStep,
     RequestsStep, ReportsStep DEF IInv
<1>2. QED
  BY InitInv, <1>1, PTL DEF Spec

\* Every variable of the router has its type.
THEOREM RoutingTypes == Spec => []TypeOK
<1>1. ASSUME IInv PROVE TypeOK
  <2>1. /\ Counters /\ ListOK /\ SensorShape /\ ModesInv /\ DynamicShape /\ ActiveKnown /\ Reports
    BY <1>1 DEF IInv
  <2>2. /\ mDynamicSensors \in [DOMAIN mDynamicSensors -> Sensor] /\ fwDynamic \subseteq Sensor
        /\ dynCall \in [SubHals -> [kind : {"none", "connected", "disconnected"},
                                    sensors : SUBSET Sensor]]
    BY <2>1, DynamicFacts DEF DynamicShape
  <2>3. DOMAIN mDynamicSensors \subseteq Nat
    BY <2>1, <2>2 DEF DynamicShape, Sensor
  <2>4. QED
    BY <2>1, <2>2, <2>3, Zenon DEF TypeOK, Counters, ListOK, SensorShape, ModesInv, DynamicShape,
       ActiveKnown, Reports
<1>2. QED
  BY RoutingInvariant, <1>1, PTL

\* A sub-HAL has exactly those sensors enabled that the present framework enabled,
\* and those that refused to be disabled: through activate(), plugging, failed and
\* repeated calls of initialize().
THEOREM ActiveAsRequested == Spec => []SensorsMatchRequests
<1>1. ASSUME IInv PROVE SensorsMatchRequests
  BY <1>1 DEF IInv, SensorsMatchRequests, CanCall, Requests, Enabled, Known
<1>2. QED
  BY RoutingInvariant, <1>1, PTL

\* A published handle leads back to the sub-HAL and the handle it was made from; the
\* listed sensors stay published, with direct flags only on the direct channel's
\* sub-HAL, and operator[] adds empty entries beside them.
THEOREM HandlesLeadBack == Spec => []CallsReachOwner
<1>1. ASSUME IInv PROVE CallsReachOwner
  <2> DEFINE listed == initializeSensorList(mSubHalList)
  <2>1. ASSUME NEW s \in Published \ {DefaultSensor}
        PROVE  <<Delivered(s.handle).to, Delivered(s.handle).handle>> = s.name
    BY <1>1, PublishedFacts DEF IInv, Delivered
  <2>2. /\ \A h \in DOMAIN mSensors :
              mSensors[h] = IF h \in DOMAIN listed THEN listed[h] ELSE DefaultSensor
        /\ DOMAIN listed \subseteq DOMAIN mSensors
    BY <1>1, Zenon DEF IInv, ListingKept, KeepsListed
  <2>3. \A h \in DOMAIN mSensors : mSensors[h].direct => mDirectChannelSubHal = mSensors[h].name[1]
    BY <1>1, EmptyEntry DEF IInv, SensorShape
  <2> HIDE DEF listed
  <2>4. \A h \in DOMAIN mSensors :
            IF h \in DOMAIN listed
            THEN mSensors[h] = listed[h] /\ (listed[h].direct => mDirectChannelSubHal = listed[h].name[1])
            ELSE mSensors[h] = DefaultSensor
    BY <2>2, <2>3
  <2>5. QED
    BY <2>1, <2>2, <2>4, Zenon DEF CallsReachOwner, listed
<1>2. QED
  BY RoutingInvariant, <1>1, PTL

\* Outside initialize() the sub-HALs are in the mode the proxy takes them to be in.
THEOREM ModesKept == Spec => []ModesAgree
<1>1. ASSUME IInv PROVE ModesAgree
  BY <1>1 DEF IInv, ModesInv
<1>2. QED
  BY RoutingInvariant, <1>1, PTL

\* Between calls the framework knows exactly the dynamic sensors of the map.
THEOREM FrameworkKnowsMap == Spec => []DynamicView
<1>1. ASSUME IInv PROVE DynamicView
  <2>1. ListOK /\ DynamicShape /\ Views
    BY <1>1 DEF IInv
  <2> SUFFICES ASSUME NEW i \in SubHals, i \notin overlapped, dynCall[i] = IdleCall,
                      initPc \in {"idle", "subHals"}
               PROVE  {s.handle : s \in {f \in fwDynamic : f.name[1] = i}}
                          = {h \in DOMAIN mDynamicSensors : mDynamicSensors[h].name[1] = i}
    BY DEF DynamicView
  <2>2. InMap \cap DynamicOf(i) = fwDynamic \cap DynamicOf(i)
    BY <2>1 DEF Views, ViewOf
  <2>3. \A s \in AllDynamic : s.name[1] = i <=> s \in DynamicOf(i)
    BY <2>1, DynamicNames
  <2>4. fwDynamic \subseteq AllDynamic /\ InMap \subseteq AllDynamic
    BY <2>1, MapFacts DEF DynamicShape
  <2>5. \A h \in DOMAIN mDynamicSensors : mDynamicSensors[h] \in InMap /\ mDynamicSensors[h].handle = h
    BY <2>1 DEF DynamicShape, InMap
  <2>6. \A s \in InMap : s.handle \in DOMAIN mDynamicSensors /\ mDynamicSensors[s.handle] = s
    BY <2>1, MapFacts
  <2>7. QED
    BY <2>2, <2>3, <2>4, <2>5, <2>6
<1>2. QED
  BY RoutingInvariant, <1>1, PTL

\* The direct reports of the sub-HAL with the direct channel are the framework's.
THEOREM ReportsKept == Spec => []ReportsMatch
<1>1. ASSUME IInv PROVE ReportsMatch
  <2>1. ListOK /\ Reports
    BY <1>1 DEF IInv
  <2> DEFINE owner == mDirectChannelSubHal
  <2> SUFFICES ASSUME initPc = "idle", owner # NoSubHal, owner \notin notReset
               PROVE  {<<owner, l>> : l \in reporting \cap Static(owner)}
                          = {n \in fwReporting : n[2] \notin DOMAIN DynamicSensors}
    BY DEF ReportsMatch, CanCall
  <2>2. owner \in SubHals /\ Static(owner) \cap DOMAIN DynamicSensors = {}
    BY <2>1 DEF ListOK
  <2>3. \A l \in Static(owner) : l \in reporting <=> <<owner, l>> \in fwReporting
    BY <2>1, <2>2 DEF Reports
  <2>4. \A n \in fwReporting : /\ n = <<n[1], n[2]>>
                               /\ n[2] \notin DOMAIN DynamicSensors => n[1] = owner /\ n[2] \in Static(owner)
    BY <2>1 DEF Reports
  <2>5. QED
    BY <2>2, <2>3, <2>4
<1>2. QED
  BY RoutingInvariant, <1>1, PTL

=============================================================================
