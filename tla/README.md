# TLA+ models of the camellia device HALs

The repository is an Android device tree. Most of it is data (overlays, audio and media
configuration, policies, makefiles, init scripts). What runs and has state of its own is
C++: a fork of the sensors multi-HAL proxy, two USB HALs, a fingerprint HAL, `libinit`
and two small extensions. This directory models the parts whose correctness depends on
threads, timeouts and half-finished work.

| Module | Models | Kind |
|---|---|---|
| `HalProxy` | `sensors/HalProxy.cpp`, `HalProxyCallback.cpp`: event path, wakelock, `initialize` | component |
| `HalProxyProofs` | theorems about `HalProxy` | proofs |
| `EventChannel` | what the event path promises: one lossy channel | abstract specification |
| `HalProxyChannel` | `HalProxy` implements `EventChannel` | refinement |
| `HalProxyChannelProofs` | the refinement, and what needs the line of events: order, size, wake accounting | proofs |
| `ListLemmas` | least naturals, `FlattenSeq`, parts of sequences | lemmas |
| `SensorRouting` | `sensors/HalProxy.cpp`: sub-HALs, handles, calls, modes, direct channel, dynamic sensors | component |
| `SensorRoutingProofs` | theorems about `SensorRouting` | proofs |
| `UsbGadget` | `usb/UsbGadget.cpp` | component |
| `UsbGadgetProofs` | theorems about `UsbGadget` alone | proofs |
| `UsbDataSignal` | `enableUsbDataSignal` of `usb/Usb.cpp` against `UsbGadget` | composition |
| `UsbDataSignalProofs` | the same theorems, and more, about both HALs | proofs |
| `Usb` | the rest of `usb/Usb.cpp` | component |
| `UsbProofs` | theorems about `Usb` | proofs |
| `Fingerprint` | `fingerprint/BiometricsFingerprint.cpp`, `service.cpp` | component |
| `FingerprintProofs` | theorems about `Fingerprint` | proofs |
| `MC...` | sets and symmetry for TLC | instances |

Every operator keeps the name of the function it models where TLA+ allows it; operators
that end in `_Something` after an existing name and are commented "Mutation" are faulty
variants: TLC must find the property violated when they replace the original.
`PROJECT.json` maps every definition to its lines.

## Inventory

**Sensors proxy, event path** (modelled). State: the pending-write queue and its size,
the event FMQ and the wake lock FMQ shared with the framework, the wakelock reference
count, its start and reset times, `mThreadsRun`. Actors: any number of sub-HAL threads
(`createScopedWakelock`, `postEvents`, the wakelock's destructor), the pending-writes
thread, the wakelock thread, the binder thread in `initialize`/`activate`, the framework
reading and acknowledging, the clock. Hard: the front entry is used outside the mutex,
`initialize` clears the queue without it, notifications without it, wakelocks that
outlive a timeout reset. Correct means: events in order and once; the count covers
every unacknowledged wake event; a count comes with the kernel wakelock; nothing pends
and nothing is held for ever; `initialize` ends.

**Sensors proxy, routing** (modelled). State: the list of sub-HALs, the maps `mSensors`
and `mDynamicSensors` from handles to sensors, the owner of the direct channel, the
operation mode, the framework's callback. Actors: the one binder thread, a thread of
every sub-HAL that announces dynamic sensors, the pending-writes thread (which writes
`mSensors` by reading it). Hard: a framework that dies and leaves sensors, modes and
reports behind; sub-HALs that refuse one of several steps; announcements while
`initialize` clears the map without its mutex. Correct means: a call reaches the sub-HAL
and the sensor that the handle was published for; a failed mode change leaves everyone
in the old mode; what is enabled, reporting and known is what this framework asked for
and was told.

**USB gadget HAL** (modelled). State: requested functions and whether they are applied,
the endpoint list, the monitor thread and its descriptors, `gadgetPullup`, and in
configfs links, ids and the UDC binding. Actors: the binder thread in
`setCurrentUsbFunctions`, the monitor, `reset`, ffs daemons. Hard: a monitor that
outlives its request, teardown that fails half way, descriptors that come after the
timeout, daemons that restart. Correct means: no request inherits anything of the last
one, answers are true, the host sees the ids of what is linked, calls return.

**USB type-C HAL** (modelled). State: the callback, the
worker thread with `destroyThread` and `mPoll`, `mPartnerUp`, three mutexes, and in
sysfs the role nodes and the partner. Actors: two binder threads (`service.cpp` asks
for a pool of two), the worker, SIGUSR1, the kernel's uevents. Hard: lost signals,
timeouts against arrivals, uevents read late, joining a thread that wants a lock.
`enableUsbDataSignal` shares the UDC file, and no lock, with the gadget HAL.

**Fingerprint HAL** (modelled). State: the device, which module it is of, the client's
callback, a persistent property. Actors: `main` (the constructor, then the one binder
thread), a thread of the vendor library in `notify`, init. Hard: the vendor's thread may
call back before the constructor has assigned the device; modules that fail at each step
of `openHal`; restarts, after which only the property is left. Correct means: messages
come from the device that requests go to, under the token its client was given; the
property names that device; codes survive their translation.

## HalProxy

An action is one critical section of `mEventQueueWriteMutex` or `mWakelockMutex`, or one
step outside both. A condition variable's wait is two steps (`waitEnter`, mutex held and
predicate false; `blocked`, mutex released), so that a `notify_one` made without the mutex
can fall between them. `initialize` is eleven steps (`initPc`). An event is its position
in posting order and whether it is a wake event. Posting a batch is five steps or fewer:
create the wakelock, test `areThreadsRunning`, the critical section, the destructor.

Abstractions: the kernel wakelock is a Boolean (`wakelockHeld`; acquiring twice and
releasing once releases it). Time is the age of `mWakelockTimeoutStartTime`, saturating
one past the timeout; a reset makes every wakelock created before it stale (the clock is
strictly increasing). The test of `mThreadsRun` that precedes a critical section is atomic
with it. A `writeBlocking` or `readBlocking` either finds room or data, or times out.
Sensor types are reduced to `Kinds`. History variables (`nextId`, `lastRead`,
`disturbed`) are read by properties only.

One constant states what the repository does not decide. `DisableQuiesces`: a sub-HAL's
`activate(h, false)` returns only after the post under way. Sub-HALs are vendor binaries;
without it `PendingSizeExact` and `WakeAccounting` fail, because `initialize` changes the
queue and its size without the mutex (Known deviations); `TypeOK`,
`CountedMeansHeld`, `FrontStable`, `HeldUncountedOnlyByFilter` and the refinement do not
depend on it, as the proofs show. A sub-HAL that answers may refuse: the code ignores the
result, so `disableAllSensors` leaves any subset of the active posters active, with or
without `DisableQuiesces`.

libfmq takes a timeout of 0 ns for none (external, from its use at `HalProxy.cpp:669`).
When the thread looks at the clock in the very tick of the timeout, `timeLeft` is 0 and
the read is `readingForever`: it ends with an acknowledgement or `stopThreads` only.

| Run | Instance | Shows |
|---|---|---|
| `halproxy_reinit` | 1 poster, batches with pick-up events, 2 `initialize`, quiescing sub-HALs that may refuse | `ImplementsChannel` (below); types; a count comes with the kernel wakelock, and a kernel wakelock without a count from the pick-up filter only; front entry stable; size of the pending queue exact and bounded; wakelock count sufficient; order of events over both paths |
| `halproxy_live` | 1 poster, batches with pick-up events, fair threads, no fair framework | pending events drain; the wakelock is released once no new wakelocks are created, unless the thread waits in `readingForever` |
| `halproxy_init_hang` | no events, 2 `initialize` | *violation*: `initialize` can hang |

Bounds: an FMQ of one slot against batches of one and two events gives direct writes,
partial writes, chunks and full queues; a pending limit of 2 is reached and overrun by
3 events; a timeout of one tick gives ages before, in and after it;
`SizeModulus` 8 makes a wrong size wrap visibly. One poster interleaves with both threads,
the binder thread and the framework; several posters, whose critical sections exclude each
other, are left to the theorems, which hold for any number (two of them, 4 events and one
`initialize` were checked once for `EventsInOrder` and `WakeAccounting`: 3.8 million states
up to symmetry, no error).

`WakeAccounting` excuses what the code gives up on purpose: after a timeout reset, or
after the rest of a partly written batch was dropped and the whole batch taken from the
count, the count may be too small until the next `initialize` (`disturbed`).

Fairness: the threads, a post once begun, `initialize` once begun, and the clock. Strong
fairness where a thread waits for a mutex that others take again and again. None of the
framework, of new posts or of spurious wakeups.

### Refinement

`EventChannel` is the event path as the framework may think of it: one line of numbered
events. `Post` numbers a batch and takes a prefix of it, `Take` removes the oldest ones,
`Lose` a run of neighbours; nothing reorders, repeats or invents an event. In
`HalProxyChannel` the line is the FMQ followed by the pending events that have not been
written yet (`NotWritten` leaves out the chunk that is in the FMQ already and still in the
front entry), so that the pending-writes thread's write and pop are invisible, the direct
write of a batch's beginning and the queueing of its rest are one `Post`, a write that
times out and a cleared queue are `Lose`, the framework's read and `stopThreads`' drain
are `Take`. `EventsInOrder` says what follows for the order alone.

### Proofs

For every finite set of posters, every set of batches, every queue size, limit and
timeout, with sub-HALs that refuse:

| Theorem | Property | Assumes besides |
|---|---|---|
| `TypeCorrectness` | `TypeOK`: the count stays a natural number, the FMQ within its slots, the size in `size_t` | |
| `CountedIsHeld` | `CountedMeansHeld` | |
| `FrontIsStable` | `FrontStable` | |
| `HeldUncountedByFilter` | `HeldUncountedOnlyByFilter` | |
| `Refinement` | `ImplementsChannel` | |
| `ReadInOrder` | `EventsInOrder` | |
| `SizeIsExact` | `PendingSizeExact` | `DisableQuiesces`, `NoWrap` |
| `WakesAreCovered` | `WakeAccounting` | `DisableQuiesces` |

`NoWrap` says that limit and batch together stay below 2^64. The instances of the runs
satisfy both.

*The invariant* (`Invariance`). `FrontStable` is not inductive: that nobody clears the queue under the
pending-writes thread depends on where `initialize` is, so `IInv` adds `ThreadsStopped`
(`mThreadsRun` is false from `stopThreads` to the new threads' start; a joined thread is
gone) and `PostersHaveBatches`. `TypeOK` needs `FrontStable` in turn, since the pop takes
the head of the queue. There is one lemma per group of actions and one for each of
increment, decrement and reset. `HeldUncountedByFilter` goes through the steps that touch
count and kernel wakelock (`CountSteps`) and needs `LocksHaveReasons` (a locked wakelock
belongs to a post, of a batch that called for it): of the three ways to acquire it, only
an increment by the 0 wake events that the filter left adds nothing to the count.
`Quiet`, used below, says that from `disableAllSensors` to the start of the threads nobody
is in the critical section of a post or holds a locked wakelock. A sub-HAL that refused may
begin a post meanwhile, but finds the threads stopped and gives it up.

*The refinement.* `Line` is the FMQ followed by `NotWritten`; `onTheWay` is its event
numbers. `LineSteps` says which actions can touch it at all; one lemma for each of these
says how: the chunk that `pwWriteBlocking` moves and `pwPop` removes cancel out
(`SameLine`), a post appends a prefix of its events (`Posts`: with a direct write nothing
was pending, so the two parts meet), the framework and the drain remove a beginning
(`Takes`), a timeout and `initialize` a middle part (`Loses`). Each kind is then a step of
the channel. Order is not proved of the proxy: `ChannelOrder` is an invariant of the
abstract channel, and `EventsInOrder` follows through the refinement.

*The sums.* `SizeIsExact` follows the same lemmas with lengths, and needs `Quiet` because
`initialize` clears queue and size in two statements without the mutex. For
`WakesAreCovered` each side of the inequality is followed action by action: `W` counts the
wake events of a sequence (`WConcat`, `WPrefix`, `WOne`), `TotalOf` adds up the
acknowledgements (`TotalAppend`, `TotalHead`, from the existence and uniqueness of the
recursive function), `Live` is the set of live wakelocks. Two more facts are needed:
`AckPending` (a number that was read is subtracted before the next is read) and
`ReasonsHaveLocks` (a poster with wake events has a wakelock while threads run, or its
events would be queued without being counted).

Assumptions on constants: `BatchesAssumption` (a batch is a non-empty sequence of kinds,
and what the filter leaves is a sequence of kinds that occur in it; the second half is
stated because the provers have no theorem about `SelectSeq`), `BoundsAssumption` (sizes
are positive, the limit is below 2^64), `PostersAssumption` (finitely many posters). TLC
evaluates them in every run.

Induction over a recursive function goes through the least element of a set of
counterexamples (`LeastNatural`), since the induction theorems with an operator parameter
cannot be used; `ListLemmas` does it for `FlattenSeq`.

Only model-checked: the liveness properties (`PendingDrains`, `WakelockReleased`), here
and in all other components, because fairness and `ENABLED` are out of the prover's reach.

## SensorRouting

A sensor is the pair of its sub-HAL's index and that sub-HAL's own handle (`name`), the
handle it is published under, and its direct channel flags. Handles are integers with
their real width: the index is what is left of 24 bits, and a handle whose first byte is
in use is refused by the list and by `onDynamicSensorsConnected`. `Init` is the
constructor: the libraries of `hals.conf` that load (`Loads`), their sensors
(`initializeSensorList`) and the owner of the direct channel (`DirectOwner`).

The binder thread is alone (`service.cpp`), so a framework call is one action: `activate`,
`setOperationMode` (with the sub-HAL that fails and those that refuse to go back chosen
freely), the three direct channel calls. `batch`, `flush` and `injectSensorData` change
nothing in the proxy; where they go is `Delivered`, when injection is let through
`injectSensorData`. A framework calls what it was shown (`Published`): what
`getSensorsList` returns, the empty entries with handle 0 included, and the dynamic sensors
it was told of. A call on an empty entry goes to sensor 0 of the first sub-HAL (`Meant`).
`onDynamicSensorsConnected` and `...Disconnected` are two steps: the map, under the mutex,
and the callback. `initialize` is split into `disableAllSensors`, `clearDynamicSensors`,
`setDynamicSensorsCallback`, one `initializeSubHal` each and `finishInitialize`, at any
place from which the loop may have been left. `session` counts the frameworks: a callback
of an earlier one is heard by nobody. `countNumWakeupEvents` is here a second time, for
what it does to `mSensors`: the pending-writes thread calls it when it drops a chunk of an
oversized batch.

External, from how the proxy uses them: a sub-HAL accepts calls for sensors it has, its
`initialize` puts it back into its first state, a sensor that is gone is not enabled any
more, a closed channel has no reports. Whether a call is refused is left open where the
code has a path for it.

Four history variables name what the code gives up: `stuck` (sensors that refused to be
disabled), `modeLost`, `notReset` (sub-HALs after the failing one) and `overlapped`
(sub-HALs in a call while `initialize` replaced map and callback). The properties say what
holds for all others.

| Run | Instance | Shows |
|---|---|---|
| `sensor_routing` | 3 configurations of two sub-HALs, 2 `initialize`, 3 calls, 2 announcements | sensors enabled = sensors asked for; handles lead back and the listed sensors stay published as they were; modes agree, also for injection; known dynamic sensors; direct reports |

Bounds: a library that does not load comes before or between the sub-HALs, so that places
in the file and in the list differ; both sub-HALs have a sensor with the same own handle;
one list has a dropped pick-up sensor with direct flags, one a handle with an index. Three
calls are enough to enable a sensor, open a channel and report on it, or to fail a mode
change in a changed mode; two announcements to plug a sensor in and, in the next framework,
again, or to remove it. The framework stops at these bounds, so deadlock is not checked.

### Proofs

`SensorRoutingProofs` proves all six invariants of the run (`RoutingTypes`,
`ActiveAsRequested`, `HandlesLeadBack`, `ModesKept`, `FrameworkKnowsMap`, `ReportsKept`)
for every `hals.conf`, any sensors, and any number of calls, announcements and
frameworks. `RoutingAssumption` gives the libraries their types, at most 128 of them (the
handle is an `int32_t`: the index of a further one would reach the sign bit), and says
that no dynamic sensor has the own handle of a listed one or 0, which is a sub-HAL's
business and which the code relies on (a sensor with handle 0 would be called through the
empty entries).

The inductive invariant (`RoutingInvariant`) has eleven parts, each with its own step lemma. The
round trip of the handle encoding (`Handles`) and what `initializeSubHalListFromConfigFile`
and `initializeSensorList` return give `SensorShape`: a key of `mSensors` is the handle of
its entry, or `operator[]` inserted the entry. `ListingKept` says that nothing else became
of the list of sensors: `operator[]` adds empty entries under handles that were not listed
and changes none. So `HandlesLeadBack` excepts the empty entries alone, whose handle 0
leads to no sensor they were made from, and says what they are and that they take no listed
sensor's place. `Views` relates map and framework during an
announcement: what a sub-HAL is connecting is in the map already and not known yet, what
it disconnects the other way round. `Requests` is `SensorsMatchRequests` at every step,
with `Asked`: a sensor that was asked for can be found again by `disableAllSensors`, in
`mSensors` or among the dynamic sensors the framework was told of. `Phases` (whose
callback is set at which step), `ModesInv` and `Reports` follow the sub-HALs that
`initialize` has passed.

The proof corrected the model: `stuck` used to be replaced by each `disableAllSensors`,
but a dynamic sensor that refused in one `initialize` and is gone from the map (cleared
without reset when a sub-HAL failed) is not asked again by the next. It stays enabled, so
`stuck` keeps it. Three calls of `initialize` show it, one more than the run's bound.

## UsbGadget

`mLockSetCurrentFunction` is held for a whole call, so one call at a time is modelled;
`setPc` is its step. `monitorFfs`, `reset` and the daemons interleave with every step.
`mLock` is held by the setter exactly in the steps `spawned` and `answer` (`mLockFree`).
Functions, links and ids are sets and strings; a gadget binds if a function is linked,
every ffs function has its descriptors, and the UDC is not bound (`canPullUp`, modelled
from how the HAL uses configfs); removing a link or losing a daemon unbinds it. With
`FilesFail` every configfs write or link of a call may fail, leaving the links made so
far, and with `PullUpFails` the monitor's write of the UDC. The
links are made one at a time, vendor functions in the order of the property
(`LinkOrder`), since `enableUsbDataSignal` may bind the gadget between two of them; that
step is the one `HostSeesIds` leaves out.
`getCurrentUsbFunctions` changes nothing: it is the pair of variables it reads.

| Run | Instance | Shows |
|---|---|---|
| `usbgadget_faults` | module `UsbDataSignal`; requests NONE, RNDIS, ADB+MTP and an unsupported one; failures; `reset`; data signal on and off; vendor functions | all functions shown, clean start of every setup, true SUCCESS answers, NONE stays down, ids match links, endpoint list stable |
| `usbgadget_live` | requests as above, failures in the calls but not in the monitor (a failed pull-up waits for the next inotify event), fair | calls return and answer; late descriptors are noticed |
| `usbgadget_restart` | ADB | *violation*: a quick restart of the daemon is missed |

Fairness: the binder thread inside a call and the monitor; strong fairness of `monStop`,
since one `epoll_wait` reports every ready descriptor and a stream of inotify events
cannot hide the event descriptor. Two unread inotify events are enough for a death and
a restart between two looks.

### UsbDataSignal

The USB service runs both HALs in one process with two binder threads.
`enableUsbDataSignal` writes the controller's data file, which nothing reads back, and
then the UDC that `setCurrentUsbFunctions` and the monitor write, without any lock:
`UsbDataSignal` lets both writes come between any two steps of `UsbGadget`, and keeps the
functions the gadget had when it was bound (`hostLinks`), which is what the host sees.
The properties of `UsbGadget` hold with this interference too, and `HostSeesAllLinks`: a
request that was answered SUCCESS shows all its functions, because binding a bound gadget
fails and the code looks at that result.

### Proofs

`UsbGadgetProofs` and `UsbDataSignalProofs` prove the invariants of `usbgadget_faults`
and `EndpointsStable`, for every set of requests and every setting of the constants: of
the gadget HAL alone (`GadgetInvariant`, `GadgetTypes`, `GadgetSafety`,
`GadgetEndpoints`), and of both HALs (`HalsTypes`, `CleanSetup`, `TrueSuccess`,
`NoneStaysDown`, `IdsMatchLinks`, `AllLinksSeen`, `StableEndpoints`). Assumptions: the
types of the constants.

None of them is inductive. `IInv` adds who owns a monitor (`MonitorOwned`: no call gets
past the join of its teardown while one lives), what is torn down (`TornDown`: a bound
gadget has links, and from unlinking to the first link there is none), how far the call
is (`CallProgress`, `LinksOfRequest`: the ids were written for the request whose links are
made), that the monitor reports a pull-up together with "applied" (`PullUpApplied`), and
what the last call left (`Outcome`). The steps beside the calls, of the monitor, the
daemons, `reset` and the data signal, are covered by one lemma about what all of them have
in common (`Beside`): they change no link and bind only a gadget that has one. So the
composition only has to show that the write of the UDC is such a step, and to add
`HostView` for what the host sees.

## Usb

One port. Binder threads and workers share `pc`. `mRoleSwitchLock` is a variable because
it is held across calls; `mLock` is held in the step `reading`, `mPartnerLock` in `armed`
and `written`. `pthread_cond_timedwait` returns by signal, spuriously or by timeout, and
after a timeout the thread has yet to take the mutex (`timedOut`). The worker's loop
condition and `epoll_wait` are two steps. A query reads the list of partners and then the
roles, with the kernel free to change them in between. What the framework is told is the
record `reported`; it takes a port with a mode for connected, which is what the spoofed
roles in `getPortStatusHelper` are for. Callbacks are objects (`Callbacks`), some of
interface 1.0 only (`V1_0Callbacks`); a query keeps the object that it has cast (`casted`)
and tells that one, so `reported` changes only if it still is the present callback.
`uevent_event` may discard a message (`workDiscard`): too long, or `recv` failed. Any
binder thread in `Setters` calls `setCallback`; after the unlock it kills and joins what
`mPoll` holds by then (`kill`, `join`, `joining`; joining a thread that was joined before
returns at once). `fputs` is buffered: a refused value is not
noticed. Left out: `canSwitchRoleHelper`, the contaminant fields and the conversion
between status versions (data only), a role of unknown type (returns at once).

| Run | Instance | Shows |
|---|---|---|
| `usb_faults` | 2 binder threads, 1 worker, both modes and a data role, failing files and sockets | no arrival lost before the wait; the worker leaves a port in a role switch alone; reported outcome = state of the port, unless the kernel ignored the last write |
| `usb_setters` | 2 binder threads set and remove callbacks and query, 2 workers, interchangeable | the worker lives as long as the callback, unless one was set while the other thread killed and joined (`crossed`) |
| `usb_live` | 1 binder thread, two callbacks of different versions, failing worker, fair, uevents keep coming | `setCallback` and `switchRole` return; changes are reported to a callback that stays, unless a message is discarded |
| `usb_kill` | the same without the uevents | *violation*: lost SIGUSR1 |

Bounds: a socket of one or two messages is full, loses messages and holds one that is
older than the mode switch. Two workers are enough for one callback to be set while the
worker of the last is still there, which is where `crossed` begins; a third is out of
bounds (the call is not made). Workers that fail beside two setters are left to the
theorem, role switches to `usb_faults`.
Local variables are reset when they go out of scope. `ignored` and `crossed` are history
variables.

Fairness: binder threads inside a call, workers (strong, for mutexes), signal delivery;
strong fairness of the timeout, which each spurious wakeup restarts (`wait_again`). Only
`usb_live` assumes further uevents: the socket receives those of all subsystems, battery
and thermal included.

### Proofs

`UsbProofs` proves, for any binder threads and workers, any socket size and with or
without failing files: `UsbTypes` (`TypeOK`), `SignalNotLost` (`NoSignalLost`),
`SwitchReportsOutcome` (`ModeSwitchOutcome`), the action property `ModeStaysDuringSwitch`
(`ModeStableDuringSwitch`), and, for any number of threads that set and remove callbacks,
`WorkerLivesWithCallback` (`WorkerMatchesCallback`). Assumptions: binder threads and
workers are different, and the types of the other constants.

The heart of `IInv` is `RoleLock`: `roleSwitchOwner` is exactly who is between lock and
unlock of `mRoleSwitchLock`, binder thread or worker, so that at most one thread is in a
switch and the worker cannot write `port_type` during one. With `SwitchLocals` (which
branch of `switchRole` a step belongs to), `PartnerDown` (nobody is up from arming to the
wait) and `ModeWritten` (what was written is still in the node, unless the kernel ignored
it) the outcome follows; `NodeWords` and `PollSet` carry the types. The last theorem is the
invariance of `~crossed => WorkerLife`: one thread at a time removes a callback and joins
the last worker created (`OneRemoval`), that worker is the only one (`OneWorker`), and with
a callback, or until the kill, it runs with no signal on its way to it (`MustRun`).

## Fingerprint

`pc` is the place of `main`: the constructor's loop over `fpHals`, the property,
registration, the binder loop. `openHal` and the assignment of `mDevice` are two steps,
because the device has the callback in between. A device is its module and the process
that opened it, a token is a device. The calls that end in `ErrorFilter` are one action
with any result of the library; `setActiveGroup` with a bad path is another, since it does
not touch the device; any call without a device is a null pointer and ends the process.
Codes are integers, so that the boundary at the vendor base is the code's; `answer` and
`delivered` keep the last result and message beside their translations. Messages whose
fields are passed on unchanged are one kind. `currentHal` is not initialized in the code:
`"garbage"` converts to any name. `SetProperty` may fail, which the code ignores
(`notWritten`); a device that `openHal` gives up stays open (`leaked`).

| Run | Instance | Shows |
|---|---|---|
| `fingerprint` | 2 modules, 2 clients, 3 processes, codes at and around the boundaries | messages under the token the client has, also before `mDevice` is assigned and after a restart; the property names the device if it could be written; one device talks, and none that was given up; codes survive |

A process may end at every step. It ends for good at the bound, so deadlock is not checked.

### Proofs

`FingerprintProofs` proves all five invariants (`TypeCorrect`, `TokensMatch`,
`PropertyCorrect`, `OnlyOneDevice`, `CodesRecovered`) for any clients, any results and
codes of the vendor library and any number of processes. `IInv` adds `Constructing` (how
far the constructor is decides which device has the callback and whether `mDevice` and
`currentHal` are assigned), `LeftOpen` (what was given up comes before the module that is
tried), `PropertyWritten` and `ClientHasToken` (a client exists only
while calls are served, so `notify` before the assignment of `mDevice` finds none).
Assumptions: results and codes are integers.

## Findings

Three runs show the code doing what a comment in it excludes; `PROJECT.json` quotes each
line: `initialize` can hang (`notify_one` without the mutex); a quick restart of an ffs
daemon is missed; SIGUSR1 before `epoll_wait` is lost.

### Known deviations

The following is allowed by the modules too, and excused by a property or outside the
runs. Each can be seen by giving TLC the formula in brackets. The first six go against a
comment or an assertion of the code, and the formula is defined in the module:

- A sub-HAL that refuses to be disabled posts into the new queues before its `initialize`,
  against `HalProxy.cpp:236` (`NoEventsBeforeSubHals` with `HalProxyReinit.cfg`).
- A post under way falls between the clearing of the pending queue and that of its size,
  against the same comment (`PendingSizeExact` with `DisableQuiesces = FALSE`).
- A batch of nothing but filtered pick-up events reaches the branch of `postEvents` that
  asserts an unlocked wakelock, `HalProxyCallback.cpp:52`, with a locked one
  (`WakelockMatchesEvents` with `HalProxyReinit.cfg`).
- Dynamic sensors keep their direct channel flags, against `HalProxy.cpp:751`, and a direct
  report on one goes to the wrong sub-HAL (`DirectOnlyFromOwner` with `SensorRouting.cfg`).
- A callback that is set while another thread's `setCallback(NULL)` is between the unlock
  and the end of its join loses its worker to that call, against `Usb.cpp:757-762`
  (`CallbackHasWorker` with `UsbSetters.cfg`).
- `queryVersionHelper` casts the callback before it takes `mLock`, and tells the object it
  has cast; a callback that `setCallback` puts in its place meanwhile is not told, although
  `Usb.cpp:761` says that updating the object suffices (`ReplacedCallbackTold` with
  `UsbKill.cfg` and a second callback).

Further ones, most of which nothing in the repository speaks of:

- After a timeout reset a batch of nothing but filtered pick-up events acquires the kernel
  wakelock with a count of 0, and no timeout releases it (`wakelockHeld =>
  mWakelockRefCount > 0` in `halproxy_reinit`).
- A wakelock thread whose `timeLeft` is exactly 0 waits for an acknowledgement without a
  timeout (`wlPc # "readingForever"`).
- When the rest of a partly written batch is dropped, the wakeups of the whole batch are
  taken from the count, the events already in the FMQ included, which the framework
  acknowledges once more (`WakeAccounting` without `disturbed`).
- An old monitor sets `mCurrentUsbFunctionsApplied` after the next request cleared it;
  when that request fails the flag stays set with nothing linked (`setPc = "idle" /\
  mCurrentUsbFunctionsApplied => links = linksFor(mCurrentUsbFunctions,
  getVendorFunctions)`).
- A partner uevent from before the mode was written counts as the partner's return.
- uevents that `uevent_event` discards are not made up for (`ChangesReported` without
  `pc[w] = "discard"`).
- A mode switch whose wait times out as the partner arrives is reported as ERROR and
  undone, although `mPartnerUp` is set: `Usb.cpp:227` says there were no uevent signals
  (`pc[b] = "timedOut" => ~mPartnerUp`).
- `enableUsbDataSignal(true)` between two links binds the gadget half linked, and the
  request is then answered ERROR with the gadget up; a monitor pulls the gadget up
  although the data signal was turned off.
- `countNumWakeupEvents` enters a default sensor into `mSensors` for every dynamic sensor
  with events in a dropped chunk, and `getSensorsList` then publishes it, with handle 0 and
  no name; a call on it reaches sensor 0 of the first sub-HAL, if there is one
  (`DefaultSensor \notin Published`).
- An announcement that overlaps `initialize` leaves the new framework with a dynamic
  sensor that the map does not have, or without one that it has (`DynamicView` without
  `overlapped`).
- When a sub-HAL fails to initialize, the later ones keep the old framework's mode and
  direct reports (`ModesAgree` without `modeLost`, `ReportsMatch` without `notReset`).
- Without a fingerprint module the property may name one (`mDevice = NoDevice /\
  pc = "serving" => property = "none"`); a property that cannot be written keeps the old
  value (`PropertyNamesDevice` without `notWritten`).

## Not modelled

- `libinit`: runs once, before anything else; a lookup in a table of variants and of
  memory sizes, and straight-line property writes. Nothing interleaves and nothing is kept.
- The power extension (opens, writes and closes an input device per call), the audio shim
  (forwards one constructor): no state between calls.
- The destructors of `HalProxy` and `BiometricsFingerprint`: the services never destroy
  them. `debug` only prints. The constructors of `HalProxy` that take a list are for tests.
- Event flags that cannot be created (`HalProxy.cpp:272`, the threads then use a null
  flag); the data race on `mSensors` itself; locks inside the vendors' sub-HALs, whose
  `activate()` is called with `mDynamicSensorsMutex` held (`HalProxy.cpp:580`).
- Writers of `vendor.usb.config` other than the HAL: a change between the choice of the
  ids and the links (`UsbGadget.cpp:551`) is outside the model.
- Init scripts, overlays, policies, makefiles: read by software outside the repository.

## Plan

All invariants and action properties of the passing runs, and the refinement, are proved.
What is left:

1. `HalProxy` without `DisableQuiesces`: the part of `WakeAccounting` and
   `PendingSizeExact` that survives a post during `initialize`.
2. Safety lemmas behind the liveness properties (who can always take a step while
   something pends), so that only the fairness argument is left to TLC.
