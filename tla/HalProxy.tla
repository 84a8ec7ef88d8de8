------------------------------- MODULE HalProxy -------------------------------
(***************************************************************************)
(* The event path of the sensors multi-HAL proxy (sensors/HalProxy.cpp and *)
(* sensors/HalProxyCallback.cpp): sub-HAL threads post batches of events,  *)
(* the pending-writes thread moves what did not fit to the framework's     *)
(* fast message queue (FMQ), the wakelock thread reads the framework's     *)
(* acknowledgements, and initialize() stops and restarts both threads.     *)
(*                                                                         *)
(* One action is one critical section of mEventQueueWriteMutex or of       *)
(* mWakelockMutex, or one step outside both.  The test of mThreadsRun that *)
(* precedes a critical section is part of it.  A condition variable's wait *)
(* is two steps: "waitEnter" (the predicate was false, the mutex is still  *)
(* held) and "blocked" (the mutex released, a notification is heard).      *)
(***************************************************************************)
EXTENDS Integers, Sequences, FiniteSetsExt, SequencesExt

CONSTANTS
    Posters,                 \* sub-HAL threads that post events
    Batches,                 \* the batches they post: sequences of Kinds
    EventQueueSize,          \* mEventQueue->getQuantumCount()
    AckQueueSize,            \* slots of the wake lock FMQ
    kMaxSizePendingWriteEventsQueue,
    kWakelockTimeout,        \* kWakelockTimeoutNs, in clock ticks
    SizeModulus,             \* 2^64, the range of size_t
    MaxEvents,               \* bound: events posted in a behaviour
    MaxInits,                \* bound: calls of initialize()
    DisableQuiesces          \* activate(h, false) returns, with whatever result, after
                             \* the posts under way

\* What processEvents() tells apart: an event of a WAKE_UP sensor, of another
\* sensor, and one of the (WAKE_UP) pick-up sensor whose scalar is not 1.
Kinds == {"wake", "plain", "putdown"}

\* processEvents(): the pick-up events with a scalar other than 1 are dropped.
processEvents(b) == SelectSeq(b, LAMBDA k : k # "putdown")

\* What SelectSeq returns is stated of the batches: the provers have no theorem on it.
ASSUME BatchesAssumption ==
    \A b \in Batches : /\ b \in Seq(Kinds)
                       /\ Len(b) > 0
                       /\ processEvents(b) \in Seq(Kinds)
                       /\ \A i \in DOMAIN processEvents(b) :
                              \E j \in DOMAIN b : processEvents(b)[i] = b[j]

ASSUME PostersAssumption == IsFiniteSet(Posters)

ASSUME BoundsAssumption ==
    /\ EventQueueSize \in Nat \ {0}
    /\ AckQueueSize \in Nat \ {0}
    /\ kMaxSizePendingWriteEventsQueue \in Nat
    /\ kWakelockTimeout \in Nat
    /\ SizeModulus \in Nat /\ kMaxSizePendingWriteEventsQueue < SizeModulus
    /\ MaxEvents \in Nat /\ MaxInits \in Nat
    /\ DisableQuiesces \in BOOLEAN

VARIABLES
    mThreadsRun,
    mPendingWriteEventsQueue,      \* entries [events, wakeups]
    mSizePendingWriteEventsQueue,
    mEventQueue,                   \* the event FMQ, oldest first
    mWakeLockQueue,                \* the wake lock FMQ: numbers of handled events
    mWakelockRefCount,
    wakelockHeld,                  \* the kernel wakelock (it does not count)
    wakelockAge,                   \* now - mWakelockTimeoutStartTime, saturating
    pwPc,                          \* the pending-writes thread
    wlPc,                          \* the wakelock thread
    wlAck,                         \* its numWakeLocksProcessed
    initPc,                        \* the binder thread inside initialize()
    initCount,
    active,                        \* posters whose sensors are enabled
    postPc, batch, scoped,         \* per poster: step, batch, its ScopedWakelock
    fwWakeups,                     \* wake events read and not acknowledged yet
    nextId, lastRead,              \* history: ids in posting order; last id read
    disturbed                      \* history: the count was cut below what is due

queueVars == <<mPendingWriteEventsQueue, mSizePendingWriteEventsQueue>>
lockVars == <<mWakelockRefCount, wakelockHeld, wakelockAge>>
initVars == <<initPc, initCount, active>>
postVars == <<postPc, batch, scoped>>
vars == <<mThreadsRun, queueVars, mEventQueue, mWakeLockQueue, lockVars, pwPc, wlPc,
          wlAck, initVars, postVars, fwWakeups, nextId, lastRead, disturbed>>

Event == [id : Nat, wake : BOOLEAN]
Entry == [events : Seq(Event), wakeups : Nat]

\* "live": created and not reset since; "stale": mCreatedAtTimeNs is older than
\* mWakelockTimeoutResetTime; "none": isLocked() is false.
ScopedStates == {"none", "live", "stale"}
PwStates == {"none", "loop", "waitEnter", "blocked", "writing", "pop", "exited"}
WlStates == {"none", "loop", "waitEnter", "blocked", "reading", "readingForever",
             "acked", "exited"}
InitStates == {"idle", "drain", "notify", "joinPw", "joinWl", "reset", "disable",
               "clear", "zeroSize", "start", "subHals"}
PostStates == {"idle", "created", "posting", "destroy"}

-----------------------------------------------------------------------------
Lesser(a, b) == IF a <= b THEN a ELSE b

countNumWakeupEvents(es, n) == Cardinality({i \in 1..n : es[i].wake})

\* The events of a batch, numbered in the order of posting.
Numbered(b) == [i \in 1..Len(b) |-> [id |-> nextId + i - 1, wake |-> b[i] = "wake"]]

AvailableToWrite == EventQueueSize - Len(mEventQueue)

\* Mutation: a missing notify_one.
Notified_Never(pc) == pc

\* A waiting thread returns from cv.wait to its predicate when it is notified.
Notified(pc) == IF pc = "blocked" THEN "loop" ELSE pc

EventMutexFree == pwPc # "waitEnter"
WakelockMutexFree == wlPc # "waitEnter"

\* Mutation: the count grows by one, whatever the delta.
increment_ByOne(delta) ==
    IF mThreadsRun
    THEN /\ WakelockMutexFree
         /\ mWakelockRefCount' = mWakelockRefCount + 1
         /\ wakelockHeld' = TRUE /\ wakelockAge' = 0
         /\ wlPc' = Notified(wlPc)
    ELSE UNCHANGED <<lockVars, wlPc>>

incrementRefCountAndMaybeAcquireWakelock(delta) ==
    IF mThreadsRun
    THEN /\ WakelockMutexFree
         /\ mWakelockRefCount' = mWakelockRefCount + delta
         /\ wakelockHeld' = (wakelockHeld \/ mWakelockRefCount = 0)
         /\ wakelockAge' = 0
         /\ wlPc' = IF mWakelockRefCount = 0 THEN Notified(wlPc) ELSE wlPc
    ELSE UNCHANGED <<lockVars, wlPc>>

\* Mutation: the count goes below zero.
decrement_Unclamped(delta, fresh) ==
    /\ mThreadsRun => WakelockMutexFree
    /\ IF mThreadsRun /\ fresh
       THEN /\ mWakelockRefCount' = mWakelockRefCount - delta
            /\ wakelockHeld' = (mWakelockRefCount' > 0)
       ELSE UNCHANGED <<mWakelockRefCount, wakelockHeld>>

\* Mutation: released on every decrement, not only on the last.
decrement_ReleasesEarly(delta, fresh) ==
    /\ mThreadsRun => WakelockMutexFree
    /\ IF mThreadsRun /\ fresh /\ mWakelockRefCount > 0
       THEN /\ mWakelockRefCount' = mWakelockRefCount - Lesser(mWakelockRefCount, delta)
            /\ wakelockHeld' = FALSE
       ELSE UNCHANGED <<mWakelockRefCount, wakelockHeld>>

\* fresh: timeoutStart is not older than mWakelockTimeoutResetTime.
decrementRefCountAndMaybeReleaseWakelock(delta, fresh) ==
    /\ mThreadsRun => WakelockMutexFree
    /\ IF mThreadsRun /\ fresh /\ mWakelockRefCount > 0
       THEN /\ mWakelockRefCount' = mWakelockRefCount - Lesser(mWakelockRefCount, delta)
            /\ wakelockHeld' = (wakelockHeld /\ mWakelockRefCount' > 0)
       ELSE UNCHANGED <<mWakelockRefCount, wakelockHeld>>

MakeStale(w) == [p \in Posters |-> IF w[p] = "live" THEN "stale" ELSE w[p]]

\* Mutation: the count is cleared and the kernel wakelock forgotten.
reset_KeepsWakelock ==
    /\ mWakelockRefCount' = IF mThreadsRun THEN 0 ELSE mWakelockRefCount
    /\ UNCHANGED wakelockHeld
    /\ scoped' = MakeStale(scoped)

\* Mutation: only the reset time is set.
reset_KeepsCount ==
    /\ UNCHANGED <<mWakelockRefCount, wakelockHeld>>
    /\ scoped' = MakeStale(scoped)

\* The new mWakelockTimeoutResetTime is later than every creation so far.
resetSharedWakelock ==
    /\ decrementRefCountAndMaybeReleaseWakelock(mWakelockRefCount, TRUE)
    /\ scoped' = MakeStale(scoped)

-----------------------------------------------------------------------------
(* Sub-HAL threads: createScopedWakelock, postEvents, ~ScopedWakelock. *)

\* A sub-HAL locks the wakelock iff its batch holds events of WAKE_UP sensors,
\* which the pick-up sensor is.
createScopedWakelock(p, b) ==
    /\ postPc[p] = "idle" /\ p \in active
    /\ nextId + Len(processEvents(b)) - 1 <= MaxEvents
    /\ LET lock == \E i \in DOMAIN b : b[i] # "plain"
       IN IF lock
          THEN /\ incrementRefCountAndMaybeAcquireWakelock(1)
               /\ scoped' = [scoped EXCEPT ![p] = IF mThreadsRun THEN "live" ELSE "none"]
          ELSE UNCHANGED <<lockVars, wlPc, scoped>>
    /\ postPc' = [postPc EXCEPT ![p] = "created"]
    /\ batch' = [batch EXCEPT ![p] = b]
    /\ UNCHANGED <<mThreadsRun, queueVars, mEventQueue, mWakeLockQueue, pwPc, wlAck,
                   initVars, fwWakeups, nextId, lastRead, disturbed>>

\* postEvents() returns at once, destroying the wakelock, unless threads run.
postEvents(p) ==
    /\ postPc[p] = "created"
    /\ postPc' = [postPc EXCEPT ![p] = IF mThreadsRun THEN "posting" ELSE "destroy"]
    /\ UNCHANGED <<mThreadsRun, queueVars, mEventQueue, mWakeLockQueue, lockVars, pwPc,
                   wlPc, wlAck, initVars, batch, scoped, fwWakeups, nextId, lastRead,
                   disturbed>>

\* Mutation: a direct write overtakes the pending events.
numFitting_Overtakes(n) == Lesser(n, AvailableToWrite)

\* How many of n events a direct write to the FMQ is tried with.
numFitting(n) ==
    IF mPendingWriteEventsQueue = <<>> THEN Lesser(n, AvailableToWrite) ELSE 0

\* numToWrite events went to the FMQ directly (0 if that write failed).  What is
\* left goes to the pending queue with the wakeup count of the whole batch, or
\* is dropped.
QueueEvents(events, numToWrite, numWakeupEvents) ==
    LET numLeft == Len(events) - numToWrite
        newSize == (mSizePendingWriteEventsQueue + numLeft) % SizeModulus
    IN /\ mEventQueue' = mEventQueue \o SubSeq(events, 1, numToWrite)
       /\ IF numLeft > 0 /\ newSize <= kMaxSizePendingWriteEventsQueue
          THEN /\ mPendingWriteEventsQueue' =
                     Append(mPendingWriteEventsQueue,
                            [events |-> SubSeq(events, numToWrite + 1, Len(events)),
                             wakeups |-> numWakeupEvents])
               /\ mSizePendingWriteEventsQueue' = newSize
               /\ pwPc' = Notified(pwPc)
          ELSE UNCHANGED <<queueVars, pwPc>>

postEventsToMessageQueue(p) ==
    /\ postPc[p] = "posting" /\ EventMutexFree
    /\ LET events == Numbered(processEvents(batch[p]))
           numWakeupEvents == countNumWakeupEvents(events, Len(events))
       IN /\ IF scoped[p] # "none"
             THEN incrementRefCountAndMaybeAcquireWakelock(numWakeupEvents)
             ELSE UNCHANGED <<lockVars, wlPc>>
          /\ \E numToWrite \in {0, numFitting(Len(events))} :
                 QueueEvents(events, numToWrite, numWakeupEvents)
          /\ nextId' = nextId + Len(events)
    /\ postPc' = [postPc EXCEPT ![p] = "destroy"]
    /\ UNCHANGED <<mThreadsRun, mWakeLockQueue, wlAck, initVars, batch, scoped,
                   fwWakeups, lastRead, disturbed>>

\* The wakelock parameter is destroyed after the mutex is released.
destroyScopedWakelock(p) ==
    /\ postPc[p] = "destroy"
    /\ IF scoped[p] # "none"
       THEN decrementRefCountAndMaybeReleaseWakelock(1, scoped[p] = "live")
       ELSE UNCHANGED <<mWakelockRefCount, wakelockHeld>>
    /\ postPc' = [postPc EXCEPT ![p] = "idle"]
    /\ batch' = [batch EXCEPT ![p] = <<>>]
    /\ scoped' = [scoped EXCEPT ![p] = "none"]
    /\ UNCHANGED <<mThreadsRun, queueVars, mEventQueue, mWakeLockQueue, wakelockAge, pwPc,
                   wlPc, wlAck, initVars, fwWakeups, nextId, lastRead, disturbed>>

-----------------------------------------------------------------------------
(* The pending-writes thread: handlePendingWrites. *)

pwUnchanged == <<mThreadsRun, mWakeLockQueue, wakelockAge, wlPc, wlAck, initVars,
                 postVars, fwWakeups, nextId, lastRead>>

front == Head(mPendingWriteEventsQueue)
pwNumToWrite == Lesser(Len(front.events), EventQueueSize)

\* The loop condition, the wait predicate and the test after it.
pwLoop ==
    /\ pwPc = "loop"
    /\ pwPc' = IF ~mThreadsRun THEN "exited"
               ELSE IF mPendingWriteEventsQueue = <<>> THEN "waitEnter" ELSE "writing"
    /\ UNCHANGED <<queueVars, mEventQueue, mWakelockRefCount, wakelockHeld, disturbed,
                   pwUnchanged>>

pwWait ==
    /\ pwPc = "waitEnter"
    /\ pwPc' = "blocked"
    /\ UNCHANGED <<queueVars, mEventQueue, mWakelockRefCount, wakelockHeld, disturbed,
                   pwUnchanged>>

pwSpuriousWakeup ==
    /\ pwPc = "blocked"
    /\ pwPc' = "loop"
    /\ UNCHANGED <<queueVars, mEventQueue, mWakelockRefCount, wakelockHeld, disturbed,
                   pwUnchanged>>

\* writeBlocking, outside the mutex, finds room for the chunk.
pwWriteBlocking ==
    /\ pwPc = "writing" /\ pwNumToWrite <= AvailableToWrite
    /\ mEventQueue' = mEventQueue \o SubSeq(front.events, 1, pwNumToWrite)
    /\ pwPc' = "pop"
    /\ UNCHANGED <<queueVars, mWakelockRefCount, wakelockHeld, disturbed, pwUnchanged>>

\* The wakeups that a chunk which could not be written takes from the count:
\* the whole entry's when it was the entry's last chunk.
pwDropped ==
    IF front.wakeups = 0 THEN 0
    ELSE IF Len(front.events) > EventQueueSize
         THEN countNumWakeupEvents(front.events, EventQueueSize)
         ELSE front.wakeups

\* writeBlocking fails after kPendingWriteTimeoutNs without room.
pwWriteTimeout ==
    /\ pwPc = "writing" /\ pwNumToWrite > AvailableToWrite
    /\ IF front.wakeups > 0
       THEN decrementRefCountAndMaybeReleaseWakelock(pwDropped, TRUE)
       ELSE UNCHANGED <<mWakelockRefCount, wakelockHeld>>
    /\ disturbed' = (\/ disturbed
                     \/ pwDropped > countNumWakeupEvents(front.events, pwNumToWrite))
    /\ pwPc' = "pop"
    /\ UNCHANGED <<queueVars, mEventQueue, pwUnchanged>>

\* What is left of the queue without the chunk that was written or dropped.
pendingWithoutChunk ==
    IF Len(front.events) > EventQueueSize
    THEN <<[events |-> SubSeq(front.events, EventQueueSize + 1, Len(front.events)),
            wakeups |-> front.wakeups]>> \o Tail(mPendingWriteEventsQueue)
    ELSE Tail(mPendingWriteEventsQueue)

\* Mutation: the whole entry is taken from the size for its first chunk.
pwPop_WholeEntry ==
    /\ pwPc = "pop"
    /\ mSizePendingWriteEventsQueue' =
           (mSizePendingWriteEventsQueue - Len(front.events)) % SizeModulus
    /\ mPendingWriteEventsQueue' = pendingWithoutChunk
    /\ pwPc' = "loop"
    /\ UNCHANGED <<mEventQueue, mWakelockRefCount, wakelockHeld, disturbed, pwUnchanged>>

pwPop ==
    /\ pwPc = "pop"
    /\ mSizePendingWriteEventsQueue' =
           (mSizePendingWriteEventsQueue - pwNumToWrite) % SizeModulus
    /\ mPendingWriteEventsQueue' = pendingWithoutChunk
    /\ pwPc' = "loop"
    /\ UNCHANGED <<mEventQueue, mWakelockRefCount, wakelockHeld, disturbed, pwUnchanged>>

handlePendingWrites == pwLoop \/ pwWait \/ pwWriteBlocking \/ pwWriteTimeout \/ pwPop

-----------------------------------------------------------------------------
(* The wakelock thread: handleWakelocks. *)

wlUnchanged == <<mThreadsRun, queueVars, mEventQueue, wakelockAge, pwPc, initVars, postPc,
                 batch, fwWakeups, nextId, lastRead>>

sharedWakelockDidTimeout == wakelockAge > kWakelockTimeout

\* timeLeft may be 0, which libfmq takes for "no timeout".
wlLoop ==
    /\ wlPc = "loop" /\ mThreadsRun
    /\ mWakelockRefCount > 0 => ~sharedWakelockDidTimeout
    /\ wlPc' = IF mWakelockRefCount = 0 THEN "waitEnter"
               ELSE IF wakelockAge = kWakelockTimeout THEN "readingForever" ELSE "reading"
    /\ UNCHANGED <<mWakeLockQueue, mWakelockRefCount, wakelockHeld, wlAck, scoped,
                   disturbed, wlUnchanged>>

wlTimeoutReset ==
    /\ wlPc = "loop" /\ mThreadsRun
    /\ mWakelockRefCount > 0 /\ sharedWakelockDidTimeout
    /\ resetSharedWakelock
    /\ disturbed' = TRUE
    /\ UNCHANGED <<mWakeLockQueue, wlPc, wlAck, wlUnchanged>>

\* The reset after the loop: mThreadsRun is false, so the count stays.
wlExit ==
    /\ wlPc = "loop" /\ ~mThreadsRun
    /\ resetSharedWakelock
    /\ wlPc' = "exited"
    /\ UNCHANGED <<mWakeLockQueue, wlAck, disturbed, wlUnchanged>>

wlWait ==
    /\ wlPc = "waitEnter"
    /\ wlPc' = "blocked"
    /\ UNCHANGED <<mWakeLockQueue, mWakelockRefCount, wakelockHeld, wlAck, scoped,
                   disturbed, wlUnchanged>>

wlSpuriousWakeup ==
    /\ wlPc = "blocked"
    /\ wlPc' = "loop"
    /\ UNCHANGED <<mWakeLockQueue, mWakelockRefCount, wakelockHeld, wlAck, scoped,
                   disturbed, wlUnchanged>>

\* readBlocking, outside the mutex.
wlReadBlocking ==
    /\ wlPc \in {"reading", "readingForever"} /\ mWakeLockQueue # <<>>
    /\ wlAck' = Head(mWakeLockQueue)
    /\ mWakeLockQueue' = Tail(mWakeLockQueue)
    /\ wlPc' = "acked"
    /\ UNCHANGED <<mWakelockRefCount, wakelockHeld, scoped, disturbed, wlUnchanged>>

wlReadTimeout ==
    /\ wlPc = "reading" /\ mWakeLockQueue = <<>>
    /\ wlPc' = "loop"
    /\ UNCHANGED <<mWakeLockQueue, mWakelockRefCount, wakelockHeld, wlAck, scoped,
                   disturbed, wlUnchanged>>

wlAcknowledge ==
    /\ wlPc = "acked"
    /\ decrementRefCountAndMaybeReleaseWakelock(wlAck, TRUE)
    /\ wlAck' = 0
    /\ wlPc' = "loop"
    /\ UNCHANGED <<mWakeLockQueue, scoped, disturbed, wlUnchanged>>

handleWakelocks ==
    wlLoop \/ wlTimeoutReset \/ wlExit \/ wlWait \/ wlReadBlocking \/ wlReadTimeout
    \/ wlAcknowledge

-----------------------------------------------------------------------------
(* The binder thread: initialize (stopThreads, resetSharedWakelock,        *)
(* disableAllSensors, the rest of initializeCommon) and activate.          *)

initUnchanged == <<mSizePendingWriteEventsQueue, lockVars, wlAck, postPc, batch, nextId>>

stopThreads ==
    /\ initPc = "idle" /\ initCount < MaxInits
    /\ mThreadsRun' = FALSE
    /\ initPc' = "drain"
    /\ UNCHANGED <<mPendingWriteEventsQueue, mEventQueue, mWakeLockQueue, pwPc, wlPc,
                   initCount, active, scoped, fwWakeups, lastRead, disturbed,
                   initUnchanged>>

\* With queues of an earlier initialize: make room for the pending-writes
\* thread and feed the wakelock thread a 0 (the write fails on a full queue).
stopDrain ==
    /\ initPc = "drain"
    /\ mEventQueue' = <<>>
    /\ lastRead' = IF mEventQueue = <<>> THEN lastRead ELSE Last(mEventQueue).id
    /\ mWakeLockQueue' = IF initCount > 0 /\ Len(mWakeLockQueue) < AckQueueSize
                         THEN Append(mWakeLockQueue, 0) ELSE mWakeLockQueue
    /\ initPc' = "notify"
    /\ UNCHANGED <<mThreadsRun, mPendingWriteEventsQueue, pwPc, wlPc, initCount, active,
                   scoped, fwWakeups, disturbed, initUnchanged>>

\* Neither notify_one is made under the mutex of its condition variable.
stopNotify ==
    /\ initPc = "notify"
    /\ pwPc' = Notified(pwPc)
    /\ wlPc' = Notified(wlPc)
    /\ initPc' = "joinPw"
    /\ UNCHANGED <<mThreadsRun, mPendingWriteEventsQueue, mEventQueue, mWakeLockQueue,
                   initCount, active, scoped, fwWakeups, lastRead, disturbed,
                   initUnchanged>>

\* Mutation: the thread is not joined.
stopJoinPendingWrites_Skipped ==
    /\ initPc = "joinPw"
    /\ initPc' = "joinWl"
    /\ UNCHANGED <<mThreadsRun, mPendingWriteEventsQueue, mEventQueue, mWakeLockQueue,
                   pwPc, wlPc, initCount, active, scoped, fwWakeups, lastRead, disturbed,
                   initUnchanged>>

stopJoinPendingWrites ==
    /\ initPc = "joinPw" /\ pwPc \in {"none", "exited"}
    /\ pwPc' = "none"
    /\ initPc' = "joinWl"
    /\ UNCHANGED <<mThreadsRun, mPendingWriteEventsQueue, mEventQueue, mWakeLockQueue,
                   wlPc, initCount, active, scoped, fwWakeups, lastRead, disturbed,
                   initUnchanged>>

stopJoinWakelock ==
    /\ initPc = "joinWl" /\ wlPc \in {"none", "exited"}
    /\ wlPc' = "none"
    /\ initPc' = "reset"
    /\ UNCHANGED <<mThreadsRun, mPendingWriteEventsQueue, mEventQueue, mWakeLockQueue,
                   pwPc, initCount, active, scoped, fwWakeups, lastRead, disturbed,
                   initUnchanged>>

initReset ==
    /\ initPc = "reset"
    /\ resetSharedWakelock
    /\ initPc' = "disable"
    /\ UNCHANGED <<mThreadsRun, queueVars, mEventQueue, mWakeLockQueue, wakelockAge, pwPc,
                   wlPc, wlAck, initCount, active, postPc, batch, fwWakeups, nextId,
                   lastRead, disturbed>>

\* The results of activate(h, false) are ignored: a sub-HAL that refuses goes on
\* posting.
disableAllSensors ==
    /\ initPc = "disable"
    /\ DisableQuiesces => \A p \in Posters : postPc[p] = "idle"
    /\ active' \in SUBSET active
    /\ initPc' = "clear"
    /\ UNCHANGED <<mThreadsRun, mPendingWriteEventsQueue, mEventQueue, mWakeLockQueue,
                   pwPc, wlPc, initCount, scoped, fwWakeups, lastRead, disturbed,
                   initUnchanged>>

\* The pending queue is replaced without mEventQueueWriteMutex ...
initClearQueue ==
    /\ initPc = "clear"
    /\ mPendingWriteEventsQueue' = <<>>
    /\ initPc' = "zeroSize"
    /\ UNCHANGED <<mThreadsRun, mEventQueue, mWakeLockQueue, pwPc, wlPc, initCount, active,
                   scoped, fwWakeups, lastRead, disturbed, initUnchanged>>

\* ... and so is its size reset, in a statement of its own.
initZeroSize ==
    /\ initPc = "zeroSize"
    /\ mSizePendingWriteEventsQueue' = 0
    /\ initPc' = "start"
    /\ UNCHANGED <<mThreadsRun, mPendingWriteEventsQueue, mEventQueue, mWakeLockQueue,
                   lockVars, pwPc, wlPc, wlAck, initCount, active, postVars, fwWakeups,
                   nextId, lastRead, disturbed>>

\* Mutation: the wake lock queue keeps the acknowledgements of the old framework.
initStart_OldAcks ==
    /\ initPc = "start"
    /\ mEventQueue' = <<>> /\ fwWakeups' = 0
    /\ mThreadsRun' = TRUE
    /\ pwPc' = "loop" /\ wlPc' = "loop"
    /\ initCount' = initCount + 1
    /\ initPc' = "subHals"
    /\ disturbed' = (\E p \in Posters : postPc[p] = "created")
    /\ UNCHANGED <<mPendingWriteEventsQueue, mWakeLockQueue, active, scoped, lastRead,
                   initUnchanged>>

\* The new framework's queues, with reset pointers, and the new threads.  A post that
\* began while the old ones were stopped could not lock the wakelock.
initStart ==
    /\ initPc = "start"
    /\ mEventQueue' = <<>> /\ mWakeLockQueue' = <<>> /\ fwWakeups' = 0
    /\ mThreadsRun' = TRUE
    /\ pwPc' = "loop" /\ wlPc' = "loop"
    /\ initCount' = initCount + 1
    /\ initPc' = "subHals"
    /\ disturbed' = (\E p \in Posters : postPc[p] = "created")
    /\ UNCHANGED <<mPendingWriteEventsQueue, active, scoped, lastRead, initUnchanged>>

\* Every sub-HAL's initialize(), which enables no sensor.
initSubHals ==
    /\ initPc = "subHals"
    /\ initPc' = "idle"
    /\ UNCHANGED <<mThreadsRun, mPendingWriteEventsQueue, mEventQueue, mWakeLockQueue,
                   pwPc, wlPc, initCount, active, scoped, fwWakeups, lastRead, disturbed,
                   initUnchanged>>

activate(p, enabled) ==
    /\ initPc = "idle" /\ initCount > 0
    /\ enabled # (p \in active)
    /\ DisableQuiesces /\ ~enabled => postPc[p] = "idle"
    /\ active' = IF enabled THEN active \cup {p} ELSE active \ {p}
    /\ UNCHANGED <<mThreadsRun, mPendingWriteEventsQueue, mEventQueue, mWakeLockQueue,
                   pwPc, wlPc, initPc, initCount, scoped, fwWakeups, lastRead, disturbed,
                   initUnchanged>>

initializeCommon ==
    \/ stopThreads \/ stopDrain \/ stopNotify \/ stopJoinPendingWrites \/ stopJoinWakelock
    \/ initReset \/ disableAllSensors \/ initClearQueue \/ initZeroSize \/ initStart
    \/ initSubHals

-----------------------------------------------------------------------------
(* The framework, which calls initialize before it reads, and the clock. *)

fwUnchanged == <<mThreadsRun, queueVars, mWakelockRefCount, wakelockHeld, pwPc, wlPc,
                 wlAck, initVars, postVars, nextId, disturbed>>

frameworkRead ==
    /\ initPc = "idle" /\ mEventQueue # <<>>
    /\ mEventQueue' = Tail(mEventQueue)
    /\ lastRead' = Head(mEventQueue).id
    /\ fwWakeups' = fwWakeups + (IF Head(mEventQueue).wake THEN 1 ELSE 0)
    /\ UNCHANGED <<mWakeLockQueue, wakelockAge, fwUnchanged>>

frameworkAck ==
    /\ initPc = "idle" /\ fwWakeups > 0 /\ Len(mWakeLockQueue) < AckQueueSize
    /\ mWakeLockQueue' = Append(mWakeLockQueue, fwWakeups)
    /\ fwWakeups' = 0
    /\ UNCHANGED <<mEventQueue, wakelockAge, lastRead, fwUnchanged>>

\* The age matters only while the count is positive: incrementing restarts it.
tick ==
    /\ mWakelockRefCount > 0 /\ wakelockAge <= kWakelockTimeout
    /\ wakelockAge' = wakelockAge + 1
    /\ UNCHANGED <<mEventQueue, mWakeLockQueue, lastRead, fwWakeups, fwUnchanged>>

-----------------------------------------------------------------------------
Init ==
    /\ mThreadsRun = TRUE
    /\ mPendingWriteEventsQueue = <<>> /\ mSizePendingWriteEventsQueue = 0
    /\ mEventQueue = <<>> /\ mWakeLockQueue = <<>>
    /\ mWakelockRefCount = 0 /\ wakelockHeld = FALSE /\ wakelockAge = 0
    /\ pwPc = "none" /\ wlPc = "none" /\ wlAck = 0
    /\ initPc = "idle" /\ initCount = 0 /\ active = {}
    /\ postPc = [p \in Posters |-> "idle"]
    /\ batch = [p \in Posters |-> <<>>]
    /\ scoped = [p \in Posters |-> "none"]
    /\ fwWakeups = 0 /\ nextId = 1 /\ lastRead = 0 /\ disturbed = FALSE

poster(p) ==
    \/ \E b \in Batches : createScopedWakelock(p, b)
    \/ postEvents(p) \/ postEventsToMessageQueue(p) \/ destroyScopedWakelock(p)

Next ==
    \/ \E p \in Posters : poster(p)
    \/ handlePendingWrites \/ pwSpuriousWakeup
    \/ handleWakelocks \/ wlSpuriousWakeup
    \/ initializeCommon
    \/ \E p \in Posters, enabled \in BOOLEAN : activate(p, enabled)
    \/ frameworkRead \/ frameworkAck \/ tick

Spec == Init /\ [][Next]_vars

\* The scheduler runs every runnable thread, a post once begun is finished, and
\* time passes.  Strong fairness where a thread waits for a mutex: the holder
\* releases it again and again, and the waiter gets it in the end.  No fairness
\* of the framework, of new posts or of spurious wakeups is assumed.
Fairness ==
    /\ SF_vars(handlePendingWrites)
    /\ WF_vars(handleWakelocks)
    /\ WF_vars(initPc # "idle" /\ initializeCommon)
    /\ \A p \in Posters : SF_vars(postPc[p] # "idle" /\ poster(p))
    /\ WF_vars(tick)

FairSpec == Spec /\ Fairness

-----------------------------------------------------------------------------
(* Properties. *)

\* Every variable keeps the type its C++ declaration gives it; the count and the
\* size are unsigned, the FMQ holds no more events than it has slots.
TypeOK ==
    /\ mThreadsRun \in BOOLEAN
    /\ mPendingWriteEventsQueue \in Seq(Entry)
    /\ mSizePendingWriteEventsQueue \in 0..(SizeModulus - 1)
    /\ mEventQueue \in Seq(Event) /\ Len(mEventQueue) <= EventQueueSize
    /\ mWakeLockQueue \in Seq(Nat)
    /\ mWakelockRefCount \in Nat
    /\ wakelockHeld \in BOOLEAN
    /\ wakelockAge \in 0..(kWakelockTimeout + 1)
    /\ pwPc \in PwStates
    /\ wlPc \in WlStates
    /\ wlAck \in Nat
    /\ initPc \in InitStates
    /\ initCount \in Nat
    /\ active \in SUBSET Posters
    /\ postPc \in [Posters -> PostStates]
    /\ batch \in [Posters -> Batches \cup {<<>>}]
    /\ scoped \in [Posters -> ScopedStates]
    /\ fwWakeups \in Nat
    /\ nextId \in Nat
    /\ lastRead \in Nat
    /\ disturbed \in BOOLEAN

\* While the shared count is positive the kernel wakelock is held: a positive
\* count never survives a release_wake_lock (increment..., decrement...).
CountedMeansHeld == mWakelockRefCount > 0 => wakelockHeld

\* With a count of 0 the wakelock thread sleeps and no timeout releases the kernel
\* wakelock.  There is one way into this state: the count was reset (or cut short)
\* under a post, and the pick-up filter leaves that post no wake event to count, so
\* that its increment by 0 acquires the wakelock again.
HeldUncountedOnlyByFilter ==
    [][(wakelockHeld' /\ mWakelockRefCount' = 0)
          => \/ wakelockHeld /\ mWakelockRefCount = 0
             \/ \E p \in Posters :
                   /\ postPc[p] = "posting" /\ postPc'[p] = "destroy"
                   /\ scoped[p] # "none" /\ mWakelockRefCount = 0
                   /\ \A i \in DOMAIN processEvents(batch[p]) :
                         processEvents(batch[p])[i] # "wake"]_vars

\* The assertions of postEvents(): a batch that holds wake events when it has been
\* processed comes with a locked wakelock, and no other batch does.
WakelockMatchesEvents ==
    \A p \in Posters :
        postPc[p] = "posting" =>
            (scoped[p] # "none" <=> \E i \in DOMAIN processEvents(batch[p]) :
                                       processEvents(batch[p])[i] = "wake")

\* The pending events, oldest first.
Pending ==
    FlattenSeq([i \in DOMAIN mPendingWriteEventsQueue |-> mPendingWriteEventsQueue[i].events])

\* mSizePendingWriteEventsQueue is the number of pending events, and within its
\* limit, across partial writes, drops and re-initialization.
PendingSizeExact ==
    initPc # "zeroSize" => /\ mSizePendingWriteEventsQueue = Len(Pending)
                           /\ Len(Pending) <= kMaxSizePendingWriteEventsQueue

\* The pending events that are not in the FMQ already, oldest first.
NotWritten ==
    IF pwPc = "pop" THEN SubSeq(Pending, pwNumToWrite + 1, Len(Pending)) ELSE Pending

\* The framework reads events in the order they were posted and none twice,
\* whichever of the two paths (direct write, pending queue) each one took.
EventsInOrder ==
    LET line == mEventQueue \o NotWritten
    IN /\ \A i \in DOMAIN line : line[i].id > lastRead /\ line[i].id < nextId
       /\ \A i, j \in DOMAIN line : i < j => line[i].id < line[j].id

\* The sum of a sequence of numbers.
TotalOf(s) ==
    LET sum[n \in 0 .. Len(s)] == IF n = 0 THEN 0 ELSE sum[n - 1] + s[n]
    IN sum[Len(s)]

\* Wake events on their way: to the framework, in it, and acknowledged but not
\* taken from the count; and the locked wakelocks of the posters.
UnackedWakeups ==
    LET line == mEventQueue \o NotWritten
    IN countNumWakeupEvents(line, Len(line)) + fwWakeups + wlAck + TotalOf(mWakeLockQueue)
LiveWakelocks == Cardinality({p \in Posters : scoped[p] = "live"})

\* The count covers every wake event on its way and every wakelock a poster
\* still holds, so no wake event is left without the wakelock, unless a timeout
\* reset or a dropped partial batch cut it short, or the threads were started under
\* a post of a sub-HAL that refused to stop; initialize() restores it.
WakeAccounting ==
    mThreadsRun /\ ~disturbed => mWakelockRefCount >= UnackedWakeups + LiveWakelocks

\* The reference to the front entry that the pending-writes thread keeps while
\* it has released the mutex stays valid: nobody pops or clears the queue.
FrontStable ==
    pwPc \in {"writing", "pop"} => /\ mPendingWriteEventsQueue # <<>>
                                   /\ initPc \in {"idle", "drain", "notify", "joinPw",
                                                  "subHals"}

\* initializeCommon(): when the threads start again there are no new events until
\* initialize() has reset the sub-HALs.
NoEventsBeforeSubHals ==
    initPc = "subHals" => mEventQueue = <<>> /\ mPendingWriteEventsQueue = <<>>

\* Pending events are written or dropped, even if the framework never reads.
PendingDrains == mPendingWriteEventsQueue # <<>> ~> mPendingWriteEventsQueue = <<>>

\* Once the sub-HALs stop creating wakelocks, which restarts the timeout, the shared
\* one is released in the end, even if the framework never acknowledges - unless the
\* wakelock thread looked at the clock in the very tick of the timeout and waits for
\* an acknowledgement without one.
WakelockReleased ==
    <>[](\A p \in Posters : scoped[p] = "none")
        => (mWakelockRefCount > 0 ~>
                (mWakelockRefCount = 0 \/ [](wlPc = "readingForever")))

\* initialize() starts the threads again and reaches the sub-HALs.
InitializeCompletes == initPc = "drain" ~> initPc = "subHals"

=============================================================================
