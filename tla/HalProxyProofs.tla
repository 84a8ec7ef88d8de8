---------------------------- MODULE HalProxyProofs ----------------------------
(***************************************************************************)
(* Proofs about HalProxy for any number of sub-HAL threads, any batches    *)
(* and any queue sizes: type correctness, that a positive wakelock count   *)
(* means a held kernel wakelock, and that the front entry the              *)
(* pending-writes thread refers to outside the mutex stays in the queue.   *)
(***************************************************************************)
EXTENDS HalProxy, FiniteSetTheorems, TLAPS

\* Where initialize() is decides which threads may exist and whether they run:
\* mThreadsRun is false from stopThreads() to the start of the new threads, and
\* each thread is gone once it was joined.
ThreadsStopped ==
    /\ initPc \notin {"idle", "subHals"} => ~mThreadsRun
    /\ initPc \in {"joinWl", "reset", "disable", "clear", "zeroSize", "start"} =>
           pwPc = "none"
    /\ initPc \in {"reset", "disable", "clear", "zeroSize", "start"} => wlPc = "none"

\* A poster inside a post has a batch.
PostersHaveBatches == \A p \in Posters : postPc[p] # "idle" => batch[p] \in Batches

Structure == FrontStable /\ ThreadsStopped /\ PostersHaveBatches

\* The inductive invariant.
IInv == TypeOK /\ CountedMeansHeld /\ Structure

-----------------------------------------------------------------------------
\* The size of the pending queue stays in the range of size_t.
LEMMA ModInRange ==
    ASSUME NEW x \in Int PROVE x % SizeModulus \in 0..(SizeModulus - 1)
  BY BoundsAssumption DEF BoundsAssumption

\* The number of wake events among the first n is a natural number.
LEMMA CountIsNat ==
    ASSUME NEW es, NEW n \in Nat PROVE countNumWakeupEvents(es, n) \in Nat
  <1>1. IsFiniteSet(1..n)
    BY FS_Interval
  <1>2. IsFiniteSet({i \in 1..n : es[i].wake})
    BY <1>1, FS_Subset
  <1> QED
    BY <1>2, FS_CardinalityType DEF countNumWakeupEvents

\* A processed batch is numbered into a sequence of events of the same length.
LEMMA NumberedType ==
    ASSUME NEW b \in Seq(Kinds), nextId \in Nat
    PROVE  Numbered(b) \in Seq(Event) /\ Len(Numbered(b)) = Len(b)
  BY DEF Numbered, Event

\* The initial state satisfies the inductive invariant.
LEMMA InitIInv == Init => IInv
  <1> SUFFICES ASSUME Init PROVE IInv
    OBVIOUS
  <1> USE DEF Init
  <1>1. /\ mPendingWriteEventsQueue \in Seq(Entry)
        /\ mEventQueue \in Seq(Event) /\ Len(mEventQueue) <= EventQueueSize
        /\ mWakeLockQueue \in Seq(Nat)
    BY BoundsAssumption DEF BoundsAssumption
  <1>2. /\ mSizePendingWriteEventsQueue \in 0..(SizeModulus - 1)
        /\ wakelockAge \in 0..(kWakelockTimeout + 1)
        /\ mWakelockRefCount \in Nat /\ wlAck \in Nat /\ initCount \in Nat
        /\ fwWakeups \in Nat /\ nextId \in Nat /\ lastRead \in Nat
    BY BoundsAssumption DEF BoundsAssumption
  <1>3. /\ postPc \in [Posters -> PostStates]
        /\ batch \in [Posters -> Batches \cup {<<>>}]
        /\ scoped \in [Posters -> ScopedStates]
        /\ active \in SUBSET Posters
    BY DEF PostStates, ScopedStates
  <1>4. /\ pwPc \in PwStates /\ wlPc \in WlStates /\ initPc \in InitStates
        /\ mThreadsRun \in BOOLEAN /\ wakelockHeld \in BOOLEAN /\ disturbed \in BOOLEAN
    BY DEF PwStates, WlStates, InitStates
  <1>5. TypeOK
    BY <1>1, <1>2, <1>3, <1>4 DEF TypeOK
  <1>6. CountedMeansHeld /\ Structure
    BY DEF CountedMeansHeld, Structure, FrontStable, ThreadsStopped, PostersHaveBatches
  <1> QED
    BY <1>5, <1>6 DEF IInv

-----------------------------------------------------------------------------
\* Decrementing keeps the count natural and the wakelock held while it counts.
LEMMA DecrementKeeps ==
    ASSUME mWakelockRefCount \in Nat, wakelockHeld \in BOOLEAN, CountedMeansHeld,
           NEW delta \in Nat, NEW fresh \in BOOLEAN,
           decrementRefCountAndMaybeReleaseWakelock(delta, fresh)
    PROVE  mWakelockRefCount' \in Nat /\ wakelockHeld' \in BOOLEAN /\ CountedMeansHeld'
  <1>1. CASE mThreadsRun /\ fresh /\ mWakelockRefCount > 0
    <2>1. /\ mWakelockRefCount' = mWakelockRefCount - Lesser(mWakelockRefCount, delta)
          /\ wakelockHeld' = (wakelockHeld /\ mWakelockRefCount' > 0)
      BY <1>1, Zenon DEF decrementRefCountAndMaybeReleaseWakelock
    <2>2. mWakelockRefCount' \in Nat
      BY <2>1 DEF Lesser
    <2>3. wakelockHeld
      BY <1>1 DEF CountedMeansHeld
    <2>4. wakelockHeld' \in BOOLEAN /\ CountedMeansHeld'
      BY <2>1, <2>3, Zenon DEF CountedMeansHeld
    <2> QED
      BY <2>2, <2>4
  <1>2. CASE ~(mThreadsRun /\ fresh /\ mWakelockRefCount > 0)
    <2>1. UNCHANGED <<mWakelockRefCount, wakelockHeld>>
      BY <1>2, Zenon DEF decrementRefCountAndMaybeReleaseWakelock
    <2> QED
      BY <2>1 DEF CountedMeansHeld
  <1> QED
    BY <1>1, <1>2

\* So does incrementing, which may also wake the wakelock thread.
LEMMA IncrementKeeps ==
    ASSUME mWakelockRefCount \in Nat, wakelockHeld \in BOOLEAN, CountedMeansHeld,
           wakelockAge \in 0..(kWakelockTimeout + 1), wlPc \in WlStates,
           NEW delta \in Nat, incrementRefCountAndMaybeAcquireWakelock(delta)
    PROVE  /\ mWakelockRefCount' \in Nat /\ wakelockHeld' \in BOOLEAN
           /\ CountedMeansHeld'
           /\ wakelockAge' \in 0..(kWakelockTimeout + 1)
           /\ wlPc' \in WlStates /\ (wlPc = "none" => wlPc' = "none")
  <1>1. CASE mThreadsRun
    <2>1. /\ mWakelockRefCount' = mWakelockRefCount + delta
          /\ wakelockHeld' = (wakelockHeld \/ mWakelockRefCount = 0)
          /\ wakelockAge' = 0
          /\ wlPc' = IF mWakelockRefCount = 0 THEN Notified(wlPc) ELSE wlPc
      BY <1>1, Zenon DEF incrementRefCountAndMaybeAcquireWakelock
    <2>2. mWakelockRefCount' \in Nat /\ wakelockAge' \in 0..(kWakelockTimeout + 1)
      BY <2>1, BoundsAssumption DEF BoundsAssumption
    <2>3. wakelockHeld \/ mWakelockRefCount = 0
      BY DEF CountedMeansHeld
    <2>4. wakelockHeld' \in BOOLEAN /\ CountedMeansHeld'
      BY <2>1, <2>3, Zenon DEF CountedMeansHeld
    <2>5. wlPc' \in WlStates /\ (wlPc = "none" => wlPc' = "none")
      BY <2>1 DEF Notified, WlStates
    <2> QED
      BY <2>2, <2>4, <2>5
  <1>2. CASE ~mThreadsRun
    BY <1>2 DEF incrementRefCountAndMaybeAcquireWakelock, CountedMeansHeld, lockVars
  <1> QED
    BY <1>1, <1>2

\* And resetting, which makes the posters' wakelocks stale.
LEMMA ResetKeeps ==
    ASSUME mWakelockRefCount \in Nat, wakelockHeld \in BOOLEAN, CountedMeansHeld,
           scoped \in [Posters -> ScopedStates], resetSharedWakelock
    PROVE  /\ mWakelockRefCount' \in Nat /\ wakelockHeld' \in BOOLEAN
           /\ CountedMeansHeld'
           /\ scoped' \in [Posters -> ScopedStates]
  <1>1. mWakelockRefCount' \in Nat /\ wakelockHeld' \in BOOLEAN /\ CountedMeansHeld'
    BY DecrementKeeps DEF resetSharedWakelock
  <1>2. scoped' \in [Posters -> ScopedStates]
    BY DEF resetSharedWakelock, MakeStale, ScopedStates
  <1> QED
    BY <1>1, <1>2

-----------------------------------------------------------------------------
\* Each step of initialize() preserves the invariant.
LEMMA InitializeKeeps == IInv /\ initializeCommon => IInv'
  <1> SUFFICES ASSUME IInv, initializeCommon PROVE IInv'
    OBVIOUS
  <1> USE DEF queueVars, lockVars, initVars, postVars, initUnchanged
  <1>1. CASE stopThreads
    <2>1. TypeOK'
      BY <1>1 DEF IInv, stopThreads, TypeOK, InitStates
    <2>2. (CountedMeansHeld /\ Structure)'
      BY <1>1
      DEF IInv, stopThreads, CountedMeansHeld, Structure, FrontStable,
          ThreadsStopped, PostersHaveBatches
    <2> QED
      BY <2>1, <2>2 DEF IInv
  <1>2. CASE stopDrain
    <2>1. mEventQueue' \in Seq(Event) /\ Len(mEventQueue') <= EventQueueSize
      BY <1>2, BoundsAssumption DEF stopDrain, BoundsAssumption
    <2>2. mWakeLockQueue' \in Seq(Nat)
      BY <1>2 DEF IInv, stopDrain, TypeOK
    <2>3. lastRead' \in Nat
      <3>1. mEventQueue # <<>> => mEventQueue[Len(mEventQueue)] \in Event
        BY DEF IInv, TypeOK
      <3>2. mEventQueue # <<>> => mEventQueue[Len(mEventQueue)].id \in Nat
        BY <3>1 DEF Event
      <3> QED
        BY <1>2, <3>2 DEF IInv, TypeOK, stopDrain, Last
    <2>4. TypeOK'
      BY <1>2, <2>1, <2>2, <2>3 DEF IInv, stopDrain, TypeOK, InitStates
    <2>5. (CountedMeansHeld /\ Structure)'
      BY <1>2
      DEF IInv, stopDrain, CountedMeansHeld, Structure, FrontStable, ThreadsStopped,
          PostersHaveBatches
    <2> QED
      BY <2>4, <2>5 DEF IInv
  <1>3. CASE stopNotify
    <2>1. TypeOK'
      BY <1>3 DEF IInv, stopNotify, TypeOK, InitStates, PwStates, WlStates, Notified
    <2>2. (CountedMeansHeld /\ Structure)'
      BY <1>3
      DEF IInv, stopNotify, Notified, CountedMeansHeld, Structure, FrontStable,
          ThreadsStopped, PostersHaveBatches
    <2> QED
      BY <2>1, <2>2 DEF IInv
  <1>4. CASE stopJoinPendingWrites
    <2>1. TypeOK'
      BY <1>4 DEF IInv, stopJoinPendingWrites, TypeOK, InitStates, PwStates
    <2>2. (CountedMeansHeld /\ Structure)'
      BY <1>4
      DEF IInv, stopJoinPendingWrites, CountedMeansHeld, Structure, FrontStable,
          ThreadsStopped, PostersHaveBatches
    <2> QED
      BY <2>1, <2>2 DEF IInv
  <1>5. CASE stopJoinWakelock
    <2>1. TypeOK'
      BY <1>5 DEF IInv, stopJoinWakelock, TypeOK, InitStates, WlStates
    <2>2. (CountedMeansHeld /\ Structure)'
      BY <1>5
      DEF IInv, stopJoinWakelock, CountedMeansHeld, Structure, FrontStable,
          ThreadsStopped, PostersHaveBatches
    <2> QED
      BY <2>1, <2>2 DEF IInv
  <1>6. CASE initReset
    <2>1. /\ mWakelockRefCount' \in Nat /\ wakelockHeld' \in BOOLEAN
          /\ CountedMeansHeld'
          /\ scoped' \in [Posters -> ScopedStates]
      BY <1>6, ResetKeeps DEF IInv, TypeOK, initReset
    <2>2. TypeOK'
      BY <1>6, <2>1 DEF IInv, initReset, TypeOK, InitStates
    <2>3. Structure'
      BY <1>6
      DEF IInv, initReset, Structure, FrontStable, ThreadsStopped, PostersHaveBatches
    <2> QED
      BY <2>1, <2>2, <2>3 DEF IInv
  <1>7. CASE disableAllSensors
    <2>1. TypeOK'
      BY <1>7 DEF IInv, disableAllSensors, TypeOK, InitStates
    <2>2. (CountedMeansHeld /\ Structure)'
      BY <1>7
      DEF IInv, disableAllSensors, CountedMeansHeld, Structure, FrontStable,
          ThreadsStopped, PostersHaveBatches
    <2> QED
      BY <2>1, <2>2 DEF IInv
  <1>8. CASE initClearQueue
    <2>1. TypeOK'
      BY <1>8 DEF IInv, initClearQueue, TypeOK, InitStates
    <2>2. (CountedMeansHeld /\ Structure)'
      BY <1>8
      DEF IInv, initClearQueue, CountedMeansHeld, Structure, FrontStable,
          ThreadsStopped, PostersHaveBatches
    <2> QED
      BY <2>1, <2>2 DEF IInv
  <1>9. CASE initZeroSize
    <2>1. TypeOK'
      BY <1>9, BoundsAssumption
      DEF IInv, initZeroSize, TypeOK, InitStates, BoundsAssumption
    <2>2. (CountedMeansHeld /\ Structure)'
      BY <1>9
      DEF IInv, initZeroSize, CountedMeansHeld, Structure, FrontStable,
          ThreadsStopped, PostersHaveBatches
    <2> QED
      BY <2>1, <2>2 DEF IInv
  <1>10. CASE initStart
    <2>1. /\ mEventQueue' \in Seq(Event) /\ Len(mEventQueue') <= EventQueueSize
          /\ mWakeLockQueue' \in Seq(Nat)
      BY <1>10, BoundsAssumption DEF initStart, BoundsAssumption
    <2>2. /\ initCount' \in Nat /\ fwWakeups' \in Nat
          /\ pwPc' \in PwStates /\ wlPc' \in WlStates /\ initPc' \in InitStates
          /\ mThreadsRun' \in BOOLEAN /\ disturbed' \in BOOLEAN
      <3>1. initCount \in Nat
        BY DEF IInv, TypeOK
      <3>2. initCount' \in Nat /\ fwWakeups' \in Nat
        BY <1>10, <3>1 DEF initStart
      <3>3. pwPc' \in PwStates /\ wlPc' \in WlStates /\ initPc' \in InitStates
        BY <1>10 DEF initStart, InitStates, PwStates, WlStates
      <3>4. mThreadsRun' \in BOOLEAN /\ disturbed' \in BOOLEAN
        BY <1>10, Zenon DEF initStart
      <3> QED
        BY <3>2, <3>3, <3>4
    <2>3. TypeOK'
      BY <1>10, <2>1, <2>2 DEF IInv, initStart, TypeOK
    <2>4. (CountedMeansHeld /\ Structure)'
      BY <1>10
      DEF IInv, initStart, CountedMeansHeld, Structure, FrontStable, ThreadsStopped,
          PostersHaveBatches
    <2> QED
      BY <2>3, <2>4 DEF IInv
  <1>11. CASE initSubHals
    <2>1. TypeOK'
      BY <1>11 DEF IInv, initSubHals, TypeOK, InitStates
    <2>2. (CountedMeansHeld /\ Structure)'
      BY <1>11
      DEF IInv, initSubHals, CountedMeansHeld, Structure, FrontStable,
          ThreadsStopped, PostersHaveBatches
    <2> QED
      BY <2>1, <2>2 DEF IInv
  <1> QED
    BY <1>1, <1>2, <1>3, <1>4, <1>5, <1>6, <1>7, <1>8, <1>9, <1>10, <1>11
    DEF initializeCommon

\* So does activate().
LEMMA ActivateKeeps ==
    ASSUME IInv, NEW p \in Posters, NEW enabled \in BOOLEAN, activate(p, enabled)
    PROVE  IInv'
  <1> USE DEF queueVars, lockVars, initVars, postVars, initUnchanged
  <1>1. TypeOK'
    BY DEF IInv, activate, TypeOK
  <1>2. (CountedMeansHeld /\ Structure)'
    BY DEF IInv, activate, CountedMeansHeld, Structure, FrontStable, ThreadsStopped,
           PostersHaveBatches
  <1> QED
    BY <1>1, <1>2 DEF IInv

-----------------------------------------------------------------------------
\* The front entry exists and has its type while the thread refers to it.
LEMMA FrontType ==
    ASSUME IInv, pwPc \in {"writing", "pop"}
    PROVE  /\ mPendingWriteEventsQueue # <<>>
           /\ front.events \in Seq(Event) /\ front.wakeups \in Nat
           /\ Tail(mPendingWriteEventsQueue) \in Seq(Entry)
           /\ pwNumToWrite \in 0..Len(front.events)
  <1>1. mPendingWriteEventsQueue # <<>> /\ mPendingWriteEventsQueue \in Seq(Entry)
    BY DEF IInv, Structure, FrontStable, TypeOK
  <1>2. front \in Entry /\ Tail(mPendingWriteEventsQueue) \in Seq(Entry)
    BY <1>1 DEF front
  <1>3. front.events \in Seq(Event) /\ front.wakeups \in Nat
    BY <1>2 DEF Entry
  <1>4. pwNumToWrite \in 0..Len(front.events)
    BY <1>3, BoundsAssumption DEF pwNumToWrite, Lesser, BoundsAssumption
  <1> QED
    BY <1>1, <1>2, <1>3, <1>4

\* What pwPop leaves of the queue has the queue's type.
LEMMA WithoutChunkType ==
    ASSUME IInv, pwPc = "pop" PROVE pendingWithoutChunk \in Seq(Entry)
  <1>1. /\ front.events \in Seq(Event) /\ front.wakeups \in Nat
        /\ Tail(mPendingWriteEventsQueue) \in Seq(Entry)
    BY FrontType
  <1> DEFINE rest == SubSeq(front.events, EventQueueSize + 1, Len(front.events))
             entry == [events |-> rest, wakeups |-> front.wakeups]
  <1>2. rest \in Seq(Event)
    BY <1>1, BoundsAssumption DEF BoundsAssumption
  <1>3. entry \in Entry
    BY <1>1, <1>2 DEF Entry
  <1>4. <<entry>> \o Tail(mPendingWriteEventsQueue) \in Seq(Entry)
    <2> HIDE DEF entry
    <2> QED
      BY <1>1, <1>3
  <1> QED
    BY <1>1, <1>4 DEF pendingWithoutChunk

\* Each step of the pending-writes thread preserves the invariant.
LEMMA PendingWritesKeeps == IInv /\ (handlePendingWrites \/ pwSpuriousWakeup) => IInv'
  <1> SUFFICES ASSUME IInv, handlePendingWrites \/ pwSpuriousWakeup PROVE IInv'
    OBVIOUS
  <1> USE DEF queueVars, lockVars, initVars, postVars, pwUnchanged
  <1>1. CASE pwLoop
    <2>1. TypeOK'
      BY <1>1 DEF IInv, pwLoop, TypeOK, PwStates
    <2>2. (CountedMeansHeld /\ Structure)'
      BY <1>1
      DEF IInv, pwLoop, TypeOK, InitStates, CountedMeansHeld, Structure, FrontStable,
          ThreadsStopped, PostersHaveBatches
    <2> QED
      BY <2>1, <2>2 DEF IInv
  <1>2. CASE pwWait \/ pwSpuriousWakeup
    <2>1. TypeOK'
      BY <1>2 DEF IInv, pwWait, pwSpuriousWakeup, TypeOK, PwStates
    <2>2. (CountedMeansHeld /\ Structure)'
      BY <1>2
      DEF IInv, pwWait, pwSpuriousWakeup, CountedMeansHeld, Structure, FrontStable,
          ThreadsStopped, PostersHaveBatches
    <2> QED
      BY <2>1, <2>2 DEF IInv
  <1>3. CASE pwWriteBlocking
    <2>1. front.events \in Seq(Event) /\ pwNumToWrite \in 0..Len(front.events)
      BY <1>3, FrontType DEF pwWriteBlocking
    <2>2. mEventQueue \in Seq(Event) /\ Len(mEventQueue) <= EventQueueSize
      BY DEF IInv, TypeOK
    <2>3. /\ SubSeq(front.events, 1, pwNumToWrite) \in Seq(Event)
          /\ Len(SubSeq(front.events, 1, pwNumToWrite)) = pwNumToWrite
      BY <2>1
    <2>4. /\ mEventQueue' = mEventQueue \o SubSeq(front.events, 1, pwNumToWrite)
          /\ pwNumToWrite <= EventQueueSize - Len(mEventQueue)
      BY <1>3, Zenon DEF pwWriteBlocking, AvailableToWrite
    <2>5. mEventQueue' \in Seq(Event) /\ Len(mEventQueue') <= EventQueueSize
      BY <2>1, <2>2, <2>3, <2>4, BoundsAssumption DEF BoundsAssumption
    <2>6. TypeOK'
      BY <1>3, <2>5 DEF IInv, pwWriteBlocking, TypeOK, PwStates
    <2>7. (CountedMeansHeld /\ Structure)'
      BY <1>3
      DEF IInv, pwWriteBlocking, CountedMeansHeld, Structure, FrontStable,
          ThreadsStopped, PostersHaveBatches
    <2> QED
      BY <2>6, <2>7 DEF IInv
  <1>4. CASE pwWriteTimeout
    <2>1. front.events \in Seq(Event) /\ front.wakeups \in Nat
      BY <1>4, FrontType DEF pwWriteTimeout
    <2>2. pwDropped \in Nat
      BY <2>1, CountIsNat, BoundsAssumption DEF pwDropped, BoundsAssumption
    <2>3. mWakelockRefCount' \in Nat /\ wakelockHeld' \in BOOLEAN /\ CountedMeansHeld'
      <3>0. mWakelockRefCount \in Nat /\ wakelockHeld \in BOOLEAN /\ CountedMeansHeld
        BY DEF IInv, TypeOK
      <3>1. CASE front.wakeups > 0
        <4>1. decrementRefCountAndMaybeReleaseWakelock(pwDropped, TRUE)
          BY <1>4, <3>1, Zenon DEF pwWriteTimeout
        <4> QED
          BY <2>2, <3>0, <4>1, DecrementKeeps
      <3>2. CASE ~(front.wakeups > 0)
        <4>1. UNCHANGED <<mWakelockRefCount, wakelockHeld>>
          BY <1>4, <3>2, Zenon DEF pwWriteTimeout
        <4> QED
          BY <3>0, <4>1 DEF CountedMeansHeld
      <3> QED
        BY <3>1, <3>2
    <2>4. disturbed' \in BOOLEAN
      BY <1>4, Zenon DEF pwWriteTimeout
    <2>5. TypeOK'
      BY <1>4, <2>3, <2>4 DEF IInv, pwWriteTimeout, TypeOK, PwStates
    <2>6. Structure'
      BY <1>4
      DEF IInv, pwWriteTimeout, Structure, FrontStable, ThreadsStopped,
          PostersHaveBatches
    <2> QED
      BY <2>3, <2>5, <2>6 DEF IInv
  <1>5. CASE pwPop
    <2>1. mPendingWriteEventsQueue' \in Seq(Entry)
      BY <1>5, WithoutChunkType DEF pwPop
    <2>2. mSizePendingWriteEventsQueue' \in 0..(SizeModulus - 1)
      <3>1. mSizePendingWriteEventsQueue - pwNumToWrite \in Int
        <4>1. mSizePendingWriteEventsQueue \in Int
          BY BoundsAssumption DEF IInv, TypeOK, BoundsAssumption
        <4>2. pwNumToWrite \in Int
          BY <1>5, FrontType DEF pwPop
        <4> QED
          BY <4>1, <4>2
      <3> QED
        BY <1>5, <3>1, ModInRange DEF pwPop
    <2>3. TypeOK'
      BY <1>5, <2>1, <2>2 DEF IInv, pwPop, TypeOK, PwStates
    <2>4. (CountedMeansHeld /\ Structure)'
      BY <1>5
      DEF IInv, pwPop, CountedMeansHeld, Structure, FrontStable, ThreadsStopped,
          PostersHaveBatches
    <2> QED
      BY <2>3, <2>4 DEF IInv
  <1> QED
    BY <1>1, <1>2, <1>3, <1>4, <1>5 DEF handlePendingWrites

\* Each step of the wakelock thread preserves the invariant.
LEMMA WakelocksKeeps == IInv /\ (handleWakelocks \/ wlSpuriousWakeup) => IInv'
  <1> SUFFICES ASSUME IInv, handleWakelocks \/ wlSpuriousWakeup PROVE IInv'
    OBVIOUS
  <1> USE DEF queueVars, lockVars, initVars, postVars, wlUnchanged
  <1>1. CASE wlLoop \/ wlWait \/ wlSpuriousWakeup \/ wlReadTimeout
    <2>1. TypeOK'
      BY <1>1
      DEF IInv, wlLoop, wlWait, wlSpuriousWakeup, wlReadTimeout, TypeOK, WlStates
    <2>2. (CountedMeansHeld /\ Structure)'
      BY <1>1
      DEF IInv, wlLoop, wlWait, wlSpuriousWakeup, wlReadTimeout, CountedMeansHeld,
          Structure, FrontStable, ThreadsStopped, PostersHaveBatches
    <2> QED
      BY <2>1, <2>2 DEF IInv
  <1>2. CASE wlTimeoutReset \/ wlExit
    <2>1. /\ mWakelockRefCount' \in Nat /\ wakelockHeld' \in BOOLEAN
          /\ CountedMeansHeld'
          /\ scoped' \in [Posters -> ScopedStates]
      BY <1>2, ResetKeeps DEF IInv, TypeOK, wlTimeoutReset, wlExit
    <2>2. disturbed' \in BOOLEAN
      BY <1>2 DEF IInv, TypeOK, wlTimeoutReset, wlExit
    <2>3. TypeOK'
      BY <1>2, <2>1, <2>2 DEF IInv, wlTimeoutReset, wlExit, TypeOK, WlStates
    <2>4. Structure'
      BY <1>2
      DEF IInv, wlTimeoutReset, wlExit, Structure, FrontStable, ThreadsStopped,
          PostersHaveBatches
    <2> QED
      BY <2>1, <2>3, <2>4 DEF IInv
  <1>3. CASE wlReadBlocking
    <2>1. TypeOK'
      BY <1>3 DEF IInv, wlReadBlocking, TypeOK, WlStates
    <2>2. (CountedMeansHeld /\ Structure)'
      BY <1>3
      DEF IInv, wlReadBlocking, CountedMeansHeld, Structure, FrontStable,
          ThreadsStopped, PostersHaveBatches
    <2> QED
      BY <2>1, <2>2 DEF IInv
  <1>4. CASE wlAcknowledge
    <2>1. mWakelockRefCount' \in Nat /\ wakelockHeld' \in BOOLEAN /\ CountedMeansHeld'
      BY <1>4, DecrementKeeps DEF IInv, TypeOK, wlAcknowledge
    <2>2. TypeOK'
      BY <1>4, <2>1 DEF IInv, wlAcknowledge, TypeOK, WlStates
    <2>3. Structure'
      BY <1>4
      DEF IInv, wlAcknowledge, Structure, FrontStable, ThreadsStopped,
          PostersHaveBatches
    <2> QED
      BY <2>1, <2>2, <2>3 DEF IInv
  <1> QED
    BY <1>1, <1>2, <1>3, <1>4 DEF handleWakelocks

-----------------------------------------------------------------------------
\* What a post has to respect of the threads' structure.
LEMMA PosterKeepsStructure ==
    ASSUME IInv, initPc' = initPc, mThreadsRun' = mThreadsRun,
           pwPc' = pwPc \/ (pwPc = "blocked" /\ pwPc' = "loop"),
           wlPc = "none" => wlPc' = "none",
           mPendingWriteEventsQueue # <<>> => mPendingWriteEventsQueue' # <<>>,
           PostersHaveBatches'
    PROVE  Structure'
  BY DEF IInv, Structure, FrontStable, ThreadsStopped

\* Creating a ScopedWakelock preserves the invariant.
LEMMA CreateKeeps ==
    ASSUME IInv, NEW p \in Posters, NEW b \in Batches, createScopedWakelock(p, b)
    PROVE  IInv'
  <1> USE DEF queueVars, initVars
  <1> DEFINE lock == \E i \in DOMAIN b : b[i] # "plain"
  <1>0. /\ mWakelockRefCount \in Nat /\ wakelockHeld \in BOOLEAN /\ CountedMeansHeld
        /\ wakelockAge \in 0..(kWakelockTimeout + 1) /\ wlPc \in WlStates
        /\ scoped \in [Posters -> ScopedStates]
    BY DEF IInv, TypeOK
  <1>1. /\ mWakelockRefCount' \in Nat /\ wakelockHeld' \in BOOLEAN
        /\ CountedMeansHeld'
        /\ wakelockAge' \in 0..(kWakelockTimeout + 1)
        /\ wlPc' \in WlStates /\ (wlPc = "none" => wlPc' = "none")
        /\ scoped' \in [Posters -> ScopedStates]
    <2>1. CASE lock
      <3>1. /\ incrementRefCountAndMaybeAcquireWakelock(1)
            /\ scoped' = [scoped EXCEPT ![p] = IF mThreadsRun THEN "live" ELSE "none"]
        BY <2>1, Zenon DEF createScopedWakelock
      <3>2. scoped' \in [Posters -> ScopedStates]
        BY <1>0, <3>1 DEF ScopedStates
      <3> QED
        BY <1>0, <3>1, <3>2, IncrementKeeps
    <2>2. CASE ~lock
      <3>1. UNCHANGED <<lockVars, wlPc, scoped>>
        BY <2>2, Zenon DEF createScopedWakelock
      <3> QED
        BY <1>0, <3>1 DEF lockVars, CountedMeansHeld
    <2> QED
      BY <2>1, <2>2
  <1>2. postPc' \in [Posters -> PostStates] /\ batch' \in [Posters -> Batches \cup {<<>>}]
    BY DEF IInv, TypeOK, createScopedWakelock, PostStates
  <1>3. UNCHANGED <<mThreadsRun, queueVars, mEventQueue, mWakeLockQueue, pwPc, wlAck,
                    initVars, fwWakeups, nextId, lastRead, disturbed>>
    BY Zenon DEF createScopedWakelock
  <1>4. TypeOK'
    BY <1>1, <1>2, <1>3 DEF IInv, TypeOK
  <1>5. PostersHaveBatches'
    BY DEF IInv, TypeOK, Structure, PostersHaveBatches, createScopedWakelock
  <1>6. Structure'
    BY <1>1, <1>3, <1>5, PosterKeepsStructure
  <1> QED
    BY <1>1, <1>4, <1>6 DEF IInv

\* The events that are queued, written or dropped keep the queues' types.
LEMMA QueueEventsKeeps ==
    ASSUME IInv, NEW events \in Seq(Event), NEW n \in Nat,
           NEW numToWrite \in {0, numFitting(Len(events))},
           QueueEvents(events, numToWrite, n)
    PROVE  /\ mEventQueue' \in Seq(Event) /\ Len(mEventQueue') <= EventQueueSize
           /\ mPendingWriteEventsQueue' \in Seq(Entry)
           /\ mPendingWriteEventsQueue # <<>> => mPendingWriteEventsQueue' # <<>>
           /\ mSizePendingWriteEventsQueue' \in 0..(SizeModulus - 1)
           /\ pwPc' = pwPc \/ (pwPc = "blocked" /\ pwPc' = "loop")
  <1>0. /\ mEventQueue \in Seq(Event) /\ Len(mEventQueue) <= EventQueueSize
        /\ mPendingWriteEventsQueue \in Seq(Entry)
        /\ mSizePendingWriteEventsQueue \in 0..(SizeModulus - 1)
        /\ EventQueueSize \in Nat /\ SizeModulus \in Nat
    BY BoundsAssumption DEF IInv, TypeOK, BoundsAssumption
  <1>1. numToWrite \in 0..Len(events) /\ numToWrite <= EventQueueSize - Len(mEventQueue)
    BY <1>0 DEF numFitting, Lesser, AvailableToWrite
  <1> DEFINE numLeft == Len(events) - numToWrite
             newSize == (mSizePendingWriteEventsQueue + numLeft) % SizeModulus
             left == SubSeq(events, numToWrite + 1, Len(events))
             entry == [events |-> left, wakeups |-> n]
             room == numLeft > 0 /\ newSize <= kMaxSizePendingWriteEventsQueue
  <1>2. mEventQueue' \in Seq(Event) /\ Len(mEventQueue') <= EventQueueSize
    <2>1. mEventQueue' = mEventQueue \o SubSeq(events, 1, numToWrite)
      BY Zenon DEF QueueEvents
    <2>2. /\ SubSeq(events, 1, numToWrite) \in Seq(Event)
          /\ Len(SubSeq(events, 1, numToWrite)) = numToWrite
      BY <1>1
    <2> QED
      BY <1>0, <1>1, <2>1, <2>2
  <1>3. CASE room
    <2>1. /\ mPendingWriteEventsQueue' = Append(mPendingWriteEventsQueue, entry)
          /\ mSizePendingWriteEventsQueue' = newSize
          /\ pwPc' = Notified(pwPc)
      BY <1>3, Zenon DEF QueueEvents
    <2>2. entry \in Entry
      BY <1>1 DEF Entry
    <2>3. newSize \in 0..(SizeModulus - 1)
      <3>1. mSizePendingWriteEventsQueue + numLeft \in Int
        BY <1>0, <1>1
      <3> HIDE DEF numLeft
      <3> QED
        BY <3>1, ModInRange
    <2>4. /\ mPendingWriteEventsQueue' \in Seq(Entry)
          /\ mPendingWriteEventsQueue' # <<>>
      <3> HIDE DEF entry
      <3> QED
        BY <1>0, <2>1, <2>2
    <2>5. pwPc' = pwPc \/ (pwPc = "blocked" /\ pwPc' = "loop")
      BY <2>1 DEF Notified
    <2> HIDE DEF newSize
    <2> QED
      BY <1>2, <2>1, <2>3, <2>4, <2>5
  <1>4. CASE ~room
    <2>1. UNCHANGED <<queueVars, pwPc>>
      BY <1>4, Zenon DEF QueueEvents
    <2> QED
      BY <1>0, <1>2, <2>1 DEF queueVars
  <1> QED
    BY <1>3, <1>4

\* Posting a batch preserves the invariant.
LEMMA PostKeeps ==
    ASSUME IInv, NEW p \in Posters, postEventsToMessageQueue(p)
    PROVE  IInv'
  <1> DEFINE events == Numbered(processEvents(batch[p]))
             n == countNumWakeupEvents(events, Len(events))
  <1>1. batch[p] \in Batches
    BY DEF IInv, Structure, PostersHaveBatches, postEventsToMessageQueue
  <1>2. processEvents(batch[p]) \in Seq(Kinds)
    BY <1>1, BatchesAssumption, Zenon DEF BatchesAssumption
  <1>3. /\ mWakelockRefCount \in Nat /\ wakelockHeld \in BOOLEAN /\ CountedMeansHeld
        /\ wakelockAge \in 0..(kWakelockTimeout + 1) /\ wlPc \in WlStates
        /\ nextId \in Nat
    BY DEF IInv, TypeOK
  <1>4. events \in Seq(Event)
    BY <1>2, <1>3, NumberedType
  <1>5. Len(events) \in Nat /\ n \in Nat
    <2>1. Len(events) \in Nat
      BY <1>4
    <2> QED
      BY <2>1, CountIsNat
  <1>6. /\ mWakelockRefCount' \in Nat /\ wakelockHeld' \in BOOLEAN
        /\ CountedMeansHeld'
        /\ wakelockAge' \in 0..(kWakelockTimeout + 1)
        /\ wlPc' \in WlStates /\ (wlPc = "none" => wlPc' = "none")
    <2>1. CASE scoped[p] # "none"
      <3>1. incrementRefCountAndMaybeAcquireWakelock(n)
        BY <2>1, Zenon DEF postEventsToMessageQueue
      <3> HIDE DEF n
      <3> QED
        BY <1>3, <1>5, <3>1, IncrementKeeps
    <2>2. CASE ~(scoped[p] # "none")
      <3>1. UNCHANGED <<lockVars, wlPc>>
        BY <2>2, Zenon DEF postEventsToMessageQueue
      <3> QED
        BY <1>3, <3>1 DEF lockVars, CountedMeansHeld
    <2> QED
      BY <2>1, <2>2
  <1>7. /\ mEventQueue' \in Seq(Event) /\ Len(mEventQueue') <= EventQueueSize
        /\ mPendingWriteEventsQueue' \in Seq(Entry)
        /\ mPendingWriteEventsQueue # <<>> => mPendingWriteEventsQueue' # <<>>
        /\ mSizePendingWriteEventsQueue' \in 0..(SizeModulus - 1)
        /\ pwPc' = pwPc \/ (pwPc = "blocked" /\ pwPc' = "loop")
    <2>1. PICK numToWrite \in {0, numFitting(Len(events))} :
              QueueEvents(events, numToWrite, n)
      BY Zenon DEF postEventsToMessageQueue
    <2> HIDE DEF events, n
    <2> QED
      BY <1>4, <1>5, <2>1, QueueEventsKeeps
  <1>8. nextId' \in Nat
    <2>1. nextId' = nextId + Len(events)
      BY Zenon DEF postEventsToMessageQueue
    <2> HIDE DEF events
    <2> QED
      BY <1>3, <1>5, <2>1
  <1>9. postPc' \in [Posters -> PostStates] /\ pwPc' \in PwStates
    <2>1. postPc' = [postPc EXCEPT ![p] = "destroy"]
      BY Zenon DEF postEventsToMessageQueue
    <2> QED
      BY <1>7, <2>1 DEF IInv, TypeOK, PostStates, PwStates
  <1>10. UNCHANGED <<mThreadsRun, mWakeLockQueue, wlAck, initPc, initCount, active, batch,
                     scoped, fwWakeups, lastRead, disturbed>>
    BY Zenon DEF postEventsToMessageQueue, initVars
  <1>11. TypeOK'
    BY <1>6, <1>7, <1>8, <1>9, <1>10 DEF IInv, TypeOK
  <1>12. PostersHaveBatches'
    <2>1. postPc' = [postPc EXCEPT ![p] = "destroy"]
      BY Zenon DEF postEventsToMessageQueue
    <2> QED
      BY <1>1, <1>10, <2>1 DEF IInv, TypeOK, Structure, PostersHaveBatches
  <1>13. Structure'
    BY <1>6, <1>7, <1>10, <1>12, PosterKeepsStructure
  <1> QED
    BY <1>6, <1>11, <1>13 DEF IInv

\* So do the check that threads run and the end of the wakelock's scope.
LEMMA PostEventsKeeps ==
    ASSUME IInv, NEW p \in Posters, postEvents(p) PROVE IInv'
  <1> USE DEF queueVars, lockVars, initVars
  <1>1. TypeOK'
    BY DEF IInv, TypeOK, postEvents, PostStates
  <1>2. (CountedMeansHeld /\ Structure)'
    BY DEF IInv, TypeOK, postEvents, CountedMeansHeld, Structure, FrontStable,
           ThreadsStopped, PostersHaveBatches
  <1> QED
    BY <1>1, <1>2 DEF IInv

LEMMA DestroyKeeps ==
    ASSUME IInv, NEW p \in Posters, destroyScopedWakelock(p) PROVE IInv'
  <1> USE DEF queueVars, initVars
  <1>0. mWakelockRefCount \in Nat /\ wakelockHeld \in BOOLEAN /\ CountedMeansHeld
    BY DEF IInv, TypeOK
  <1>1. mWakelockRefCount' \in Nat /\ wakelockHeld' \in BOOLEAN /\ CountedMeansHeld'
    <2>1. CASE scoped[p] # "none"
      <3>1. decrementRefCountAndMaybeReleaseWakelock(1, scoped[p] = "live")
        BY <2>1, Zenon DEF destroyScopedWakelock
      <3>2. (scoped[p] = "live") \in BOOLEAN
        BY Zenon
      <3> QED
        BY <1>0, <3>1, <3>2, DecrementKeeps
    <2>2. CASE ~(scoped[p] # "none")
      <3>1. UNCHANGED <<mWakelockRefCount, wakelockHeld>>
        BY <2>2, Zenon DEF destroyScopedWakelock
      <3> QED
        BY <1>0, <3>1 DEF CountedMeansHeld
    <2> QED
      BY <2>1, <2>2
  <1>2. /\ postPc' = [postPc EXCEPT ![p] = "idle"]
        /\ batch' = [batch EXCEPT ![p] = <<>>]
        /\ scoped' = [scoped EXCEPT ![p] = "none"]
    BY Zenon DEF destroyScopedWakelock
  <1>3. UNCHANGED <<mThreadsRun, queueVars, mEventQueue, mWakeLockQueue, wakelockAge, pwPc,
                    wlPc, wlAck, initVars, fwWakeups, nextId, lastRead, disturbed>>
    BY Zenon DEF destroyScopedWakelock
  <1>4. /\ postPc' \in [Posters -> PostStates] /\ batch' \in [Posters -> Batches \cup {<<>>}]
        /\ scoped' \in [Posters -> ScopedStates]
    BY <1>2 DEF IInv, TypeOK, PostStates, ScopedStates
  <1>5. TypeOK'
    BY <1>1, <1>3, <1>4 DEF IInv, TypeOK
  <1>6. PostersHaveBatches'
    BY <1>2 DEF IInv, TypeOK, Structure, PostersHaveBatches
  <1>7. Structure'
    BY <1>3, <1>6, PosterKeepsStructure
  <1> QED
    BY <1>1, <1>5, <1>7 DEF IInv

\* And the framework and the clock.
LEMMA FrameworkKeeps == IInv /\ (frameworkRead \/ frameworkAck \/ tick) => IInv'
  <1> SUFFICES ASSUME IInv, frameworkRead \/ frameworkAck \/ tick PROVE IInv'
    OBVIOUS
  <1> USE DEF queueVars, initVars, postVars, fwUnchanged
  <1>1. (CountedMeansHeld /\ Structure)'
    BY DEF IInv, frameworkRead, frameworkAck, tick, CountedMeansHeld, Structure,
           FrontStable, ThreadsStopped, PostersHaveBatches
  <1>2. CASE frameworkRead
    <2>1. mEventQueue \in Seq(Event) /\ mEventQueue # <<>>
      BY <1>2 DEF IInv, TypeOK, frameworkRead
    <2>2. /\ Tail(mEventQueue) \in Seq(Event)
          /\ Len(Tail(mEventQueue)) = Len(mEventQueue) - 1
          /\ Head(mEventQueue) \in Event
      BY <2>1
    <2>3. Head(mEventQueue).id \in Nat
      BY <2>2 DEF Event
    <2>4. fwWakeups' \in Nat
      BY <1>2 DEF IInv, TypeOK, frameworkRead
    <2>5. mEventQueue' \in Seq(Event) /\ Len(mEventQueue') <= EventQueueSize
      BY <1>2, <2>1, <2>2, BoundsAssumption DEF IInv, TypeOK, frameworkRead, BoundsAssumption
    <2>6. TypeOK'
      BY <1>2, <2>3, <2>4, <2>5 DEF IInv, TypeOK, frameworkRead
    <2> QED
      BY <1>1, <2>6 DEF IInv
  <1>3. CASE frameworkAck
    <2>1. TypeOK'
      BY <1>3 DEF IInv, TypeOK, frameworkAck
    <2> QED
      BY <1>1, <2>1 DEF IInv
  <1>4. CASE tick
    <2>1. TypeOK'
      BY <1>4, BoundsAssumption DEF IInv, TypeOK, tick, BoundsAssumption
    <2> QED
      BY <1>1, <2>1 DEF IInv
  <1> QED
    BY <1>2, <1>3, <1>4

-----------------------------------------------------------------------------
\* The invariant is inductive.
LEMMA NextIInv == IInv /\ [Next]_vars => IInv'
  <1> SUFFICES ASSUME IInv, [Next]_vars PROVE IInv'
    OBVIOUS
  <1>1. CASE \E p \in Posters : poster(p)
    <2>1. PICK p \in Posters : poster(p)
      BY <1>1
    <2> QED
      BY <2>1, CreateKeeps, PostEventsKeeps, PostKeeps, DestroyKeeps DEF poster
  <1>2. CASE handlePendingWrites \/ pwSpuriousWakeup
    BY <1>2, PendingWritesKeeps
  <1>3. CASE handleWakelocks \/ wlSpuriousWakeup
    BY <1>3, WakelocksKeeps
  <1>4. CASE initializeCommon
    BY <1>4, InitializeKeeps
  <1>5. CASE \E p \in Posters, enabled \in BOOLEAN : activate(p, enabled)
    BY <1>5, ActivateKeeps
  <1>6. CASE frameworkRead \/ frameworkAck \/ tick
    BY <1>6, FrameworkKeeps
  <1>7. CASE UNCHANGED vars
    <2> USE DEF vars, queueVars, lockVars, initVars, postVars
    <2>1. TypeOK'
      BY <1>7 DEF IInv, TypeOK
    <2>2. (CountedMeansHeld /\ Structure)'
      BY <1>7
      DEF IInv, CountedMeansHeld, Structure, FrontStable, ThreadsStopped,
          PostersHaveBatches
    <2> QED
      BY <2>1, <2>2 DEF IInv
  <1> QED
    BY <1>1, <1>2, <1>3, <1>4, <1>5, <1>6, <1>7 DEF Next

\* Every behaviour keeps the inductive invariant.
THEOREM Invariance == Spec => []IInv
  <1> QED
    BY InitIInv, NextIInv, PTL DEF Spec

\* Type correctness: in particular the wakelock count never goes below zero, the
\* size of the pending queue stays a size_t and the FMQ never overflows, for any
\* number of posting threads.
THEOREM TypeCorrectness == Spec => []TypeOK
  <1>1. IInv => TypeOK
    BY DEF IInv
  <1> QED
    BY <1>1, Invariance, PTL

\* While the count is positive the kernel wakelock is held: increments,
\* decrements, resets by timeout and initialize() never separate the two.
THEOREM CountedIsHeld == Spec => []CountedMeansHeld
  <1>1. IInv => CountedMeansHeld
    BY DEF IInv
  <1> QED
    BY <1>1, Invariance, PTL

\* The pending-writes thread's reference to the front of the queue is valid
\* whenever it uses it without the mutex: initialize() clears the queue only
\* after the thread was joined, and posts only append.
THEOREM FrontIsStable == Spec => []FrontStable
  <1>1. IInv => FrontStable
    BY DEF IInv, Structure
  <1> QED
    BY <1>1, Invariance, PTL

-----------------------------------------------------------------------------
(* The one way in which the kernel wakelock is held without being counted. *)

\* A locked wakelock belongs to a post, of a batch with an event that calls for it.
LocksHaveReasons ==
    \A p \in Posters :
        scoped[p] # "none" => /\ postPc[p] # "idle"
                              /\ \E i \in DOMAIN batch[p] : batch[p][i] # "plain"

\* The steps that touch the count and the kernel wakelock.
LEMMA CountSteps ==
    ASSUME [Next]_vars
    PROVE  \/ UNCHANGED <<mWakelockRefCount, wakelockHeld>>
           \/ \E delta, fresh : decrementRefCountAndMaybeReleaseWakelock(delta, fresh)
           \/ \E p \in Posters, b \in Batches : createScopedWakelock(p, b)
           \/ \E p \in Posters : postEventsToMessageQueue(p)
  <1> USE DEF queueVars, lockVars, initVars, postVars
  <1>1. CASE \E p \in Posters : poster(p)
    BY <1>1, ZenonT(60) DEF poster, postEvents, destroyScopedWakelock
  <1>2. CASE handlePendingWrites \/ pwSpuriousWakeup
    BY <1>2, ZenonT(60)
    DEF handlePendingWrites, pwLoop, pwWait, pwSpuriousWakeup, pwWriteBlocking,
        pwWriteTimeout, pwPop
  <1>3. CASE handleWakelocks \/ wlSpuriousWakeup
    BY <1>3, ZenonT(60)
    DEF handleWakelocks, wlLoop, wlTimeoutReset, wlExit, wlWait, wlSpuriousWakeup,
        wlReadBlocking, wlReadTimeout, wlAcknowledge, resetSharedWakelock
  <1>4. CASE initializeCommon
    BY <1>4, ZenonT(60)
    DEF initializeCommon, stopThreads, stopDrain, stopNotify, stopJoinPendingWrites,
        stopJoinWakelock, initReset, disableAllSensors, initClearQueue, initZeroSize,
        initStart, initSubHals, resetSharedWakelock, initUnchanged
  <1>5. CASE \E p \in Posters, enabled \in BOOLEAN : activate(p, enabled)
    BY <1>5, ZenonT(60) DEF activate, initUnchanged
  <1>6. CASE frameworkRead \/ frameworkAck \/ tick
    BY <1>6, ZenonT(60) DEF frameworkRead, frameworkAck, tick, fwUnchanged
  <1>7. CASE UNCHANGED vars
    BY <1>7, Zenon DEF vars
  <1> QED
    BY <1>1, <1>2, <1>3, <1>4, <1>5, <1>6, <1>7 DEF Next

\* The steps that touch the posters' wakelocks and batches.
LEMMA ScopedSteps ==
    ASSUME [Next]_vars
    PROVE  \/ /\ UNCHANGED <<postPc, batch>>
              /\ scoped' = scoped \/ scoped' = MakeStale(scoped)
           \/ \E p \in Posters, b \in Batches : createScopedWakelock(p, b)
           \/ \E p \in Posters : postEvents(p) \/ postEventsToMessageQueue(p)
           \/ \E p \in Posters : destroyScopedWakelock(p)
  <1> USE DEF queueVars, lockVars, initVars, postVars
  <1>1. CASE \E p \in Posters : poster(p)
    BY <1>1, ZenonT(60) DEF poster
  <1>2. CASE handlePendingWrites \/ pwSpuriousWakeup
    BY <1>2, ZenonT(60)
    DEF handlePendingWrites, pwLoop, pwWait, pwSpuriousWakeup, pwWriteBlocking,
        pwWriteTimeout, pwPop, pwUnchanged
  <1>3. CASE handleWakelocks \/ wlSpuriousWakeup
    BY <1>3, ZenonT(60)
    DEF handleWakelocks, wlLoop, wlTimeoutReset, wlExit, wlWait, wlSpuriousWakeup,
        wlReadBlocking, wlReadTimeout, wlAcknowledge, resetSharedWakelock, wlUnchanged
  <1>4. CASE initializeCommon
    BY <1>4, ZenonT(60)
    DEF initializeCommon, stopThreads, stopDrain, stopNotify, stopJoinPendingWrites,
        stopJoinWakelock, initReset, disableAllSensors, initClearQueue, initZeroSize,
        initStart, initSubHals, resetSharedWakelock, initUnchanged
  <1>5. CASE \E p \in Posters, enabled \in BOOLEAN : activate(p, enabled)
    BY <1>5, ZenonT(60) DEF activate, initUnchanged
  <1>6. CASE frameworkRead \/ frameworkAck \/ tick
    BY <1>6, ZenonT(60) DEF frameworkRead, frameworkAck, tick, fwUnchanged
  <1>7. CASE UNCHANGED vars
    BY <1>7, Zenon DEF vars
  <1> QED
    BY <1>1, <1>2, <1>3, <1>4, <1>5, <1>6, <1>7 DEF Next

\* A wakelock stays with the batch it was locked for.
LEMMA ReasonsKept ==
    ASSUME IInv, LocksHaveReasons, [Next]_vars PROVE LocksHaveReasons'
  <1>0. /\ scoped \in [Posters -> ScopedStates]
        /\ batch \in [Posters -> Batches \cup {<<>>}]
        /\ postPc \in [Posters -> PostStates]
    BY DEF IInv, TypeOK
  <1>1. CASE /\ UNCHANGED <<postPc, batch>>
             /\ scoped' = scoped \/ scoped' = MakeStale(scoped)
    BY <1>1 DEF LocksHaveReasons, MakeStale
  <1>2. ASSUME NEW p \in Posters, NEW b \in Batches, createScopedWakelock(p, b)
        PROVE  LocksHaveReasons'
    <2> DEFINE lock == \E i \in DOMAIN b : b[i] # "plain"
    <2>1. batch' = [batch EXCEPT ![p] = b]
      BY <1>2, Zenon DEF createScopedWakelock
    <2>2. postPc[p] = "idle" /\ postPc' = [postPc EXCEPT ![p] = "created"]
      BY <1>2, Zenon DEF createScopedWakelock
    <2>3. CASE lock
      <3>1. scoped' = [scoped EXCEPT ![p] = IF mThreadsRun THEN "live" ELSE "none"]
        BY <1>2, <2>3, Zenon DEF createScopedWakelock
      <3> QED
        BY <1>0, <2>1, <2>2, <2>3, <3>1 DEF LocksHaveReasons
    <2>4. CASE ~lock
      <3>1. scoped' = scoped
        BY <1>2, <2>4, Zenon DEF createScopedWakelock
      <3> QED
        BY <1>0, <2>1, <2>2, <3>1 DEF LocksHaveReasons
    <2> QED
      BY <2>3, <2>4
  <1>3. ASSUME NEW p \in Posters, destroyScopedWakelock(p) PROVE LocksHaveReasons'
    <2>1. /\ batch' = [batch EXCEPT ![p] = <<>>] /\ scoped' = [scoped EXCEPT ![p] = "none"]
          /\ postPc' = [postPc EXCEPT ![p] = "idle"]
      BY <1>3, Zenon DEF destroyScopedWakelock
    <2> QED
      BY <1>0, <2>1 DEF LocksHaveReasons
  <1>4. ASSUME NEW p \in Posters, postEvents(p) \/ postEventsToMessageQueue(p)
        PROVE  LocksHaveReasons'
    <2>1. /\ UNCHANGED <<batch, scoped>>
          /\ \/ postPc' = [postPc EXCEPT ![p] = IF mThreadsRun THEN "posting" ELSE "destroy"]
             \/ postPc' = [postPc EXCEPT ![p] = "destroy"]
      BY <1>4, Zenon DEF postEvents, postEventsToMessageQueue
    <2> QED
      BY <1>0, <2>1 DEF LocksHaveReasons
  <1> QED
    BY <1>1, <1>2, <1>3, <1>4, ScopedSteps

\* A batch with a wake event counts at least one.
LEMMA WakeEventCounted ==
    ASSUME NEW b \in Seq(Kinds), nextId \in Nat, \E i \in DOMAIN b : b[i] = "wake"
    PROVE  countNumWakeupEvents(Numbered(b), Len(Numbered(b))) > 0
  <1> DEFINE es == Numbered(b)
             W == {i \in 1..Len(es) : es[i].wake}
  <1>1. PICK i \in DOMAIN b : b[i] = "wake"
    OBVIOUS
  <1>2. i \in W
    <2>1. i \in 1..Len(b) /\ i \in 1..Len(es)
      BY <1>1, NumberedType
    <2>2. es[i] = [id |-> nextId + i - 1, wake |-> b[i] = "wake"]
      BY <2>1, Zenon DEF Numbered
    <2> HIDE DEF es
    <2>3. es[i].wake = (b[i] = "wake")
      BY <2>2
    <2> QED
      BY <1>1, <2>1, <2>3, Zenon
  <1>3. IsFiniteSet(W)
    <2>1. Len(es) \in Nat
      BY NumberedType
    <2> HIDE DEF es
    <2>2. IsFiniteSet(1..Len(es))
      BY <2>1, FS_Interval
    <2> QED
      BY <2>2, FS_Subset
  <1>4. Cardinality(W) # 0 /\ Cardinality(W) \in Nat
    <2> HIDE DEF W
    <2> QED
      BY <1>2, <1>3, FS_EmptySet, FS_CardinalityType
  <1>5. Cardinality(W) > 0
    <2> HIDE DEF W
    <2> QED
      BY <1>4
  <1> QED
    BY <1>5 DEF countNumWakeupEvents

\* For any batches and any number of posters: only a post whose wakelock was locked,
\* whose wake events the pick-up filter removed all and which finds the count at 0
\* (after a reset) brings about a held and uncounted kernel wakelock.
THEOREM HeldUncountedByFilter == Spec => HeldUncountedOnlyByFilter
  <1> DEFINE byFilter(p) == /\ postPc[p] = "posting" /\ postPc'[p] = "destroy"
                            /\ scoped[p] # "none" /\ mWakelockRefCount = 0
                            /\ \A i \in DOMAIN processEvents(batch[p]) :
                                  processEvents(batch[p])[i] # "wake"
             A == (wakelockHeld' /\ mWakelockRefCount' = 0)
                      => \/ wakelockHeld /\ mWakelockRefCount = 0
                         \/ \E p \in Posters : byFilter(p)
  <1>1. ASSUME IInv, [Next]_vars PROVE A
    <2>0. mWakelockRefCount \in Nat /\ postPc \in [Posters -> PostStates]
      BY <1>1 DEF IInv, TypeOK
    <2>1. CASE UNCHANGED <<mWakelockRefCount, wakelockHeld>>
      BY <2>1
    <2>2. ASSUME NEW delta, NEW fresh, decrementRefCountAndMaybeReleaseWakelock(delta, fresh)
          PROVE  A
      <3>1. \/ UNCHANGED <<mWakelockRefCount, wakelockHeld>>
            \/ wakelockHeld' = (wakelockHeld /\ mWakelockRefCount' > 0)
        BY <2>2, Zenon DEF decrementRefCountAndMaybeReleaseWakelock
      <3>2. CASE wakelockHeld' = (wakelockHeld /\ mWakelockRefCount' > 0)
        <4>1. wakelockHeld' => mWakelockRefCount' > 0
          BY <3>2, Zenon
        <4> QED
          BY <4>1
      <3> QED
        BY <2>1, <3>1, <3>2
    <2>3. ASSUME NEW delta \in Nat, incrementRefCountAndMaybeAcquireWakelock(delta),
                 delta > 0 \/ mWakelockRefCount > 0
          PROVE  A
      <3>1. CASE mThreadsRun
        <4>1. mWakelockRefCount' = mWakelockRefCount + delta
          BY <2>3, <3>1, Zenon DEF incrementRefCountAndMaybeAcquireWakelock
        <4>2. mWakelockRefCount' # 0
          BY <2>0, <2>3, <4>1
        <4> QED
          BY <4>2, Zenon
      <3>2. CASE ~mThreadsRun
        <4>1. UNCHANGED <<mWakelockRefCount, wakelockHeld>>
          BY <2>3, <3>2, Zenon DEF incrementRefCountAndMaybeAcquireWakelock, lockVars
        <4> QED
          BY <2>1, <4>1, Zenon
      <3> QED
        BY <3>1, <3>2
    <2>4. ASSUME NEW p \in Posters, NEW b \in Batches, createScopedWakelock(p, b)
          PROVE  A
      <3>1. \/ incrementRefCountAndMaybeAcquireWakelock(1)
            \/ UNCHANGED <<mWakelockRefCount, wakelockHeld>>
        BY <2>4, Zenon DEF createScopedWakelock, lockVars
      <3> HIDE DEF A
      <3> QED
        BY <2>1, <2>3, <3>1, 1 > 0
    <2>5. ASSUME NEW p \in Posters, postEventsToMessageQueue(p) PROVE A
      <3> DEFINE kept == processEvents(batch[p])
                 events == Numbered(kept)
                 n == countNumWakeupEvents(events, Len(events))
      <3>1. batch[p] \in Batches /\ nextId \in Nat
        BY <1>1, <2>5
        DEF IInv, TypeOK, Structure, PostersHaveBatches, postEventsToMessageQueue
      <3>2. kept \in Seq(Kinds)
        BY <3>1, BatchesAssumption, Zenon DEF BatchesAssumption
      <3>3. postPc[p] = "posting" /\ postPc'[p] = "destroy"
        BY <2>0, <2>5 DEF postEventsToMessageQueue
      <3>4. CASE scoped[p] # "none" /\ ~byFilter(p)
        <4>1. (\E i \in DOMAIN kept : kept[i] = "wake") \/ mWakelockRefCount > 0
          BY <2>0, <3>3, <3>4
        <4> HIDE DEF kept
        <4>2. n \in Nat /\ (n > 0 \/ mWakelockRefCount > 0)
          <5>1. Len(events) \in Nat
            BY <3>1, <3>2, NumberedType
          <5> QED
            BY <3>1, <3>2, <4>1, <5>1, WakeEventCounted, CountIsNat
        <4>3. incrementRefCountAndMaybeAcquireWakelock(n)
          BY <2>5, <3>4, Zenon DEF postEventsToMessageQueue, kept
        <4> HIDE DEF n, A
        <4> QED
          BY <2>3, <4>2, <4>3
      <3>5. CASE scoped[p] # "none" /\ byFilter(p)
        BY <3>5, Zenon
      <3>6. CASE ~(scoped[p] # "none")
        <4>1. UNCHANGED <<mWakelockRefCount, wakelockHeld>>
          BY <2>5, <3>6, Zenon DEF postEventsToMessageQueue, lockVars
        <4> QED
          BY <2>1, <4>1, Zenon
      <3> QED
        BY <3>4, <3>5, <3>6, Zenon
    <2> HIDE DEF A
    <2> QED
      BY <1>1, <2>1, <2>2, <2>4, <2>5, CountSteps
  <1>2. IInv /\ [Next]_vars => [A]_vars
    BY <1>1
  <1> QED
    BY <1>2, Invariance, PTL DEF Spec, HeldUncountedOnlyByFilter

-----------------------------------------------------------------------------
(* The queue is cleared and the threads are started under no critical section. *)

\* From the end of disableAllSensors() to the start of the threads nobody is in the
\* critical section of postEventsToMessageQueue() or holds a locked wakelock, although
\* a sub-HAL that refused to stop may begin a post: mThreadsRun is false, so it gets an
\* unlocked wakelock and postEvents() drops its events.
Quiet ==
    /\ initPc \in {"clear", "zeroSize", "start"} =>
           \A p \in Posters : postPc[p] # "posting" /\ scoped[p] = "none"
    /\ initPc \in {"zeroSize", "start"} => mPendingWriteEventsQueue = <<>>

\* The proxy's own threads and the framework leave the posters alone, and the pending
\* queue too once the pending-writes thread was joined.
LEMMA ThreadsKeepQuiet ==
    ASSUME IInv, Quiet,
           \/ handlePendingWrites \/ pwSpuriousWakeup
           \/ handleWakelocks \/ wlSpuriousWakeup
           \/ frameworkRead \/ frameworkAck \/ tick \/ UNCHANGED vars
    PROVE  Quiet'
  <1> USE DEF queueVars, lockVars, initVars, postVars
  <1>1. /\ UNCHANGED <<initPc, postPc>>
        /\ scoped' = scoped \/ scoped' = MakeStale(scoped)
        /\ mPendingWriteEventsQueue' = mPendingWriteEventsQueue \/ pwPc = "pop"
    <2>1. CASE handlePendingWrites \/ pwSpuriousWakeup
      BY <2>1, ZenonT(60)
      DEF handlePendingWrites, pwLoop, pwWait, pwSpuriousWakeup, pwWriteBlocking,
          pwWriteTimeout, pwPop, pwUnchanged
    <2>2. CASE handleWakelocks \/ wlSpuriousWakeup
      BY <2>2, ZenonT(60)
      DEF handleWakelocks, wlLoop, wlTimeoutReset, wlExit, wlWait, wlSpuriousWakeup,
          wlReadBlocking, wlReadTimeout, wlAcknowledge, resetSharedWakelock, wlUnchanged
    <2>3. CASE frameworkRead \/ frameworkAck \/ tick \/ UNCHANGED vars
      BY <2>3, Zenon DEF frameworkRead, frameworkAck, tick, fwUnchanged, vars
    <2> QED
      BY <2>1, <2>2, <2>3
  <1>2. \A p \in Posters : scoped[p] = "none" => scoped'[p] = "none"
    BY <1>1 DEF MakeStale
  <1>3. initPc \in {"zeroSize", "start"} => pwPc # "pop"
    BY DEF IInv, Structure, ThreadsStopped
  <1> QED
    BY <1>1, <1>2, <1>3 DEF Quiet

\* A post that begins while the threads are stopped locks nothing and queues nothing.
LEMMA PostersKeepQuiet ==
    ASSUME IInv, Quiet, NEW p \in Posters, poster(p) PROVE Quiet'
  <1> SUFFICES ASSUME initPc \in {"clear", "zeroSize", "start"} PROVE Quiet'
    <2>1. initPc' = initPc
      BY Zenon
      DEF poster, createScopedWakelock, postEvents, postEventsToMessageQueue,
          destroyScopedWakelock, initVars
    <2> QED
      BY <2>1 DEF Quiet
  <1>0. /\ ~mThreadsRun
        /\ postPc \in [Posters -> PostStates] /\ scoped \in [Posters -> ScopedStates]
    BY DEF IInv, TypeOK, Structure, ThreadsStopped
  <1>1. \A q \in Posters : postPc[q] # "posting" /\ scoped[q] = "none"
    BY DEF Quiet
  <1>2. ASSUME NEW b \in Batches, createScopedWakelock(p, b) PROVE Quiet'
    <2>1. /\ scoped' = scoped
             \/ scoped' = [scoped EXCEPT ![p] = IF mThreadsRun THEN "live" ELSE "none"]
          /\ postPc' = [postPc EXCEPT ![p] = "created"]
          /\ UNCHANGED <<initPc, mPendingWriteEventsQueue>>
      BY <1>2, Zenon DEF createScopedWakelock, initVars, queueVars
    <2> QED
      BY <1>0, <1>1, <2>1 DEF Quiet
  <1>3. CASE postEvents(p)
    <2>1. /\ postPc' = [postPc EXCEPT ![p] = IF mThreadsRun THEN "posting" ELSE "destroy"]
          /\ UNCHANGED <<initPc, mPendingWriteEventsQueue, scoped>>
      BY <1>3, Zenon DEF postEvents, initVars, queueVars
    <2> QED
      BY <1>0, <1>1, <2>1 DEF Quiet
  <1>4. CASE postEventsToMessageQueue(p)
    BY <1>1, <1>4, Zenon DEF postEventsToMessageQueue
  <1>5. CASE destroyScopedWakelock(p)
    <2>1. /\ postPc' = [postPc EXCEPT ![p] = "idle"]
          /\ scoped' = [scoped EXCEPT ![p] = "none"]
          /\ UNCHANGED <<initPc, mPendingWriteEventsQueue>>
      BY <1>5, Zenon DEF destroyScopedWakelock, initVars, queueVars
    <2> QED
      BY <1>0, <1>1, <2>1 DEF Quiet
  <1> QED
    BY <1>2, <1>3, <1>4, <1>5 DEF poster

\* The steps of initialize() set it up: disableAllSensors() returns after the posts
\* under way.
LEMMA InitializeKeepsQuiet ==
    ASSUME DisableQuiesces, LocksHaveReasons, Quiet, initializeCommon PROVE Quiet'
  <1> USE DEF queueVars, lockVars, initVars, postVars, initUnchanged
  <1>1. CASE stopThreads \/ stopDrain \/ stopNotify \/ stopJoinPendingWrites
             \/ stopJoinWakelock \/ initReset \/ initStart \/ initSubHals
    <2>1. initPc' \in {"drain", "notify", "joinPw", "joinWl", "reset", "disable", "subHals",
                       "idle"}
      BY <1>1
      DEF stopThreads, stopDrain, stopNotify, stopJoinPendingWrites, stopJoinWakelock,
          initReset, initStart, initSubHals
    <2> QED
      BY <2>1 DEF Quiet
  <1>2. CASE disableAllSensors
    <2>1. \A p \in Posters : postPc[p] = "idle" /\ scoped[p] = "none"
      BY <1>2 DEF disableAllSensors, LocksHaveReasons
    <2> QED
      BY <1>2, <2>1 DEF disableAllSensors, Quiet
  <1>3. CASE initClearQueue
    BY <1>3 DEF initClearQueue, Quiet
  <1>4. CASE initZeroSize
    BY <1>4 DEF initZeroSize, Quiet
  <1> QED
    BY <1>1, <1>2, <1>3, <1>4 DEF initializeCommon

\* If disabling a sensor waits for the posts under way, every state is quiet.
LEMMA QuietInvariant ==
    ASSUME DisableQuiesces PROVE Spec => [](IInv /\ LocksHaveReasons /\ Quiet)
  <1>1. Init => IInv /\ LocksHaveReasons /\ Quiet
    BY InitIInv DEF Init, LocksHaveReasons, Quiet
  <1>2. ASSUME IInv, LocksHaveReasons, Quiet, [Next]_vars
        PROVE  (IInv /\ LocksHaveReasons /\ Quiet)'
    <2>1. IInv' /\ LocksHaveReasons'
      BY <1>2, NextIInv, ReasonsKept
    <2>2. CASE \E p \in Posters, enabled \in BOOLEAN : activate(p, enabled)
      <3>1. initPc = "idle" /\ initPc' = "idle"
        BY <2>2 DEF activate
      <3> QED
        BY <2>1, <3>1 DEF Quiet
    <2>3. Quiet'
      BY <1>2, <2>2, ThreadsKeepQuiet, PostersKeepQuiet, InitializeKeepsQuiet DEF Next
    <2> QED
      BY <2>1, <2>3
  <1> QED
    BY <1>1, <1>2, PTL DEF Spec
=============================================================================
