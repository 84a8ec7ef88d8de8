------------------------- MODULE HalProxyChannelProofs -------------------------
(***************************************************************************)
(* HalProxy implements EventChannel, for any number of sub-HAL threads,    *)
(* any batches and any queue sizes; and what follows: events are read in   *)
(* the order of their posting, the size of the pending queue is exact, and *)
(* the wakelock count covers the wake events on their way.                 *)
(***************************************************************************)
EXTENDS HalProxyChannel, HalProxyProofs, ListLemmas

\* The events of the entries of a pending queue, and the numbers of events.
EventsOf(q) == [i \in DOMAIN q |-> q[i].events]
Ids(s) == [i \in DOMAIN s |-> s[i].id]

\* The events on their way to the framework: onTheWay holds their numbers.
Line == mEventQueue \o NotWritten

-----------------------------------------------------------------------------
(* The pending queue. *)

\* Events may be put together in any grouping.
LEMMA Regroup == \A a, b, c \in Seq(Event) : (a \o b) \o c = a \o (b \o c)
  BY ConcatAssociative

\* The type of EventsOf.
LEMMA EventsOfType ==
    ASSUME NEW q \in Seq(Entry)
    PROVE  EventsOf(q) \in Seq(Seq(Event)) /\ Len(EventsOf(q)) = Len(q)
  <1>1. ASSUME NEW i \in 1 .. Len(q) PROVE q[i].events \in Seq(Event)
    <2>1. q[i] \in Entry
      OBVIOUS
    <2> QED
      BY <2>1 DEF Entry
  <1> QED
    BY <1>1 DEF EventsOf

\* A queue of entries holds a sequence of events.
LEMMA PendingType ==
    ASSUME mPendingWriteEventsQueue \in Seq(Entry)
    PROVE  /\ Pending = FlattenSeq(EventsOf(mPendingWriteEventsQueue))
           /\ Pending \in Seq(Event)
           /\ mPendingWriteEventsQueue = <<>> => Pending = <<>>
  <1>1. Pending = FlattenSeq(EventsOf(mPendingWriteEventsQueue))
    BY DEF Pending, EventsOf
  <1> QED
    BY <1>1, EventsOfType, FlattenType

\* One more entry at the end of a queue.
LEMMA FlattenEntryAppended ==
    ASSUME NEW q \in Seq(Entry), NEW e \in Entry
    PROVE  FlattenSeq(EventsOf(Append(q, e))) = FlattenSeq(EventsOf(q)) \o e.events
  <1>1. e.events \in Seq(Event)
    BY DEF Entry
  <1>2. EventsOf(q) \in Seq(Seq(Event)) /\ Len(EventsOf(q)) = Len(q)
    BY EventsOfType
  <1> DEFINE more == Append(q, e)
  <1>3. /\ more \in Seq(Entry) /\ Len(more) = Len(q) + 1 /\ more[Len(q) + 1] = e
        /\ \A i \in 1 .. Len(q) : more[i] = q[i]
    BY AppendProperties
  <1> HIDE DEF more
  <1>4. EventsOf(more) \in Seq(Seq(Event)) /\ Len(EventsOf(more)) = Len(q) + 1
    BY <1>3, EventsOfType
  <1>5. EventsOf(more) = Append(EventsOf(q), e.events)
    <2> DEFINE right == Append(EventsOf(q), e.events)
    <2>1. /\ right \in Seq(Seq(Event)) /\ Len(right) = Len(q) + 1
          /\ \A i \in 1 .. Len(q) : right[i] = EventsOf(q)[i]
          /\ right[Len(q) + 1] = e.events
      BY <1>1, <1>2, AppendProperties
    <2> HIDE DEF right
    <2>2. ASSUME NEW i \in 1 .. Len(q) + 1 PROVE EventsOf(more)[i] = right[i]
      <3>1. EventsOf(more)[i] = more[i].events
        BY <1>3 DEF EventsOf
      <3>2. i \in 1 .. Len(q) => EventsOf(q)[i] = q[i].events
        BY DEF EventsOf
      <3> QED
        BY <1>3, <2>1, <3>1, <3>2
    <2>3. EventsOf(more) = right
      BY <1>4, <2>1, <2>2, SeqEqual
    <2> QED
      BY <2>3 DEF right
  <1> QED
    BY <1>1, <1>2, <1>5, FlattenAppend DEF more

\* The events of the first entry come first.
LEMMA FlattenEntryFirst ==
    ASSUME NEW q \in Seq(Entry), q # <<>>
    PROVE  FlattenSeq(EventsOf(q)) = Head(q).events \o FlattenSeq(EventsOf(Tail(q)))
  <1>1. EventsOf(q) \in Seq(Seq(Event)) /\ Len(EventsOf(q)) = Len(q)
    BY EventsOfType
  <1>2. /\ Tail(q) \in Seq(Entry) /\ Len(Tail(q)) = Len(q) - 1 /\ Len(q) \in Nat \ {0}
        /\ \A i \in 1 .. Len(q) - 1 : Tail(q)[i] = q[i + 1]
        /\ Head(q) = q[1]
    OBVIOUS
  <1>3. EventsOf(q) # <<>> /\ Head(EventsOf(q)) = Head(q).events
    BY <1>1, <1>2 DEF EventsOf
  <1>4. Tail(EventsOf(q)) = EventsOf(Tail(q))
    <2> DEFINE t == Tail(q)
               evs == EventsOf(q)
               et == Tail(evs)
    <2>1. /\ t \in Seq(Entry) /\ Len(t) = Len(q) - 1
          /\ \A i \in 1 .. Len(q) - 1 : t[i] = q[i + 1]
      BY <1>2
    <2>2. evs \in Seq(Seq(Event)) /\ Len(evs) = Len(q) /\ evs # <<>>
          /\ \A i \in 1 .. Len(q) : evs[i] = q[i].events
      BY <1>1, <1>3 DEF EventsOf
    <2> HIDE DEF t, evs
    <2>3. /\ et \in Seq(Seq(Event)) /\ Len(et) = Len(q) - 1
          /\ \A i \in 1 .. Len(q) - 1 : et[i] = evs[i + 1]
      BY <2>2
    <2> HIDE DEF et
    <2>4. /\ EventsOf(t) \in Seq(Seq(Event)) /\ Len(EventsOf(t)) = Len(q) - 1
          /\ \A i \in 1 .. Len(q) - 1 : EventsOf(t)[i] = t[i].events
      BY <2>1, EventsOfType DEF EventsOf
    <2>5. ASSUME NEW i \in 1 .. Len(q) - 1 PROVE et[i] = EventsOf(t)[i]
      <3>1. i + 1 \in 1 .. Len(q)
        BY <1>2
      <3>2. et[i] = q[i + 1].events
        BY <2>2, <2>3, <3>1
      <3>3. EventsOf(t)[i] = q[i + 1].events
        BY <2>1, <2>4
      <3> QED
        BY <3>2, <3>3
    <2>6. et = EventsOf(t)
      BY <2>3, <2>4, <2>5, SeqEqual
    <2> QED
      BY <2>6 DEF et, evs, t
  <1> QED
    BY <1>1, <1>3, <1>4, FlattenHead

-----------------------------------------------------------------------------
(* The steps of the proxy, seen on the line of events. *)

SameLine == Line' = Line /\ nextId' = nextId /\ lastRead' = lastRead

\* A prefix of newly numbered events joins the line.
Posts ==
    /\ \E es \in Seq(Event) :
           /\ \A i \in 1 .. Len(es) : es[i].id = nextId + i - 1
           /\ nextId' = nextId + Len(es)
           /\ \E k \in 0 .. Len(es) : Line' = Line \o SubSeq(es, 1, k)
    /\ lastRead' = lastRead

\* The oldest events leave it.
Takes ==
    /\ \E a, c \in Seq(Event) :
           a # <<>> /\ Line = a \o c /\ Line' = c /\ lastRead' = a[Len(a)].id
    /\ nextId' = nextId

\* Some events in it are lost.
Loses ==
    /\ \E a, b, c \in Seq(Event) : Line = a \o (b \o c) /\ Line' = a \o c
    /\ nextId' = nextId /\ lastRead' = lastRead

\* What the line is made of while the pending-writes thread refers to the front entry.
LEMMA LineAtFront ==
    ASSUME IInv, pwPc \in {"writing", "pop"}
    PROVE  LET rest == FlattenSeq(EventsOf(Tail(mPendingWriteEventsQueue)))
           IN  /\ rest \in Seq(Event)
               /\ Pending = front.events \o rest
               /\ SubSeq(Pending, pwNumToWrite + 1, Len(Pending))
                      = SubSeq(front.events, pwNumToWrite + 1, Len(front.events)) \o rest
  <1> DEFINE q == mPendingWriteEventsQueue
             rest == FlattenSeq(EventsOf(Tail(q)))
  <1>1. /\ q # <<>> /\ q \in Seq(Entry) /\ Tail(q) \in Seq(Entry)
        /\ front.events \in Seq(Event) /\ pwNumToWrite \in 0..Len(front.events)
    BY FrontType DEF IInv, TypeOK
  <1>2. rest \in Seq(Event)
    BY <1>1, EventsOfType, FlattenType
  <1>3. Pending = front.events \o rest
    BY <1>1, PendingType, FlattenEntryFirst DEF front
  <1> HIDE DEF rest
  <1>4. SubSeq(front.events \o rest, pwNumToWrite + 1, Len(front.events \o rest))
            = SubSeq(front.events, pwNumToWrite + 1, Len(front.events)) \o rest
    BY <1>1, <1>2, DropConcat
  <1>5. SubSeq(Pending, pwNumToWrite + 1, Len(Pending))
            = SubSeq(front.events, pwNumToWrite + 1, Len(front.events)) \o rest
    BY <1>3, <1>4
  <1> QED
    BY <1>2, <1>3, <1>5 DEF rest

\* The line is a sequence of events.
LEMMA LineType ==
    ASSUME IInv
    PROVE  /\ NotWritten \in Seq(Event) /\ Line \in Seq(Event)
           /\ mEventQueue \in Seq(Event) /\ mPendingWriteEventsQueue \in Seq(Entry)
           /\ Pending \in Seq(Event)
  <1>1. mEventQueue \in Seq(Event) /\ mPendingWriteEventsQueue \in Seq(Entry)
    BY DEF IInv, TypeOK
  <1>2. Pending \in Seq(Event)
    BY <1>1, PendingType
  <1>3. CASE pwPc = "pop"
    <2>1. pwNumToWrite \in Nat
      BY <1>3, FrontType
    <2>2. SubSeq(Pending, pwNumToWrite + 1, Len(Pending)) \in Seq(Event)
      BY <1>2, <2>1
    <2>3. NotWritten \in Seq(Event)
      BY <1>3, <2>2 DEF NotWritten
    <2> QED
      BY <1>1, <1>2, <2>3 DEF Line
  <1>4. CASE pwPc # "pop"
    <2>1. NotWritten \in Seq(Event)
      BY <1>2, <1>4 DEF NotWritten
    <2> QED
      BY <1>1, <1>2, <2>1 DEF Line
  <1> QED
    BY <1>3, <1>4

\* Writing the chunk and removing it from the pending queue do not show.
LEMMA WriteIsInvisible ==
    ASSUME IInv, pwWriteBlocking PROVE SameLine
  <1> DEFINE rest == FlattenSeq(EventsOf(Tail(mPendingWriteEventsQueue)))
             es == front.events
             k == pwNumToWrite
             chunk == SubSeq(es, 1, k)
             left == SubSeq(es, k + 1, Len(es))
  <1>1. /\ pwPc = "writing" /\ pwPc' = "pop"
        /\ mPendingWriteEventsQueue' = mPendingWriteEventsQueue
        /\ mEventQueue' = mEventQueue \o chunk
        /\ nextId' = nextId /\ lastRead' = lastRead
    BY Zenon DEF pwWriteBlocking, pwUnchanged, queueVars
  <1>2. es \in Seq(Event) /\ k \in 0 .. Len(es) /\ mEventQueue \in Seq(Event)
    BY <1>1, FrontType DEF IInv, TypeOK
  <1>3. /\ rest \in Seq(Event) /\ Pending = es \o rest
        /\ SubSeq(Pending, k + 1, Len(Pending)) = left \o rest
    BY <1>1, LineAtFront
  <1>4. Pending' = Pending /\ pwNumToWrite' = pwNumToWrite
    BY <1>1, Zenon DEF Pending, pwNumToWrite, front
  <1>5. NotWritten = es \o rest /\ NotWritten' = left \o rest
    BY <1>1, <1>3, <1>4 DEF NotWritten
  <1>6. chunk \in Seq(Event) /\ left \in Seq(Event) /\ es = chunk \o left
    BY <1>2, Split
  <1> HIDE DEF es, chunk, left, rest, k
  <1>7. (mEventQueue \o chunk) \o (left \o rest) = mEventQueue \o ((chunk \o left) \o rest)
    <2>1. left \o rest \in Seq(Event) /\ (chunk \o left) \o rest = chunk \o (left \o rest)
      BY <1>3, <1>6
    <2>2. (mEventQueue \o chunk) \o (left \o rest) = mEventQueue \o (chunk \o (left \o rest))
      <3>1. \A u \in Seq(Event) :
                (mEventQueue \o chunk) \o u = mEventQueue \o (chunk \o u)
        BY <1>2, <1>6, Regroup, Zenon
      <3> QED
        BY <2>1, <3>1, Zenon
    <2> QED
      BY <2>1, <2>2
  <1> QED
    BY <1>1, <1>5, <1>6, <1>7 DEF SameLine, Line

LEMMA PopIsInvisible ==
    ASSUME IInv, pwPop PROVE SameLine
  <1> DEFINE q == mPendingWriteEventsQueue
             rest == FlattenSeq(EventsOf(Tail(q)))
             es == front.events
             k == pwNumToWrite
             left == SubSeq(es, k + 1, Len(es))
  <1>1. /\ pwPc = "pop" /\ pwPc' = "loop"
        /\ mPendingWriteEventsQueue' = pendingWithoutChunk
        /\ mEventQueue' = mEventQueue /\ nextId' = nextId /\ lastRead' = lastRead
    BY Zenon DEF pwPop, pwUnchanged
  <1>2. /\ es \in Seq(Event) /\ k \in 0 .. Len(es) /\ Tail(q) \in Seq(Entry)
        /\ front.wakeups \in Nat /\ EventQueueSize \in Nat
    BY <1>1, FrontType, BoundsAssumption DEF BoundsAssumption
  <1>3. rest \in Seq(Event) /\ SubSeq(Pending, k + 1, Len(Pending)) = left \o rest
    BY <1>1, LineAtFront
  <1>4. NotWritten = left \o rest
    BY <1>1, <1>3 DEF NotWritten
  <1>5. mPendingWriteEventsQueue' \in Seq(Entry)
    BY <1>1, WithoutChunkType
  <1>6. NotWritten' = FlattenSeq(EventsOf(pendingWithoutChunk))
    BY <1>1 DEF NotWritten, Pending, EventsOf
  <1>7. CASE Len(es) > EventQueueSize
    <2> DEFINE entry == [events |-> SubSeq(es, EventQueueSize + 1, Len(es)),
                         wakeups |-> front.wakeups]
               more == <<entry>> \o Tail(q)
    <2>1. k = EventQueueSize
      BY <1>2, <1>7 DEF pwNumToWrite, Lesser
    <2>2. entry.events = left
      BY <2>1
    <2>3. pendingWithoutChunk = more
      BY <1>7 DEF pendingWithoutChunk
    <2>4. left \in Seq(Event)
      BY <1>2
    <2>5. entry \in Entry
      BY <1>2, <2>2, <2>4 DEF Entry
    <2> HIDE DEF entry
    <2>6. more \in Seq(Entry) /\ more # <<>> /\ Head(more) = entry /\ Tail(more) = Tail(q)
      BY <1>2, <2>5
    <2> HIDE DEF more
    <2>7. FlattenSeq(EventsOf(more)) = left \o rest
      BY <2>2, <2>6, FlattenEntryFirst
    <2> QED
      BY <1>1, <1>4, <1>6, <2>3, <2>7 DEF SameLine, Line
  <1>8. CASE ~(Len(es) > EventQueueSize)
    <2>1. k = Len(es)
      BY <1>2, <1>8 DEF pwNumToWrite, Lesser
    <2>2. left = <<>>
      BY <1>2, <2>1
    <2>3. pendingWithoutChunk = Tail(q)
      BY <1>8 DEF pendingWithoutChunk
    <2>4. left \o rest = rest
      <3> HIDE DEF rest, left
      <3> QED
        BY <1>3, <2>2, ConcatEmptySeq
    <2> QED
      BY <1>1, <1>4, <1>6, <2>3, <2>4 DEF SameLine, Line
  <1> QED
    BY <1>7, <1>8

\* A chunk that was not written is lost, and nothing else.
LEMMA ChunkIsLost ==
    ASSUME IInv, pwWriteTimeout
    PROVE  LET chunk == SubSeq(front.events, 1, pwNumToWrite)
           IN  /\ chunk \in Seq(Event)
               /\ \E c \in Seq(Event) : /\ Line = mEventQueue \o (chunk \o c)
                                       /\ Line' = mEventQueue \o c
  <1> DEFINE rest == FlattenSeq(EventsOf(Tail(mPendingWriteEventsQueue)))
             es == front.events
             k == pwNumToWrite
             chunk == SubSeq(es, 1, k)
             left == SubSeq(es, k + 1, Len(es))
  <1>1. /\ pwPc = "writing" /\ pwPc' = "pop"
        /\ mPendingWriteEventsQueue' = mPendingWriteEventsQueue
        /\ mEventQueue' = mEventQueue /\ nextId' = nextId /\ lastRead' = lastRead
    BY Zenon DEF pwWriteTimeout, pwUnchanged, queueVars
  <1>2. es \in Seq(Event) /\ k \in 0 .. Len(es) /\ mEventQueue \in Seq(Event)
    BY <1>1, FrontType DEF IInv, TypeOK
  <1>3. /\ rest \in Seq(Event) /\ Pending = es \o rest
        /\ SubSeq(Pending, k + 1, Len(Pending)) = left \o rest
    BY <1>1, LineAtFront
  <1>4. Pending' = Pending /\ pwNumToWrite' = pwNumToWrite
    BY <1>1, Zenon DEF Pending, pwNumToWrite, front
  <1>5. NotWritten = es \o rest /\ NotWritten' = left \o rest
    BY <1>1, <1>3, <1>4 DEF NotWritten
  <1>6. chunk \in Seq(Event) /\ left \in Seq(Event) /\ es = chunk \o left
    BY <1>2, Split
  <1> HIDE DEF es, chunk, left, rest, k
  <1>7. left \o rest \in Seq(Event) /\ (chunk \o left) \o rest = chunk \o (left \o rest)
    BY <1>3, <1>6
  <1>8. Line = mEventQueue \o (chunk \o (left \o rest)) /\ Line' = mEventQueue \o (left \o rest)
    BY <1>1, <1>5, <1>6, <1>7 DEF Line
  <1>9. \E c \in Seq(Event) : Line = mEventQueue \o (chunk \o c) /\ Line' = mEventQueue \o c
    BY <1>7, <1>8, Zenon
  <1> QED
    BY <1>6, <1>9, Zenon DEF chunk, es, k

LEMMA WriteTimeoutLoses ==
    ASSUME IInv, pwWriteTimeout PROVE Loses
  <1> DEFINE chunk == SubSeq(front.events, 1, pwNumToWrite)
  <1>1. nextId' = nextId /\ lastRead' = lastRead
    BY Zenon DEF pwWriteTimeout, pwUnchanged
  <1>2. mEventQueue \in Seq(Event)
    BY LineType
  <1>3. /\ chunk \in Seq(Event)
        /\ \E c \in Seq(Event) : Line = mEventQueue \o (chunk \o c) /\ Line' = mEventQueue \o c
    BY ChunkIsLost, Zenon
  <1> HIDE DEF chunk
  <1> QED
    BY <1>1, <1>2, <1>3, Zenon DEF Loses

\* initialize() drops the pending events, and later what is in the FMQ.
LEMMA InitializeLoses ==
    ASSUME IInv, initClearQueue \/ initStart PROVE Loses
  <1>0. /\ mEventQueue \in Seq(Event) /\ Pending \in Seq(Event)
        /\ <<>> \in Seq(Event)
    BY LineType
  <1>1. pwPc = "none"
    BY DEF initClearQueue, initStart, IInv, Structure, ThreadsStopped
  <1>2. Line = mEventQueue \o Pending
    BY <1>1 DEF Line, NotWritten
  <1>3. CASE initClearQueue
    <2>1. /\ mPendingWriteEventsQueue' = <<>> /\ mEventQueue' = mEventQueue /\ pwPc' = pwPc
          /\ nextId' = nextId /\ lastRead' = lastRead
      BY <1>3, Zenon DEF initClearQueue, initUnchanged
    <2>2. Pending' = <<>>
      <3>1. FlattenSeq(EventsOf(<<>>)) = <<>>
        <4>1. <<>> \in Seq(Entry) /\ Len(<<>>) = 0
          OBVIOUS
        <4>2. EventsOf(<<>>) \in Seq(Seq(Event)) /\ Len(EventsOf(<<>>)) = 0
          BY <4>1, EventsOfType
        <4> QED
          BY <4>2, FlattenType
      <3> QED
        BY <2>1, <3>1 DEF Pending, EventsOf
    <2>3. Line' = mEventQueue \o <<>>
      BY <1>1, <2>1, <2>2 DEF Line, NotWritten
    <2>4. Line = mEventQueue \o (Pending \o <<>>)
      BY <1>0, <1>2
    <2> QED
      BY <1>0, <2>1, <2>3, <2>4, Zenon DEF Loses
  <1>4. CASE initStart
    <2>1. /\ mPendingWriteEventsQueue' = mPendingWriteEventsQueue /\ mEventQueue' = <<>>
          /\ pwPc' = "loop" /\ nextId' = nextId /\ lastRead' = lastRead
      BY <1>4, Zenon DEF initStart, initUnchanged
    <2>2. Pending' = Pending
      BY <2>1, Zenon DEF Pending
    <2>3. Line' = <<>> \o Pending
      BY <2>1, <2>2 DEF Line, NotWritten
    <2>4. Line = <<>> \o (mEventQueue \o Pending)
      BY <1>0, <1>2
    <2> QED
      BY <1>0, <2>1, <2>3, <2>4, Zenon DEF Loses
  <1> QED
    BY <1>3, <1>4

\* The framework takes the oldest event, initialize() all that is in the FMQ.
LEMMA ReadTakes ==
    ASSUME IInv, frameworkRead PROVE Takes
  <1>1. /\ mEventQueue # <<>> /\ mEventQueue' = Tail(mEventQueue)
        /\ lastRead' = Head(mEventQueue).id
        /\ mPendingWriteEventsQueue' = mPendingWriteEventsQueue /\ pwPc' = pwPc
        /\ nextId' = nextId
    BY Zenon DEF frameworkRead, fwUnchanged, queueVars
  <1>2. mEventQueue \in Seq(Event) /\ NotWritten \in Seq(Event)
    BY LineType
  <1>3. NotWritten' = NotWritten
    BY <1>1, Zenon DEF NotWritten, Pending, pwNumToWrite, front
  <1> DEFINE a == <<Head(mEventQueue)>>
             t == Tail(mEventQueue)
  <1>4. /\ a \in Seq(Event) /\ a # <<>> /\ a[Len(a)] = Head(mEventQueue)
        /\ t \in Seq(Event) /\ mEventQueue = a \o t
    BY <1>1, <1>2
  <1> HIDE DEF a, t
  <1>5. t \o NotWritten \in Seq(Event) /\ (a \o t) \o NotWritten = a \o (t \o NotWritten)
    BY <1>2, <1>4
  <1>6. Line = a \o (t \o NotWritten) /\ Line' = t \o NotWritten
    BY <1>1, <1>3, <1>4, <1>5 DEF Line, t
  <1>7. lastRead' = a[Len(a)].id
    BY <1>1, <1>4
  <1> QED
    BY <1>1, <1>4, <1>5, <1>6, <1>7, Zenon DEF Takes

LEMMA DrainTakes ==
    ASSUME IInv, stopDrain PROVE Takes \/ SameLine
  <1>1. /\ mEventQueue' = <<>>
        /\ lastRead' = IF mEventQueue = <<>> THEN lastRead ELSE Last(mEventQueue).id
        /\ mPendingWriteEventsQueue' = mPendingWriteEventsQueue /\ pwPc' = pwPc
        /\ nextId' = nextId
    BY Zenon DEF stopDrain, initUnchanged
  <1>2. mEventQueue \in Seq(Event) /\ NotWritten \in Seq(Event)
    BY LineType
  <1>3. NotWritten' = NotWritten
    BY <1>1, Zenon DEF NotWritten, Pending, pwNumToWrite, front
  <1>4. CASE mEventQueue = <<>>
    BY <1>1, <1>3, <1>4 DEF SameLine, Line
  <1>5. CASE mEventQueue # <<>>
    <2>1. lastRead' = mEventQueue[Len(mEventQueue)].id
      BY <1>1, <1>5, Zenon DEF Last
    <2>2. Line = mEventQueue \o NotWritten /\ Line' = NotWritten
      BY <1>1, <1>2, <1>3, ConcatEmptySeq DEF Line
    <2> QED
      BY <1>1, <1>2, <1>5, <2>1, <2>2, Zenon DEF Takes
  <1> QED
    BY <1>4, <1>5

\* Events that are added to the pending queue are written after all the others.
LEMMA QueuedLast ==
    ASSUME IInv, NEW e \in Entry,
           mPendingWriteEventsQueue' = Append(mPendingWriteEventsQueue, e),
           pwPc' = Notified(pwPc)
    PROVE  NotWritten' = NotWritten \o e.events
  <1> DEFINE q == mPendingWriteEventsQueue
  <1>1. q \in Seq(Entry) /\ Pending \in Seq(Event) /\ e.events \in Seq(Event)
    BY LineType DEF Entry
  <1>2. Pending' = Pending \o e.events
    <2>1. Pending' = FlattenSeq(EventsOf(Append(q, e)))
      BY DEF Pending, EventsOf
    <2> QED
      BY <1>1, <2>1, PendingType, FlattenEntryAppended
  <1>3. CASE pwPc = "pop"
    <2>1. pwPc' = "pop" /\ q # <<>>
      BY <1>3, FrontType DEF Notified
    <2>2. Head(q') = Head(q)
      BY <1>1, <2>1, HeadTailAppend
    <2>3. pwNumToWrite' = pwNumToWrite
      BY <2>2, Zenon DEF pwNumToWrite, front
    <2>4. pwNumToWrite \in 0 .. Len(Pending)
      <3>1. /\ front.events \in Seq(Event) /\ pwNumToWrite \in 0 .. Len(front.events)
        BY <1>3, FrontType
      <3>2. PICK rest \in Seq(Event) : Pending = front.events \o rest
        BY <1>3, LineAtFront
      <3>3. Len(Pending) = Len(front.events) + Len(rest)
        BY <3>1, <3>2
      <3> QED
        BY <3>1, <3>2, <3>3
    <2> DEFINE k == pwNumToWrite
    <2>5. SubSeq(Pending \o e.events, k + 1, Len(Pending \o e.events))
              = SubSeq(Pending, k + 1, Len(Pending)) \o e.events
      BY <1>1, <2>4, DropConcat
    <2> QED
      BY <1>2, <1>3, <2>1, <2>3, <2>5, Zenon DEF NotWritten
  <1>4. CASE pwPc # "pop"
    <2>1. pwPc' # "pop"
      BY <1>4 DEF Notified
    <2> QED
      BY <1>2, <1>4, <2>1 DEF NotWritten
  <1> QED
    BY <1>3, <1>4

\* A post puts a prefix of its events at the end of the line.
LEMMA QueueingJoins ==
    ASSUME IInv, NEW events \in Seq(Event), NEW n \in Nat,
           NEW numToWrite \in {0, numFitting(Len(events))},
           QueueEvents(events, numToWrite, n)
    PROVE  \E k \in 0 .. Len(events) : Line' = Line \o SubSeq(events, 1, k)
  <1> DEFINE numLeft == Len(events) - numToWrite
             newSize == (mSizePendingWriteEventsQueue + numLeft) % SizeModulus
             chunk == SubSeq(events, 1, numToWrite)
             left == SubSeq(events, numToWrite + 1, Len(events))
             entry == [events |-> left, wakeups |-> n]
             room == numLeft > 0 /\ newSize <= kMaxSizePendingWriteEventsQueue
  <1>0. /\ mEventQueue \in Seq(Event) /\ Len(mEventQueue) <= EventQueueSize
        /\ EventQueueSize \in Nat /\ NotWritten \in Seq(Event)
        /\ mPendingWriteEventsQueue \in Seq(Entry)
    BY LineType, BoundsAssumption DEF IInv, TypeOK, BoundsAssumption
  <1>1. numToWrite \in 0 .. Len(events)
    BY <1>0 DEF numFitting, Lesser, AvailableToWrite
  <1>2. chunk \in Seq(Event) /\ left \in Seq(Event) /\ events = chunk \o left
    BY <1>1, Split
  <1>3. numToWrite = 0 \/ NotWritten = <<>>
    <2>1. CASE mPendingWriteEventsQueue = <<>>
      <3>1. pwPc # "pop"
        BY <2>1, FrontType
      <3>2. Pending = <<>>
        BY <1>0, <2>1, PendingType
      <3> QED
        BY <3>1, <3>2 DEF NotWritten
    <2>2. CASE mPendingWriteEventsQueue # <<>>
      BY <2>2 DEF numFitting
    <2> QED
      BY <2>1, <2>2
  <1>4. numToWrite = 0 => chunk = <<>> /\ left = events
    BY <1>1
  <1>5. mEventQueue' = mEventQueue \o chunk
    BY Zenon DEF QueueEvents
  <1>6. entry \in Entry /\ entry.events = left
    BY <1>2 DEF Entry
  <1>7. CASE room
    <2>1. mPendingWriteEventsQueue' = Append(mPendingWriteEventsQueue, entry)
          /\ pwPc' = Notified(pwPc)
      BY <1>7, Zenon DEF QueueEvents
    <2> HIDE DEF entry
    <2>2. NotWritten' = NotWritten \o left
      BY <1>6, <2>1, QueuedLast
    <2>3. Line' = (mEventQueue \o chunk) \o (NotWritten \o left)
      BY <1>5, <2>2 DEF Line
    <2> HIDE DEF chunk, left
    <2>4. Line' = Line \o events
      <3>1. CASE numToWrite = 0
        <4>1. mEventQueue \o chunk = mEventQueue /\ left = events
          BY <1>0, <1>4, <3>1
        <4>2. mEventQueue \o (NotWritten \o events) = (mEventQueue \o NotWritten) \o events
          <5>1. mEventQueue \in Seq(Event) /\ NotWritten \in Seq(Event) /\ events \in Seq(Event)
            BY <1>0
          <5> QED
            BY <5>1, Regroup, Zenon
        <4> QED
          BY <2>3, <4>1, <4>2 DEF Line
      <3>2. CASE NotWritten = <<>>
        <4>1. NotWritten \o left = left /\ mEventQueue \o NotWritten = mEventQueue
          BY <1>0, <1>2, <3>2, ConcatEmptySeq
        <4>2. (mEventQueue \o chunk) \o left = mEventQueue \o (chunk \o left)
          <5>1. mEventQueue \in Seq(Event) /\ chunk \in Seq(Event) /\ left \in Seq(Event)
            BY <1>0, <1>2
          <5> QED
            BY <5>1, Regroup, Zenon
        <4> QED
          BY <1>2, <2>3, <4>1, <4>2 DEF Line
      <3> QED
        BY <1>3, <3>1, <3>2
    <2>5. SubSeq(events, 1, Len(events)) = events /\ Len(events) \in 0 .. Len(events)
      BY SubSeqFull
    <2> QED
      BY <2>4, <2>5
  <1>8. CASE ~room
    <2>1. UNCHANGED <<queueVars, pwPc>>
      BY <1>8, Zenon DEF QueueEvents
    <2>2. NotWritten' = NotWritten
      BY <2>1, Zenon DEF queueVars, NotWritten, Pending, pwNumToWrite, front
    <2>3. Line' = (mEventQueue \o chunk) \o NotWritten
      BY <1>5, <2>2 DEF Line
    <2>4. Line' = Line \o chunk
      <3> HIDE DEF chunk
      <3>1. CASE numToWrite = 0
        <4>1. mEventQueue \o chunk = mEventQueue /\ chunk = <<>>
          BY <1>0, <1>4, <3>1
        <4>2. Line \in Seq(Event)
          BY LineType
        <4>3. Line \o <<>> = Line
          BY <4>2, ConcatEmptySeq
        <4> QED
          BY <2>3, <4>1, <4>3 DEF Line
      <3>2. CASE NotWritten = <<>>
        <4>1. mEventQueue \o NotWritten = mEventQueue /\ mEventQueue \o chunk \in Seq(Event)
          BY <1>0, <1>2, <3>2
        <4>2. (mEventQueue \o chunk) \o NotWritten = mEventQueue \o chunk
          BY <3>2, <4>1, ConcatEmptySeq
        <4> QED
          BY <2>3, <4>1, <4>2 DEF Line
      <3> QED
        BY <1>3, <3>1, <3>2
    <2> QED
      BY <1>1, <2>4
  <1> QED
    BY <1>7, <1>8

LEMMA PostJoins ==
    ASSUME IInv, NEW p \in Posters, postEventsToMessageQueue(p) PROVE Posts
  <1> DEFINE kept == processEvents(batch[p])
             events == Numbered(kept)
             n == countNumWakeupEvents(events, Len(events))
  <1>1. batch[p] \in Batches /\ nextId \in Nat
    BY DEF IInv, TypeOK, Structure, PostersHaveBatches, postEventsToMessageQueue
  <1>2. kept \in Seq(Kinds)
    BY <1>1, BatchesAssumption, Zenon DEF BatchesAssumption
  <1>3. events \in Seq(Event) /\ Len(events) = Len(kept)
    BY <1>1, <1>2, NumberedType
  <1>4. n \in Nat
    BY <1>2, <1>3, CountIsNat
  <1>5. PICK numToWrite \in {0, numFitting(Len(events))} : QueueEvents(events, numToWrite, n)
    BY Zenon DEF postEventsToMessageQueue
  <1>6. nextId' = nextId + Len(events) /\ lastRead' = lastRead
    BY Zenon DEF postEventsToMessageQueue
  <1>7. \A i \in 1 .. Len(events) : events[i].id = nextId + i - 1
    BY <1>2, <1>3 DEF Numbered
  <1> HIDE DEF events, n
  <1>8. \E k \in 0 .. Len(events) : Line' = Line \o SubSeq(events, 1, k)
    BY <1>3, <1>4, <1>5, QueueingJoins
  <1> QED
    BY <1>3, <1>6, <1>7, <1>8, Zenon DEF Posts

\* The steps that can be seen on the line.
LEMMA LineSteps ==
    ASSUME [Next]_vars
    PROVE  \/ /\ UNCHANGED <<mPendingWriteEventsQueue, mEventQueue, nextId, lastRead>>
              /\ pwPc' = pwPc \/ (pwPc # "pop" /\ pwPc' # "pop")
           \/ \E p \in Posters : postEventsToMessageQueue(p)
           \/ pwWriteBlocking \/ pwWriteTimeout \/ pwPop
           \/ stopDrain \/ initClearQueue \/ initStart \/ frameworkRead
  <1> USE DEF queueVars, lockVars, initVars, postVars
  <1>1. CASE \E p \in Posters : poster(p)
    BY <1>1, ZenonT(60) DEF poster, createScopedWakelock, postEvents, destroyScopedWakelock
  <1>2. CASE handlePendingWrites \/ pwSpuriousWakeup
    BY <1>2, ZenonT(60)
    DEF handlePendingWrites, pwLoop, pwWait, pwSpuriousWakeup, pwUnchanged
  <1>3. CASE handleWakelocks \/ wlSpuriousWakeup
    BY <1>3, ZenonT(60)
    DEF handleWakelocks, wlLoop, wlTimeoutReset, wlExit, wlWait, wlSpuriousWakeup,
        wlReadBlocking, wlReadTimeout, wlAcknowledge, wlUnchanged
  <1>4. CASE initializeCommon
    <2>1. stopNotify => pwPc' = pwPc \/ (pwPc # "pop" /\ pwPc' # "pop")
      BY DEF stopNotify, Notified
    <2>2. stopJoinPendingWrites => pwPc # "pop" /\ pwPc' # "pop"
      BY DEF stopJoinPendingWrites
    <2> QED
      BY <1>4, <2>1, <2>2, ZenonT(60)
      DEF initializeCommon, stopThreads, stopNotify, stopJoinPendingWrites,
          stopJoinWakelock, initReset, disableAllSensors, initZeroSize, initSubHals,
          initUnchanged
  <1>5. CASE \E p \in Posters, enabled \in BOOLEAN : activate(p, enabled)
    BY <1>5, ZenonT(60) DEF activate, initUnchanged
  <1>6. CASE frameworkRead \/ frameworkAck \/ tick
    BY <1>6, ZenonT(60) DEF frameworkAck, tick, fwUnchanged
  <1>7. CASE UNCHANGED vars
    BY <1>7, Zenon DEF vars
  <1> QED
    BY <1>1, <1>2, <1>3, <1>4, <1>5, <1>6, <1>7 DEF Next

\* Every step of the proxy shows on the line as one of four kinds.
LEMMA LineStep ==
    ASSUME IInv, [Next]_vars PROVE SameLine \/ Posts \/ Takes \/ Loses
  <1>1. CASE /\ UNCHANGED <<mPendingWriteEventsQueue, mEventQueue, nextId, lastRead>>
             /\ pwPc' = pwPc \/ (pwPc # "pop" /\ pwPc' # "pop")
    BY <1>1, Zenon DEF SameLine, Line, NotWritten, Pending, pwNumToWrite, front
  <1> QED
    BY <1>1, LineSteps, PostJoins, WriteIsInvisible, WriteTimeoutLoses, PopIsInvisible,
       DrainTakes, InitializeLoses, ReadTakes

-----------------------------------------------------------------------------
(* The numbers of the events: the line of EventChannel. *)

\* The numbers of a concatenation and of a part of a sequence.
LEMMA IdsType ==
    ASSUME NEW s \in Seq(Event)
    PROVE  /\ Ids(s) \in Seq(Nat) /\ Len(Ids(s)) = Len(s)
           /\ \A i \in 1 .. Len(s) : Ids(s)[i] = s[i].id
  <1>1. ASSUME NEW i \in 1 .. Len(s) PROVE s[i].id \in Nat
    <2>1. s[i] \in Event
      OBVIOUS
    <2> QED
      BY <2>1 DEF Event
  <1> QED
    BY <1>1 DEF Ids

LEMMA IdsConcat ==
    ASSUME NEW s \in Seq(Event), NEW t \in Seq(Event)
    PROVE  Ids(s \o t) = Ids(s) \o Ids(t)
  <1> DEFINE st == s \o t
             u == Ids(s) \o Ids(t)
  <1>1. /\ st \in Seq(Event) /\ Len(st) = Len(s) + Len(t)
        /\ \A i \in 1 .. Len(s) + Len(t) :
               st[i] = IF i <= Len(s) THEN s[i] ELSE t[i - Len(s)]
    BY ConcatProperties
  <1>2. /\ Ids(s) \in Seq(Nat) /\ Len(Ids(s)) = Len(s)
        /\ \A i \in 1 .. Len(s) : Ids(s)[i] = s[i].id
    BY IdsType
  <1>3. /\ Ids(t) \in Seq(Nat) /\ Len(Ids(t)) = Len(t)
        /\ \A i \in 1 .. Len(t) : Ids(t)[i] = t[i].id
    BY IdsType
  <1>4. /\ u \in Seq(Nat) /\ Len(u) = Len(s) + Len(t)
        /\ \A i \in 1 .. Len(s) + Len(t) :
               u[i] = IF i <= Len(s) THEN Ids(s)[i] ELSE Ids(t)[i - Len(s)]
    <2> DEFINE a == Ids(s)
               b == Ids(t)
    <2>1. a \in Seq(Nat) /\ b \in Seq(Nat) /\ Len(a) = Len(s) /\ Len(b) = Len(t)
      BY <1>2, <1>3
    <2> HIDE DEF a, b
    <2>2. /\ a \o b \in Seq(Nat) /\ Len(a \o b) = Len(a) + Len(b)
          /\ \A i \in 1 .. Len(a) + Len(b) :
                 (a \o b)[i] = IF i <= Len(a) THEN a[i] ELSE b[i - Len(a)]
      BY <2>1, ConcatProperties
    <2> QED
      BY <2>1, <2>2 DEF a, b
  <1> HIDE DEF st, u
  <1>5. /\ Ids(st) \in Seq(Nat) /\ Len(Ids(st)) = Len(s) + Len(t)
        /\ \A i \in 1 .. Len(s) + Len(t) : Ids(st)[i] = st[i].id
    BY <1>1, IdsType
  <1>6. ASSUME NEW i \in 1 .. Len(s) + Len(t) PROVE Ids(st)[i] = u[i]
    <2>1. CASE i <= Len(s)
      <3>1. i \in 1 .. Len(s)
        BY <2>1
      <3> QED
        BY <1>1, <1>2, <1>4, <1>5, <2>1, <3>1
    <2>2. CASE ~(i <= Len(s))
      <3>1. i - Len(s) \in 1 .. Len(t)
        BY <2>2
      <3> QED
        BY <1>1, <1>3, <1>4, <1>5, <2>2, <3>1
    <2> QED
      BY <2>1, <2>2
  <1>7. Ids(st) = u
    BY <1>4, <1>5, <1>6, SeqEqual
  <1> QED
    BY <1>7 DEF st, u

\* onTheWay holds the numbers of the line.
LEMMA OnTheWayIs == onTheWay = Ids(Line) /\ onTheWay' = Ids(Line')
  BY Zenon DEF onTheWay, Ids, Line

\* The four kinds of steps are steps of the channel.
LEMMA PostsIsPost ==
    ASSUME IInv, Posts PROVE [Channel!Next]_(Channel!vars)
  <1>1. PICK es \in Seq(Event) :
            /\ \A i \in 1 .. Len(es) : es[i].id = nextId + i - 1
            /\ nextId' = nextId + Len(es)
            /\ \E k \in 0 .. Len(es) : Line' = Line \o SubSeq(es, 1, k)
    BY DEF Posts
  <1>2. PICK k \in 0 .. Len(es) : Line' = Line \o SubSeq(es, 1, k)
    BY <1>1
  <1>3. lastRead' = lastRead /\ nextId \in Nat /\ Line \in Seq(Event)
    BY LineType DEF Posts, IInv, TypeOK
  <1> DEFINE new == SubSeq(es, 1, k)
             ids == [i \in 1 .. k |-> nextId + i - 1]
  <1>4. new \in Seq(Event) /\ Len(new) = k /\ \A i \in 1 .. k : new[i] = es[i]
    OBVIOUS
  <1> HIDE DEF new
  <1>5. Ids(new) = ids
    <2>1. DOMAIN new = 1 .. k
      BY <1>4
    <2>2. ASSUME NEW i \in 1 .. k PROVE new[i].id = nextId + i - 1
      BY <1>1, <1>4
    <2> QED
      BY <2>1, <2>2 DEF Ids
  <1>6. onTheWay' = onTheWay \o ids
    BY <1>2, <1>3, <1>4, <1>5, OnTheWayIs, IdsConcat DEF new
  <1>7. CASE Len(es) = 0
    <2>1. k = 0 /\ nextId' = nextId
      BY <1>1, <1>3, <1>7
    <2>2. onTheWay \o <<>> = onTheWay
      BY <1>3, OnTheWayIs, IdsType, ConcatEmptySeq
    <2>3. ids = <<>>
      BY <2>1
    <2>4. onTheWay' = onTheWay
      BY <1>6, <2>2, <2>3
    <2> QED
      BY <1>3, <2>1, <2>4 DEF Channel!vars
  <1>8. CASE Len(es) # 0
    <2>1. nextId' \in Nat /\ nextId' > nextId /\ k \in 0 .. (nextId' - nextId)
      BY <1>1, <1>3, <1>8
    <2>2. \E taken \in 0 .. (nextId' - nextId) :
              onTheWay' = onTheWay \o [i \in 1 .. taken |-> nextId + i - 1]
      BY <1>6, <2>1, Zenon
    <2> QED
      BY <1>3, <2>1, <2>2, Zenon DEF Channel!Next, Channel!Post
  <1> QED
    BY <1>7, <1>8

LEMMA TakesIsTake ==
    ASSUME IInv, Takes PROVE Channel!Next
  <1>1. PICK a \in Seq(Event), c \in Seq(Event) :
            a # <<>> /\ Line = a \o c /\ Line' = c /\ lastRead' = a[Len(a)].id
    BY DEF Takes
  <1>2. nextId' = nextId
    BY DEF Takes
  <1> DEFINE ia == Ids(a)
             ic == Ids(c)
             n == Len(a)
  <1>3. /\ ia \in Seq(Nat) /\ ic \in Seq(Nat) /\ Len(ia) = n /\ n \in Nat \ {0}
        /\ ia[n] = lastRead'
    BY <1>1, IdsType
  <1>4. onTheWay = ia \o ic /\ onTheWay' = ic
    BY <1>1, OnTheWayIs, IdsConcat
  <1> HIDE DEF ia, ic, n
  <1>5. /\ ia \o ic \in Seq(Nat) /\ Len(ia \o ic) = n + Len(ic)
        /\ (ia \o ic)[n] = ia[n]
    <2>1. ia \in Seq(Nat) /\ ic \in Seq(Nat) /\ Len(ia) = n /\ n \in Nat \ {0}
      BY <1>3
    <2>2. /\ ia \o ic \in Seq(Nat) /\ Len(ia \o ic) = Len(ia) + Len(ic)
          /\ \A i \in 1 .. Len(ia) + Len(ic) :
                 (ia \o ic)[i] = IF i <= Len(ia) THEN ia[i] ELSE ic[i - Len(ia)]
      BY <2>1, ConcatProperties
    <2>3. n \in 1 .. Len(ia) + Len(ic) /\ n <= Len(ia)
      BY <2>1
    <2> QED
      BY <2>1, <2>2, <2>3
  <1>6. SubSeq(ia \o ic, n + 1, Len(ia \o ic)) = SubSeq(ia, n + 1, Len(ia)) \o ic
    <2>1. ia \in Seq(Nat) /\ ic \in Seq(Nat) /\ n \in 0 .. Len(ia)
      BY <1>3
    <2> QED
      BY <2>1, DropConcat
  <1>7. SubSeq(ia, n + 1, Len(ia)) \o ic = ic
    <2>1. SubSeq(ia, n + 1, Len(ia)) = <<>>
      BY <1>3
    <2> QED
      BY <1>3, <2>1, ConcatEmptySeq
  <1>8. /\ n \in 1 .. Len(onTheWay)
        /\ onTheWay' = SubSeq(onTheWay, n + 1, Len(onTheWay))
        /\ lastRead' = onTheWay[n]
    BY <1>3, <1>4, <1>5, <1>6, <1>7
  <1> QED
    BY <1>2, <1>8, Zenon DEF Channel!Next, Channel!Take

LEMMA LosesIsLose ==
    ASSUME IInv, Loses PROVE [Channel!Next]_(Channel!vars)
  <1>1. PICK a \in Seq(Event), b \in Seq(Event), c \in Seq(Event) :
            Line = a \o (b \o c) /\ Line' = a \o c
    BY DEF Loses
  <1>2. nextId' = nextId /\ lastRead' = lastRead
    BY DEF Loses
  <1> DEFINE ia == Ids(a)
             ib == Ids(b)
             ic == Ids(c)
             s == ia \o (ib \o ic)
             i == Len(ia)
             j == Len(ia) + Len(ib)
  <1>3. ia \in Seq(Nat) /\ ib \in Seq(Nat) /\ ic \in Seq(Nat)
    BY IdsType
  <1>4. onTheWay = s /\ onTheWay' = ia \o ic
    <2>1. b \o c \in Seq(Event)
      OBVIOUS
    <2>2. Ids(a \o (b \o c)) = Ids(a) \o Ids(b \o c)
      BY <2>1, IdsConcat
    <2> QED
      BY <1>1, <2>2, OnTheWayIs, IdsConcat
  <1> HIDE DEF ia, ib, ic
  <1>5. SubSeq(s, 1, i) = ia /\ SubSeq(s, j + 1, Len(s)) = ic
        /\ Len(s) = Len(ia) + Len(ib) + Len(ic)
    BY <1>3, DropMiddle
  <1>6. i \in 0 .. Len(s) /\ j \in 0 .. Len(s) /\ Len(ib) \in Nat
        /\ (Len(ib) # 0 => i < j)
    BY <1>3, <1>5
  <1>7. CASE Len(ib) = 0
    <2>1. ib = <<>>
      BY <1>3, <1>7
    <2>2. ib \o ic = ic
      BY <1>3, <2>1, ConcatEmptySeq
    <2>3. onTheWay' = onTheWay
      BY <1>4, <2>2
    <2> QED
      BY <1>2, <2>3 DEF Channel!vars
  <1>8. CASE Len(ib) # 0
    <2> HIDE DEF s, i, j
    <2>1. /\ i \in 0 .. Len(onTheWay) /\ j \in 0 .. Len(onTheWay) /\ i < j
          /\ onTheWay' = SubSeq(onTheWay, 1, i) \o SubSeq(onTheWay, j + 1, Len(onTheWay))
      BY <1>4, <1>5, <1>6, <1>8
    <2> QED
      BY <1>2, <2>1, Zenon DEF Channel!Next, Channel!Lose
  <1> QED
    BY <1>7, <1>8

\* Every step of the proxy is a step of one lossy channel or invisible to it, for
\* any number of sub-HAL threads, any batches and any queue sizes: whichever way
\* an event takes, none is overtaken, delivered twice or made up.
THEOREM Refinement == Spec => ImplementsChannel
  <1>1. Init => Channel!Init
    <2>1. SUFFICES ASSUME Init PROVE onTheWay = <<>> /\ nextId = 1 /\ lastRead = 0
      BY DEF Channel!Init
    <2>2. mPendingWriteEventsQueue = <<>> /\ pwPc = "none" /\ mEventQueue = <<>>
          /\ nextId = 1 /\ lastRead = 0
      BY <2>1, Zenon DEF Init
    <2>3. Pending = <<>>
      BY <2>2, PendingType
    <2>4. Line = <<>>
      BY <2>2, <2>3 DEF Line, NotWritten
    <2>5. Ids(<<>>) = <<>>
      BY DEF Ids
    <2> QED
      BY <2>2, <2>4, <2>5, OnTheWayIs
  <1>2. ASSUME IInv, [Next]_vars PROVE [Channel!Next]_(Channel!vars)
    <2>1. CASE SameLine
      BY <2>1, OnTheWayIs DEF SameLine, Channel!vars
    <2> QED
      BY <1>2, <2>1, LineStep, PostsIsPost, TakesIsTake, LosesIsLose
  <1> QED
    BY <1>1, <1>2, Invariance, PTL DEF Spec, ImplementsChannel, Channel!Spec

-----------------------------------------------------------------------------
(* The channel keeps its events in order. *)

\* What holds of the channel: the numbers on their way increase from above the
\* last one read to below the next one to be given.
ChannelOrder ==
    /\ onTheWay \in Seq(Nat) /\ nextId \in Nat /\ lastRead \in Nat /\ lastRead < nextId
    /\ Increasing(onTheWay, lastRead, nextId)

\* It is an invariant of EventChannel.
LEMMA ChannelKeepsOrder ==
    ASSUME ChannelOrder, [Channel!Next]_(Channel!vars) PROVE ChannelOrder'
  <1>0. /\ onTheWay \in Seq(Nat) /\ nextId \in Nat /\ lastRead \in Nat /\ lastRead < nextId
        /\ Increasing(onTheWay, lastRead, nextId)
    BY DEF ChannelOrder
  <1>1. CASE Channel!Post
    <2>1. nextId' \in Nat /\ nextId' > nextId /\ lastRead' = lastRead
      BY <1>1, Zenon DEF Channel!Post
    <2>2. PICK k \in 0 .. (nextId' - nextId) :
              onTheWay' = onTheWay \o [i \in 1 .. k |-> nextId + i - 1]
      BY <1>1, Zenon DEF Channel!Post
    <2>3. onTheWay' \in Seq(Nat) /\ Increasing(onTheWay', lastRead, nextId')
      BY <1>0, <2>1, <2>2, IncreasingGrows
    <2>4. lastRead' < nextId'
      BY <1>0, <2>1
    <2> QED
      BY <1>0, <2>1, <2>3, <2>4 DEF ChannelOrder, Increasing
  <1>2. CASE Channel!Take
    <2>1. PICK n \in 1 .. Len(onTheWay) :
              /\ onTheWay' = SubSeq(onTheWay, n + 1, Len(onTheWay))
              /\ lastRead' = onTheWay[n]
      BY <1>2, Zenon DEF Channel!Take
    <2>2. nextId' = nextId
      BY <1>2, Zenon DEF Channel!Take
    <2>3. onTheWay' \in Seq(Nat) /\ Increasing(onTheWay', onTheWay[n], nextId)
      BY <1>0, <2>1, IncreasingAfter
    <2>4. onTheWay[n] \in Nat /\ onTheWay[n] < nextId
      BY <1>0, <2>1 DEF Increasing
    <2> QED
      BY <1>0, <2>1, <2>2, <2>3, <2>4 DEF ChannelOrder, Increasing
  <1>3. CASE Channel!Lose
    <2>1. PICK i \in 0 .. Len(onTheWay), j \in 0 .. Len(onTheWay) :
              i < j /\ onTheWay' = SubSeq(onTheWay, 1, i)
                                   \o SubSeq(onTheWay, j + 1, Len(onTheWay))
      BY <1>3, Zenon DEF Channel!Lose
    <2>2. nextId' = nextId /\ lastRead' = lastRead
      BY <1>3, Zenon DEF Channel!Lose
    <2>3. onTheWay' \in Seq(Nat) /\ Increasing(onTheWay', lastRead, nextId)
      BY <1>0, <2>1, IncreasingLosing
    <2> QED
      BY <1>0, <2>2, <2>3 DEF ChannelOrder, Increasing
  <1>4. CASE UNCHANGED Channel!vars
    BY <1>0, <1>4 DEF Channel!vars, ChannelOrder, Increasing
  <1> QED
    BY <1>1, <1>2, <1>3, <1>4 DEF Channel!Next

\* The framework reads events in the order they were posted and none twice,
\* whichever of the two paths each one took: it follows from the refinement.
THEOREM ReadInOrder == Spec => []EventsInOrder
  <1>1. Channel!Init => ChannelOrder
    BY DEF Channel!Init, ChannelOrder, Increasing
  <1>2. Channel!Spec => []ChannelOrder
    BY <1>1, ChannelKeepsOrder, PTL DEF Channel!Spec
  <1>3. IInv /\ ChannelOrder => EventsInOrder
    <2> SUFFICES ASSUME IInv, ChannelOrder PROVE EventsInOrder
      OBVIOUS
    <2>1. /\ Line \in Seq(Event) /\ Len(onTheWay) = Len(Line)
          /\ \A i \in 1 .. Len(Line) : onTheWay[i] = Line[i].id
      BY LineType, OnTheWayIs, IdsType
    <2>2. /\ \A i \in 1 .. Len(Line) : lastRead < onTheWay[i] /\ onTheWay[i] < nextId
          /\ \A i, j \in 1 .. Len(Line) : i < j => onTheWay[i] < onTheWay[j]
      BY <2>1 DEF ChannelOrder, Increasing
    <2>3. DOMAIN Line = 1 .. Len(Line)
      BY <2>1
    <2>4. /\ \A i \in DOMAIN Line : Line[i].id > lastRead /\ Line[i].id < nextId
          /\ \A i, j \in DOMAIN Line : i < j => Line[i].id < Line[j].id
      <3>1. \A i \in 1 .. Len(Line) : Line[i].id \in Nat /\ lastRead \in Nat
        BY <2>1 DEF Event, ChannelOrder
      <3> QED
        BY <2>1, <2>2, <2>3, <3>1
    <2> QED
      BY <2>4 DEF EventsInOrder, Line
  <1> QED
    BY <1>2, <1>3, Invariance, Refinement, PTL DEF ImplementsChannel

-----------------------------------------------------------------------------
(* The size of the pending queue. *)

\* No sum of the size and a batch reaches the range of size_t.
NoWrap ==
    \A b \in Batches : kMaxSizePendingWriteEventsQueue + Len(processEvents(b)) < SizeModulus

\* The steps that matter for the size.
LEMMA SizeSteps ==
    ASSUME [Next]_vars
    PROVE  \/ UNCHANGED queueVars
              /\ (initPc' = initPc \/ (initPc # "zeroSize" /\ initPc' # "zeroSize"))
           \/ \E p \in Posters : postEventsToMessageQueue(p)
           \/ pwPop \/ initClearQueue \/ initZeroSize
  <1> USE DEF queueVars, lockVars, initVars, postVars
  <1>1. CASE \E p \in Posters : poster(p)
    BY <1>1, ZenonT(60) DEF poster, createScopedWakelock, postEvents, destroyScopedWakelock
  <1>2. CASE handlePendingWrites \/ pwSpuriousWakeup
    BY <1>2, ZenonT(60)
    DEF handlePendingWrites, pwLoop, pwWait, pwSpuriousWakeup, pwWriteBlocking,
        pwWriteTimeout, pwUnchanged
  <1>3. CASE handleWakelocks \/ wlSpuriousWakeup
    BY <1>3, ZenonT(60)
    DEF handleWakelocks, wlLoop, wlTimeoutReset, wlExit, wlWait, wlSpuriousWakeup,
        wlReadBlocking, wlReadTimeout, wlAcknowledge, wlUnchanged
  <1>4. CASE initializeCommon
    BY <1>4, ZenonT(60)
    DEF initializeCommon, stopThreads, stopDrain, stopNotify, stopJoinPendingWrites,
        stopJoinWakelock, initReset, disableAllSensors, initStart, initSubHals,
        initUnchanged
  <1>5. CASE \E p \in Posters, enabled \in BOOLEAN : activate(p, enabled)
    BY <1>5, ZenonT(60) DEF activate, initUnchanged
  <1>6. CASE frameworkRead \/ frameworkAck \/ tick
    BY <1>6, ZenonT(60) DEF frameworkRead, frameworkAck, tick, fwUnchanged
  <1>7. CASE UNCHANGED vars
    BY <1>7, Zenon DEF vars
  <1> QED
    BY <1>1, <1>2, <1>3, <1>4, <1>5, <1>6, <1>7 DEF Next

\* Removing a chunk takes as much from the size as from the queue.
LEMMA PopKeepsSize ==
    ASSUME IInv, PendingSizeExact, pwPop PROVE PendingSizeExact'
  <1> DEFINE rest == FlattenSeq(EventsOf(Tail(mPendingWriteEventsQueue)))
             es == front.events
             k == pwNumToWrite
             left == SubSeq(es, k + 1, Len(es))
             size == mSizePendingWriteEventsQueue
  <1>1. /\ pwPc = "pop" /\ pwPc' = "loop" /\ initPc' = initPc
        /\ mEventQueue' = mEventQueue
        /\ size' = (size - k) % SizeModulus
    BY Zenon DEF pwPop, pwUnchanged, initVars
  <1>2. es \in Seq(Event) /\ k \in 0 .. Len(es)
    BY <1>1, FrontType
  <1>3. /\ rest \in Seq(Event) /\ Pending = es \o rest
        /\ SubSeq(Pending, k + 1, Len(Pending)) = left \o rest
    BY <1>1, LineAtFront
  <1>4. Pending' = left \o rest
    <2>1. NotWritten = left \o rest /\ NotWritten' = Pending'
      BY <1>1, <1>3 DEF NotWritten
    <2>2. mEventQueue \o NotWritten = mEventQueue \o Pending'
      BY <1>1, <2>1, PopIsInvisible DEF SameLine, Line
    <2>3. NotWritten \in Seq(Event) /\ mEventQueue \in Seq(Event)
      BY LineType
    <2>4. Pending' \in Seq(Event)
      <3>1. mPendingWriteEventsQueue' \in Seq(Entry)
        BY <1>1, WithoutChunkType DEF pwPop
      <3>2. Pending' = FlattenSeq(EventsOf(mPendingWriteEventsQueue'))
        BY Zenon DEF Pending, EventsOf
      <3> QED
        BY <3>1, <3>2, EventsOfType, FlattenType
    <2> QED
      BY <2>1, <2>2, <2>3, <2>4, ConcatSimplifications, Zenon
  <1>5. initPc # "zeroSize"
    BY <1>1 DEF IInv, Structure, FrontStable
  <1>6. size = Len(Pending) /\ Len(Pending) <= kMaxSizePendingWriteEventsQueue
    BY <1>5 DEF PendingSizeExact
  <1>7. left \in Seq(Event) /\ Len(left) = Len(es) - k
    BY <1>2, Split
  <1> HIDE DEF rest, left
  <1>8. Len(Pending) = Len(es) + Len(rest) /\ Len(Pending') = (Len(es) - k) + Len(rest)
    <2> HIDE DEF es, k
    <2> QED
      BY <1>2, <1>3, <1>4, <1>7
  <1>9. (size - k) % SizeModulus = size - k
    <2>1. size - k \in 0 .. (SizeModulus - 1) /\ SizeModulus \in Nat
      BY <1>2, <1>3, <1>6, <1>8, BoundsAssumption DEF BoundsAssumption
    <2> QED
      BY <2>1
  <1>10. size' = Len(Pending') /\ Len(Pending') <= Len(Pending)
    <2>1. size' = size - k
      BY <1>1, <1>9
    <2>2. Len(rest) \in Nat /\ Len(es) \in Nat
      BY <1>2, <1>3
    <2> HIDE DEF size, es, k
    <2> QED
      BY <1>2, <1>6, <1>8, <2>1, <2>2
  <1>11. Len(Pending') <= kMaxSizePendingWriteEventsQueue
    <2>1. Len(Pending) \in Nat /\ Len(Pending') \in Int
      BY <1>2, <1>3, <1>8
    <2> QED
      BY <1>6, <1>10, <2>1, BoundsAssumption DEF BoundsAssumption
  <1> QED
    BY <1>10, <1>11 DEF PendingSizeExact

\* Posting a batch adds as much to the size as to the queue.
LEMMA PostKeepsSize ==
    ASSUME NoWrap, IInv, Quiet, PendingSizeExact, NEW p \in Posters, postEventsToMessageQueue(p)
    PROVE  PendingSizeExact'
  <1> DEFINE kept == processEvents(batch[p])
             events == Numbered(kept)
             n == countNumWakeupEvents(events, Len(events))
  <1>1. batch[p] \in Batches /\ nextId \in Nat
    BY DEF IInv, TypeOK, Structure, PostersHaveBatches, postEventsToMessageQueue
  <1>2. kept \in Seq(Kinds)
    BY <1>1, BatchesAssumption, Zenon DEF BatchesAssumption
  <1>3. events \in Seq(Event) /\ Len(events) = Len(kept)
    BY <1>1, <1>2, NumberedType
  <1>4. n \in Nat
    BY <1>2, <1>3, CountIsNat
  <1>5. PICK numToWrite \in {0, numFitting(Len(events))} : QueueEvents(events, numToWrite, n)
    BY Zenon DEF postEventsToMessageQueue
  <1>6. initPc' = initPc /\ postPc[p] = "posting"
    BY Zenon DEF postEventsToMessageQueue, initVars
  <1>7. initPc # "zeroSize"
    BY <1>6 DEF Quiet
  <1>8. kMaxSizePendingWriteEventsQueue + Len(events) < SizeModulus
    BY <1>1, <1>3 DEF NoWrap
  <1> HIDE DEF events, n
  <1> DEFINE size == mSizePendingWriteEventsQueue
             numLeft == Len(events) - numToWrite
             newSize == (size + numLeft) % SizeModulus
             left == SubSeq(events, numToWrite + 1, Len(events))
             entry == [events |-> left, wakeups |-> n]
             room == numLeft > 0 /\ newSize <= kMaxSizePendingWriteEventsQueue
  <1>9. /\ size = Len(Pending) /\ Len(Pending) <= kMaxSizePendingWriteEventsQueue
        /\ Pending \in Seq(Event) /\ mPendingWriteEventsQueue \in Seq(Entry)
    BY <1>7, LineType DEF PendingSizeExact
  <1>10. numToWrite \in 0 .. Len(events)
    BY <1>3, <1>5, BoundsAssumption
    DEF numFitting, Lesser, AvailableToWrite, IInv, TypeOK, BoundsAssumption
  <1>11. left \in Seq(Event) /\ Len(left) = numLeft
    BY <1>3, <1>10, Split
  <1>12. newSize = size + numLeft
    <2>1. size + numLeft \in 0 .. (SizeModulus - 1) /\ SizeModulus \in Nat
      BY <1>3, <1>8, <1>9, <1>10, BoundsAssumption DEF BoundsAssumption
    <2> QED
      BY <2>1
  <1>13. CASE room
    <2>1. /\ mPendingWriteEventsQueue' = Append(mPendingWriteEventsQueue, entry)
          /\ size' = newSize
      BY <1>5, <1>13, Zenon DEF QueueEvents
    <2>2. entry \in Entry /\ entry.events = left
      BY <1>4, <1>11 DEF Entry
    <2> HIDE DEF entry
    <2>3. Pending' = FlattenSeq(EventsOf(Append(mPendingWriteEventsQueue, entry)))
      BY <2>1 DEF Pending, EventsOf
    <2>4. Pending' = Pending \o left
      BY <1>9, <2>2, <2>3, PendingType, FlattenEntryAppended
    <2> HIDE DEF left, numLeft
    <2>5. Len(Pending') = size + numLeft
      <3>1. Pending \in Seq(Event) /\ left \in Seq(Event)
        BY <1>9, <1>11
      <3>2. Len(Pending \o left) = Len(Pending) + Len(left)
        BY <3>1, ConcatProperties
      <3> QED
        BY <1>9, <1>11, <2>4, <3>2
    <2> QED
      BY <1>12, <1>13, <2>1, <2>5 DEF PendingSizeExact
  <1>14. CASE ~room
    <2>1. UNCHANGED queueVars
      BY <1>5, <1>14, Zenon DEF QueueEvents
    <2>2. Pending' = Pending /\ size' = size
      BY <2>1, Zenon DEF queueVars, Pending
    <2> QED
      BY <1>9, <2>2 DEF PendingSizeExact
  <1> QED
    BY <1>13, <1>14

\* mSizePendingWriteEventsQueue is the number of pending events and within its
\* limit, across posts, partial writes, drops and re-initialization, for any
\* number of posting threads: if disabling a sensor waits for the posts under
\* way, and no batch is so large that the size wraps around.
THEOREM SizeIsExact ==
    ASSUME DisableQuiesces, NoWrap PROVE Spec => []PendingSizeExact
  <1>0. mPendingWriteEventsQueue = <<>> => Len(Pending) = 0
    BY PendingType
  <1>1. Init => PendingSizeExact
    BY <1>0, BoundsAssumption DEF Init, PendingSizeExact, BoundsAssumption
  <1>2. ASSUME IInv, Quiet, PendingSizeExact, [Next]_vars PROVE PendingSizeExact'
    <2>1. CASE UNCHANGED queueVars
               /\ (initPc' = initPc \/ (initPc # "zeroSize" /\ initPc' # "zeroSize"))
      <3>1. Pending' = Pending /\ mSizePendingWriteEventsQueue' = mSizePendingWriteEventsQueue
        BY <2>1, Zenon DEF queueVars, Pending
      <3> QED
        BY <1>2, <2>1, <3>1 DEF PendingSizeExact
    <2>2. CASE initClearQueue
      BY <2>2 DEF initClearQueue, PendingSizeExact
    <2>3. CASE initZeroSize
      <3>1. /\ initPc = "zeroSize" /\ mSizePendingWriteEventsQueue' = 0
            /\ mPendingWriteEventsQueue' = mPendingWriteEventsQueue
        BY <2>3, Zenon DEF initZeroSize
      <3>2. Len(Pending) = 0 /\ Pending' = Pending
        <4>1. mPendingWriteEventsQueue = <<>>
          BY <1>2, <3>1 DEF Quiet
        <4>2. Pending' = Pending
          BY <3>1, Zenon DEF Pending
        <4> QED
          BY <1>0, <4>1, <4>2
      <3> QED
        BY <3>1, <3>2, BoundsAssumption DEF PendingSizeExact, BoundsAssumption
    <2> QED
      BY <1>2, <2>1, <2>2, <2>3, SizeSteps, PopKeepsSize, PostKeepsSize
  <1> QED
    BY <1>1, <1>2, QuietInvariant, PTL DEF Spec

-----------------------------------------------------------------------------
(* Sums of acknowledgements. *)

\* The function that TotalOf defines.
Sums(s, f) == f = [n \in 0 .. Len(s) |-> IF n = 0 THEN 0 ELSE f[n - 1] + s[n]]

\* Its values.
LEMMA SumsAt ==
    ASSUME NEW s, NEW f, Sums(s, f)
    PROVE  /\ \A n \in 0 .. Len(s) : f[n] = IF n = 0 THEN 0 ELSE f[n - 1] + s[n]
           /\ DOMAIN f = 0 .. Len(s)
  BY Zenon DEF Sums

\* There is at most one such function.
LEMMA SumsOnce ==
    ASSUME NEW s \in Seq(Nat), NEW f, NEW g, Sums(s, f), Sums(s, g)
    PROVE  f = g
  <1> DEFINE Differ == {n \in 0 .. Len(s) : f[n] # g[n]}
  <1>0. /\ \A n \in 0 .. Len(s) : f[n] = IF n = 0 THEN 0 ELSE f[n - 1] + s[n]
        /\ \A n \in 0 .. Len(s) : g[n] = IF n = 0 THEN 0 ELSE g[n - 1] + s[n]
    BY SumsAt
  <1>1. CASE Differ = {}
    <2>1. \A n \in 0 .. Len(s) : f[n] = g[n]
      BY <1>1
    <2> QED
      BY <2>1 DEF Sums
  <1>2. CASE Differ # {}
    <2>1. Differ \subseteq Nat
      OBVIOUS
    <2>2. PICK n \in Differ : \A m \in Differ : n <= m
      <3> HIDE DEF Differ
      <3> QED
        BY <1>2, <2>1, LeastNatural
    <2>3. n \in 0 .. Len(s) /\ f[n] # g[n]
      BY <2>2
    <2>4. n # 0
      BY <1>0, <2>3
    <2>5. n - 1 \in 0 .. Len(s) /\ ~(n <= n - 1)
      BY <2>3, <2>4
    <2>6. f[n - 1] = g[n - 1]
      BY <2>2, <2>5
    <2> QED
      BY <1>0, <2>3, <2>4, <2>6
  <1> QED
    BY <1>1, <1>2

\* There is one for every sequence, with natural values.
LEMMA SumsExist ==
    ASSUME NEW s \in Seq(Nat)
    PROVE  \E f : Sums(s, f) /\ f \in [0 .. Len(s) -> Nat]
  <1> DEFINE Good(k) == \E f \in [0 .. k -> Nat] :
                            \A n \in 0 .. k : f[n] = IF n = 0 THEN 0 ELSE f[n - 1] + s[n]
  <1>0. Len(s) \in Nat /\ \A n \in 1 .. Len(s) : s[n] \in Nat
    OBVIOUS
  <1>1. Good(0)
    <2> DEFINE f == [n \in 0 .. 0 |-> 0]
    <2>1. f \in [0 .. 0 -> Nat] /\ \A n \in 0 .. 0 : f[n] = IF n = 0 THEN 0 ELSE f[n - 1] + s[n]
      OBVIOUS
    <2> HIDE DEF f
    <2> QED
      BY <2>1
  <1>2. ASSUME NEW k \in Nat, k < Len(s), Good(k) PROVE Good(k + 1)
    <2>1. PICK f \in [0 .. k -> Nat] :
              \A n \in 0 .. k : f[n] = IF n = 0 THEN 0 ELSE f[n - 1] + s[n]
      BY <1>2
    <2> DEFINE g == [n \in 0 .. k + 1 |-> IF n <= k THEN f[n] ELSE f[k] + s[k + 1]]
    <2>2. k + 1 \in 1 .. Len(s) /\ s[k + 1] \in Nat /\ f[k] \in Nat
      BY <1>0, <1>2
    <2>3. g \in [0 .. k + 1 -> Nat]
      BY <2>2
    <2>4. ASSUME NEW n \in 0 .. k + 1 PROVE g[n] = IF n = 0 THEN 0 ELSE g[n - 1] + s[n]
      <3>1. CASE n <= k
        <4>1. n \in 0 .. k /\ g[n] = f[n] /\ (n # 0 => g[n - 1] = f[n - 1])
          BY <3>1
        <4> QED
          BY <2>1, <4>1
      <3>2. CASE ~(n <= k)
        <4>1. n = k + 1 /\ n # 0 /\ n - 1 = k
          BY <3>2
        <4>2. g[n] = f[k] + s[k + 1] /\ g[k] = f[k]
          BY <4>1
        <4> QED
          BY <4>1, <4>2
      <3> QED
        BY <3>1, <3>2
    <2> HIDE DEF g
    <2> QED
      BY <2>3, <2>4
  <1>3. Good(Len(s))
    <2> DEFINE Bad == {k \in Nat : k <= Len(s) /\ ~Good(k)}
    <2> HIDE DEF Good
    <2>1. SUFFICES ASSUME Bad # {} PROVE FALSE
      BY <1>0
    <2>2. PICK k \in Bad : \A m \in Bad : k <= m
      BY <2>1, LeastNatural
    <2>3. k # 0 /\ k \in Nat /\ k <= Len(s)
      BY <1>1, <2>2
    <2>4. k - 1 \in Nat /\ k - 1 < Len(s) /\ ~(k <= k - 1) /\ (k - 1) + 1 = k
      BY <1>0, <2>3
    <2>5. Good(k - 1)
      BY <1>0, <2>2, <2>4
    <2>6. Good((k - 1) + 1)
      BY <1>2, <2>4, <2>5
    <2> QED
      BY <2>2, <2>4, <2>6
  <1>4. PICK f \in [0 .. Len(s) -> Nat] :
            \A n \in 0 .. Len(s) : f[n] = IF n = 0 THEN 0 ELSE f[n - 1] + s[n]
    BY <1>3
  <1>5. Sums(s, f)
    BY <1>4 DEF Sums
  <1> QED
    BY <1>4, <1>5

\* What TotalOf returns.
LEMMA TotalIs ==
    ASSUME NEW s \in Seq(Nat), NEW f, Sums(s, f)
    PROVE  TotalOf(s) = f[Len(s)]
  <1>1. f = CHOOSE g : Sums(s, g)
    BY SumsOnce
  <1>2. TotalOf(s) = (CHOOSE g : Sums(s, g))[Len(s)]
    BY Zenon DEF TotalOf, Sums
  <1> QED
    BY <1>1, <1>2

LEMMA TotalType ==
    ASSUME NEW s \in Seq(Nat)
    PROVE  TotalOf(s) \in Nat /\ (s = <<>> => TotalOf(s) = 0)
  <1>1. PICK f : Sums(s, f) /\ f \in [0 .. Len(s) -> Nat]
    BY SumsExist
  <1>2. TotalOf(s) = f[Len(s)]
    BY <1>1, TotalIs
  <1>3. Len(s) \in 0 .. Len(s) /\ (s = <<>> => Len(s) = 0)
    OBVIOUS
  <1>4. \A n \in 0 .. Len(s) : f[n] = IF n = 0 THEN 0 ELSE f[n - 1] + s[n]
    BY <1>1, SumsAt
  <1> QED
    BY <1>1, <1>2, <1>3, <1>4

\* One more number at the end.
LEMMA TotalAppend ==
    ASSUME NEW s \in Seq(Nat), NEW x \in Nat
    PROVE  TotalOf(Append(s, x)) = TotalOf(s) + x
  <1> DEFINE more == Append(s, x)
             n == Len(s)
  <1>1. /\ more \in Seq(Nat) /\ Len(more) = n + 1 /\ more[n + 1] = x /\ n \in Nat
        /\ \A i \in 1 .. n : more[i] = s[i]
    BY AppendProperties
  <1> HIDE DEF more
  <1>2. PICK f : Sums(more, f)
    BY <1>1, SumsExist
  <1>3. \A i \in 0 .. n + 1 : f[i] = IF i = 0 THEN 0 ELSE f[i - 1] + more[i]
    <2>1. \A i \in 0 .. Len(more) : f[i] = IF i = 0 THEN 0 ELSE f[i - 1] + more[i]
      BY <1>2, SumsAt
    <2> QED
      BY <1>1, <2>1, Zenon
  <1> DEFINE g == [i \in 0 .. n |-> f[i]]
  <1>4. ASSUME NEW i \in 0 .. n PROVE g[i] = IF i = 0 THEN 0 ELSE g[i - 1] + s[i]
    <2>1. i \in 0 .. n + 1 /\ (i # 0 => i \in 1 .. n /\ i - 1 \in 0 .. n)
      BY <1>1
    <2> QED
      BY <1>1, <1>3, <2>1
  <1>5. Sums(s, g)
    BY <1>4 DEF Sums
  <1>6. TotalOf(s) = f[n] /\ TotalOf(more) = f[n + 1]
    BY <1>1, <1>2, <1>5, TotalIs
  <1>7. f[n + 1] = f[n] + x
    <2>1. n + 1 \in 0 .. n + 1 /\ n + 1 # 0 /\ (n + 1) - 1 = n
      BY <1>1
    <2> QED
      BY <1>1, <1>3, <2>1
  <1> QED
    BY <1>6, <1>7 DEF more

\* The first number comes first.
LEMMA TotalHead ==
    ASSUME NEW s \in Seq(Nat), s # <<>>
    PROVE  TotalOf(s) = Head(s) + TotalOf(Tail(s))
  <1> DEFINE rest == Tail(s)
             n == Len(s)
  <1>1. /\ rest \in Seq(Nat) /\ Len(rest) = n - 1 /\ n \in Nat \ {0}
        /\ \A i \in 1 .. n - 1 : rest[i] = s[i + 1]
        /\ Head(s) = s[1] /\ s[1] \in Nat
    OBVIOUS
  <1> HIDE DEF rest
  <1>2. PICK f : Sums(s, f) /\ f \in [0 .. n -> Nat]
    BY SumsExist
  <1>3. \A i \in 0 .. n : f[i] = IF i = 0 THEN 0 ELSE f[i - 1] + s[i]
    BY <1>2, SumsAt
  <1> DEFINE g == [i \in 0 .. n - 1 |-> f[i + 1] - s[1]]
  <1>4. ASSUME NEW i \in 0 .. n - 1 PROVE g[i] = IF i = 0 THEN 0 ELSE g[i - 1] + rest[i]
    <2>1. i + 1 \in 0 .. n /\ i + 1 # 0 /\ (i + 1) - 1 = i /\ i \in 0 .. n
      BY <1>1
    <2>2. f[i + 1] = f[i] + s[i + 1] /\ f[i] \in Nat
      BY <1>2, <1>3, <2>1
    <2>3. CASE i = 0
      <3>1. f[0] = 0 /\ f[1] = s[1]
        BY <1>1, <1>3, <2>2, <2>3
      <3> QED
        BY <1>1, <2>3, <3>1
    <2>4. CASE i # 0
      <3>1. i \in 1 .. n - 1 /\ i - 1 \in 0 .. n - 1 /\ (i - 1) + 1 = i
        BY <1>1, <2>4
      <3>2. g[i] = f[i + 1] - s[1] /\ g[i - 1] = f[i] - s[1] /\ rest[i] = s[i + 1]
        BY <1>1, <3>1
      <3>3. s[i + 1] \in Nat
        BY <1>1, <3>1
      <3>4. f[i + 1] - s[1] = (f[i] - s[1]) + s[i + 1]
        BY <1>1, <2>2, <3>3
      <3> HIDE DEF g
      <3> QED
        BY <2>4, <3>2, <3>4
    <2> QED
      BY <2>3, <2>4
  <1>5. Sums(rest, g)
    BY <1>1, <1>4 DEF Sums
  <1>6. TotalOf(s) = f[n] /\ TotalOf(rest) = g[n - 1]
    BY <1>1, <1>2, <1>5, TotalIs
  <1>7. g[n - 1] = f[n] - s[1] /\ f[n] \in Nat
    <2>1. n - 1 \in 0 .. n - 1 /\ (n - 1) + 1 = n /\ n \in 0 .. n
      BY <1>1
    <2> QED
      BY <1>2, <2>1
  <1> QED
    BY <1>1, <1>6, <1>7 DEF rest

-----------------------------------------------------------------------------
(* Numbers of wake events. *)

Wakes(s) == {i \in 1 .. Len(s) : s[i].wake}
W(s) == Cardinality(Wakes(s))

\* W is a natural number, and what countNumWakeupEvents() returns.
LEMMA WakesFinite ==
    ASSUME NEW s \in Seq(Event)
    PROVE  IsFiniteSet(Wakes(s)) /\ W(s) \in Nat
  <1>1. IsFiniteSet(1 .. Len(s))
    BY FS_Interval
  <1>2. IsFiniteSet(Wakes(s))
    BY <1>1, FS_Subset DEF Wakes
  <1> QED
    BY <1>2, FS_CardinalityType DEF W

LEMMA WIsCount ==
    ASSUME NEW s
    PROVE  countNumWakeupEvents(s, Len(s)) = W(s)
  BY Zenon DEF countNumWakeupEvents, W, Wakes

LEMMA WEmpty == W(<<>>) = 0
  <1>1. Wakes(<<>>) = {}
    BY DEF Wakes
  <1> QED
    BY <1>1, FS_EmptySet DEF W

\* The wake events of a concatenation.
LEMMA WConcat ==
    ASSUME NEW s \in Seq(Event), NEW t \in Seq(Event)
    PROVE  W(s \o t) = W(s) + W(t)
  <1> DEFINE st == s \o t
             n == Len(s)
             f == [i \in Wakes(t) |-> n + i]
             T == {n + i : i \in Wakes(t)}
  <1>1. /\ st \in Seq(Event) /\ Len(st) = n + Len(t)
        /\ \A i \in 1 .. n + Len(t) : st[i] = IF i <= n THEN s[i] ELSE t[i - n]
    BY ConcatProperties
  <1> HIDE DEF st
  <1>2. n \in Nat /\ Len(t) \in Nat /\ Wakes(s) \subseteq 1 .. n /\ Wakes(t) \subseteq 1 .. Len(t)
    BY DEF Wakes
  <1>3. f \in Bijection(Wakes(t), T)
    <2>1. f \in [Wakes(t) -> T]
      OBVIOUS
    <2>2. \A i, j \in Wakes(t) : f[i] = f[j] => i = j
      BY <1>2
    <2>3. \A y \in T : \E i \in Wakes(t) : f[i] = y
      OBVIOUS
    <2> QED
      BY <2>1, <2>2, <2>3
      DEF Bijection, Injection, Surjection, IsInjective
  <1>4. IsFiniteSet(T) /\ Cardinality(T) = W(t)
    BY <1>3, WakesFinite, FS_Bijection, Zenon DEF ExistsBijection, W
  <1>5. Wakes(st) = Wakes(s) \cup T
    <2>1. ASSUME NEW i \in Wakes(st) PROVE i \in Wakes(s) \cup T
      <3>1. i \in 1 .. n + Len(t) /\ st[i].wake
        BY <1>1, <2>1 DEF Wakes
      <3>2. CASE i <= n
        <4>1. i \in 1 .. Len(s) /\ s[i] = st[i]
          BY <1>1, <3>1, <3>2
        <4> QED
          BY <3>1, <4>1, Zenon DEF Wakes
      <3>3. CASE ~(i <= n)
        <4>1. i - n \in 1 .. Len(t) /\ t[i - n] = st[i] /\ n + (i - n) = i
          BY <1>1, <1>2, <3>1, <3>3
        <4>2. i - n \in Wakes(t)
          BY <3>1, <4>1, Zenon DEF Wakes
        <4> QED
          BY <4>1, <4>2
      <3> QED
        BY <3>2, <3>3
    <2>2. ASSUME NEW i \in Wakes(s) PROVE i \in Wakes(st)
      <3>1. i \in 1 .. n /\ s[i].wake
        BY <2>2, Zenon DEF Wakes
      <3>2. i \in 1 .. Len(st) /\ st[i] = s[i]
        BY <1>1, <1>2, <3>1
      <3> QED
        BY <3>1, <3>2, Zenon DEF Wakes
    <2>3. ASSUME NEW j \in Wakes(t) PROVE n + j \in Wakes(st)
      <3>1. j \in 1 .. Len(t) /\ t[j].wake
        BY <2>3, Zenon DEF Wakes
      <3>2. n + j \in 1 .. n + Len(t) /\ ~(n + j <= n) /\ (n + j) - n = j
        BY <1>2, <3>1
      <3>3. n + j \in 1 .. Len(st) /\ st[n + j] = t[j]
        BY <1>1, <3>2
      <3> QED
        BY <3>1, <3>3, Zenon DEF Wakes
    <2> QED
      BY <2>1, <2>2, <2>3
  <1>6. Wakes(s) \cap T = {}
    BY <1>2
  <1> HIDE DEF T
  <1>7. Cardinality(Wakes(s) \cup T) = Cardinality(Wakes(s)) + Cardinality(T) - 0
    BY <1>4, <1>6, WakesFinite, FS_Union, FS_EmptySet
  <1>8. W(s) \in Nat /\ W(t) \in Nat
    BY WakesFinite
  <1> QED
    BY <1>4, <1>5, <1>7, <1>8 DEF W, st

\* The wake events among the first k.
LEMMA WPrefix ==
    ASSUME NEW s \in Seq(Event), NEW k \in 0 .. Len(s)
    PROVE  countNumWakeupEvents(s, k) = W(SubSeq(s, 1, k))
  <1> DEFINE a == SubSeq(s, 1, k)
  <1>1. a \in Seq(Event) /\ Len(a) = k /\ \A i \in 1 .. k : a[i] = s[i]
    OBVIOUS
  <1> HIDE DEF a
  <1>2. {i \in 1 .. k : s[i].wake} = Wakes(a)
    BY <1>1, Zenon DEF Wakes
  <1> QED
    BY <1>2, Zenon DEF countNumWakeupEvents, W, a

\* One event.
LEMMA WOne ==
    ASSUME NEW e \in Event
    PROVE  W(<<e>>) = IF e.wake THEN 1 ELSE 0
  <1> DEFINE s == <<e>>
  <1>1. Len(s) = 1 /\ s[1] = e
    OBVIOUS
  <1> HIDE DEF s
  <1>2. CASE e.wake
    <2>1. 1 .. Len(s) = {1}
      BY <1>1
    <2>2. Wakes(s) = {1}
      BY <1>1, <1>2, <2>1, Zenon DEF Wakes
    <2>3. W(s) = 1
      BY <2>2, FS_Singleton DEF W
    <2> QED
      BY <1>2, <2>3, Zenon DEF s
  <1>3. CASE ~e.wake
    <2>1. 1 .. Len(s) = {1}
      BY <1>1
    <2>2. Wakes(s) = {}
      BY <1>1, <1>3, <2>1, Zenon DEF Wakes
    <2>3. W(s) = 0
      BY <2>2, FS_EmptySet DEF W
    <2> QED
      BY <1>3, <2>3, Zenon DEF s
  <1> QED
    BY <1>2, <1>3

-----------------------------------------------------------------------------
(* The wakelock count covers what is due. *)

Live == {p \in Posters : scoped[p] = "live"}

\* A number that the wakelock thread has read is taken from the count next.
AckPending == wlPc = "acked" \/ wlAck = 0

\* While threads run and were not started under a post, a batch that calls for the
\* wakelock comes to postEventsToMessageQueue() with one.
ReasonsHaveLocks ==
    mThreadsRun /\ ~disturbed => \A p \in Posters :
        postPc[p] \in {"created", "posting"} /\ (\E i \in DOMAIN batch[p] : batch[p][i] # "plain")
            => scoped[p] # "none"

\* WakeAccounting in terms of W and Live, whose parts are natural numbers.
LEMMA AccountIs ==
    /\ UnackedWakeups = W(Line) + fwWakeups + wlAck + TotalOf(mWakeLockQueue)
    /\ LiveWakelocks = Cardinality(Live)
    /\ UnackedWakeups' = W(Line') + fwWakeups' + wlAck' + TotalOf(mWakeLockQueue')
    /\ LiveWakelocks' = Cardinality(Live')
  BY WIsCount, Zenon DEF UnackedWakeups, Line, LiveWakelocks, Live

LEMMA AccountType ==
    ASSUME IInv
    PROVE  /\ W(Line) \in Nat /\ TotalOf(mWakeLockQueue) \in Nat
           /\ IsFiniteSet(Live) /\ Cardinality(Live) \in Nat
           /\ fwWakeups \in Nat /\ wlAck \in Nat /\ mWakelockRefCount \in Nat
  <1>1. W(Line) \in Nat
    BY LineType, WakesFinite
  <1>2. mWakeLockQueue \in Seq(Nat) /\ fwWakeups \in Nat /\ wlAck \in Nat
        /\ mWakelockRefCount \in Nat
    BY DEF IInv, TypeOK
  <1>3. TotalOf(mWakeLockQueue) \in Nat
    BY <1>2, TotalType
  <1>4. IsFiniteSet(Live)
    BY PostersAssumption, FS_Subset DEF PostersAssumption, Live
  <1> QED
    BY <1>1, <1>2, <1>3, <1>4, FS_CardinalityType

\* The parts of what is due.
Due == W(Line) + fwWakeups + wlAck + TotalOf(mWakeLockQueue) + Cardinality(Live)

\* The steps that touch the wakelock thread's state.
LEMMA AckSteps ==
    ASSUME IInv, [Next]_vars
    PROVE  \/ wlAck' = wlAck /\ (wlPc' = wlPc \/ wlPc # "acked")
           \/ wlReadBlocking \/ wlAcknowledge
  <1> USE DEF queueVars, lockVars, initVars, postVars
  <1>0. ASSUME NEW delta, incrementRefCountAndMaybeAcquireWakelock(delta)
        PROVE  wlPc' = wlPc \/ wlPc # "acked"
    BY <1>0 DEF incrementRefCountAndMaybeAcquireWakelock, Notified
  <1>1. CASE \E p \in Posters : poster(p)
    <2>1. PICK p \in Posters : poster(p)
      BY <1>1
    <2>2. wlAck' = wlAck
      BY <2>1, ZenonT(60)
      DEF poster, createScopedWakelock, postEvents, postEventsToMessageQueue,
          destroyScopedWakelock
    <2>3. wlPc' = wlPc \/ \E delta : incrementRefCountAndMaybeAcquireWakelock(delta)
      BY <2>1, ZenonT(60)
      DEF poster, createScopedWakelock, postEvents, postEventsToMessageQueue,
          destroyScopedWakelock
    <2> QED
      BY <1>0, <2>2, <2>3
  <1>2. CASE handlePendingWrites \/ pwSpuriousWakeup
    BY <1>2, ZenonT(60)
    DEF handlePendingWrites, pwLoop, pwWait, pwSpuriousWakeup, pwWriteBlocking,
        pwWriteTimeout, pwPop, pwUnchanged
  <1>3. CASE handleWakelocks \/ wlSpuriousWakeup
    BY <1>3, ZenonT(60)
    DEF handleWakelocks, wlLoop, wlTimeoutReset, wlExit, wlWait, wlSpuriousWakeup,
        wlReadTimeout, wlUnchanged
  <1>4. CASE initializeCommon
    <2>1. wlAck' = wlAck
      BY <1>4, ZenonT(60)
      DEF initializeCommon, stopThreads, stopDrain, stopNotify, stopJoinPendingWrites,
          stopJoinWakelock, initReset, disableAllSensors, initClearQueue, initZeroSize,
          initStart, initSubHals, initUnchanged
    <2>2. \/ wlPc' = wlPc \/ stopNotify \/ stopJoinWakelock \/ initStart
      BY <1>4, ZenonT(60)
      DEF initializeCommon, stopThreads, stopDrain, stopJoinPendingWrites,
          initReset, disableAllSensors, initClearQueue, initZeroSize,
          initSubHals, initUnchanged
    <2>3. stopNotify \/ stopJoinWakelock \/ initStart => wlPc' = wlPc \/ wlPc # "acked"
      BY DEF stopNotify, Notified, stopJoinWakelock, initStart, IInv, Structure, ThreadsStopped
    <2> QED
      BY <2>1, <2>2, <2>3
  <1>5. CASE \E p \in Posters, enabled \in BOOLEAN : activate(p, enabled)
    BY <1>5, ZenonT(60) DEF activate, initUnchanged
  <1>6. CASE frameworkRead \/ frameworkAck \/ tick
    BY <1>6, ZenonT(60) DEF frameworkRead, frameworkAck, tick, fwUnchanged
  <1>7. CASE UNCHANGED vars
    BY <1>7, Zenon DEF vars
  <1> QED
    BY <1>1, <1>2, <1>3, <1>4, <1>5, <1>6, <1>7 DEF Next

LEMMA AckPendingKept ==
    ASSUME IInv, AckPending, [Next]_vars PROVE AckPending'
  <1>1. CASE wlReadBlocking
    BY <1>1, Zenon DEF wlReadBlocking, AckPending
  <1>2. CASE wlAcknowledge
    BY <1>2, Zenon DEF wlAcknowledge, AckPending
  <1> QED
    BY <1>1, <1>2, AckSteps DEF AckPending

\* The steps that turn mThreadsRun on or off, or disturb the accounting.
LEMMA RunSteps ==
    ASSUME [Next]_vars
    PROVE  \/ (mThreadsRun' => mThreadsRun) /\ (disturbed => disturbed')
           \/ initStart
  <1> USE DEF queueVars, lockVars, initVars, postVars
  <1>1. CASE \E p \in Posters : poster(p)
    BY <1>1, ZenonT(60)
    DEF poster, createScopedWakelock, postEvents, postEventsToMessageQueue,
        destroyScopedWakelock
  <1>2. CASE handlePendingWrites \/ pwSpuriousWakeup
    BY <1>2, ZenonT(60)
    DEF handlePendingWrites, pwLoop, pwWait, pwSpuriousWakeup, pwWriteBlocking,
        pwWriteTimeout, pwPop, pwUnchanged
  <1>3. CASE handleWakelocks \/ wlSpuriousWakeup
    BY <1>3, ZenonT(60)
    DEF handleWakelocks, wlLoop, wlTimeoutReset, wlExit, wlWait, wlSpuriousWakeup,
        wlReadBlocking, wlReadTimeout, wlAcknowledge, wlUnchanged
  <1>4. CASE initializeCommon
    BY <1>4, ZenonT(60)
    DEF initializeCommon, stopThreads, stopDrain, stopNotify, stopJoinPendingWrites,
        stopJoinWakelock, initReset, disableAllSensors, initClearQueue, initZeroSize,
        initSubHals, initUnchanged
  <1>5. CASE \E p \in Posters, enabled \in BOOLEAN : activate(p, enabled)
    <2>1. PICK p \in Posters, enabled \in BOOLEAN : activate(p, enabled)
      BY <1>5
    <2> QED
      BY <2>1, Zenon DEF activate, initUnchanged
  <1>6. CASE frameworkRead \/ frameworkAck \/ tick
    BY <1>6, ZenonT(60) DEF frameworkRead, frameworkAck, tick, fwUnchanged
  <1>7. CASE UNCHANGED vars
    BY <1>7, Zenon DEF vars
  <1> QED
    BY <1>1, <1>2, <1>3, <1>4, <1>5, <1>6, <1>7 DEF Next

\* A post that begins while threads run locks the wakelock if it has to.
LEMMA ReasonsHaveLocksKept ==
    ASSUME IInv, Quiet, ReasonsHaveLocks, [Next]_vars PROVE ReasonsHaveLocks'
  <1>0. /\ scoped \in [Posters -> ScopedStates]
        /\ batch \in [Posters -> Batches \cup {<<>>}]
        /\ postPc \in [Posters -> PostStates]
    BY DEF IInv, TypeOK
  <1>1. CASE initStart
    <2>1. \A p \in Posters : postPc[p] # "posting"
      BY <1>1 DEF initStart, Quiet
    <2>2. /\ postPc' = postPc
          /\ ~disturbed' => \A p \in Posters : postPc[p] # "created"
      BY <1>1, Zenon DEF initStart, initUnchanged
    <2> QED
      BY <2>1, <2>2 DEF ReasonsHaveLocks
  <1>2. CASE (mThreadsRun' => mThreadsRun) /\ (disturbed => disturbed')
    <2>1. SUFFICES ASSUME mThreadsRun', mThreadsRun, ~disturbed', ~disturbed
                   PROVE  ReasonsHaveLocks'
      BY <1>2 DEF ReasonsHaveLocks
    <2>2. CASE /\ UNCHANGED <<postPc, batch>>
               /\ scoped' = scoped \/ scoped' = MakeStale(scoped)
      BY <2>1, <2>2 DEF ReasonsHaveLocks, MakeStale
    <2>3. ASSUME NEW p \in Posters, NEW b \in Batches, createScopedWakelock(p, b)
          PROVE  ReasonsHaveLocks'
      <3> DEFINE lock == \E i \in DOMAIN b : b[i] # "plain"
      <3>1. batch' = [batch EXCEPT ![p] = b] /\ postPc' = [postPc EXCEPT ![p] = "created"]
        BY <2>3, Zenon DEF createScopedWakelock
      <3>2. CASE lock
        <4>1. scoped' = [scoped EXCEPT ![p] = "live"]
          BY <2>1, <2>3, <3>2, Zenon DEF createScopedWakelock
        <4> QED
          BY <1>0, <2>1, <3>1, <4>1 DEF ReasonsHaveLocks
      <3>3. CASE ~lock
        <4>1. scoped' = scoped
          BY <2>3, <3>3, Zenon DEF createScopedWakelock
        <4> QED
          BY <1>0, <2>1, <3>1, <3>3, <4>1 DEF ReasonsHaveLocks
      <3> QED
        BY <3>2, <3>3
    <2>4. ASSUME NEW p \in Posters, postEvents(p) \/ postEventsToMessageQueue(p)
          PROVE  ReasonsHaveLocks'
      <3>1. /\ UNCHANGED <<batch, scoped>>
            /\ postPc[p] = "created" \/ postPc[p] = "posting"
            /\ \/ postPc' = [postPc EXCEPT ![p] = IF mThreadsRun THEN "posting" ELSE "destroy"]
               \/ postPc' = [postPc EXCEPT ![p] = "destroy"]
        BY <2>4, Zenon DEF postEvents, postEventsToMessageQueue
      <3> QED
        BY <1>0, <2>1, <3>1 DEF ReasonsHaveLocks
    <2>5. ASSUME NEW p \in Posters, destroyScopedWakelock(p) PROVE ReasonsHaveLocks'
      <3>1. /\ batch' = [batch EXCEPT ![p] = <<>>] /\ scoped' = [scoped EXCEPT ![p] = "none"]
            /\ postPc' = [postPc EXCEPT ![p] = "idle"]
        BY <2>5, Zenon DEF destroyScopedWakelock
      <3> QED
        BY <1>0, <2>1, <3>1 DEF ReasonsHaveLocks
    <2> QED
      BY <2>2, <2>3, <2>4, <2>5, ScopedSteps
  <1> QED
    BY <1>1, <1>2, RunSteps

-----------------------------------------------------------------------------
(* The steps, while threads run and nothing has disturbed the accounting. *)

\* The count when it is decremented by what is not due any more.
LEMMA CountDown ==
    ASSUME mThreadsRun, NEW delta \in Nat, mWakelockRefCount \in Nat,
           decrementRefCountAndMaybeReleaseWakelock(delta, TRUE)
    PROVE  mWakelockRefCount' = IF mWakelockRefCount <= delta THEN 0
                                ELSE mWakelockRefCount - delta
  <1>1. CASE mWakelockRefCount > 0
    <2>1. mWakelockRefCount' = mWakelockRefCount - Lesser(mWakelockRefCount, delta)
      BY <1>1, Zenon DEF decrementRefCountAndMaybeReleaseWakelock
    <2> QED
      BY <1>1, <2>1 DEF Lesser
  <1>2. CASE ~(mWakelockRefCount > 0)
    <2>1. mWakelockRefCount' = mWakelockRefCount
      BY <1>2, Zenon DEF decrementRefCountAndMaybeReleaseWakelock
    <2> QED
      BY <1>2, <2>1
  <1> QED
    BY <1>1, <1>2

\* The count when it is incremented.
LEMMA CountUp ==
    ASSUME mThreadsRun, NEW delta, incrementRefCountAndMaybeAcquireWakelock(delta)
    PROVE  mWakelockRefCount' = mWakelockRefCount + delta
  BY Zenon DEF incrementRefCountAndMaybeAcquireWakelock

\* A wakelock that is locked is counted.
LEMMA CreateAccounts ==
    ASSUME IInv, LocksHaveReasons, mThreadsRun, mWakelockRefCount >= Due,
           NEW p \in Posters, NEW b \in Batches, createScopedWakelock(p, b)
    PROVE  mWakelockRefCount' >= Due'
  <1> DEFINE lock == \E i \in DOMAIN b : b[i] # "plain"
  <1>0. /\ W(Line) \in Nat /\ TotalOf(mWakeLockQueue) \in Nat
        /\ IsFiniteSet(Live) /\ Cardinality(Live) \in Nat
        /\ fwWakeups \in Nat /\ wlAck \in Nat /\ mWakelockRefCount \in Nat
    BY AccountType
  <1>1. /\ UNCHANGED <<mPendingWriteEventsQueue, mEventQueue, pwPc>>
        /\ fwWakeups' = fwWakeups /\ wlAck' = wlAck /\ mWakeLockQueue' = mWakeLockQueue
    BY Zenon DEF createScopedWakelock, queueVars
  <1>2. W(Line') = W(Line) /\ TotalOf(mWakeLockQueue') = TotalOf(mWakeLockQueue)
    BY <1>1, Zenon DEF Line, NotWritten, Pending, pwNumToWrite, front
  <1>3. CASE lock
    <2>1. scoped' = [scoped EXCEPT ![p] = "live"]
      BY <1>3, Zenon DEF createScopedWakelock
    <2>2. scoped \in [Posters -> ScopedStates]
      BY DEF IInv, TypeOK
    <2>3. p \notin Live
      BY Zenon DEF createScopedWakelock, LocksHaveReasons, Live
    <2>4. Live' = Live \cup {p}
      BY <2>1, <2>2 DEF Live
    <2>5. Cardinality(Live') = Cardinality(Live) + 1
      BY <1>0, <2>3, <2>4, FS_AddElement
    <2>6. mWakelockRefCount' = mWakelockRefCount + 1
      BY <1>3, CountUp, Zenon DEF createScopedWakelock
    <2> QED
      BY <1>0, <1>1, <1>2, <2>5, <2>6 DEF Due
  <1>4. CASE ~lock
    <2>1. mWakelockRefCount' = mWakelockRefCount /\ scoped' = scoped
      BY <1>4, Zenon DEF createScopedWakelock, lockVars
    <2>2. Live' = Live
      BY <2>1, Zenon DEF Live
    <2> QED
      BY <1>0, <1>1, <1>2, <2>1, <2>2 DEF Due
  <1> QED
    BY <1>3, <1>4

\* One that is unlocked is not, unless a reset has taken it from the count already.
LEMMA DestroyAccounts ==
    ASSUME IInv, mThreadsRun, mWakelockRefCount >= Due,
           NEW p \in Posters, destroyScopedWakelock(p)
    PROVE  mWakelockRefCount' >= Due'
  <1>0. /\ W(Line) \in Nat /\ TotalOf(mWakeLockQueue) \in Nat
        /\ IsFiniteSet(Live) /\ Cardinality(Live) \in Nat
        /\ fwWakeups \in Nat /\ wlAck \in Nat /\ mWakelockRefCount \in Nat
    BY AccountType
  <1>1. /\ UNCHANGED <<mPendingWriteEventsQueue, mEventQueue, pwPc>>
        /\ fwWakeups' = fwWakeups /\ wlAck' = wlAck /\ mWakeLockQueue' = mWakeLockQueue
        /\ scoped' = [scoped EXCEPT ![p] = "none"]
    BY Zenon DEF destroyScopedWakelock, queueVars
  <1>2. W(Line') = W(Line) /\ TotalOf(mWakeLockQueue') = TotalOf(mWakeLockQueue)
    BY <1>1, Zenon DEF Line, NotWritten, Pending, pwNumToWrite, front
  <1>3. scoped \in [Posters -> ScopedStates]
    BY DEF IInv, TypeOK
  <1>4. Live' = Live \ {p}
    BY <1>1, <1>3 DEF Live
  <1>5. CASE scoped[p] = "live"
    <2>1. p \in Live
      BY <1>5 DEF Live
    <2>2. Cardinality(Live') = Cardinality(Live) - 1
      BY <1>0, <1>4, <2>1, FS_RemoveElement
    <2>3. decrementRefCountAndMaybeReleaseWakelock(1, scoped[p] = "live")
      BY <1>5, Zenon DEF destroyScopedWakelock
    <2>4. decrementRefCountAndMaybeReleaseWakelock(1, TRUE)
      BY <1>5, <2>3, Zenon DEF decrementRefCountAndMaybeReleaseWakelock
    <2>5. mWakelockRefCount' = IF mWakelockRefCount <= 1 THEN 0 ELSE mWakelockRefCount - 1
      <3>1. 1 \in Nat
        OBVIOUS
      <3> QED
        BY <1>0, <2>4, <3>1, CountDown, Zenon
    <2>6. mWakelockRefCount' >= mWakelockRefCount - 1 /\ mWakelockRefCount' \in Int
      BY <1>0, <2>5
    <2> QED
      BY <1>0, <1>1, <1>2, <2>2, <2>6 DEF Due
  <1>6. CASE scoped[p] # "live"
    <2>1. Live' = Live
      BY <1>4, <1>6 DEF Live
    <2>2. mWakelockRefCount' = mWakelockRefCount
      BY <1>6, Zenon DEF destroyScopedWakelock, decrementRefCountAndMaybeReleaseWakelock
    <2> QED
      BY <1>0, <1>1, <1>2, <2>1, <2>2 DEF Due
  <1> QED
    BY <1>5, <1>6

\* The events that processEvents() keeps are events of the batch.
LEMMA KeptFromBatch ==
    ASSUME NEW b \in Batches, ~ \E i \in DOMAIN b : b[i] # "plain"
    PROVE  ~ \E i \in DOMAIN processEvents(b) : processEvents(b)[i] = "wake"
  <1>1. \A i \in DOMAIN processEvents(b) : \E j \in DOMAIN b : processEvents(b)[i] = b[j]
    BY BatchesAssumption, Zenon DEF BatchesAssumption
  <1> QED
    BY <1>1

\* A post counts all its wake events, and puts some of them on the line.
LEMMA PostAccounts ==
    ASSUME IInv, ReasonsHaveLocks, mThreadsRun, ~disturbed, mWakelockRefCount >= Due,
           NEW p \in Posters, postEventsToMessageQueue(p)
    PROVE  mWakelockRefCount' >= Due'
  <1> DEFINE kept == processEvents(batch[p])
             events == Numbered(kept)
             n == countNumWakeupEvents(events, Len(events))
  <1>0. /\ W(Line) \in Nat /\ TotalOf(mWakeLockQueue) \in Nat
        /\ IsFiniteSet(Live) /\ Cardinality(Live) \in Nat
        /\ fwWakeups \in Nat /\ wlAck \in Nat /\ mWakelockRefCount \in Nat
        /\ Line \in Seq(Event)
    BY AccountType, LineType
  <1>1. batch[p] \in Batches /\ nextId \in Nat
    BY DEF IInv, TypeOK, Structure, PostersHaveBatches, postEventsToMessageQueue
  <1>2. kept \in Seq(Kinds) /\ batch[p] \in Seq(Kinds)
    BY <1>1, BatchesAssumption, Zenon DEF BatchesAssumption
  <1>3. events \in Seq(Event) /\ Len(events) = Len(kept)
    BY <1>1, <1>2, NumberedType
  <1>4. n = W(events) /\ W(events) \in Nat
    BY <1>3, WIsCount, WakesFinite
  <1>5. PICK numToWrite \in {0, numFitting(Len(events))} : QueueEvents(events, numToWrite, n)
    BY Zenon DEF postEventsToMessageQueue
  <1>6. /\ fwWakeups' = fwWakeups /\ wlAck' = wlAck /\ mWakeLockQueue' = mWakeLockQueue
        /\ scoped' = scoped /\ postPc[p] = "posting"
    BY Zenon DEF postEventsToMessageQueue
  <1>7. W(Line') <= W(Line) + n /\ W(Line') \in Nat
    <2> HIDE DEF events, n
    <2>1. PICK k \in 0 .. Len(events) : Line' = Line \o SubSeq(events, 1, k)
      <3>1. n \in Nat
        BY <1>4
      <3> QED
        BY <1>3, <1>5, <3>1, QueueingJoins
    <2> DEFINE a == SubSeq(events, 1, k)
               b == SubSeq(events, k + 1, Len(events))
    <2>2. a \in Seq(Event) /\ b \in Seq(Event) /\ events = a \o b
      BY <1>3, Split
    <2>3. W(Line') = W(Line) + W(a)
      BY <1>0, <2>1, <2>2, WConcat
    <2>4. W(events) = W(a) + W(b) /\ W(a) \in Nat /\ W(b) \in Nat
      BY <2>2, WConcat, WakesFinite
    <2> HIDE DEF a, b
    <2> QED
      BY <1>0, <1>4, <2>3, <2>4
  <1>8. Cardinality(Live') = Cardinality(Live) /\ TotalOf(mWakeLockQueue') = TotalOf(mWakeLockQueue)
    BY <1>6, Zenon DEF Live
  <1>9. CASE scoped[p] # "none"
    <2>1. mWakelockRefCount' = mWakelockRefCount + n
      BY <1>9, CountUp, Zenon DEF postEventsToMessageQueue
    <2> HIDE DEF n, events
    <2> DEFINE rest == fwWakeups + wlAck + TotalOf(mWakeLockQueue) + Cardinality(Live)
    <2>2. Due = W(Line) + rest /\ rest \in Nat
      BY <1>0 DEF Due
    <2>3. Due' = W(Line') + rest
      <3>1. Due' = W(Line') + fwWakeups + wlAck + TotalOf(mWakeLockQueue) + Cardinality(Live)
        BY <1>6, <1>8, Zenon DEF Due
      <3> QED
        BY <1>0, <1>7, <3>1
    <2>4. n \in Nat
      BY <1>4
    <2> HIDE DEF rest
    <2> QED
      BY <1>0, <1>7, <2>1, <2>2, <2>3, <2>4
  <1>10. CASE scoped[p] = "none"
    <2>1. mWakelockRefCount' = mWakelockRefCount
      BY <1>10, Zenon DEF postEventsToMessageQueue, lockVars
    <2>2. ~ \E i \in DOMAIN batch[p] : batch[p][i] # "plain"
      BY <1>6, <1>10 DEF ReasonsHaveLocks
    <2>3. ~ \E i \in DOMAIN kept : kept[i] = "wake"
      BY <1>1, <2>2, KeptFromBatch
    <2>4. n = 0
      <3>1. ASSUME NEW i \in Wakes(events) PROVE FALSE
        <4>1. i \in 1 .. Len(kept) /\ events[i].wake
          BY <1>3, <3>1, Zenon DEF Wakes
        <4>2. events[i] = [id |-> nextId + i - 1, wake |-> kept[i] = "wake"]
          BY <4>1, Zenon DEF Numbered
        <4>3. i \in DOMAIN kept
          BY <1>2, <4>1
        <4> HIDE DEF events, kept
        <4>4. events[i].wake = (kept[i] = "wake")
          BY <4>2
        <4> QED
          BY <2>3, <4>1, <4>3, <4>4, Zenon
      <3>2. Wakes(events) = {}
        BY <3>1, Zenon
      <3> QED
        BY <1>4, <3>2, FS_EmptySet DEF W
    <2> HIDE DEF n, events
    <2> QED
      BY <1>0, <1>6, <1>7, <1>8, <2>1, <2>4 DEF Due
  <1> QED
    BY <1>9, <1>10

\* A chunk that is dropped leaves the count by no more than the wake events in it.
LEMMA TimeoutAccounts ==
    ASSUME IInv, mThreadsRun, mWakelockRefCount >= Due, pwWriteTimeout, ~disturbed'
    PROVE  mWakelockRefCount' >= Due'
  <1> DEFINE chunk == SubSeq(front.events, 1, pwNumToWrite)
             q == mEventQueue
  <1>0. /\ W(Line) \in Nat /\ TotalOf(mWakeLockQueue) \in Nat
        /\ IsFiniteSet(Live) /\ Cardinality(Live) \in Nat
        /\ fwWakeups \in Nat /\ wlAck \in Nat /\ mWakelockRefCount \in Nat
        /\ q \in Seq(Event)
    BY AccountType, LineType
  <1>1. /\ pwPc = "writing"
        /\ fwWakeups' = fwWakeups /\ wlAck' = wlAck /\ mWakeLockQueue' = mWakeLockQueue
        /\ scoped' = scoped
    BY Zenon DEF pwWriteTimeout, pwUnchanged, postVars
  <1>2. /\ front.events \in Seq(Event) /\ front.wakeups \in Nat
        /\ pwNumToWrite \in 0 .. Len(front.events)
    BY <1>1, FrontType
  <1>3. countNumWakeupEvents(front.events, pwNumToWrite) = W(chunk)
    BY <1>2, WPrefix
  <1>4. pwDropped \in Nat
    BY <1>2, CountIsNat, BoundsAssumption DEF pwDropped, BoundsAssumption
  <1>5. ~(pwDropped > W(chunk))
    <2>1. ~(pwDropped > countNumWakeupEvents(front.events, pwNumToWrite))
      BY Zenon DEF pwWriteTimeout
    <2> QED
      BY <1>3, <2>1
  <1>6. /\ chunk \in Seq(Event)
        /\ \E c \in Seq(Event) : Line = q \o (chunk \o c) /\ Line' = q \o c
    BY ChunkIsLost, Zenon
  <1> HIDE DEF chunk
  <1>7. PICK c \in Seq(Event) : Line = q \o (chunk \o c) /\ Line' = q \o c
    BY <1>6
  <1> HIDE DEF q
  <1>8. /\ W(q) \in Nat /\ W(chunk) \in Nat /\ W(c) \in Nat
        /\ W(Line) = W(q) + (W(chunk) + W(c)) /\ W(Line') = W(q) + W(c)
    <2>1. chunk \o c \in Seq(Event)
      BY <1>6, <1>7, ConcatProperties
    <2>2. W(chunk \o c) = W(chunk) + W(c) /\ W(q \o c) = W(q) + W(c)
      BY <1>0, <1>6, <1>7, WConcat
    <2>3. W(q \o (chunk \o c)) = W(q) + W(chunk \o c)
      BY <1>0, <2>1, WConcat
    <2>4. W(q) \in Nat /\ W(chunk) \in Nat /\ W(c) \in Nat
      BY <1>0, <1>6, <1>7, WakesFinite
    <2> QED
      BY <1>7, <2>2, <2>3, <2>4
  <1>9. Cardinality(Live') = Cardinality(Live) /\ TotalOf(mWakeLockQueue') = TotalOf(mWakeLockQueue)
    BY <1>1, Zenon DEF Live
  <1>10. mWakelockRefCount' \in Int /\ mWakelockRefCount' >= mWakelockRefCount - W(chunk)
    <2>1. CASE front.wakeups > 0
      <3>1. decrementRefCountAndMaybeReleaseWakelock(pwDropped, TRUE)
        BY <2>1, Zenon DEF pwWriteTimeout
      <3>2. mWakelockRefCount' = IF mWakelockRefCount <= pwDropped THEN 0
                                 ELSE mWakelockRefCount - pwDropped
        BY <1>0, <1>4, <3>1, CountDown, Zenon
      <3> QED
        BY <1>0, <1>4, <1>5, <1>8, <3>2
    <2>2. CASE ~(front.wakeups > 0)
      <3>1. mWakelockRefCount' = mWakelockRefCount
        BY <2>2, Zenon DEF pwWriteTimeout
      <3> QED
        BY <1>0, <1>8, <3>1
    <2> QED
      BY <2>1, <2>2
  <1> DEFINE wq == W(q)
             wc == W(c)
             w == W(chunk)
             total == TotalOf(mWakeLockQueue)
             live == Cardinality(Live)
  <1>11. Due = (wq + (w + wc)) + fwWakeups + wlAck + total + live
    BY <1>8, Zenon DEF Due
  <1>12. Due' = (wq + wc) + fwWakeups + wlAck + total + live
    BY <1>1, <1>8, <1>9, Zenon DEF Due
  <1>13. wq \in Nat /\ wc \in Nat /\ w \in Nat /\ total \in Nat /\ live \in Nat
    BY <1>0, <1>8
  <1>14. mWakelockRefCount' \in Int /\ mWakelockRefCount' >= mWakelockRefCount - w
    BY <1>10
  <1>15. fwWakeups \in Nat /\ wlAck \in Nat /\ mWakelockRefCount \in Nat
    BY <1>0
  <1> HIDE DEF wq, wc, w, total, live
  <1> QED
    BY <1>11, <1>12, <1>13, <1>14, <1>15

\* The wakelock thread takes a number from the queue, and then from the count.
LEMMA AckAccounts ==
    ASSUME IInv, AckPending, mThreadsRun, mWakelockRefCount >= Due,
           wlReadBlocking \/ wlAcknowledge
    PROVE  mWakelockRefCount' >= Due'
  <1>0. /\ W(Line) \in Nat /\ TotalOf(mWakeLockQueue) \in Nat
        /\ IsFiniteSet(Live) /\ Cardinality(Live) \in Nat
        /\ fwWakeups \in Nat /\ wlAck \in Nat /\ mWakelockRefCount \in Nat
        /\ mWakeLockQueue \in Seq(Nat)
    BY AccountType DEF IInv, TypeOK
  <1>1. /\ UNCHANGED <<mPendingWriteEventsQueue, mEventQueue, pwPc>>
        /\ fwWakeups' = fwWakeups /\ scoped' = scoped
    BY Zenon DEF wlReadBlocking, wlAcknowledge, wlUnchanged, queueVars
  <1>2. W(Line') = W(Line) /\ Cardinality(Live') = Cardinality(Live)
    BY <1>1, Zenon DEF Line, NotWritten, Pending, pwNumToWrite, front, Live
  <1>3. CASE wlReadBlocking
    <2>1. /\ mWakeLockQueue # <<>> /\ wlAck' = Head(mWakeLockQueue)
          /\ mWakeLockQueue' = Tail(mWakeLockQueue) /\ mWakelockRefCount' = mWakelockRefCount
      BY <1>3, Zenon DEF wlReadBlocking
    <2>2. wlAck = 0
      BY <1>3 DEF wlReadBlocking, AckPending
    <2>3. /\ TotalOf(mWakeLockQueue) = wlAck' + TotalOf(mWakeLockQueue')
          /\ wlAck' \in Nat /\ TotalOf(mWakeLockQueue') \in Nat
      <3>1. Tail(mWakeLockQueue) \in Seq(Nat) /\ Head(mWakeLockQueue) \in Nat
        BY <1>0, <2>1
      <3> QED
        BY <1>0, <2>1, <3>1, TotalHead, TotalType
    <2> QED
      BY <1>0, <1>1, <1>2, <2>1, <2>2, <2>3 DEF Due
  <1>4. CASE wlAcknowledge
    <2>1. wlAck' = 0 /\ mWakeLockQueue' = mWakeLockQueue
      BY <1>4, Zenon DEF wlAcknowledge
    <2>2. decrementRefCountAndMaybeReleaseWakelock(wlAck, TRUE)
      BY <1>4, Zenon DEF wlAcknowledge
    <2>3. mWakelockRefCount' = IF mWakelockRefCount <= wlAck THEN 0
                               ELSE mWakelockRefCount - wlAck
      BY <1>0, <2>2, CountDown, Zenon
    <2>4. TotalOf(mWakeLockQueue') = TotalOf(mWakeLockQueue)
      BY <2>1
    <2> QED
      BY <1>0, <1>1, <1>2, <2>1, <2>3, <2>4 DEF Due
  <1> QED
    BY <1>3, <1>4

\* The framework takes a wake event from the line, and later acknowledges it.
LEMMA FrameworkAccounts ==
    ASSUME IInv, mWakelockRefCount >= Due, frameworkRead \/ frameworkAck
    PROVE  mWakelockRefCount' >= Due'
  <1>0. /\ W(Line) \in Nat /\ TotalOf(mWakeLockQueue) \in Nat
        /\ IsFiniteSet(Live) /\ Cardinality(Live) \in Nat
        /\ fwWakeups \in Nat /\ wlAck \in Nat /\ mWakelockRefCount \in Nat
        /\ mWakeLockQueue \in Seq(Nat)
        /\ mEventQueue \in Seq(Event) /\ NotWritten \in Seq(Event)
    BY AccountType, LineType DEF IInv, TypeOK
  <1>1. /\ mPendingWriteEventsQueue' = mPendingWriteEventsQueue /\ pwPc' = pwPc
        /\ wlAck' = wlAck /\ scoped' = scoped /\ mWakelockRefCount' = mWakelockRefCount
    BY Zenon DEF frameworkRead, frameworkAck, fwUnchanged, queueVars, postVars
  <1>2. NotWritten' = NotWritten /\ Cardinality(Live') = Cardinality(Live)
    BY <1>1, Zenon DEF NotWritten, Pending, pwNumToWrite, front, Live
  <1>3. CASE frameworkRead
    <2> DEFINE e == Head(mEventQueue)
               t == Tail(mEventQueue)
    <2>1. /\ mEventQueue # <<>> /\ mEventQueue' = t
          /\ fwWakeups' = fwWakeups + (IF e.wake THEN 1 ELSE 0)
          /\ mWakeLockQueue' = mWakeLockQueue
      BY <1>3, Zenon DEF frameworkRead
    <2>2. e \in Event /\ t \in Seq(Event) /\ <<e>> \in Seq(Event) /\ mEventQueue = <<e>> \o t
      BY <1>0, <2>1
    <2> HIDE DEF e, t
    <2>3. W(mEventQueue) = (IF e.wake THEN 1 ELSE 0) + W(t) /\ W(t) \in Nat
      BY <2>2, WConcat, WOne, WakesFinite
    <2>4. W(Line) = W(mEventQueue) + W(NotWritten) /\ W(NotWritten) \in Nat
      BY <1>0, WConcat, WakesFinite DEF Line
    <2>5. W(Line') = W(t) + W(NotWritten)
      BY <1>0, <1>2, <2>1, <2>2, WConcat DEF Line
    <2>6. TotalOf(mWakeLockQueue') = TotalOf(mWakeLockQueue)
      BY <2>1
    <2> DEFINE d == IF e.wake THEN 1 ELSE 0
    <2>7. d \in Nat
      OBVIOUS
    <2>8. fwWakeups' = fwWakeups + d /\ W(mEventQueue) = d + W(t)
      BY <2>1, <2>3
    <2> HIDE DEF d
    <2> DEFINE wt == W(t)
               wn == W(NotWritten)
               total == TotalOf(mWakeLockQueue)
               live == Cardinality(Live)
    <2>9. Due = ((d + wt) + wn) + fwWakeups + wlAck + total + live
      BY <2>4, <2>8, Zenon DEF Due
    <2>10. Due' = (wt + wn) + (fwWakeups + d) + wlAck + total + live
      BY <1>1, <1>2, <2>5, <2>6, <2>8, Zenon DEF Due
    <2>11. wt \in Nat /\ wn \in Nat /\ total \in Nat /\ live \in Nat
      BY <1>0, <2>3, <2>4
    <2>12. fwWakeups \in Nat /\ wlAck \in Nat /\ mWakelockRefCount \in Nat
      BY <1>0
    <2>13. mWakelockRefCount' = mWakelockRefCount
      BY <1>1
    <2> HIDE DEF wt, wn, total, live
    <2> QED
      BY <2>7, <2>9, <2>10, <2>11, <2>12, <2>13
  <1>4. CASE frameworkAck
    <2>1. /\ mWakeLockQueue' = Append(mWakeLockQueue, fwWakeups) /\ fwWakeups' = 0
          /\ mEventQueue' = mEventQueue
      BY <1>4, Zenon DEF frameworkAck
    <2>2. Line' = Line
      BY <1>2, <2>1 DEF Line
    <2>3. TotalOf(mWakeLockQueue') = TotalOf(mWakeLockQueue) + fwWakeups
      BY <1>0, <2>1, TotalAppend
    <2> QED
      BY <1>0, <1>1, <1>2, <2>1, <2>2, <2>3 DEF Due
  <1> QED
    BY <1>3, <1>4

\* The new threads start with nothing due: no wakelock is locked, nothing is queued.
LEMMA StartAccounts ==
    ASSUME IInv, Quiet, AckPending, initStart
    PROVE  mWakelockRefCount' >= Due'
  <1>1. /\ initPc = "start" /\ mEventQueue' = <<>> /\ mWakeLockQueue' = <<>>
        /\ fwWakeups' = 0 /\ pwPc' = "loop" /\ wlAck' = wlAck /\ scoped' = scoped
        /\ mPendingWriteEventsQueue' = mPendingWriteEventsQueue
        /\ mWakelockRefCount' = mWakelockRefCount
    BY Zenon DEF initStart, initUnchanged, lockVars
  <1>2. mPendingWriteEventsQueue = <<>> /\ \A p \in Posters : scoped[p] = "none"
    BY <1>1 DEF Quiet
  <1>3. wlAck = 0
    BY <1>1 DEF IInv, Structure, ThreadsStopped, AckPending
  <1>4. Live' = {}
    BY <1>1, <1>2 DEF Live
  <1>5. Line' = <<>>
    <2>1. Pending' = Pending /\ Pending = <<>>
      BY <1>1, <1>2, PendingType DEF Pending
    <2>2. NotWritten' = <<>>
      BY <1>1, <2>1 DEF NotWritten
    <2> QED
      BY <1>1, <2>2 DEF Line
  <1>6. W(Line') = 0 /\ TotalOf(mWakeLockQueue') = 0 /\ Cardinality(Live') = 0
    <2>1. <<>> \in Seq(Nat)
      OBVIOUS
    <2> QED
      BY <1>1, <1>4, <1>5, <2>1, WEmpty, TotalType, FS_EmptySet
  <1>7. mWakelockRefCount \in Nat
    BY AccountType
  <1> QED
    BY <1>1, <1>3, <1>6, <1>7 DEF Due

\* The steps that touch the count or what is due.
LEMMA AccountSteps ==
    ASSUME [Next]_vars
    PROVE  \/ UNCHANGED <<mWakelockRefCount, scoped, fwWakeups, wlAck, mWakeLockQueue>>
           \/ \E p \in Posters, b \in Batches : createScopedWakelock(p, b)
           \/ \E p \in Posters : postEventsToMessageQueue(p) \/ destroyScopedWakelock(p)
           \/ pwWriteTimeout \/ wlReadBlocking \/ wlAcknowledge \/ wlTimeoutReset \/ wlExit
           \/ frameworkRead \/ frameworkAck \/ stopDrain \/ initReset \/ initStart
  <1> USE DEF queueVars, lockVars, initVars, postVars
  <1>1. CASE \E p \in Posters : poster(p)
    BY <1>1, ZenonT(60) DEF poster, postEvents
  <1>2. CASE handlePendingWrites \/ pwSpuriousWakeup
    BY <1>2, ZenonT(60)
    DEF handlePendingWrites, pwLoop, pwWait, pwSpuriousWakeup, pwWriteBlocking, pwPop,
        pwUnchanged
  <1>3. CASE handleWakelocks \/ wlSpuriousWakeup
    BY <1>3, ZenonT(60)
    DEF handleWakelocks, wlLoop, wlWait, wlSpuriousWakeup, wlReadTimeout, wlUnchanged
  <1>4. CASE initializeCommon
    BY <1>4, ZenonT(60)
    DEF initializeCommon, stopThreads, stopNotify, stopJoinPendingWrites,
        stopJoinWakelock, disableAllSensors, initClearQueue, initZeroSize, initSubHals,
        initUnchanged
  <1>5. CASE \E p \in Posters, enabled \in BOOLEAN : activate(p, enabled)
    BY <1>5, ZenonT(60) DEF activate, initUnchanged
  <1>6. CASE frameworkRead \/ frameworkAck \/ tick
    BY <1>6, ZenonT(60) DEF tick, fwUnchanged
  <1>7. CASE UNCHANGED vars
    BY <1>7, Zenon DEF vars
  <1> QED
    BY <1>1, <1>2, <1>3, <1>4, <1>5, <1>6, <1>7 DEF Next

\* The remaining steps of the accounting.
LEMMA RestAccounts ==
    ASSUME IInv, mThreadsRun, mThreadsRun', mWakelockRefCount >= Due, [Next]_vars,
           UNCHANGED <<mWakelockRefCount, scoped, fwWakeups, wlAck, mWakeLockQueue>>
    PROVE  \/ mWakelockRefCount' >= Due'
           \/ \E p \in Posters : postEventsToMessageQueue(p)
           \/ pwWriteTimeout \/ initStart \/ frameworkRead
  <1>1. ASSUME Line' = Line PROVE mWakelockRefCount' >= Due'
    <2>1. W(Line') = W(Line) /\ Live' = Live /\ TotalOf(mWakeLockQueue') = TotalOf(mWakeLockQueue)
      BY <1>1, Zenon DEF Live
    <2> QED
      BY <2>1 DEF Due
  <1>2. CASE /\ UNCHANGED <<mPendingWriteEventsQueue, mEventQueue, nextId, lastRead>>
             /\ pwPc' = pwPc \/ (pwPc # "pop" /\ pwPc' # "pop")
    <2>1. Line' = Line
      BY <1>2, Zenon DEF Line, NotWritten, Pending, pwNumToWrite, front
    <2> QED
      BY <1>1, <2>1
  <1>3. CASE pwWriteBlocking \/ pwPop
    BY <1>1, <1>3, WriteIsInvisible, PopIsInvisible DEF SameLine
  <1>4. CASE stopDrain \/ initClearQueue
    BY <1>4 DEF stopDrain, initClearQueue, IInv, Structure, ThreadsStopped
  <1> QED
    BY <1>2, <1>3, <1>4, LineSteps

LEMMA AccountingKept ==
    ASSUME IInv, Quiet, LocksHaveReasons, AckPending, ReasonsHaveLocks, WakeAccounting,
           [Next]_vars
    PROVE  WakeAccounting'
  <1>1. SUFFICES ASSUME mThreadsRun', ~disturbed' PROVE mWakelockRefCount' >= Due'
    BY AccountIs, Zenon DEF WakeAccounting, Due
  <1>2. CASE initStart
    BY <1>2, StartAccounts
  <1>3. CASE (mThreadsRun' => mThreadsRun) /\ (disturbed => disturbed')
    <2>1. mThreadsRun /\ ~disturbed
      BY <1>1, <1>3
    <2>2. mWakelockRefCount >= Due
      BY <2>1, AccountIs, Zenon DEF WakeAccounting, Due
    <2>3. ~wlTimeoutReset
      BY <1>1, Zenon DEF wlTimeoutReset
    <2>4. ~wlExit /\ ~initReset /\ ~stopDrain
      BY <2>1 DEF wlExit, initReset, stopDrain, IInv, Structure, ThreadsStopped
    <2>5. ASSUME NEW p \in Posters, NEW b \in Batches, createScopedWakelock(p, b)
          PROVE  mWakelockRefCount' >= Due'
      BY <2>1, <2>2, <2>5, CreateAccounts
    <2>6. ASSUME NEW p \in Posters, postEventsToMessageQueue(p)
          PROVE  mWakelockRefCount' >= Due'
      BY <2>1, <2>2, <2>6, PostAccounts
    <2>7. ASSUME NEW p \in Posters, destroyScopedWakelock(p) PROVE mWakelockRefCount' >= Due'
      BY <2>1, <2>2, <2>7, DestroyAccounts
    <2>8. CASE pwWriteTimeout
      BY <1>1, <2>1, <2>2, <2>8, TimeoutAccounts
    <2>9. CASE wlReadBlocking \/ wlAcknowledge
      BY <2>1, <2>2, <2>9, AckAccounts
    <2>10. CASE frameworkRead \/ frameworkAck
      BY <2>2, <2>10, FrameworkAccounts
    <2>11. CASE UNCHANGED <<mWakelockRefCount, scoped, fwWakeups, wlAck, mWakeLockQueue>>
      BY <1>1, <1>2, <2>1, <2>2, <2>6, <2>8, <2>10, <2>11, RestAccounts
    <2> QED
      BY <1>2, <2>3, <2>4, <2>5, <2>6, <2>7, <2>8, <2>9, <2>10, <2>11, AccountSteps
  <1> QED
    BY <1>2, <1>3, RunSteps

\* While threads run, were not started under a post, and neither the timeout nor a
\* dropped partial batch has cut the count short, it covers every wake event on its way to the framework, in it
\* or acknowledged and not yet subtracted, and every wakelock a poster still
\* holds: for any number of posting threads, through re-initialization, if
\* disabling a sensor waits for the posts under way.
THEOREM WakesAreCovered ==
    ASSUME DisableQuiesces PROVE Spec => []WakeAccounting
  <1> DEFINE Inv == LocksHaveReasons /\ AckPending /\ ReasonsHaveLocks /\ WakeAccounting
  <1>1. Init => Inv
    <2> SUFFICES ASSUME Init PROVE Inv
      OBVIOUS
    <2>1. LocksHaveReasons /\ AckPending /\ ReasonsHaveLocks
      BY DEF Init, LocksHaveReasons, AckPending, ReasonsHaveLocks
    <2>2. Line = <<>>
      <3>1. Pending = <<>>
        BY PendingType DEF Init
      <3> QED
        BY <3>1 DEF Init, Line, NotWritten
    <2>3. Live = {}
      BY DEF Init, Live
    <2>4. W(Line) = 0 /\ Cardinality(Live) = 0
      BY <2>2, <2>3, WEmpty, FS_EmptySet
    <2>5. TotalOf(mWakeLockQueue) = 0
      <3>1. mWakeLockQueue = <<>> /\ <<>> \in Seq(Nat)
        BY DEF Init
      <3> QED
        BY <3>1, TotalType
    <2>6. UnackedWakeups = 0 /\ LiveWakelocks = 0 /\ mWakelockRefCount = 0
      BY <2>4, <2>5, AccountIs DEF Init
    <2> QED
      BY <2>1, <2>6 DEF WakeAccounting
  <1>2. ASSUME IInv, Quiet, Inv, [Next]_vars PROVE Inv'
    BY <1>2, ReasonsKept, AckPendingKept, ReasonsHaveLocksKept, AccountingKept
  <1>3. Inv => WakeAccounting
    OBVIOUS
  <1> HIDE DEF Inv
  <1> QED
    BY <1>1, <1>2, <1>3, QuietInvariant, PTL DEF Spec
=============================================================================
