--------------------------- MODULE HalProxyChannel ---------------------------
(***************************************************************************)
(* HalProxy implements EventChannel.  The channel's line is the event FMQ  *)
(* followed by the pending events that have not been written to it; the    *)
(* two queues, the two paths between them, the partial writes of a batch   *)
(* and the threads that make them are hidden.                              *)
(***************************************************************************)
EXTENDS HalProxy

onTheWay ==
    LET events == mEventQueue \o NotWritten
    IN [i \in DOMAIN events |-> events[i].id]

Channel == INSTANCE EventChannel WITH line <- onTheWay, next <- nextId, read <- lastRead

\* Every step of the proxy's threads, of initialize() and of the framework is a
\* step of one lossy channel or invisible to it: whichever way an event takes,
\* none is overtaken, delivered twice or made up, before and after re-initialization.
ImplementsChannel == Channel!Spec
=============================================================================
