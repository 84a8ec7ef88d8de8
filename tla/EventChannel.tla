----------------------------- MODULE EventChannel -----------------------------
(***************************************************************************)
(* What the event path of the sensors proxy promises the framework: one    *)
(* channel for the events of all sub-HALs.  Events are numbered as they    *)
(* are posted.  The channel may lose events (no room, a write that timed   *)
(* out, a new framework) but neither reorders, repeats nor invents any.    *)
(***************************************************************************)
EXTENDS Integers, Sequences

VARIABLES
    line,       \* the numbers of the events on their way, oldest first
    next,       \* the number of the next event
    read        \* the number of the last event taken out

vars == <<line, next, read>>

Init == line = <<>> /\ next = 1 /\ read = 0

\* A batch is numbered in one piece, and the channel takes a prefix of it.
Post ==
    /\ next' \in Nat /\ next' > next
    /\ \E taken \in 0..(next' - next) :
           line' = line \o [i \in 1..taken |-> next + i - 1]
    /\ UNCHANGED read

\* The oldest events are taken out: by the framework, or to make room.
Take ==
    /\ \E n \in 1..Len(line) : /\ line' = SubSeq(line, n + 1, Len(line))
                               /\ read' = line[n]
    /\ UNCHANGED next

\* A run of neighbouring events is lost.
Lose ==
    /\ \E i, j \in 0..Len(line) :
           i < j /\ line' = SubSeq(line, 1, i) \o SubSeq(line, j + 1, Len(line))
    /\ UNCHANGED <<next, read>>

Next == Post \/ Take \/ Lose

Spec == Init /\ [][Next]_vars
=============================================================================
