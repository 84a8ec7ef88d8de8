--------------------------- MODULE MCSensorRouting ---------------------------
(* Small instances of SensorRouting for TLC. *)
EXTENDS SensorRouting

Flags(w, d, p) == [wake |-> w, direct |-> d, pickup |-> p]
Lib(symbol, version, sensors) ==
    [opens |-> TRUE, symbol |-> symbol, version |-> version, sensors |-> sensors]

\* Every sub-HAL has a sensor 1; 0 is a pick-up sensor that is dropped, IndexUnit + 5
\* has an index already.
Direct == [l \in {1} |-> Flags(FALSE, TRUE, FALSE)]
DirectAndRefused == [l \in {1, IndexUnit + 5} |-> Flags(FALSE, TRUE, FALSE)]
Plain == [l \in {1} |-> Flags(TRUE, FALSE, FALSE)]
DroppedDirect == [l \in {0, 1} |-> Flags(FALSE, l = 0, l = 0)]

\* A library of the wrong version comes between the two sub-HALs, so that their
\* places in the file and in mSubHalList differ.
TwoDirect == <<Lib("2.0", "2.0", DirectAndRefused), Lib("2.1", "2.0", Direct),
               Lib("2.1", "2.1", Direct)>>
\* The direct channel goes to the second sub-HAL that loads / to one whose direct
\* sensor is dropped.
SecondDirect == <<[Lib("none", "2.0", Direct) EXCEPT !.opens = FALSE],
                  Lib("2.0", "2.0", Plain), Lib("2.1", "2.1", Direct)>>
Dropped == <<Lib("2.1", "2.1", DroppedDirect), Lib("2.0", "2.0", Direct)>>

SomeConfs == {TwoDirect, SecondDirect, Dropped}

\* One dynamic sensor, and one whose handle has an index already.
TwoDynamic == [l \in {3, IndexUnit + 4} |-> [direct |-> l = 3]]
=============================================================================
