---------------------------- MODULE RangeTracker ----------------------------
(***************************************************************************)
(* AddRange and IsComplete over every sequence of ranges of a small file,  *)
(* against the set of bytes the ranges stand for.                          *)
(***************************************************************************)
EXTENDS Ranges

CONSTANT MaxByte        \* bound: the end of the longest range

ASSUME TrackerAssumption == MaxByte \in Nat

VARIABLES tracked, bytes

trackerVars == <<tracked, bytes>>

TrackerInit == tracked = << >> /\ bytes = {}

\* Any range, the empty and the reversed ones included.
TrackRange(start, end) ==
    /\ tracked' = AddRange(tracked, start, end)
    /\ bytes' = bytes \cup (start .. end - 1)

TrackerNext == \E start, end \in 0 .. MaxByte : TrackRange(start, end)

TrackerSpec == TrackerInit /\ [][TrackerNext]_trackerVars

-----------------------------------------------------------------------------
\* In whatever order, overlap and adjacency ranges arrive, the intervals are in
\* normal form and stand for exactly the bytes recorded, and IsComplete tells
\* for every size that no byte recorded exceeds whether all its bytes are there.
\* (A byte recorded past the size may make it say no to a file that is whole.)
TrackerIsExact ==
    /\ Normal(tracked)
    /\ Covered(tracked) = bytes
    /\ \A size \in 0 .. MaxByte :
            /\ IsComplete(tracked, size) => 0 .. size - 1 \subseteq bytes
            /\ bytes = 0 .. size - 1 => IsComplete(tracked, size)
=============================================================================
