------------------------------- MODULE Ranges -------------------------------
(***************************************************************************)
(* The RangeTracker of core/transfer: a sequence of half-open byte         *)
(* intervals, kept sorted, disjoint and never adjacent, that records which *)
(* bytes of a destination have been written.                               *)
(***************************************************************************)
EXTENDS Integers, Sequences

LowerOf(a, b)  == IF a < b THEN a ELSE b
HigherOf(a, b) == IF a > b THEN a ELSE b

\* Mutated form: intervals that touch are not merged.
MergeStep_Adjacent(acc, it) ==
    CASE acc.inserted ->
            [acc EXCEPT !.merged = Append(@, it)]
      [] ~acc.inserted /\ acc.new.end <= it.start ->
            [acc EXCEPT !.merged = Append(Append(@, acc.new), it), !.inserted = TRUE]
      [] ~acc.inserted /\ acc.new.end > it.start /\ acc.new.start > it.end ->
            [acc EXCEPT !.merged = Append(@, it)]
      [] OTHER ->
            [acc EXCEPT !.new = [start |-> LowerOf(@.start, it.start),
                                 end   |-> HigherOf(@.end, it.end)]]

\* One round of AddRange's loop: "it" is the next recorded interval.
MergeStep(acc, it) ==
    CASE acc.inserted ->
            [acc EXCEPT !.merged = Append(@, it)]
      [] ~acc.inserted /\ acc.new.end < it.start ->
            [acc EXCEPT !.merged = Append(Append(@, acc.new), it), !.inserted = TRUE]
      [] ~acc.inserted /\ acc.new.end >= it.start /\ acc.new.start > it.end ->
            [acc EXCEPT !.merged = Append(@, it)]
      [] OTHER ->
            [acc EXCEPT !.new = [start |-> LowerOf(@.start, it.start),
                                 end   |-> HigherOf(@.end, it.end)]]

\* The loop of AddRange: its variables after i rounds.
MergeLoop(intervals, start, end) ==
    LET acc[i \in 0 .. Len(intervals)] ==
            IF i = 0
            THEN [merged   |-> << >>,
                  new      |-> [start |-> start, end |-> end],
                  inserted |-> FALSE]
            ELSE MergeStep(acc[i - 1], intervals[i])
    IN  acc

\* AddRange(start, end): record that the bytes of [start, end) were written.
AddRange(intervals, start, end) ==
    LET acc == MergeLoop(intervals, start, end)[Len(intervals)]
    IN  IF start >= end \/ start < 0 THEN intervals
        ELSE IF acc.inserted THEN acc.merged
        ELSE Append(acc.merged, acc.new)

\* Mutated form: only the end of the last interval counts.
IsComplete_LastByte(intervals, expectedSize) ==
    expectedSize <= 0 \/ (intervals # << >> /\ intervals[Len(intervals)].end >= expectedSize)

\* IsComplete: one interval that contains [0, expectedSize).
IsComplete(intervals, expectedSize) ==
    \/ expectedSize <= 0
    \/ /\ Len(intervals) = 1
       /\ intervals[1].start = 0
       /\ intervals[1].end >= expectedSize

\* The reference: the bytes the intervals stand for.
Covered(intervals) ==
    UNION {intervals[i].start .. (intervals[i].end - 1) : i \in DOMAIN intervals}

\* Every interval is non-empty, and ends before the next one starts.
Normal(intervals) ==
    /\ \A i \in DOMAIN intervals : intervals[i].start < intervals[i].end
    /\ \A i \in 1 .. Len(intervals) - 1 : intervals[i].end < intervals[i + 1].start
=============================================================================
