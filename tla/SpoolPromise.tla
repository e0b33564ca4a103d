---------------------------- MODULE SpoolPromise ----------------------------
(***************************************************************************)
(* What the migration of the old spool promises for the files in the       *)
(* buffer directory: until a migration that listed a file has committed,   *)
(* the file is somewhere in the buffer directory, whole.                   *)
(***************************************************************************)
EXTENDS Integers

CONSTANT Copies         \* the contents files may have: pairs of a name and a content

VARIABLES
    kept,               \* the contents that are on disk, in full
    granted             \* the contents a committed migration listed

Init == kept \subseteq Copies /\ granted = {}

\* Another program adds a file.
Add == \E c \in Copies \ kept : kept' = kept \cup {c} /\ UNCHANGED granted

\* A migration commits: what it listed may go.
Commit(S) == granted' = granted \cup S /\ UNCHANGED kept

\* Files of committed migrations are removed; a power loss may undo that.
Discard(S) == S \subseteq granted /\ kept' = (kept \ granted) \cup S /\ UNCHANGED granted

Next ==
    \/ Add
    \/ \E S \in SUBSET Copies : Commit(S) \/ Discard(S)

Spec == Init /\ [][Next]_<<kept, granted>>
=============================================================================
