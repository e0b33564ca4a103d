------------------------------ MODULE Process ------------------------------
(***************************************************************************)
(* What every component of the daemon shares: the records it works on, the *)
(* values that stand for file contents, and the two budgets that bound the *)
(* misbehaviour of its environment.  A record is one Telegram message with *)
(* media (chat_id, message_id); all records of a model belong to one chat. *)
(*                                                                         *)
(* A file content is identified with its SHA-256, so Contents is both the  *)
(* set of complete files and the set of digests.  Partial is what a file   *)
(* holds while it is being written; its digest matches no complete file.   *)
(***************************************************************************)
EXTENDS Naturals, FiniteSets

CONSTANTS
    Records,        \* download records (chat_id, message_id) of one chat
    Contents,       \* complete file contents, identified with their digest
    None,           \* no file, no digest
    Partial,        \* a file that is still being written
    SizeOf,         \* the length of every content
    ArchiveOn,      \* an archive directory is configured
    MaxFaults,      \* bound on failing I/O, database and network calls
    MaxCrashes      \* bound on process crashes

ASSUME ContentsAssumption ==
    /\ None \notin Contents
    /\ Partial \notin Contents
    /\ None # Partial

ASSUME RecordsAssumption == Records # {}

ASSUME SizeAssumption == SizeOf \in [Contents -> Nat \ {0}]

ASSUME BudgetAssumption ==
    /\ ArchiveOn \in BOOLEAN
    /\ MaxFaults \in Nat
    /\ MaxCrashes \in Nat

VARIABLES
    faults,         \* environment calls that have failed so far
    crashes         \* crashes so far; names the running process

processVars == <<faults, crashes>>

\* A length as the database stores it; 0 is "unknown".
Sizes == {0} \cup {SizeOf[c] : c \in Contents}

Files == Contents \cup {None, Partial}

\* Does file f have length s and digest c?  (stat, then SHA-256)
Matches(f, s, c) == f \in Contents /\ f = c /\ SizeOf[f] = s

\* One call to the disk, the database or the network fails.
Fault ==
    /\ faults < MaxFaults
    /\ faults' = faults + 1
    /\ UNCHANGED crashes

NoFault == UNCHANGED processVars

ProcessTypeOK ==
    /\ faults \in 0 .. MaxFaults
    /\ crashes \in 0 .. MaxCrashes
=============================================================================
