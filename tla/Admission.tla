----------------------------- MODULE Admission -----------------------------
(***************************************************************************)
(* SSDAdmission of internal/fscommit, as downloadOne uses it: a task reads *)
(* the free space, reserves its file under the lock or is queued again,    *)
(* writes, and releases.  The archive later deletes the file of a task     *)
(* that completed.  The free space is read before the lock is taken.       *)
(***************************************************************************)
EXTENDS Integers, FiniteSets

CONSTANTS
    Tasks,              \* tasks, each run by one worker at a time
    ExpectedSize,       \* ExpectedSize[t]: bytes of its file, 0 when unknown
    UnknownReserve,     \* what an unknown size reserves (100 MB in the code)
    DiskSize,           \* bytes of the file system
    MinFreeSpace        \* bytes to be left free

ASSUME AdmissionAssumption ==
    /\ IsFiniteSet(Tasks) /\ ExpectedSize \in [Tasks -> Nat]
    /\ {UnknownReserve, DiskSize, MinFreeSpace} \subseteq Nat

VARIABLES
    admission,          \* per task: where it is, and the free space it read
    reservations,       \* bytes reserved per task; 0 for no reservation
    totalReserved,      \* the sum the code keeps beside the map
    onDisk,             \* bytes of each task's file
    overtaken           \* history: a task was admitted on a stale reading

admissionVars == <<admission, reservations, totalReserved, onDisk, overtaken>>

RequestBytes(t) == IF ExpectedSize[t] > 0 THEN ExpectedSize[t] ELSE UnknownReserve

\* The sum of f over the tasks, counted byte by byte.
BytesOf(f) == UNION {{t} \X (1 .. f[t]) : t \in Tasks}
ByteSum(f) == Cardinality(BytesOf(f))

Free == DiskSize - ByteSum(onDisk)

Waiting == [pc |-> "idle", seen |-> 0, stale |-> FALSE]

AdmissionTypeOK ==
    /\ admission \in [Tasks -> [pc    : {"idle", "read", "writing", "stored"},
                                seen  : 0 .. DiskSize,      \* the free bytes it read
                                stale : BOOLEAN]]   \* history: a reservation was released since
    /\ \A t \in Tasks : reservations[t] \in {0, RequestBytes(t)}
    /\ totalReserved \in Int /\ overtaken \in BOOLEAN
    /\ \A t \in Tasks : onDisk[t] \in 0 .. RequestBytes(t)

AdmissionInit ==
    /\ admission = [t \in Tasks |-> Waiting]
    /\ reservations = [t \in Tasks |-> 0] /\ totalReserved = 0
    /\ onDisk = [t \in Tasks |-> 0]
    /\ overtaken = FALSE

\* Reserve, outside the lock: GetDiskSpace.
ReadFree(t) ==
    /\ admission[t].pc = "idle"
    /\ admission' = [admission EXCEPT ![t] = [pc |-> "read", seen |-> Free, stale |-> FALSE]]
    /\ UNCHANGED <<reservations, totalReserved, onDisk, overtaken>>

\* Mutated form: what the others reserved is not subtracted.
Reserve_IgnoresOthers(t) ==
    /\ admission[t].pc = "read"
    /\ IF admission[t].seen - MinFreeSpace >= RequestBytes(t)
       THEN /\ reservations' = [reservations EXCEPT ![t] = RequestBytes(t)]
            /\ totalReserved' = totalReserved + RequestBytes(t)
            /\ admission' = [admission EXCEPT ![t] = [Waiting EXCEPT !.pc = "writing"]]
            /\ overtaken' = (overtaken \/ admission[t].stale)
            /\ onDisk' = [onDisk EXCEPT ![t] = 0]
       ELSE /\ admission' = [admission EXCEPT ![t] = Waiting]
            /\ UNCHANGED <<reservations, totalReserved, onDisk, overtaken>>

\* Reserve, under the lock: the task is admitted, or goes back to the queue.
Reserve(t) ==
    /\ admission[t].pc = "read"
    /\ IF admission[t].seen - MinFreeSpace - totalReserved >= RequestBytes(t)
       THEN /\ reservations' = [reservations EXCEPT ![t] = RequestBytes(t)]
            /\ totalReserved' = totalReserved + RequestBytes(t)
            /\ admission' = [admission EXCEPT ![t] = [Waiting EXCEPT !.pc = "writing"]]
            /\ overtaken' = (overtaken \/ admission[t].stale)
            \* a .part that is there is written from its start
            /\ onDisk' = [onDisk EXCEPT ![t] = 0]
       ELSE /\ admission' = [admission EXCEPT ![t] = Waiting]
            /\ UNCHANGED <<reservations, totalReserved, onDisk, overtaken>>

\* The transfer writes the next byte; a file of unknown size has any length
\* up to what was reserved for it.
WriteByte(t) ==
    /\ admission[t].pc = "writing"
    /\ onDisk[t] < RequestBytes(t)
    /\ onDisk' = [onDisk EXCEPT ![t] = @ + 1]
    /\ UNCHANGED <<admission, reservations, totalReserved, overtaken>>

\* The deferred release: the reservation of the task goes, whatever happened.
\* Tasks between their read and their check have read before it.
Release(t, pc) ==
    /\ admission[t].pc = "writing"
    /\ reservations' = [reservations EXCEPT ![t] = 0]
    /\ totalReserved' = totalReserved - reservations[t]
    /\ admission' = [s \in Tasks |->
            IF s = t THEN [Waiting EXCEPT !.pc = pc]
            ELSE [admission[s] EXCEPT !.stale = @ \/ admission[s].pc = "read"]]
    /\ UNCHANGED overtaken

\* The download ends: its file stays, or fails: its part stays or is removed.
Complete(t) ==
    /\ onDisk[t] = RequestBytes(t) \/ ExpectedSize[t] = 0
    /\ Release(t, "stored")
    /\ UNCHANGED onDisk

FailOrCancel(t) ==
    /\ Release(t, "idle")
    /\ UNCHANGED onDisk \/ onDisk' = [onDisk EXCEPT ![t] = 0]

\* The archive worker removes the file; the record may be downloaded again.
Archived(t) ==
    /\ admission[t].pc = "stored"
    /\ onDisk' = [onDisk EXCEPT ![t] = 0]
    /\ admission' = [admission EXCEPT ![t] = Waiting]
    /\ UNCHANGED <<reservations, totalReserved, overtaken>>

AdmissionNext ==
    \E t \in Tasks : \/ ReadFree(t) \/ Reserve(t) \/ WriteByte(t)
                     \/ Complete(t) \/ FailOrCancel(t) \/ Archived(t)

AdmissionSpec == AdmissionInit /\ [][AdmissionNext]_admissionVars

-----------------------------------------------------------------------------
\* What each admitted task has yet to write.
YetToWrite ==
    [t \in Tasks |-> IF reservations[t] > 0 THEN reservations[t] - onDisk[t] ELSE 0]

\* Simultaneous reservations do not admit more bytes than are free above the
\* minimum, as long as no reservation is released between the read of the free
\* space and the check of a task that is admitted: what the admitted tasks
\* have yet to write fits, unless none ever got in because the minimum exceeds
\* the file system.
AdmittedFits ==
    ~overtaken =>
        \/ ByteSum(YetToWrite) <= Free - MinFreeSpace
        \/ \A t \in Tasks : reservations[t] = 0 /\ onDisk[t] = 0
=============================================================================
