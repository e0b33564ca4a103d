------------------------------ MODULE Database ------------------------------
(***************************************************************************)
(* The durable state of the daemon (app/daemon/db.go): one row per record  *)
(* in download_records and at most one job per record in archive_jobs.     *)
(*                                                                         *)
(* Every method of Database holds the database lock for its whole body, so *)
(* a method is an operator on the row or the job it touches: XxxOK says    *)
(* whether the call returns nil, and the past participle is the row or job *)
(* it leaves.  A call that fails for another reason (SQLITE_BUSY, a full   *)
(* disk) changes nothing; the callers model that as a Fault.               *)
(***************************************************************************)
EXTENDS Process

CONSTANT MaxStamp   \* bound on the retry generations handed out

ASSUME StampAssumption == MaxStamp \in Nat \ {0}

VARIABLES row, job

dbVars == <<row, job>>

(***************************************************************************)
(* Attempt generations: '' before the first attempt, "1" for every first   *)
(* attempt, and retry_<nanoseconds> afterwards, modelled by a stamp that   *)
(* is never handed out twice.                                              *)
(***************************************************************************)
NoGen == 0
FirstGen == 1
Gens == 0 .. MaxStamp

Statuses == {"absent", "pending", "downloading", "committing",
             "success", "failed", "unavailable", "conflict"}

(***************************************************************************)
(* tried: attempts > 0.  due: next_retry_at <= now.  named: file_name was  *)
(* replaced by the name Telegram resolves to.  planned: save_path is set.  *)
(***************************************************************************)
Rows == [status : Statuses, gen : Gens, sha : Contents \cup {None},
         size : Sizes, tried : BOOLEAN, due : BOOLEAN,
         named : BOOLEAN, planned : BOOLEAN]

AbsentRow == [status |-> "absent", gen |-> NoGen, sha |-> None, size |-> 0,
              tried |-> FALSE, due |-> TRUE, named |-> FALSE, planned |-> FALSE]

Known(given, stored) == IF given > 0 THEN given ELSE stored

\* The metadata columns after an update that was given new values for them.
Described(d, named, planned, size) ==
    [d EXCEPT !.named = named, !.planned = @ \/ planned, !.size = Known(size, @)]

\* Mutated form: a message that is seen again is downloaded again.
Ingested_Resets(d, size) == [d EXCEPT !.status = "pending", !.size = size]

\* IngestMessage: insert as pending, or overwrite the size of ANY stored row.
Ingested(d, size) ==
    IF d.status = "absent" THEN [d EXCEPT !.status = "pending", !.size = size]
    ELSE [d EXCEPT !.size = size]

\* EnsureDownloadRecord: insert as pending, do nothing on conflict.
Ensured(d, planned, size) ==
    IF d.status = "absent"
    THEN [d EXCEPT !.status = "pending", !.planned = planned, !.size = size]
    ELSE d

\* Mutated form: failed rows are not selected again.
Scannable_New(d) == d.status = "pending"

\* The rows GetPendingDownloads selects for an enabled target.
Scannable(d) == d.status = "pending" \/ (d.status = "failed" /\ d.due)

\* Mutated form: a commit intent counts as finished.
AlreadySuccess_Early(d, size) == d.status \in {"committing", "success"}

\* BeginDownload finds a finished record and hands back its proof.
AlreadySuccess(d, size) ==
    d.status = "success" /\ d.size > 0 /\ (size > 0 => size = d.size)

BeginOK(d, gen) ==
    \/ d.status \in {"absent", "pending", "failed"}
    \/ d.status = "downloading" /\ d.gen = gen

Begun(d, gen, named, planned, size) ==
    [Described(d, named, planned, size) EXCEPT !.status = "downloading", !.gen = gen]

PrepareOK(d, gen, size, sha) ==
    \/ d.status = "committing" /\ d.gen = gen /\ d.sha = sha /\ d.size = size
    \/ d.status = "success" /\ d.sha = sha /\ d.size = size
    \/ d.status = "downloading" /\ d.gen = gen

Prepared(d, size, sha) ==
    IF d.status = "downloading"
    THEN [d EXCEPT !.status = "committing", !.planned = TRUE, !.size = size, !.sha = sha]
    ELSE d

CompleteOK(d, gen, size, sha) ==
    \/ d.status = "success" /\ d.sha = sha /\ d.size = size
    \/ /\ d.status = "committing" /\ d.gen = gen
       /\ d.sha \in {None, sha}
       /\ d.size \in {0, size}

Completed(d, size, sha) ==
    [d EXCEPT !.status = "success", !.planned = TRUE, !.size = size, !.sha = sha]

CompleteExistingOK(d, gen, size, sha) ==
    \/ d.status = "absent"
    \/ d.status = "success" /\ d.sha = sha /\ d.size = size
    \/ d.status \in {"committing", "downloading"} /\ d.gen \in {NoGen, gen}

\* RecordTargetConflict; callers always pass a non-empty generation.
ConflictOK(d, gen) == d.status \in {"absent", "success", "conflict"} \/ d.gen \in {NoGen, gen}

Conflicted(d, gen, named, planned, size) ==
    IF d.status \in {"success", "conflict"} THEN d
    ELSE [Described(d, named, planned, size) EXCEPT
            !.status = "conflict", !.due = TRUE,
            !.gen = IF d.status = "absent" THEN gen ELSE @,
            !.tried = @ \/ d.status = "absent"]

(***************************************************************************)
(* FailDownload.  The error text decides: "unavailable" freezes the row,   *)
(* a text that mentions a cancelled or timed-out context ("ctx") returns   *)
(* it to pending without counting an attempt, any other text ("error") is  *)
(* a failed attempt with back-off.                                         *)
(***************************************************************************)
FailKinds == {"error", "ctx", "unavailable"}

FailOK(d, gen) ==
    d.status \in {"absent", "success", "failed", "unavailable", "conflict"}
        \/ d.gen \in {NoGen, gen}

Failed(d, kind, gen, named, planned, size) ==
    IF d.status \in {"success", "failed", "unavailable", "conflict"} THEN d
    ELSE IF d.status = "absent"
    THEN [Described(d, named, planned, size) EXCEPT
            !.status = IF kind = "unavailable" THEN kind ELSE "failed",
            !.gen = gen, !.tried = TRUE, !.due = FALSE]
    ELSE [Described(d, named, planned, size) EXCEPT
            !.status = CASE kind = "error" -> "failed"
                         [] kind = "ctx" -> "pending"
                         [] kind = "unavailable" -> "unavailable",
            !.tried = @ \/ kind = "error",
            !.due = (kind = "ctx")]

\* CancelDownload: attempts and next_retry_at keep their values.
CancelOK(d, gen) == d.status \in {"pending", "downloading"} /\ d.gen \in {NoGen, gen}

\* Mutated form: the cancellation does not reach the database.
Cancelled_InMemory(d) == d

Cancelled(d) == [d EXCEPT !.status = "failed"]

\* Mutated form: the update overwrites success.
Reset_Unguarded(d, s) ==
    [Described(d, s.named, s.planned, s.size) EXCEPT !.status = "pending"]

(***************************************************************************)
(* UpdateDownloadStatus(..., "pending", ...) with the metadata of an       *)
(* earlier read s of the row, as recovery calls it.  It checks no          *)
(* generation: any row that is not success or conflict becomes pending.    *)
(***************************************************************************)
Reset(d, s) ==
    IF d.status \in {"success", "conflict"} THEN d
    ELSE [Described(d, s.named, s.planned, s.size) EXCEPT !.status = "pending"]

\* ResolveTargetConflict of the database; fails unless the row is in conflict.
ConflictResolved(d, gen) ==
    [d EXCEPT !.status = "pending", !.tried = FALSE, !.gen = gen, !.due = TRUE]

-----------------------------------------------------------------------------
(***************************************************************************)
(* Archive jobs.  A claim names the process that claimed the job; 0 is ''. *)
(***************************************************************************)
JobStates == {"none", "pending", "copying", "archived", "conflict"}

Claims == 0 .. MaxCrashes + 1

Jobs == [state : JobStates, sha : Contents \cup {None}, size : Sizes,
         claim : Claims, due : BOOLEAN]

NoJob == [state |-> "none", sha |-> None, size |-> 0, claim |-> 0, due |-> TRUE]

\* ensureArchiveJobLocked: a second completion never alters an active job.
Enqueued(j, size, sha) ==
    IF j.state = "none"
    THEN [j EXCEPT !.state = "pending", !.sha = sha, !.size = size]
    ELSE IF j.state = "pending" /\ <<j.size, j.sha>> # <<size, sha>>
    THEN [j EXCEPT !.state = "conflict"]
    ELSE j

\* CompleteDownloadAndQueueArchive on record r: row and job in one transaction.
CompleteDownloadAndQueueArchive(r, size, sha) ==
    /\ row' = [row EXCEPT ![r] = Completed(@, size, sha)]
    /\ job' = IF ArchiveOn THEN [job EXCEPT ![r] = Enqueued(@, size, sha)] ELSE job

ClaimOK(j) == j.state = "pending"

\* Mutated form: a claimed job is not marked as copying.
ClaimArchiveJob_Unmarked(j, claim) == [j EXCEPT !.claim = claim]

ClaimArchiveJob(j, claim) == [j EXCEPT !.state = "copying", !.claim = claim]

\* The claim guard shared by the methods that end a copy.
Claimed(j, claim) == j.state = "copying" /\ j.claim \in {0, claim}

ArchiveCompleteOK(j, claim, sha) ==
    \/ Claimed(j, claim) /\ j.sha = sha
    \/ j.state = "archived" /\ j.sha = sha

ArchiveCompleted(j) == [j EXCEPT !.state = "archived", !.claim = 0]

\* Mutated form: a failed copy is given up.
FailArchiveJob_Abandons(j, claim) ==
    IF Claimed(j, claim) THEN [j EXCEPT !.state = "failed", !.claim = 0] ELSE j

FailArchiveJob(j, claim) ==
    IF Claimed(j, claim)
    THEN [j EXCEPT !.state = "pending", !.claim = 0, !.due = FALSE]
    ELSE j

SetArchiveJobConflict(j, claim) ==
    IF j.state \in {"pending", "copying"} /\ j.claim \in {0, claim}
    THEN [j EXCEPT !.state = "conflict", !.claim = 0]
    ELSE j

\* Mutated form: an interrupted copy is left alone.
RecoverStaleArchiveJob_Skips(j) == j

RecoverStaleArchiveJob(j) == [j EXCEPT !.state = "pending", !.claim = 0]

DatabaseTypeOK ==
    /\ row \in [Records -> Rows]
    /\ job \in [Records -> Jobs]

DatabaseInit ==
    /\ row = [r \in Records |-> AbsentRow]
    /\ job = [r \in Records |-> NoJob]
=============================================================================
