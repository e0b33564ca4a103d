---------------------------- MODULE Properties ----------------------------
(***************************************************************************)
(* What must be true of the daemon.                                        *)
(***************************************************************************)
EXTENDS Daemon

(***************************************************************************)
(* A record the database calls success has its content on the SSD or in    *)
(* the archive.  CompleteDownloadAndQueueArchive is called by the worker   *)
(* that renamed the .part and by a finalizer working on a row it read      *)
(* earlier, and the archive worker deletes SSD files behind both.          *)
(***************************************************************************)
SuccessIsStored ==
    \A r \in Records : row[r].status = "success" => row[r].sha \in {final[r], hdd[r]}

(***************************************************************************)
(* An archived job means that the archive disk holds exactly the content   *)
(* the download row vouches for, after any crash between the rename of     *)
(* .moving, CompleteArchiveJob and the removal of the source (archive.go), *)
(* and whatever file already had the name of the target.                   *)
(***************************************************************************)
ArchivedIsStored ==
    \A r \in Records :
        job[r].state = "archived" =>
            /\ row[r].status = "success"
            /\ row[r].sha = job[r].sha
            /\ hdd[r] = job[r].sha

(***************************************************************************)
(* Why ArchivedIsStored holds.  A job exists only beside a success row     *)
(* with its digest.  The archive worker, between two of its steps, owns a  *)
(* copying job (an archived one once it deletes the source), and no other  *)
(* goroutine and no recovery touches that job, its .moving or its target:  *)
(* what it verified is still there when it renames and when it completes.  *)
(***************************************************************************)
ArchiveInv ==
    /\ \A r \in Records :
          /\ job[r].state # "none" => row[r].status = "success" /\ row[r].sha = job[r].sha
          /\ job[r].state = "archived" => hdd[r] = job[r].sha
    /\ ~AwAt("idle") =>
          /\ aw.r \in Records
          /\ job[aw.r].state = IF AwAt("remove") THEN "archived" ELSE "copying"
    /\ AwAt("commit") => moving[aw.r] = job[aw.r].sha
    /\ AwAt("complete") => hdd[aw.r] = job[aw.r].sha
    /\ ~Up => aw = AwIdle

(***************************************************************************)
(* Success and archived are never taken back and never change their        *)
(* digest: not by a late failure or cancellation of an older attempt, not  *)
(* by a finalizer or a recovery that resets rows without a generation      *)
(* (UpdateDownloadStatus), not by a message that is ingested again.        *)
(***************************************************************************)
SuccessIsFinal ==
    [][\A r \in Records :
         /\ row[r].status = "success" =>
                row'[r].status = "success" /\ row'[r].sha = row[r].sha
         /\ job[r].state = "archived" =>
                job'[r].state = "archived" /\ job'[r].sha = job[r].sha]_vars

(***************************************************************************)
(* A complete file on the SSD is never overwritten (CommitSiblingPart),    *)
(* and it is deleted only when the job is archived and the archive holds   *)
(* the content the row vouches for (processJob, ReconcileOnStartup).       *)
(***************************************************************************)
FinalNeverReplaced ==
    [][\A r \in Records :
         final[r] \in Contents /\ final'[r] # final[r] =>
            /\ final'[r] = None
            /\ job[r].state = "archived"
            /\ row[r].status = "success"
            /\ hdd[r] = row[r].sha]_vars

(***************************************************************************)
(* The user interface shows an attempt as success only when the database   *)
(* does: SucceedResult and FinishTaskByMessage follow the transaction.     *)
(***************************************************************************)
ReportedIsDurable ==
    \A a \in Attempts : att[a].state = "success" => row[att[a].rec].status = "success"

(***************************************************************************)
(* The daemon as the finite promise of Vault: the step of every goroutine  *)
(* stores, promises, copies, releases, or does none of these.              *)
(***************************************************************************)
V == INSTANCE Vault WITH
        promised <- [r \in Records |-> IF row[r].status = "success" THEN row[r].sha ELSE None],
        ssd <- [r \in Records |-> IF final[r] \in Contents THEN final[r] ELSE None],
        archive <- hdd

KeepsVault == V!Spec

-----------------------------------------------------------------------------
(***************************************************************************)
(* A cancelled attempt never states a commit intent, although cancellation *)
(* races the worker from its last check (orchestrator.go, gate) to         *)
(* PrepareDownloadCommit: CancelDownload and Prepare exclude each other.   *)
(***************************************************************************)
CancelledNeverCommits ==
    [][\A r \in Records :
         row[r].status # "committing" /\ row'[r].status = "committing"
            => ~Task(r).cancelled]_vars

(***************************************************************************)
(* Only the current attempt of a record states a commit intent: a worker   *)
(* that was superseded by a retry cannot commit over the newer attempt.    *)
(***************************************************************************)
CurrentCommits ==
    [][\A r \in Records :
         row[r].status # "committing" /\ row'[r].status = "committing"
            => tasks[r] = w[r].a]_vars

(***************************************************************************)
(* Pruning finished ids (finishWithGen) never forgets a running attempt:   *)
(* the registry still lists it, so it can be seen and cancelled. This is   *)
(* checked without a crash followed by a failing call of the startup: a    *)
(* committing row of generation 1 that such a startup leaves behind lets   *)
(* the finalizer finish the first attempt of the new process while it      *)
(* waits in the queue, and Next (registry.go:412) hands it out again.      *)
(***************************************************************************)
ActiveIsListed ==
    \A r \in Records : ~At(r, "idle") /\ ~IsTerminal(w[r].a) => tasks[r] = w[r].a

(***************************************************************************)
(* An attempt waits in the queue at most once and is not running at the    *)
(* same time, through Submit, Requeue, RetryTaskWithDecider, cancellation  *)
(* and pruning.                                                            *)
(***************************************************************************)
WaitsOnce ==
    \A i \in DOMAIN queue :
        /\ w[att[queue[i]].rec].a # queue[i]
        /\ \A j \in DOMAIN queue : queue[j] = queue[i] => j = i

(***************************************************************************)
(* An attempt waits once, and what waits is the current attempt of its id, *)
(* with the same exception.                                                *)
(***************************************************************************)
QueuedOnce ==
    /\ WaitsOnce
    /\ \A i \in DOMAIN queue : tasks[att[queue[i]].rec] = queue[i]

-----------------------------------------------------------------------------
(***************************************************************************)
(* A record does not stay between commit intent and success: the worker,   *)
(* the online finalizer or the next startup moves it on, with a failing    *)
(* call and a crash anywhere on the way.                                   *)
(***************************************************************************)
CommittingResolves ==
    \A r \in Records : row[r].status = "committing" ~> row[r].status # "committing"

(***************************************************************************)
(* Every archive job is archived or in conflict in the end, also when the  *)
(* process dies while it is copying.                                       *)
(***************************************************************************)
ArchiveSettles ==
    \A r \in Records :
        job[r].state # "none" ~> job[r].state \in {"archived", "conflict"}

Settled(r) ==
    /\ row[r].status \in {"success", "conflict", "unavailable"}
    /\ job[r].state \in {"none", "archived", "conflict"}

(***************************************************************************)
(* Every known record of an enabled target is downloaded and archived, or  *)
(* reported in conflict or unavailable, in the end, also across a shutdown *)
(* or a crash, as long as no call fails.                                   *)
(***************************************************************************)
RecordSettles ==
    \A r \in Records : row[r].status # "absent" ~> Settled(r) \/ faults > 0

(***************************************************************************)
(* A start of the process repairs what failing calls left behind: once no  *)
(* more calls fail, a record that is known when the process starts is      *)
(* settled in the end, whatever the calls that failed before it had done   *)
(* to its row, its job, its files and the registry.                        *)
(***************************************************************************)
RestartSettles ==
    \A r \in Records :
        mode = "start" /\ faults = MaxFaults /\ row[r].status # "absent" ~> Settled(r)

-----------------------------------------------------------------------------
(***************************************************************************)
(* What documents and comments of the repository say and the code does not *)
(* do.                                                                     *)
(***************************************************************************)
(***************************************************************************)
(* The refactor plan: if the deletion of the source fails, "restart        *)
(* cleanup removes the duplicate" of an archived file.  Once startup       *)
(* recovery is over, an archived record has no SSD file.                   *)
(***************************************************************************)
RestartRemovesDuplicate ==
    [][\A r \in Records :
         mode = "archive" /\ mode' = "up" /\ job[r].state = "archived"
            => final[r] = None]_vars

(***************************************************************************)
(* The refactor plan: "a transient internal/network failure remains        *)
(* retryable".  When the scanner submits a due failed record whose last    *)
(* attempt has failed, and the queue has room, an attempt is admitted.     *)
(***************************************************************************)
TransientFailureRetried ==
    [][\A r \in Records :
         (/\ running
          /\ scan[r].status = "failed" /\ scan[r].tried /\ scan'[r] = AbsentRow
          /\ row[r].status = "failed"
          /\ tasks[r] # 0 /\ att[tasks[r]].state = "failed"
          /\ Len(queue) < QueueCapacity)
             => made' = made + 1]_vars

(***************************************************************************)
(* The recovery matrix of the refactor plan: a committing record with a    *)
(* mismatched .part and no final file means "preserve evidence".  The      *)
(* complete .part of a committing record is only ever moved to its final   *)
(* name.                                                                   *)
(***************************************************************************)
EvidencePreserved ==
    [][\A r \in Records :
         row[r].status = "committing" /\ final[r] = None
           /\ part[r] \in Contents /\ part'[r] # part[r]
            => final'[r] = part[r]]_vars
=============================================================================
