--------------------------- MODULE StorageProofs ----------------------------
(***************************************************************************)
(* What is true of the two disks and the database for any set of records   *)
(* and contents and any number of faults, crashes, attempts and edits.     *)
(*                                                                         *)
(* Most steps of the daemon are quiet: they touch neither the archive disk *)
(* nor its worker, keep success rows and complete final files, and give a  *)
(* job only to a success row.  The first part says what the operations of  *)
(* the database do to a row and to a job, the second that the steps of the *)
(* download side are quiet; the third looks one by one at the steps of the *)
(* archive worker, the recovery of its jobs, and crashes.                  *)
(***************************************************************************)
EXTENDS Properties, TLAPS

(***************************************************************************)
(* The columns the argument needs are there.                               *)
(***************************************************************************)
IsRow(d) == {"status", "sha"} \subseteq DOMAIN d

IsJob(j) == {"state", "sha"} \subseteq DOMAIN j

Shape ==
    /\ DOMAIN row = Records /\ \A r \in Records : IsRow(row[r])
    /\ DOMAIN job = Records /\ \A r \in Records : IsJob(job[r])
    /\ DOMAIN final = Records /\ DOMAIN moving = Records /\ DOMAIN hdd = Records
    /\ DOMAIN aw = {"pc", "r"}

StorageInv == Shape /\ ArchiveInv

\* An update of a row that keeps a success.
Keeps(d, e) ==
    /\ IsRow(e)
    /\ d.status = "success" => e.status = "success" /\ e.sha = d.sha

\* Ingesting a message again keeps a success.
LEMMA IngestedKeeps ==
    ASSUME NEW d, IsRow(d), NEW size PROVE Keeps(d, Ingested(d, size))
BY DEF IsRow, Keeps, Ingested

\* EnsureDownloadRecord keeps a success.
LEMMA EnsuredKeeps ==
    ASSUME NEW d, IsRow(d), NEW planned, NEW size PROVE Keeps(d, Ensured(d, planned, size))
BY DEF IsRow, Keeps, Ensured

\* New metadata leaves status and digest alone.
LEMMA DescribedKeeps ==
    ASSUME NEW d, IsRow(d), NEW named, NEW planned, NEW size
    PROVE  /\ IsRow(Described(d, named, planned, size))
           /\ Described(d, named, planned, size).status = d.status
           /\ Described(d, named, planned, size).sha = d.sha
BY DEF IsRow, Described

\* BeginDownload keeps a success: it refuses the row.
LEMMA BegunKeeps ==
    ASSUME NEW d, IsRow(d), NEW gen, NEW named, NEW planned, NEW size, BeginOK(d, gen)
    PROVE  Keeps(d, Begun(d, gen, named, planned, size))
BY DescribedKeeps DEF IsRow, Keeps, Begun, BeginOK

\* PrepareDownloadCommit keeps a success.
LEMMA PreparedKeeps ==
    ASSUME NEW d, IsRow(d), NEW size, NEW sha PROVE Keeps(d, Prepared(d, size, sha))
BY DEF IsRow, Keeps, Prepared

\* RecordTargetConflict keeps a success.
LEMMA ConflictedKeeps ==
    ASSUME NEW d, IsRow(d), NEW gen, NEW named, NEW planned, NEW size
    PROVE  Keeps(d, Conflicted(d, gen, named, planned, size))
BY DescribedKeeps DEF IsRow, Keeps, Conflicted

\* FailDownload keeps a success, whatever the error.
LEMMA FailedKeeps ==
    ASSUME NEW d, IsRow(d), NEW kind, NEW gen, NEW named, NEW planned, NEW size
    PROVE  Keeps(d, Failed(d, kind, gen, named, planned, size))
BY DescribedKeeps DEF IsRow, Keeps, Failed

\* CancelDownload keeps a success: it refuses the row.
LEMMA CancelledKeeps ==
    ASSUME NEW d, IsRow(d), NEW gen, CancelOK(d, gen) PROVE Keeps(d, Cancelled(d))
BY DEF IsRow, Keeps, CancelOK, Cancelled

\* UpdateDownloadStatus keeps a success, although it checks no generation.
LEMMA ResetKeeps ==
    ASSUME NEW d, IsRow(d), NEW s PROVE Keeps(d, Reset(d, s))
BY DescribedKeeps DEF IsRow, Keeps, Reset

\* ResolveTargetConflict changes only rows in conflict.
LEMMA ResolvedKeeps ==
    ASSUME NEW d, IsRow(d), NEW gen, d.status = "conflict"
    PROVE  Keeps(d, ConflictResolved(d, gen))
BY DEF IsRow, Keeps, ConflictResolved

\* A second completion keeps a success: it must bring the same digest.
LEMMA CompletedKeeps ==
    ASSUME NEW d, IsRow(d), NEW gen, NEW size, NEW sha, CompleteOK(d, gen, size, sha)
    PROVE  /\ Keeps(d, Completed(d, size, sha))
           /\ Completed(d, size, sha).status = "success"
           /\ Completed(d, size, sha).sha = sha
BY DEF IsRow, Keeps, CompleteOK, Completed

-----------------------------------------------------------------------------
\* A step of the download side gives a job to a success row, or flags a clash.
JobKept(r) ==
    \/ job'[r] = job[r]
    \/ /\ job[r].state = "none" /\ job'[r].state = "pending"
       /\ row'[r].status = "success" /\ row'[r].sha = job'[r].sha
    \/ /\ job[r].state = "pending" /\ job'[r].state \in {"pending", "conflict"}
       /\ job'[r].sha = job[r].sha

RowsKept == DOMAIN row' = Records /\ \A r \in Records : Keeps(row[r], row'[r])

JobsKept == DOMAIN job' = Records /\ \A r \in Records : IsJob(job'[r]) /\ JobKept(r)

FinalKept ==
    /\ DOMAIN final' = Records
    /\ \A r \in Records : final[r] \in Contents => final'[r] = final[r]

Quiet ==
    /\ RowsKept /\ JobsKept /\ FinalKept
    /\ UNCHANGED <<moving, hdd, aw>>
    /\ Up => Up'

\* A quiet step preserves the invariant.
LEMMA QuietKeepsInv == StorageInv /\ Quiet => StorageInv'
<1> SUFFICES ASSUME StorageInv, Quiet PROVE StorageInv'
    OBVIOUS
<1> USE DEF StorageInv, Quiet, RowsKept, JobsKept, FinalKept
<1>1. Shape'
    BY DEF Shape, Keeps
<1>2. ASSUME NEW r \in Records
      PROVE  /\ job'[r].state # "none" => row'[r].status = "success" /\ row'[r].sha = job'[r].sha
             /\ job'[r].state = "archived" => hdd'[r] = job'[r].sha
    BY <1>2 DEF ArchiveInv, JobKept, Keeps
<1>3. aw.pc # "idle" => aw.r \in Records /\ job'[aw.r] = job[aw.r]
    BY DEF ArchiveInv, JobKept, AwAt
<1>4. ArchiveInv'
    BY <1>2, <1>3 DEF ArchiveInv, AwAt, AwIdle
<1> QED
    BY <1>1, <1>4

\* A step that leaves rows alone keeps them; likewise jobs and final files.
LEMMA UnchangedKept ==
    ASSUME StorageInv
    PROVE  /\ UNCHANGED row => RowsKept
           /\ UNCHANGED job => JobsKept
           /\ UNCHANGED final => FinalKept
BY DEF StorageInv, Shape, RowsKept, JobsKept, FinalKept, Keeps, JobKept

\* The completion of a download, by whoever proves it, keeps rows and jobs.
LEMMA CompletionKept ==
    ASSUME StorageInv, NEW r, NEW size, NEW sha,
           r \in Records => (row[r].status = "success" => row[r].sha = sha),
           CompleteDownloadAndQueueArchive(r, size, sha)
    PROVE  RowsKept /\ JobsKept
<1>1. RowsKept
    BY DEF StorageInv, Shape, RowsKept, IsRow, Keeps, CompleteDownloadAndQueueArchive, Completed
<1>2. r \in Records => row'[r].status = "success" /\ row'[r].sha = sha
    BY DEF StorageInv, Shape, IsRow, CompleteDownloadAndQueueArchive, Completed
<1>3. ASSUME NEW j, IsJob(j)
      PROVE  /\ IsJob(Enqueued(j, size, sha))
             /\ \/ Enqueued(j, size, sha) = j
                \/ /\ j.state = "none" /\ Enqueued(j, size, sha).state = "pending"
                   /\ Enqueued(j, size, sha).sha = sha
                \/ /\ j.state = "pending" /\ Enqueued(j, size, sha).state = "conflict"
                   /\ Enqueued(j, size, sha).sha = j.sha
    BY <1>3 DEF IsJob, Enqueued
<1>4. JobsKept
    BY <1>2, <1>3 DEF StorageInv, Shape, JobsKept, JobKept, CompleteDownloadAndQueueArchive
<1> QED
    BY <1>1, <1>4

-----------------------------------------------------------------------------
\* An update of one row that keeps a success keeps all rows.
LEMMA OneRowKept ==
    ASSUME StorageInv, NEW r, NEW e, r \in Records => Keeps(row[r], e),
           row' = [row EXCEPT ![r] = e]
    PROVE  RowsKept
BY DEF StorageInv, Shape, RowsKept, Keeps

-----------------------------------------------------------------------------
(***************************************************************************)
(* The steps of the download side are quiet: scanner, dispatcher, workers, *)
(* finalizer, startup recovery up to its visit of interrupted copies,      *)
(* users, Telegram and the clock.                                          *)
(***************************************************************************)

\* What a worker records about a failure keeps a success.
LEMMA DispositionKeeps ==
    ASSUME NEW r, NEW stated, NEW d, IsRow(d) PROVE Keeps(d, Disposition(r, stated, d))
<1>1. Keeps(d, d)
    BY DEF Keeps
<1> QED
    BY <1>1, ConflictedKeeps, FailedKeeps, Zenon DEF Disposition

\* Either call of BeginDownload, with every branch on its result.
LEMMA BeginQuiet ==
    ASSUME StorageInv, NEW r \in Records, NEW named, NEW planned, NEW size,
           NEW state, NEW next,
           BeginDownload(r, named, planned, size, state, next), UNCHANGED <<aw, mode>>
    PROVE  Quiet
<1>1. UNCHANGED <<job, diskVars>>
    BY DEF BeginDownload, dbVars
<1>2. RowsKept
  <2>1. CASE /\ BeginOK(row[r], Task(r).gen)
             /\ row' = [row EXCEPT ![r] = Begun(@, Task(r).gen, named, planned, size)]
      <3>1. Keeps(row[r], Begun(row[r], Task(r).gen, named, planned, size))
          BY <2>1, BegunKeeps DEF StorageInv, Shape
      <3> QED
          BY <2>1, <3>1, OneRowKept, Zenon
  <2>2. CASE UNCHANGED row
      BY <2>2, UnchangedKept
  <2> QED
      BY <2>1, <2>2 DEF BeginDownload, dbVars
<1> QED
    BY <1>1, <1>2, UnchangedKept DEF Quiet, diskVars, Up

\* The move of a .part onto its final name replaces no file.
LEMMA PublishedKept ==
    ASSUME StorageInv, NEW r, NEW failure,
           final' = [final EXCEPT ![r] = PublishedFile(part[r], @, failure)]
    PROVE  FinalKept
BY ContentsAssumption, SMTT(30) DEF StorageInv, Shape, FinalKept, PublishedFile, Moves

\* Every step of downloadOne is quiet.
LEMMA WorkerQuiet ==
    ASSUME StorageInv, NEW r \in Records, Worker(r), UNCHANGED <<aw, mode>>
    PROVE  Quiet
<1> USE UnchangedKept DEF Quiet, dbVars, diskVars, Up
<1>1. CASE Begin(r)
    BY <1>1, BeginQuiet DEF Begin
<1>2. CASE Resolve(r)
    BY <1>2 DEF Resolve
<1>3. CASE CheckFinal(r)
  <2>1. CASE UNCHANGED <<row, job>>
      BY <1>3, <2>1 DEF CheckFinal
  <2>2. CASE CompleteDownloadAndQueueArchive(r, row[r].size, row[r].sha)
      BY <1>3, <2>2, CompletionKept DEF CheckFinal
  <2> QED
      BY <1>3, <2>1, <2>2 DEF CheckFinal
<1>4. CASE RequeueTask(r)
    BY <1>4 DEF RequeueTask
<1>5. CASE Begin2(r)
    BY <1>5, BeginQuiet, Zenon DEF Begin2
<1>6. CASE OpenPart(r)
    BY <1>6 DEF OpenPart
<1>7. CASE Transfer(r)
  <2>1. FinalKept
      BY <1>7, ContentsAssumption DEF Transfer, StorageInv, Shape, FinalKept
  <2> QED
      BY <1>7, <2>1, SMTT(30) DEF Transfer
<1>8. CASE Seal(r)
    BY <1>8 DEF Seal
<1>9. CASE Gate(r)
    BY <1>9 DEF Gate
<1>10. CASE Prepare(r)
  <2>1. RowsKept
    <3>1. Keeps(row[r], Prepared(row[r], GotSize(r), w[r].got))
        BY PreparedKeeps DEF StorageInv, Shape
    <3> QED
        BY <1>10, <3>1, OneRowKept, Zenon DEF Prepare
  <2> QED
      BY <1>10, <2>1 DEF Prepare
<1>11. CASE Publish(r)
    BY <1>11, PublishedKept, Zenon DEF Publish
<1>12. CASE Complete(r)
  <2>1. CASE UNCHANGED <<row, job>>
      BY <1>12, <2>1 DEF Complete
  <2>2. CASE /\ CompleteOK(row[r], Task(r).gen, GotSize(r), w[r].got)
             /\ CompleteDownloadAndQueueArchive(r, GotSize(r), w[r].got)
    <3>1. row[r].status = "success" => row[r].sha = w[r].got
        BY <2>2 DEF CompleteOK
    <3> QED
        BY <1>12, <2>2, <3>1, CompletionKept DEF Complete
  <2> QED
      BY <1>12, <2>1, <2>2 DEF Complete
<1>13. CASE SucceedResult(r) \/ EndFailed(r)
    BY <1>13, Zenon DEF SucceedResult, EndFailed, EndTask
<1>14. CASE FailTask(r)
    BY <1>14 DEF FailTask
<1>15. CASE FailRow(r) \/ CommitRow(r)
  <2>1. \A stated : Keeps(row[r], Disposition(r, stated, row[r]))
      BY DispositionKeeps DEF StorageInv, Shape
  <2>2. RowsKept
    <3>1. CASE FailDownloadDisposition(r)
        BY Zenon, <2>1, <3>1, OneRowKept DEF FailDownloadDisposition
    <3>2. CASE UNCHANGED row
        BY <3>2
    <3> QED
        BY Zenon, <1>15, <3>1, <3>2 DEF FailRow, CommitRow
  <2> QED
      BY <1>15, <2>2 DEF FailRow, CommitRow
<1>16. CASE CancelRow(r)
  <2>1. CancelOK(row[r], Task(r).gen) => Keeps(row[r], Cancelled(row[r]))
      BY CancelledKeeps DEF StorageInv, Shape
  <2>2. Keeps(row[r], row[r])
      BY DEF Keeps, StorageInv, Shape
  <2>3. RowsKept
      BY <1>16, <2>1, <2>2, OneRowKept DEF CancelRow
  <2> QED
      BY <1>16, <2>3 DEF CancelRow
<1> QED
    BY SMTT(30), <1>1, <1>2, <1>3, <1>4, <1>5, <1>6, <1>7, <1>8, <1>9, <1>10, <1>11, <1>12,
       <1>13, <1>14, <1>15, <1>16 DEF Worker

\* Every step of a finalizer visit is quiet, online or at startup.
LEMMA FinQuiet ==
    ASSUME StorageInv, NEW online, FinStep(online), UNCHANGED <<aw, mode>>
    PROVE  Quiet
<1> USE UnchangedKept DEF Quiet, dbVars, diskVars, Up
<1>1. CASE \E r \in Records : FinPick(r)
    BY <1>1 DEF FinPick
<1>2. CASE FinInspect
    BY <1>2 DEF FinInspect
<1>3. CASE FinCommit
    BY <1>3, PublishedKept, Zenon DEF FinCommit
<1>4. CASE FinComplete
  <2>1. CASE UNCHANGED <<row, job>>
      BY <1>4, <2>1 DEF FinComplete
  <2>2. CASE /\ CompleteOK(row[fin.r], Snap.gen, Snap.size, Snap.sha)
             /\ CompleteDownloadAndQueueArchive(fin.r, Snap.size, Snap.sha)
    <3>1. row[fin.r].status = "success" => row[fin.r].sha = Snap.sha
        BY <2>2 DEF CompleteOK
    <3>2. RowsKept /\ JobsKept
        BY <2>2, <3>1, CompletionKept
    <3> QED
        BY <1>4, <3>2 DEF FinComplete
  <2> QED
      BY <1>4, <2>1, <2>2 DEF FinComplete
<1>5. CASE FinConflict
  <2>1. fin.r \in Records => Keeps(row[fin.r],
            Conflicted(row[fin.r], Snap.gen, Snap.named, Snap.planned, Snap.size))
      BY ConflictedKeeps DEF StorageInv, Shape
  <2>2. RowsKept
      BY <1>5, <2>1, OneRowKept DEF FinConflict
  <2> QED
      BY <1>5, <2>2 DEF FinConflict
<1>6. CASE FinReset
  <2>1. fin.r \in Records => Keeps(row[fin.r], Reset(row[fin.r], Snap))
      BY ResetKeeps DEF StorageInv, Shape
  <2>2. RowsKept
      BY <1>6, <2>1, OneRowKept DEF FinReset
  <2> QED
      BY <1>6, <2>2 DEF FinReset
<1>7. CASE FinTell(online)
    BY <1>7 DEF FinTell
<1> QED
    BY <1>1, <1>2, <1>3, <1>4, <1>5, <1>6, <1>7 DEF FinStep

(***************************************************************************)
(* CancelTasksByChatID fails only rows that CancelDownload accepts, none   *)
(* of which is a success.                                                  *)
(***************************************************************************)
LEMMA CancelTargetRows ==
    ASSUME CancelTarget
    PROVE  /\ DOMAIN row' = Records
           /\ \A r \in Records :
                \/ row'[r] = row[r]
                \/ /\ row'[r] = Cancelled(row[r])
                   /\ row[r].status \in {"pending", "downloading"}
<1> DEFINE Hit(Q) == {att[a].rec : a \in Q}
<1> DEFINE Written(Q, T) == row' = [r \in Records |->
                                     IF r \in Hit(Q) \cup {att[a].rec : a \in T}
                                     THEN Cancelled(row[r]) ELSE row[r]]
<1>0. PICK Q \in SUBSET CancelledInQueue : \E T \in SUBSET CancelledTasks(Hit(Q)) : Written(Q, T)
    BY Zenon DEF CancelTarget
<1>1. PICK T \in SUBSET CancelledTasks(Hit(Q)) : Written(Q, T)
    BY <1>0
<1>2. \A a \in Q : Cancellable(a)
    BY DEF CancelledInQueue
<1>3. \A a \in T : Cancellable(a)
    BY DEF CancelledTasks
<1>4. ASSUME NEW a, Cancellable(a)
      PROVE  row[att[a].rec].status \in {"pending", "downloading"}
    BY <1>4 DEF Cancellable, CancelOK
<1> QED
    BY <1>1, <1>2, <1>3, <1>4

\* Cancelling the tasks of a target keeps every success.
LEMMA CancelTargetKeeps ==
    ASSUME StorageInv, CancelTarget PROVE RowsKept
BY CancelTargetRows DEF RowsKept, Keeps, IsRow, Cancelled, StorageInv, Shape

\* Telegram, the users and the clock take quiet steps.
LEMMA EnvironmentQuiet ==
    ASSUME StorageInv, Environment PROVE Quiet
<1> USE UnchangedKept DEF Quiet, dbVars, diskVars, daemonVars, Up
<1>1. ASSUME NEW r \in Records, Edit(r) PROVE Quiet
    BY <1>1 DEF Edit
<1>2. ASSUME NEW r \in Records, StreamUpdate(r) PROVE Quiet
  <2>1. Keeps(row[r], Ingested(row[r], SizeOf[media[r]]))
      BY IngestedKeeps DEF StorageInv, Shape
  <2>2. RowsKept
      BY <1>2, <2>1, OneRowKept, Zenon DEF StreamUpdate
  <2> QED
      BY <1>2, <2>2, SMTT(30) DEF StreamUpdate
<1>3. ASSUME NEW r \in Records, WebSubmit(r) PROVE Quiet
  <2>1. ASSUME NEW planned, NEW size PROVE Keeps(row[r], Ensured(row[r], planned, size))
      BY EnsuredKeeps DEF StorageInv, Shape
  <2>2. RowsKept
      BY <1>3, <2>1, OneRowKept, Zenon DEF WebSubmit
  <2> QED
      BY <1>3, <2>2 DEF WebSubmit
<1>4. ASSUME NEW r \in Records, ResolveTargetConflict(r) PROVE Quiet
  <2>1. Keeps(row[r], ConflictResolved(row[r], stamp'))
      BY <1>4, ResolvedKeeps DEF StorageInv, Shape, ResolveTargetConflict
  <2>2. RowsKept
      BY <1>4, <2>1, OneRowKept, Zenon DEF ResolveTargetConflict
  <2> QED
      BY <1>4, <2>2, SMTT(30) DEF ResolveTargetConflict
<1>5. CASE PauseResume \/ SwitchTarget \/ RefreshTargetCache
    BY <1>5, SMTT(30) DEF PauseResume, SwitchTarget, RefreshTargetCache
<1>6. CASE CancelTarget
  <2>1. RowsKept
      BY <1>6, CancelTargetKeeps
  <2> QED
      BY <1>6, <2>1 DEF CancelTarget
<1>7. CASE Tick
  <2>1. RowsKept
      BY <1>7 DEF Tick, StorageInv, Shape, RowsKept, Keeps, IsRow
  <2>2. JobsKept
      BY <1>7 DEF Tick, StorageInv, Shape, JobsKept, JobKept, IsJob
  <2> QED
      BY <1>7, <2>1, <2>2, SMTT(30) DEF Tick
<1> QED
    BY <1>1, <1>2, <1>3, <1>4, <1>5, <1>6, <1>7, SMTT(30) DEF Environment

\* The backlog fill of startup recovery gives jobs to success rows only.
LEMMA BootArchiveQuiet ==
    ASSUME StorageInv, BootArchive PROVE Quiet
<1> DEFINE Filled == [r \in Records |->
                        IF row[r].status = "success" /\ job[r].state = "none"
                        THEN Enqueued(job[r], row[r].size, row[r].sha) ELSE job[r]]
<1>1. job' \in {job, Filled}
    BY DEF BootArchive
<1>2. UNCHANGED <<row, diskVars, aw>> /\ ~Up
    BY DEF BootArchive, Up
<1>3. ASSUME NEW r \in Records, job[r].state = "none"
      PROVE  LET j == Enqueued(job[r], row[r].size, row[r].sha)
             IN  IsJob(j) /\ j.state = "pending" /\ j.sha = row[r].sha
    BY <1>3 DEF StorageInv, Shape, IsJob, Enqueued
<1>4. CASE job' = Filled
  <2>1. JobsKept
      BY <1>2, <1>3, <1>4 DEF StorageInv, Shape, JobsKept, JobKept
  <2> QED
      BY <1>2, <2>1, UnchangedKept, SMTT(30) DEF Quiet, diskVars
<1>5. CASE job' = job
    BY <1>2, <1>5, UnchangedKept DEF Quiet, diskVars
<1> QED
    BY <1>1, <1>4, <1>5, SMTT(30)

\* Startup recovery is quiet until it visits interrupted copies.
LEMMA BootQuiet ==
    ASSUME StorageInv,
           BootCommitting \/ BootReconcile \/ BootDownloading \/ BootArchive \/ StartUp
             \/ \E r \in Records : RecoverDownloading(r)
    PROVE  Quiet
<1> USE UnchangedKept DEF Quiet, dbVars, diskVars, daemonVars, Up
<1>1. CASE BootCommitting
    BY <1>1 DEF BootCommitting, FinList
<1>2. CASE BootReconcile
    BY <1>2, FinQuiet, Zenon DEF BootReconcile
<1>3. CASE BootDownloading \/ StartUp
    BY <1>3 DEF BootDownloading, StartUp
<1>4. CASE BootArchive
    BY <1>4, BootArchiveQuiet, SMTT(30)
<1>5. ASSUME NEW r \in Records, RecoverDownloading(r) PROVE Quiet
  <2>1. Keeps(row[r], Reset(row[r], row[r]))
      BY ResetKeeps, Zenon DEF StorageInv, Shape
  <2>2. RowsKept
      BY <1>5, <2>1, OneRowKept DEF RecoverDownloading
  <2> QED
      BY <1>5, <2>2 DEF RecoverDownloading
<1> QED
    BY <1>1, <1>2, <1>3, <1>4, <1>5, SMTT(30)

\* The goroutines of the download side take quiet steps.
LEMMA DownloadSideQuiet ==
    ASSUME StorageInv,
           Scanner \/ Dispatcher \/ FinalizerPass \/ Reconcile
             \/ \E r \in Records : Download(r)
    PROVE  Quiet
<1> USE UnchangedKept DEF Quiet, dbVars, diskVars, daemonVars, Up
<1>1. CASE Scanner
    BY <1>1, Zenon DEF Scanner, ScanList, ScanSubmit
<1>2. CASE Dispatcher
    BY <1>2, SMTT(30) DEF Dispatcher, Dispatch
<1>3. CASE FinalizerPass
    BY <1>3 DEF FinalizerPass, FinList
<1>4. CASE Reconcile
    BY <1>4, FinQuiet, Zenon DEF Reconcile
<1>5. ASSUME NEW r \in Records, Download(r) PROVE Quiet
    BY <1>5, WorkerQuiet DEF Download
<1> QED
    BY <1>1, <1>2, <1>3, <1>4, <1>5

-----------------------------------------------------------------------------
(***************************************************************************)
(* The archive worker, the recovery of its jobs, crashes, and the results. *)
(***************************************************************************)

(***************************************************************************)
(* What one step may not do; the bodies of the two action properties.      *)
(***************************************************************************)
SuccessStep ==
    \A r \in Records :
        /\ row[r].status = "success" =>
               row'[r].status = "success" /\ row'[r].sha = row[r].sha
        /\ job[r].state = "archived" =>
               job'[r].state = "archived" /\ job'[r].sha = job[r].sha

FinalStep ==
    \A r \in Records :
        final[r] \in Contents /\ final'[r] # final[r] =>
            /\ final'[r] = None
            /\ job[r].state = "archived"
            /\ row[r].status = "success"
            /\ hdd[r] = row[r].sha

SafeStep == StorageInv' /\ SuccessStep /\ FinalStep

\* A quiet step is safe.
LEMMA QuietSafe == StorageInv /\ Quiet => SafeStep
<1> SUFFICES ASSUME StorageInv, Quiet PROVE SafeStep
    OBVIOUS
<1>1. SuccessStep
    BY DEF SuccessStep, Quiet, RowsKept, JobsKept, JobKept, Keeps
<1>2. FinalStep
    BY DEF FinalStep, Quiet, FinalKept
<1> QED
    BY <1>1, <1>2, QuietKeepsInv DEF SafeStep

(***************************************************************************)
(* The steps of the archive worker.  None of them touches a row.           *)
(***************************************************************************)
\* A claim takes a pending job, which no other step of the worker holds.
LEMMA ClaimSafe ==
    ASSUME StorageInv, Up, UNCHANGED mode, NEW r \in Records, AwClaim(r) PROVE SafeStep
<1> USE DEF AwClaim, ClaimOK, ClaimArchiveJob, StorageInv, dbVars, diskVars
<1>1. Shape'
    BY DEF Shape, IsJob
<1>2. /\ job'[r].state = "copying" /\ job'[r].sha = job[r].sha
      /\ \A q \in Records \ {r} : job'[q] = job[q]
    BY DEF Shape, IsJob
<1>3. ArchiveInv'
    BY <1>2 DEF ArchiveInv, AwAt, Up
<1>4. SuccessStep
    BY <1>2 DEF SuccessStep
<1>5. FinalStep
    BY DEF FinalStep
<1> QED
    BY <1>1, <1>3, <1>4, <1>5 DEF SafeStep

\* What the worker finds out about files changes none of them.
LEMMA ProbeSafe ==
    ASSUME StorageInv, Up, UNCHANGED mode, AwProbe PROVE SafeStep
<1> USE DEF AwProbe, StorageInv, dbVars, diskVars
<1>1. /\ UNCHANGED <<row, job, part, final, moving, hdd>>
      /\ aw' = [aw EXCEPT !.pc = aw'.pc]
      /\ aw'.pc \in {"fail", "conflict", "open", "complete"}
    BY DEF AwGoto, SourceVerdicts, TargetVerdict, Shape
<1>2. aw'.pc = "complete" => hdd[aw.r] = job[aw.r].sha
    BY DEF AwGoto, SourceVerdicts, TargetVerdict, Matches, Shape
<1>3. Shape'
    BY <1>1 DEF Shape
<1>4. ArchiveInv'
    BY <1>1, <1>2 DEF ArchiveInv, AwAt, Up, Shape
<1>5. SuccessStep /\ FinalStep
    BY <1>1 DEF SuccessStep, FinalStep
<1> QED
    BY <1>3, <1>4, <1>5 DEF SafeStep

\* The copy writes .moving only, and commits only what it has verified.
LEMMA CopySafe ==
    ASSUME StorageInv, Up, UNCHANGED mode, AwOpen \/ AwCopy PROVE SafeStep
<1> USE DEF AwOpen, AwCopy, StorageInv, dbVars
<1>1. /\ UNCHANGED <<row, job, part, final, hdd>>
      /\ AwAt("open") \/ AwAt("copy")
      /\ aw' = [aw EXCEPT !.pc = aw'.pc]
      /\ aw'.pc \in {"copy", "fail", "commit"}
    BY DEF AwGoto, AwAt, Shape
<1>2. DOMAIN moving' = Records
    BY DEF Shape
<1>3. aw'.pc = "commit" => moving'[aw.r] = job[aw.r].sha
    BY DEF AwGoto, Matches, Shape, ArchiveInv, AwAt
<1>4. Shape'
    BY <1>1, <1>2 DEF Shape
<1>5. ArchiveInv'
    BY <1>1, <1>3 DEF ArchiveInv, AwAt, Up, Shape
<1>6. SuccessStep /\ FinalStep
    BY <1>1 DEF SuccessStep, FinalStep
<1> QED
    BY <1>4, <1>5, <1>6 DEF SafeStep

\* The rename fills an empty target with the verified copy.
LEMMA CommitSafe ==
    ASSUME StorageInv, Up, UNCHANGED mode, AwCommit PROVE SafeStep
<1> USE DEF AwCommit, StorageInv, dbVars
<1>1. /\ UNCHANGED <<row, job, part, final>>
      /\ aw.pc = "commit"
      /\ aw' = [aw EXCEPT !.pc = aw'.pc]
      /\ aw'.pc \in {"complete", "conflict", "fail"}
    BY DEF AwGoto, AwAt, Shape, CommitError
<1>2. DOMAIN moving' = Records /\ DOMAIN hdd' = Records
    BY DEF Shape
<1>3. \A q \in Records \ {aw.r} : hdd'[q] = hdd[q]
    BY DEF Shape
<1>4. aw'.pc = "complete" => hdd'[aw.r] = job[aw.r].sha
    BY <1>1 DEF AwGoto, Shape, CommitError, PublishedFile, Moves, ArchiveInv, AwAt
<1>5. Shape'
    BY <1>1, <1>2 DEF Shape
<1>6. ArchiveInv'
    BY <1>1, <1>3, <1>4 DEF ArchiveInv, AwAt, Up, Shape
<1>7. SuccessStep /\ FinalStep
    BY <1>1 DEF SuccessStep, FinalStep
<1> QED
    BY <1>5, <1>6, <1>7 DEF SafeStep

\* The three ways in which a copy ends keep the digest of the job.
LEMMA EndedJob ==
    ASSUME NEW j, IsJob(j), j.state = "copying", NEW claim
    PROVE  /\ IsJob(ArchiveCompleted(j)) /\ ArchiveCompleted(j).sha = j.sha
           /\ ArchiveCompleted(j).state = "archived"
           /\ IsJob(FailArchiveJob(j, claim)) /\ FailArchiveJob(j, claim).sha = j.sha
           /\ FailArchiveJob(j, claim).state \in {"pending", "copying"}
           /\ IsJob(SetArchiveJobConflict(j, claim)) /\ SetArchiveJobConflict(j, claim).sha = j.sha
           /\ SetArchiveJobConflict(j, claim).state \in {"conflict", "copying"}
<1> USE DEF IsJob
<1>1. IsJob(ArchiveCompleted(j)) /\ ArchiveCompleted(j).sha = j.sha
      /\ ArchiveCompleted(j).state = "archived"
    BY DEF ArchiveCompleted
<1>2. IsJob(FailArchiveJob(j, claim)) /\ FailArchiveJob(j, claim).sha = j.sha
      /\ FailArchiveJob(j, claim).state \in {"pending", "copying"}
    BY DEF FailArchiveJob
<1>3. IsJob(SetArchiveJobConflict(j, claim)) /\ SetArchiveJobConflict(j, claim).sha = j.sha
      /\ SetArchiveJobConflict(j, claim).state \in {"conflict", "copying"}
    BY DEF SetArchiveJobConflict
<1> QED
    BY <1>1, <1>2, <1>3

\* A job ends where the worker leaves it, archived only with a proven target.
LEMMA EndSafe ==
    ASSUME StorageInv, Up, UNCHANGED mode, AwComplete \/ AwEnd PROVE SafeStep
<1> DEFINE j == job[aw.r]
<1>1. /\ UNCHANGED <<row, part, final, moving, hdd>>
      /\ aw.pc \in {"complete", "fail", "conflict"}
      /\ aw.r \in Records /\ j.state = "copying" /\ IsJob(j)
    BY DEF AwComplete, AwEnd, AwAt, ArchiveInv, diskVars, StorageInv, Shape
<1> DEFINE e == job'[aw.r]
<1>2. /\ DOMAIN job' = Records
      /\ \A q \in Records \ {aw.r} : job'[q] = job[q]
  <2>1. UNCHANGED job \/ \E k : job' = [job EXCEPT ![aw.r] = k]
      BY Zenon DEF AwComplete, AwEnd, dbVars
  <2>2. DOMAIN job = Records
      BY Zenon DEF StorageInv, Shape
  <2> QED
      BY Zenon, <2>1, <2>2
<1>3. /\ IsJob(e) /\ e.sha = j.sha
      /\ \/ aw' = AwIdle /\ e.state \in {"pending", "copying", "conflict"}
         \/ /\ aw.pc = "complete" /\ aw' = [aw EXCEPT !.pc = "remove"]
            /\ e.state = "archived"
  <2>1. CASE UNCHANGED job /\ aw' = AwIdle
      BY <1>1, <2>1
  <2>2. CASE job' = [job EXCEPT ![aw.r] = ArchiveCompleted(@)] /\ aw.pc = "complete" /\ AwGoto("remove")
    <3>1. e = ArchiveCompleted(j)
        BY <1>1, <2>2 DEF StorageInv, Shape
    <3> QED
        BY Zenon, <1>1, <2>2, <3>1, EndedJob DEF AwGoto
  <2>3. CASE aw' = AwIdle /\ job' = [job EXCEPT ![aw.r] = FailArchiveJob(@, Claim)]
    <3>1. e = FailArchiveJob(j, Claim)
        BY <1>1, <2>3 DEF StorageInv, Shape
    <3> QED
        BY <1>1, <2>3, <3>1, EndedJob, SMTT(30)
  <2>4. CASE aw' = AwIdle /\ job' = [job EXCEPT ![aw.r] = SetArchiveJobConflict(@, Claim)]
    <3>1. e = SetArchiveJobConflict(j, Claim)
        BY <1>1, <2>4 DEF StorageInv, Shape
    <3> QED
        BY <1>1, <2>4, <3>1, EndedJob
  <2> QED
      BY <2>1, <2>2, <2>3, <2>4 DEF AwComplete, AwEnd, AwAt
<1>4. Shape'
    BY <1>1, <1>2, <1>3 DEF StorageInv, Shape, AwIdle
<1>5. ArchiveInv'
    BY <1>1, <1>2, <1>3 DEF StorageInv, ArchiveInv, AwAt, AwIdle, Up, Shape
<1>6. SuccessStep /\ FinalStep
    BY <1>1, <1>2, <1>3 DEF SuccessStep, FinalStep
<1> QED
    BY Zenon, <1>4, <1>5, <1>6 DEF StorageInv, SafeStep

\* The source is deleted only beside an archived job and a proven target.
LEMMA RemoveSafe ==
    ASSUME StorageInv, Up, UNCHANGED mode, AwRemove PROVE SafeStep
<1> USE DEF AwRemove, StorageInv, dbVars
<1>1. /\ UNCHANGED <<row, job, moving, hdd>> /\ aw' = AwIdle
      /\ aw.r \in Records /\ job[aw.r].state = "archived"
    BY DEF AwAt, ArchiveInv
<1>2. DOMAIN final' = Records /\ \A q \in Records : final'[q] # final[q] => q = aw.r /\ final'[q] = None
    BY SMTT(30) DEF Shape
<1>3. Shape'
    BY Zenon, <1>1, <1>2 DEF Shape, AwIdle
<1>4. ArchiveInv'
    BY <1>1 DEF ArchiveInv, AwAt, AwIdle, Up
<1>5. SuccessStep /\ FinalStep
    BY <1>1, <1>2 DEF SuccessStep, FinalStep, ArchiveInv
<1> QED
    BY <1>3, <1>4, <1>5 DEF SafeStep

\* Any step of the archive worker.
LEMMA ArchiveSafe ==
    ASSUME StorageInv, Archive PROVE SafeStep
<1>1. Up /\ UNCHANGED mode /\ AwStep
    BY DEF Archive, daemonVars
<1> QED
    BY <1>1, ClaimSafe, ProbeSafe, CopySafe, CommitSafe, EndSafe, RemoveSafe, Zenon DEF AwStep

-----------------------------------------------------------------------------
\* Recovery calls an interrupted copy archived only when its target is proven.
LEMMA RecoverCopyingSafe ==
    ASSUME StorageInv, NEW r \in Records, RecoverCopying(r) PROVE SafeStep
<1> DEFINE j == job[r]
           e == job'[r]
<1>1. /\ UNCHANGED <<row, final, hdd, aw, mode>> /\ ~Up /\ aw = AwIdle
      /\ j.state = "copying" /\ IsJob(j)
      /\ DOMAIN moving' = Records
    BY Zenon DEF RecoverCopying, Up, StorageInv, Shape, ArchiveInv
<1>2. /\ DOMAIN job' = Records
      /\ \A q \in Records \ {r} : job'[q] = job[q]
      /\ e = j \/ e = RecoverStaleArchiveJob(j) \/ (ArchiveProven(r) /\ e = ArchiveCompleted(j))
    BY Zenon DEF RecoverCopying, StorageInv, Shape
<1>3. IsJob(RecoverStaleArchiveJob(j)) /\ RecoverStaleArchiveJob(j).sha = j.sha
      /\ RecoverStaleArchiveJob(j).state = "pending"
    BY Zenon, <1>1 DEF RecoverStaleArchiveJob, IsJob
<1>4. ArchiveProven(r) => hdd[r] = j.sha
    BY DEF ArchiveProven, Matches
<1>5. IsJob(e) /\ e.sha = j.sha /\ e.state # "none"
      /\ (e.state = "archived" => hdd[r] = e.sha)
  <2>1. /\ IsJob(ArchiveCompleted(j)) /\ ArchiveCompleted(j).sha = j.sha
        /\ ArchiveCompleted(j).state = "archived"
      BY Zenon, <1>1, EndedJob
  <2>2. CASE e = j
      BY Zenon, <1>1, <2>2
  <2>3. CASE e = RecoverStaleArchiveJob(j)
      BY Zenon, <1>3, <2>3
  <2>4. CASE ArchiveProven(r) /\ e = ArchiveCompleted(j)
      BY Zenon, <1>4, <2>1, <2>4
  <2> QED
      BY Zenon, <1>2, <2>2, <2>3, <2>4
<1> HIDE DEF e
<1>6. Shape'
  <2>1. \A q \in Records : IsJob(job'[q])
      BY Zenon, <1>2, <1>5 DEF StorageInv, Shape, e
  <2> QED
      BY Zenon, <1>1, <1>2, <2>1 DEF StorageInv, Shape, IsRow, IsJob
<1>7. ArchiveInv'
  <2>1. ASSUME NEW q \in Records
        PROVE  /\ job'[q].state # "none" => row[q].status = "success" /\ row[q].sha = job'[q].sha
               /\ job'[q].state = "archived" => hdd[q] = job'[q].sha
    <3>1. row[r].status = "success" /\ row[r].sha = j.sha
        BY Zenon, <1>1 DEF StorageInv, ArchiveInv
    <3>2. CASE q = r
        BY Zenon, <1>5, <3>1, <3>2 DEF e
    <3>3. CASE q # r
        BY Zenon, <1>2, <3>3 DEF StorageInv, ArchiveInv
    <3> QED
        BY <3>2, <3>3
  <2>2. aw' = AwIdle /\ AwIdle.pc = "idle"
      BY SMTT(30), <1>1 DEF AwIdle
  <2> QED
      BY Zenon, <1>1, <2>1, <2>2 DEF ArchiveInv, AwAt
<1>8. SuccessStep /\ FinalStep
    BY <1>1, <1>2 DEF SuccessStep, FinalStep
<1> QED
    BY Zenon, <1>6, <1>7, <1>8 DEF StorageInv, SafeStep

\* Recovery deletes the source of a job it has just called archived.
LEMMA RecoverSourceSafe ==
    ASSUME StorageInv, NEW r \in Records, RecoverSource(r) PROVE SafeStep
<1>1. /\ UNCHANGED <<row, job, moving, hdd, aw, mode>>
      /\ job[r].state = "archived"
    BY Zenon DEF RecoverSource, dbVars
<1>2. /\ DOMAIN final' = Records
      /\ \A q \in Records : final'[q] # final[q] => q = r /\ final'[q] = None
    BY Zenon DEF RecoverSource, StorageInv, Shape
<1>3. StorageInv'
    BY Zenon, <1>1, <1>2 DEF StorageInv, Shape, ArchiveInv, AwAt, Up
<1>4. SuccessStep /\ FinalStep
    BY Zenon, <1>1, <1>2 DEF SuccessStep, FinalStep, StorageInv, ArchiveInv
<1> QED
    BY Zenon, <1>3, <1>4 DEF SafeStep

\* A crash loses the archive worker and nothing that is durable.
LEMMA CrashSafe ==
    ASSUME StorageInv, Crash PROVE SafeStep
<1>1. UNCHANGED <<row, job, final, moving, hdd>> /\ aw' = AwIdle
    BY Zenon DEF Crash, dbVars, diskVars
<1>2. StorageInv'
    BY Zenon, <1>1 DEF StorageInv, Shape, ArchiveInv, AwAt, AwIdle
<1>3. SuccessStep /\ FinalStep
    BY <1>1 DEF SuccessStep, FinalStep
<1> QED
    BY <1>2, <1>3 DEF SafeStep

\* A shutdown request, and stuttering, are quiet.
LEMMA ShutdownQuiet ==
    ASSUME StorageInv, Shutdown \/ UNCHANGED vars PROVE Quiet
<1>1. UNCHANGED <<row, job, final, moving, hdd, aw>> /\ (Up => Up')
    BY DEF Shutdown, vars, dbVars, diskVars, daemonVars, Up
<1> QED
    BY <1>1, UnchangedKept DEF Quiet

-----------------------------------------------------------------------------
\* The invariant holds when the daemon is first started.
LEMMA StorageInit == Init => StorageInv
<1> SUFFICES ASSUME Init PROVE StorageInv
    BY Zenon
<1>1. Shape
    BY Zenon DEF Init, DiskInit, DatabaseInit, AbsentRow, NoJob, AwIdle, Shape, IsRow, IsJob
<1>2. ArchiveInv
    BY Zenon DEF Init, DatabaseInit, NoJob, AwIdle, ArchiveInv, AwAt
<1> QED
    BY <1>1, <1>2 DEF StorageInv

\* Every step preserves the invariant, every success and every complete file.
LEMMA StorageStep == StorageInv /\ [Next]_vars => SafeStep
<1> SUFFICES ASSUME StorageInv, [Next]_vars PROVE SafeStep
    OBVIOUS
<1>1. CASE Startup
  <2>1. CASE BootCommitting \/ BootReconcile \/ BootDownloading \/ BootArchive \/ StartUp
               \/ \E r \in Records : RecoverDownloading(r)
      BY <2>1, BootQuiet, QuietSafe, Zenon
  <2>2. CASE \E r \in Records : RecoverCopying(r) \/ RecoverSource(r)
      BY <2>2, RecoverCopyingSafe, RecoverSourceSafe, Zenon
  <2> QED
      BY <1>1, <2>1, <2>2, Zenon DEF Startup
<1>2. CASE Crash
    BY <1>2, CrashSafe
<1>3. CASE Shutdown \/ UNCHANGED vars
    BY <1>3, ShutdownQuiet, QuietSafe, Zenon
<1>4. CASE Scanner \/ Dispatcher \/ FinalizerPass \/ Reconcile
             \/ \E r \in Records : Download(r)
    BY <1>4, DownloadSideQuiet, QuietSafe, Zenon
<1>5. CASE Archive
    BY <1>5, ArchiveSafe
<1>6. CASE Environment
    BY <1>6, EnvironmentQuiet, QuietSafe, Zenon
<1> QED
    BY <1>1, <1>2, <1>3, <1>4, <1>5, <1>6, Zenon DEF Next

\* The inductive invariant holds throughout.
LEMMA StorageInvariant == Spec => []StorageInv
<1>1. StorageInv /\ [Next]_vars => StorageInv'
    BY StorageStep DEF SafeStep
<1> QED
    BY StorageInit, <1>1, PTL DEF Spec

(***************************************************************************)
(* The archive worker, startup recovery and every crash between their      *)
(* steps keep the ownership of a copying job (archive.go, recovery.go).    *)
(***************************************************************************)
THEOREM ArchiveOwned == Spec => []ArchiveInv
<1>1. StorageInv => ArchiveInv
    BY DEF StorageInv
<1> QED
    BY StorageInvariant, <1>1, PTL

(***************************************************************************)
(* An archived job always has its content on the archive disk, and it is   *)
(* the content the download row vouches for (CompleteArchiveJob and        *)
(* RecoverArchiveJobComplete).                                             *)
(***************************************************************************)
THEOREM ArchiveStored == Spec => []ArchivedIsStored
<1>1. StorageInv => ArchivedIsStored
    BY DEF StorageInv, ArchiveInv, ArchivedIsStored
<1> QED
    BY StorageInvariant, <1>1, PTL

(***************************************************************************)
(* No call of the database methods, in whatever order goroutines, users,   *)
(* recovery and crashes make them, takes a success or an archived job back *)
(* or changes its digest.                                                  *)
(***************************************************************************)
THEOREM SuccessStays == Spec => SuccessIsFinal
<1>1. StorageInv /\ [Next]_vars => [SuccessStep]_vars
    BY StorageStep DEF SafeStep
<1> QED
    BY StorageInvariant, <1>1, PTL DEF Spec, SuccessIsFinal, SuccessStep

(***************************************************************************)
(* A complete file on the SSD is never overwritten, and is deleted only    *)
(* when the archive disk holds the content the row vouches for.            *)
(***************************************************************************)
THEOREM FinalStays == Spec => FinalNeverReplaced
<1>1. StorageInv /\ [Next]_vars => [FinalStep]_vars
    BY StorageStep DEF SafeStep
<1> QED
    BY StorageInvariant, <1>1, PTL DEF Spec, FinalNeverReplaced, FinalStep
=============================================================================
