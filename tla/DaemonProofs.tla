---------------------------- MODULE DaemonProofs ----------------------------
(***************************************************************************)
(* The whole daemon is type correct, and what the registry reports as      *)
(* downloaded is a success in the database: the step of every goroutine, of *)
(* the users and of a crash, on the rows, on the finalizer and on who is   *)
(* about to report a success.                                              *)
(***************************************************************************)
EXTENDS WorkerProofs, StorageProofs

-----------------------------------------------------------------------------
(* Every step of the daemon, on the database *)

\* A worker's row is described by what it knows.
LEMMA GotTyped ==
    ASSUME NEW c \in Contents PROVE SizeOf[c] \in Sizes
BY Zenon DEF Sizes

\* What the finish of a cancelled or failed attempt writes is a row.
LEMMA DispositionTyped ==
    ASSUME RegOK, WorkersRun, NEW r \in Records, ~At(r, "idle"), NEW stated \in StatedSizes(r),
           NEW d \in Rows
    PROVE  Disposition(r, stated, d) \in Rows
<1> DEFINE q == Task(r).req
           resolved == w[r].got # None
           named == IF resolved THEN NameChanges ELSE q.named
           planned == IF resolved THEN TRUE ELSE q.planned
           size == IF resolved THEN GotSize(r) ELSE stated
           gen == Task(r).gen
<1>1. /\ gen \in Gens /\ q.named \in BOOLEAN /\ q.planned \in BOOLEAN /\ q.size \in Sizes
      /\ w[r].kind \in FailKinds \cup {"conflict"} /\ w[r].got \in Contents \cup {None}
  BY Zenon, RunTyped
<1>2. named \in BOOLEAN /\ planned \in BOOLEAN
  BY Zenon, <1>1, OrchestratorAssumption
<1>3. size \in Sizes
  BY Zenon, <1>1, SizesAreNat, GotTyped DEF GotSize, StatedSizes
<1>4. Disposition(r, stated, d) = IF w[r].kind = "conflict"
                          THEN IF ConflictOK(d, gen) THEN Conflicted(d, gen, named, planned, size) ELSE d
                          ELSE IF FailOK(d, gen)
                          THEN Failed(d, w[r].kind, gen, named, planned, size) ELSE d
  BY Zenon DEF Disposition
<1> HIDE DEF named, planned, size, gen
<1>5. CASE w[r].kind = "conflict"
  BY Zenon, <1>1, <1>2, <1>3, <1>4, <1>5, ConflictedTyped
<1>6. CASE w[r].kind # "conflict"
  <2>1. w[r].kind \in FailKinds
    BY Zenon, <1>1, <1>6
  <2>2. Failed(d, w[r].kind, gen, named, planned, size) \in Rows
    BY Zenon, <1>1, <1>2, <1>3, <2>1, FailedTyped
  <2> QED
    BY Zenon, <1>4, <1>6, <2>2
<1> QED
  BY <1>5, <1>6

\* Row and job in one transaction.
LEMMA CompletionTyped ==
    ASSUME DatabaseTypeOK, NEW r \in Records, NEW size \in Sizes, NEW sha \in Contents \cup {None},
           CompleteDownloadAndQueueArchive(r, size, sha)
    PROVE  DatabaseTypeOK'
<1>1. row[r] \in Rows /\ job[r] \in Jobs
  BY Zenon DEF DatabaseTypeOK
<1>2. Completed(row[r], size, sha) \in Rows /\ Enqueued(job[r], size, sha) \in Jobs
  BY Zenon, <1>1, PreparedTyped, EnqueuedTyped
<1> QED
  BY Zenon, <1>2 DEF CompleteDownloadAndQueueArchive, DatabaseTypeOK

\* One row is written.
LEMMA RowWritten ==
    ASSUME DatabaseTypeOK, NEW r \in Records, NEW d \in Rows,
           row' = [row EXCEPT ![r] = d], UNCHANGED job
    PROVE  DatabaseTypeOK'
BY Zenon DEF DatabaseTypeOK

\* A step that writes one job keeps both tables typed.
LEMMA JobWritten ==
    ASSUME DatabaseTypeOK, NEW r \in Records, NEW j \in Jobs,
           job' = [job EXCEPT ![r] = j], UNCHANGED row
    PROVE  DatabaseTypeOK'
BY Zenon DEF DatabaseTypeOK

\* A step that writes neither a row nor a job keeps both tables typed.
LEMMA NothingWritten ==
    ASSUME DatabaseTypeOK, UNCHANGED dbVars PROVE DatabaseTypeOK'
BY Zenon DEF DatabaseTypeOK, dbVars

\* Every step of downloadOne.
LEMMA WorkerRows ==
    ASSUME RegOK, WorkersRun, DatabaseTypeOK, NEW r \in Records, Worker(r) PROVE DatabaseTypeOK'
<1>1. row[r] \in Rows /\ row[r].size \in Sizes /\ row[r].sha \in Contents \cup {None}
  BY Zenon DEF DatabaseTypeOK, Rows
<1>2. CASE Begin(r) \/ Begin2(r)
  <2>1. ~At(r, "idle")
    BY Zenon, <1>2 DEF Begin, Begin2, At
  <2>2. /\ Task(r).gen \in Gens /\ Task(r).req.named \in BOOLEAN
        /\ Task(r).req.planned \in BOOLEAN /\ Task(r).req.size \in Sizes
    BY Zenon, <2>1, RunTyped
  <2>3. At(r, "begin2") => w[r].got \in Contents
    BY Zenon DEF At, WorkersRun, Runs, Resolved
  <2>4. \E named \in BOOLEAN, planned \in BOOLEAN, size \in Sizes :
          \E state, next : BeginDownload(r, named, planned, size, state, next)
    <3>1. CASE Begin(r)
      BY Zenon, <2>2, <3>1 DEF Begin
    <3>2. CASE Begin2(r)
      <4>1. GotSize(r) \in Sizes
        BY Zenon, <2>3, <3>2, GotTyped DEF Begin2, GotSize
      <4> QED
        BY Zenon, <3>2, <4>1, OrchestratorAssumption DEF Begin2
    <3> QED
      BY <1>2, <3>1, <3>2
  <2>5. PICK named \in BOOLEAN, planned \in BOOLEAN, size \in Sizes :
          \E state, next : BeginDownload(r, named, planned, size, state, next)
    BY Zenon, <2>4
  <2>6. \/ UNCHANGED dbVars
        \/ row' = [row EXCEPT ![r] = Begun(row[r], Task(r).gen, named, planned, size)] /\ UNCHANGED job
    BY Zenon, <2>5 DEF BeginDownload
  <2>7. Begun(row[r], Task(r).gen, named, planned, size) \in Rows
    BY Zenon, <1>1, <2>2, BegunTyped
  <2> QED
    BY Zenon, <2>6, <2>7, RowWritten, NothingWritten
<1>3. CASE CheckFinal(r)
  BY Zenon, <1>1, <1>3, CompletionTyped, NothingWritten DEF CheckFinal
<1>4. CASE Prepare(r) \/ Complete(r)
  <2>1. w[r].got \in Contents
    BY Zenon, <1>4 DEF Prepare, Complete, At, WorkersRun, Runs, Resolved
  <2>2. GotSize(r) \in Sizes
    BY Zenon, <2>1, GotTyped DEF GotSize
  <2>3. Prepared(row[r], GotSize(r), w[r].got) \in Rows
    BY Zenon, <1>1, <2>1, <2>2, PreparedTyped
  <2>4. \/ UNCHANGED dbVars \/ CompleteDownloadAndQueueArchive(r, GotSize(r), w[r].got)
        \/ row' = [row EXCEPT ![r] = Prepared(row[r], GotSize(r), w[r].got)] /\ UNCHANGED job
    BY Zenon, <1>4 DEF Prepare, Complete, dbVars
  <2> QED
    BY Zenon, <2>1, <2>2, <2>3, <2>4, CompletionTyped, RowWritten, NothingWritten
<1>5. CASE FailRow(r) \/ CancelRow(r) \/ CommitRow(r)
  <2>1. w[r].pc \in {"failRow", "cancelRow", "commitRow"}
    BY Zenon, <1>5 DEF FailRow, CancelRow, CommitRow, At
  <2>2. ~At(r, "idle")
    BY <2>1 DEF At
  <2>3. /\ \A stated \in StatedSizes(r) : Disposition(r, stated, row[r]) \in Rows
        /\ Cancelled(row[r]) \in Rows
    BY Zenon, <1>1, <2>2, DispositionTyped, ResetTyped
  <2>4. (IF CancelOK(row[r], Task(r).gen) THEN Cancelled(row[r]) ELSE row[r]) \in Rows
    BY Zenon, <1>1, <2>3
  <2>5. \/ UNCHANGED dbVars
        \/ /\ \E stated \in StatedSizes(r) : row' = [row EXCEPT ![r] = Disposition(r, stated, row[r])]
           /\ UNCHANGED job
        \/ /\ row' = [row EXCEPT ![r] = IF CancelOK(row[r], Task(r).gen) THEN Cancelled(row[r]) ELSE row[r]]
           /\ UNCHANGED job
    BY Zenon, <1>5 DEF FailRow, CancelRow, CommitRow, FailDownloadDisposition, dbVars
  <2> QED
    BY Zenon, <2>3, <2>4, <2>5, RowWritten, NothingWritten
<1>6. CASE \/ Resolve(r) \/ RequeueTask(r) \/ OpenPart(r) \/ Transfer(r) \/ Seal(r) \/ Gate(r)
           \/ Publish(r) \/ SucceedResult(r) \/ EndFailed(r) \/ FailTask(r)
  <2>1. UNCHANGED dbVars
    BY ZenonT(30), <1>6 DEF Resolve, RequeueTask, OpenPart, Transfer, Seal, Gate, Publish, SucceedResult,
                EndFailed, EndTask, FailTask
  <2> QED
    BY Zenon, <2>1, NothingWritten
<1> QED
  BY Zenon, <1>2, <1>3, <1>4, <1>5, <1>6 DEF Worker

\* Every step of a finalizer visit.
LEMMA FinRows ==
    ASSUME DatabaseTypeOK, FinalizerTypeOK, NEW online, FinStep(online) PROVE DatabaseTypeOK'
<1>1. fin.r \in Records /\ Snap \in Rows
  BY Zenon DEF FinalizerTypeOK, Finalizers, Snap
<1>2. /\ Snap.named \in BOOLEAN /\ Snap.planned \in BOOLEAN /\ Snap.size \in Sizes
      /\ Snap.gen \in Gens /\ Snap.sha \in Contents \cup {None} /\ row[fin.r] \in Rows
  BY Zenon, <1>1 DEF Rows, DatabaseTypeOK
<1>3. /\ Conflicted(row[fin.r], Snap.gen, Snap.named, Snap.planned, Snap.size) \in Rows
      /\ Reset(row[fin.r], Snap) \in Rows
  BY Zenon, <1>1, <1>2, ConflictedTyped, ResetTyped
<1>4. \/ UNCHANGED dbVars
      \/ CompleteDownloadAndQueueArchive(fin.r, Snap.size, Snap.sha)
      \/ /\ UNCHANGED job
         /\ \/ row' = [row EXCEPT ![fin.r] =
                         Conflicted(row[fin.r], Snap.gen, Snap.named, Snap.planned, Snap.size)]
            \/ row' = [row EXCEPT ![fin.r] = Reset(row[fin.r], Snap)]
  BY ZenonT(30) DEF FinStep, FinPick, FinInspect, FinCommit, FinComplete, FinConflict, FinReset, FinTell,
              dbVars
<1> QED
  BY Zenon, <1>1, <1>2, <1>3, <1>4, CompletionTyped, RowWritten, NothingWritten

\* Startup recovery, but for the committing records.
LEMMA StartupRows ==
    ASSUME DatabaseTypeOK, Startup, ~BootReconcile PROVE DatabaseTypeOK'
<1>1. CASE BootCommitting \/ BootDownloading \/ StartUp \/ \E r \in Records : RecoverSource(r)
  BY ZenonT(30), <1>1, NothingWritten DEF BootCommitting, FinList, BootDownloading, StartUp, RecoverSource
<1>2. ASSUME NEW r \in Records, RecoverDownloading(r) PROVE DatabaseTypeOK'
  <2>1. Reset(row[r], row[r]) \in Rows
    BY Zenon, ResetTyped DEF DatabaseTypeOK
  <2>2. UNCHANGED job /\ (UNCHANGED row \/ row' = [row EXCEPT ![r] = Reset(row[r], row[r])])
    BY Zenon, <1>2 DEF RecoverDownloading
  <2> QED
    BY Zenon, <2>1, <2>2, RowWritten, NothingWritten DEF dbVars
<1>3. ASSUME NEW r \in Records, RecoverCopying(r) PROVE DatabaseTypeOK'
  <2>1. 0 \in Claims
    BY BudgetAssumption DEF Claims
  <2>2. ArchiveCompleted(job[r]) \in Jobs /\ RecoverStaleArchiveJob(job[r]) \in Jobs
    BY Zenon, <2>1, JobTyped DEF DatabaseTypeOK
  <2>3. /\ UNCHANGED row
        /\ \/ UNCHANGED job
           \/ job' = [job EXCEPT ![r] = ArchiveCompleted(job[r])]
           \/ job' = [job EXCEPT ![r] = RecoverStaleArchiveJob(job[r])]
    BY Zenon, <1>3 DEF RecoverCopying
  <2> QED
    BY Zenon, <2>2, <2>3, JobWritten, NothingWritten DEF dbVars
<1>4. CASE BootArchive
  <2> DEFINE filled == [r \in Records |->
                          IF row[r].status = "success" /\ job[r].state = "none"
                          THEN Enqueued(job[r], row[r].size, row[r].sha) ELSE job[r]]
  <2>1. ASSUME NEW r \in Records
        PROVE  (IF row[r].status = "success" /\ job[r].state = "none"
                THEN Enqueued(job[r], row[r].size, row[r].sha) ELSE job[r]) \in Jobs
    <3>1. row[r] \in Rows /\ job[r] \in Jobs
      BY Zenon DEF DatabaseTypeOK
    <3>2. row[r].size \in Sizes /\ row[r].sha \in Contents \cup {None}
      BY Zenon, <3>1 DEF Rows
    <3> QED
      BY Zenon, <3>1, <3>2, EnqueuedTyped
  <2>2. filled \in [Records -> Jobs]
    BY Zenon, <2>1
  <2>3. UNCHANGED row /\ (UNCHANGED job \/ job' = filled)
    BY Zenon, <1>4 DEF BootArchive
  <2> HIDE DEF filled
  <2> QED
    BY Zenon, <2>2, <2>3 DEF DatabaseTypeOK
<1> QED
  BY Zenon, <1>1, <1>2, <1>3, <1>4 DEF Startup

\* Every step of the archive worker.
LEMMA ArchiveRows ==
    ASSUME DatabaseTypeOK, ProcessTypeOK, ArchiveWorkerTypeOK, AwStep PROVE DatabaseTypeOK'
<1>1. Claim \in Claims
  BY BudgetAssumption DEF ProcessTypeOK, Claim, Claims
<1>2. ASSUME NEW r \in Records
      PROVE  /\ ClaimArchiveJob(job[r], Claim) \in Jobs /\ ArchiveCompleted(job[r]) \in Jobs
             /\ FailArchiveJob(job[r], Claim) \in Jobs /\ SetArchiveJobConflict(job[r], Claim) \in Jobs
  BY Zenon, <1>1, JobTyped DEF DatabaseTypeOK
<1>3. aw.r \in Records
  BY Zenon DEF ArchiveWorkerTypeOK, ArchiveWorkers
<1>4. /\ UNCHANGED row
      /\ \/ UNCHANGED job
         \/ \E r \in Records : job' = [job EXCEPT ![r] = ClaimArchiveJob(job[r], Claim)]
         \/ job' = [job EXCEPT ![aw.r] = ArchiveCompleted(job[aw.r])]
         \/ job' = [job EXCEPT ![aw.r] = FailArchiveJob(job[aw.r], Claim)]
         \/ job' = [job EXCEPT ![aw.r] = SetArchiveJobConflict(job[aw.r], Claim)]
  BY ZenonT(30) DEF AwStep, AwClaim, AwProbe, AwOpen, AwCopy, AwCommit, AwComplete, AwRemove, AwEnd, dbVars
<1> QED
  BY Zenon, <1>2, <1>3, <1>4, JobWritten, NothingWritten DEF dbVars

\* Telegram and the users.
LEMMA EnvironmentRows ==
    ASSUME RunInv, RunInv', DatabaseTypeOK, MediaOK, Environment PROVE DatabaseTypeOK'
<1>1. row \in [Records -> Rows] /\ job \in [Records -> Jobs]
  BY DEF DatabaseTypeOK
<1>2. ASSUME NEW r \in Records, Edit(r) \/ StreamUpdate(r) PROVE DatabaseTypeOK'
  <2>1. CASE Edit(r)
    BY Zenon, <2>1, NothingWritten DEF Edit
  <2>2. CASE StreamUpdate(r)
    <3>1. media[r] \in Contents
      BY Zenon, <2>2 DEF StreamUpdate, MediaOK
    <3>2. Ingested(row[r], SizeOf[media[r]]) \in Rows
      BY Zenon, <1>1, <3>1, GotTyped, IngestedTyped
    <3> QED
      BY Zenon, <2>2, <3>2, RowWritten DEF StreamUpdate
  <2> QED
    BY <1>2, <2>1, <2>2
<1>3. ASSUME NEW r \in Records, WebSubmit(r) PROVE DatabaseTypeOK'
  <2> DEFINE req == IF tasks[r] = 0 THEN Request(FALSE, FALSE, 0, "web") ELSE att[tasks[r]].req
  <2>1. req \in Requests
    BY Zenon, RequestKnown DEF RunInv
  <2>2. row' = [row EXCEPT ![r] = Ensured(row[r], req.planned, req.size)] /\ UNCHANGED job
    BY Zenon, <1>3 DEF WebSubmit
  <2> HIDE DEF req
  <2>3. req.planned \in BOOLEAN /\ req.size \in Sizes
    BY Zenon, <2>1 DEF Requests
  <2>4. Ensured(row[r], req.planned, req.size) \in Rows
    BY Zenon, <1>1, <2>3, EnsuredTyped
  <2> QED
    BY Zenon, <2>2, <2>4, RowWritten
<1>4. ASSUME NEW r \in Records, ResolveTargetConflict(r) PROVE DatabaseTypeOK'
  <2>1. stamp' \in Gens
    BY Zenon DEF RunInv, RegOK, RegistryTypeOK
  <2>2. ConflictResolved(row[r], stamp') \in Rows
    BY Zenon, <1>1, <2>1, ResolvedTyped
  <2> QED
    BY Zenon, <1>4, <2>2, RowWritten DEF ResolveTargetConflict
<1>5. CASE CancelTarget
  <2>1. UNCHANGED job /\ \E S : row' = [r \in Records |-> IF r \in S THEN Cancelled(row[r]) ELSE row[r]]
    BY Zenon, <1>5 DEF CancelTarget
  <2>2. \A r \in Records : Cancelled(row[r]) \in Rows /\ row[r] \in Rows
    BY Zenon, <1>1, ResetTyped
  <2>3. row' \in [Records -> Rows]
    BY Zenon, <2>1, <2>2
  <2> QED
    BY Zenon, <1>1, <2>1, <2>3 DEF DatabaseTypeOK
<1>6. CASE PauseResume \/ SwitchTarget \/ RefreshTargetCache
  BY Zenon, <1>6, NothingWritten DEF PauseResume, SwitchTarget, RefreshTargetCache
<1>7. CASE Tick
  <2>1. \A r \in Records : [row[r] EXCEPT !.due = TRUE] \in Rows
    BY Zenon, <1>1, GensTyped, ResolvedTyped
  <2>2. 0 \in Claims
    BY BudgetAssumption DEF Claims
  <2>3. \A r \in Records : [job[r] EXCEPT !.due = TRUE] \in Jobs
    BY Zenon, <1>1, <2>2, JobTyped
  <2>4. \/ UNCHANGED job /\ \E r \in Records : row' = [row EXCEPT ![r] = [row[r] EXCEPT !.due = TRUE]]
        \/ UNCHANGED row /\ \E r \in Records : job' = [job EXCEPT ![r] = [job[r] EXCEPT !.due = TRUE]]
    BY Zenon, <1>7 DEF Tick
  <2> QED
    BY Zenon, <2>1, <2>3, <2>4, RowWritten, JobWritten
<1> QED
  BY Zenon, <1>2, <1>3, <1>4, <1>5, <1>6, <1>7 DEF Environment

\* Every step.
LEMMA RowsStep ==
    ASSUME RunInv, RunInv', DatabaseTypeOK, FinalizerTypeOK, DiskInv, [Next]_vars
    PROVE  DatabaseTypeOK'
<1>1. CASE BootReconcile \/ Reconcile
  BY Zenon, <1>1, FinRows DEF BootReconcile, Reconcile
<1>2. CASE Startup /\ ~BootReconcile
  BY Zenon, <1>2, StartupRows
<1>3. CASE Environment
  BY Zenon, <1>3, EnvironmentRows DEF DiskInv
<1>4. CASE Archive
  BY Zenon, <1>4, ArchiveRows DEF Archive, DiskInv
<1>5. CASE \E r \in Records : Download(r)
  BY Zenon, <1>5, WorkerRows DEF Download, RunInv
<1>6. CASE Crash \/ Shutdown \/ Scanner \/ Dispatcher \/ FinalizerPass \/ UNCHANGED vars
  <2>1. UNCHANGED dbVars
    BY Zenon, <1>6 DEF Crash, Shutdown, Scanner, ScanList, ScanSubmit, Dispatcher, Dispatch, FinalizerPass,
                FinList, vars
  <2> QED
    BY Zenon, <2>1, NothingWritten
<1> QED
  BY Zenon, <1>1, <1>2, <1>3, <1>4, <1>5, <1>6 DEF Next

-----------------------------------------------------------------------------
(* Every step of the daemon, on the goroutines *)

\* The idle finalizer is typed.
LEMMA FinIdleTyped == FinIdle \in Finalizers /\ NoRecord \in Records
<1>1. NoRecord \in Records
  BY Zenon, RecordsAssumption DEF NoRecord
<1>2. [r \in Records |-> AbsentRow] \in [Records -> Rows]
  BY Zenon, AbsentTyped
<1> QED
  BY Zenon, <1>1, <1>2 DEF FinIdle, Finalizers, FinPcs

\* A finalizer that moves to another place is typed.
LEMMA FinGotoTyped ==
    ASSUME FinalizerTypeOK, NEW pc \in FinPcs, FinGoto(pc) PROVE FinalizerTypeOK'
BY Zenon DEF FinalizerTypeOK, FinGoto, Finalizers

\* A finalizer that goes on to the next row of its list is typed.
LEMMA FinNextTyped ==
    ASSUME FinalizerTypeOK, FinNext PROVE FinalizerTypeOK'
<1> DEFINE x == [fin EXCEPT !.pc = "pick", !.r = NoRecord, !.snap[fin.r] = AbsentRow]
<1>1. fin \in Finalizers /\ fin.r \in Records /\ fin.snap \in [Records -> Rows]
  BY Zenon DEF FinalizerTypeOK, Finalizers
<1>2. [fin.snap EXCEPT ![fin.r] = AbsentRow] \in [Records -> Rows]
  BY Zenon, <1>1, AbsentTyped
<1>3. [fin EXCEPT !.pc = "pick", !.r = NoRecord, !.snap = [fin.snap EXCEPT ![fin.r] = AbsentRow]]
        \in Finalizers
  BY Zenon, <1>1, <1>2, FinIdleTyped DEF Finalizers, FinPcs
<1>4. fin' = FinIdle \/ fin' = x
  BY Zenon DEF FinNext
<1>5. x = [fin EXCEPT !.pc = "pick", !.r = NoRecord, !.snap = [fin.snap EXCEPT ![fin.r] = AbsentRow]]
  BY Zenon
<1> QED
  BY Zenon, <1>3, <1>4, <1>5, FinIdleTyped DEF FinalizerTypeOK

\* GetPendingCommittingDownloads.
LEMMA FinListTyped ==
    ASSUME FinalizerTypeOK, DatabaseTypeOK, NEW S, S \subseteq Records, FinList(S)
    PROVE  FinalizerTypeOK'
<1>1. [r \in Records |-> IF r \in S THEN row[r] ELSE AbsentRow] \in [Records -> Rows]
  BY Zenon, AbsentTyped DEF DatabaseTypeOK
<1>2. [pc |-> "pick", todo |-> S, r |-> NoRecord,
       snap |-> [r \in Records |-> IF r \in S THEN row[r] ELSE AbsentRow]] \in Finalizers
  BY Zenon, <1>1, FinIdleTyped DEF Finalizers, FinPcs
<1> QED
  BY Zenon, <1>2 DEF FinList, FinalizerTypeOK

\* Every step of a finalizer visit.
LEMMA FinStepTyped ==
    ASSUME FinalizerTypeOK, NEW online, FinStep(online) PROVE FinalizerTypeOK'
<1>1. ASSUME NEW r \in Records, FinPick(r) PROVE FinalizerTypeOK'
  <2>1. /\ fin \in Finalizers /\ fin.todo \subseteq Records /\ fin.todo \ {r} \in SUBSET Records
        /\ fin.snap \in [Records -> Rows]
    BY Zenon DEF FinalizerTypeOK, Finalizers
  <2>2. [fin.snap EXCEPT ![r] = AbsentRow] \in [Records -> Rows]
    BY Zenon, <2>1, AbsentTyped
  <2>3. /\ [fin EXCEPT !.todo = fin.todo \ {r}, !.snap = [fin.snap EXCEPT ![r] = AbsentRow]] \in Finalizers
        /\ [fin EXCEPT !.pc = "inspect", !.r = r, !.todo = fin.todo \ {r}] \in Finalizers
    BY Zenon, <2>1, <2>2 DEF Finalizers, FinPcs
  <2>4. \/ fin' = FinIdle
        \/ fin' = [fin EXCEPT !.todo = fin.todo \ {r}, !.snap = [fin.snap EXCEPT ![r] = AbsentRow]]
        \/ fin' = [fin EXCEPT !.pc = "inspect", !.r = r, !.todo = fin.todo \ {r}]
    BY Zenon, <1>1 DEF FinPick
  <2> QED
    BY Zenon, <2>3, <2>4, FinIdleTyped DEF FinalizerTypeOK
<1>2. CASE FinInspect
  <2>1. \E pc \in {"complete", "reset", "conflict", "commit"} : FinGoto(pc)
    BY Zenon, <1>2 DEF FinInspect
  <2> QED
    BY Zenon, <2>1, FinGotoTyped DEF FinPcs
<1>3. CASE FinCommit
  <2>1. \A failure :
          Decision(part[fin.r], final[fin.r], Snap.size, Snap.sha, failure) \in {"success", "conflict", "io"}
    BY DEF Decision, CommitError
  <2>2. FinGoto("complete") \/ FinGoto("conflict") \/ FinNext
    BY Zenon, <1>3, <2>1 DEF FinCommit
  <2> QED
    BY Zenon, <2>2, FinGotoTyped, FinNextTyped DEF FinPcs
<1>4. CASE FinComplete \/ FinConflict \/ FinReset \/ FinTell(online)
  <2>1. FinGoto("tellSuccess") \/ FinGoto("tellFailed") \/ FinNext
    BY Zenon, <1>4 DEF FinComplete, FinConflict, FinReset, FinTell
  <2> QED
    BY Zenon, <2>1, FinGotoTyped, FinNextTyped DEF FinPcs
<1> QED
  BY Zenon, <1>1, <1>2, <1>3, <1>4 DEF FinStep

\* The values the goroutines hand to each other are typed.
GoroutinesOK ==
    /\ pub \in [Records -> BOOLEAN] /\ scan \in [Records -> Rows]
    /\ running \in BOOLEAN /\ ctxDone \in BOOLEAN

\* The mode of the process, what is left of its startup, and the environment are typed.
DaemonOK ==
    /\ mode \in {"start", "committing", "downloading", "archive", "up", "stopping"}
    /\ boot \subseteq Records
    /\ target \in TargetStates
    /\ controls \in 0 .. MaxControls
    /\ edits \in 0 .. MaxEdits

\* Every step of downloadOne.
LEMMA WorkerFlags ==
    ASSUME GoroutinesOK, NEW r \in Records, Worker(r) PROVE GoroutinesOK'
<1>1. UNCHANGED <<scan, running, ctxDone>> /\ (UNCHANGED pub \/ \E b \in BOOLEAN : pub' = [pub EXCEPT ![r] = b])
  <2> DEFINE Goal == /\ UNCHANGED <<scan, running, ctxDone>>
                     /\ UNCHANGED pub \/ \E b \in BOOLEAN : pub' = [pub EXCEPT ![r] = b]
  <2> SUFFICES Goal
    OBVIOUS
  <2>1. ASSUME NEW pc, NEW kind, Goto(r, pc) \/ Fail(r, pc, kind) \/ Return(r) PROVE Goal
    BY Zenon, <2>1 DEF Goto, Fail, Return
  <2>2. CASE Gate(r) \/ Resolve(r)
    <3>1. \/ \E pc, kind : Goto(r, pc) \/ Fail(r, pc, kind)
          \/ pub' = [pub EXCEPT ![r] = TRUE] /\ UNCHANGED <<scan, running, ctxDone>>
          \/ UNCHANGED <<pub, scan, running, ctxDone>>
      BY Zenon, <2>2 DEF Gate, Resolve
    <3> QED
      BY Zenon, <2>1, <3>1
  <2>3. CASE Publish(r)
    <3>1. \A failure :
            Decision(part[r], final[r], GotSize(r), w[r].got, failure)
              \in {"success", "conflict", "io"}
      BY DEF Decision, CommitError
    <3>2. \E pc, kind : Goto(r, pc) \/ Fail(r, pc, kind)
      BY <2>3, <3>1, Zenon DEF Publish
    <3> QED
      BY Zenon, <2>1, <3>2
  <2> HIDE DEF Goal
  <2>4. CASE Begin(r) \/ Begin2(r) \/ CheckFinal(r) \/ RequeueTask(r) \/ OpenPart(r)
    BY ZenonT(30), <2>1, <2>4 DEF Begin, Begin2, BeginDownload, CheckFinal, RequeueTask, OpenPart
  <2>5. CASE Transfer(r) \/ Seal(r) \/ Prepare(r) \/ Complete(r)
    BY ZenonT(30), <2>1, <2>5 DEF Transfer, Seal, Prepare, Complete
  <2>6. CASE SucceedResult(r) \/ EndFailed(r) \/ FailTask(r) \/ FailRow(r) \/ CancelRow(r) \/ CommitRow(r)
    BY ZenonT(30), <2>1, <2>6 DEF SucceedResult, EndFailed, EndTask, FailTask, FailRow, CancelRow, CommitRow
  <2> QED
    BY Zenon, <2>2, <2>3, <2>4, <2>5, <2>6 DEF Worker
<1> QED
  BY Zenon, <1>1 DEF GoroutinesOK

\* Every step of a finalizer visit leaves the download side alone.
LEMMA FinLeaves ==
    ASSUME NEW online, FinStep(online) PROVE UNCHANGED orcVars
BY ZenonT(30) DEF FinStep, FinPick, FinInspect, FinCommit, FinComplete, FinConflict, FinReset, FinTell

\* Every step.
LEMMA FlagsStep ==
    ASSUME GoroutinesOK, DatabaseTypeOK, [Next]_vars PROVE GoroutinesOK'
<1>1. CASE \E r \in Records : Download(r)
  BY Zenon, <1>1, WorkerFlags DEF Download
<1>2. CASE UNCHANGED orcVars
  BY Zenon, <1>2 DEF orcVars, GoroutinesOK
<1>3. CASE BootReconcile \/ Reconcile
  BY Zenon, <1>2, <1>3, FinLeaves DEF BootReconcile, Reconcile
<1>4. CASE Startup /\ ~BootReconcile
  BY ZenonT(30), <1>2, <1>4 DEF Startup, BootCommitting, FinList, BootDownloading, BootArchive, StartUp,
              RecoverDownloading, RecoverCopying, RecoverSource
<1>5. CASE FinalizerPass \/ Archive \/ UNCHANGED vars
  BY Zenon, <1>2, <1>5 DEF FinalizerPass, FinList, Archive, vars
<1>6. CASE Crash \/ Shutdown
  BY Zenon, <1>6, AbsentTyped DEF Crash, Shutdown, GoroutinesOK
<1>7. CASE Scanner
  <2>1. ASSUME ScanList(target = "on") PROVE GoroutinesOK'
    BY Zenon, <2>1, AbsentTyped DEF ScanList, GoroutinesOK, DatabaseTypeOK
  <2>2. ASSUME NEW r \in Records, ScanSubmit(r) PROVE GoroutinesOK'
    BY Zenon, <2>2, AbsentTyped DEF ScanSubmit, GoroutinesOK
  <2> QED
    BY Zenon, <1>7, <2>1, <2>2 DEF Scanner
<1>8. CASE Dispatcher
  BY Zenon, <1>8 DEF Dispatcher, Dispatch, GoroutinesOK
<1>9. CASE PauseResume
  <2>1. UNCHANGED <<pub, scan, ctxDone>> /\ \E p \in BOOLEAN : running' = ~p
    BY Zenon, <1>9 DEF PauseResume
  <2> QED
    BY Zenon, <2>1 DEF GoroutinesOK
<1>10. CASE Environment /\ ~PauseResume
  BY ZenonT(30), <1>2, <1>10 DEF Environment, Edit, StreamUpdate, WebSubmit, ResolveTargetConflict,
              SwitchTarget, CancelTarget, RefreshTargetCache, Tick
<1> QED
  BY Zenon, <1>1, <1>3, <1>4, <1>5, <1>6, <1>7, <1>8, <1>9, <1>10 DEF Next

\* No step leaves the modes of the daemon and of its goroutines.
LEMMA ModesStep ==
    ASSUME DaemonOK, [Next]_vars PROVE DaemonOK'
<1> DEFINE Modes == {"start", "committing", "downloading", "archive", "up", "stopping"}
<1>1. CASE UNCHANGED daemonVars
  BY Zenon, <1>1 DEF daemonVars, DaemonOK
<1>2. CASE Startup
  <2>1. UNCHANGED <<target, controls, edits>>
    BY ZenonT(30), <1>2 DEF Startup, BootCommitting, BootReconcile, BootDownloading, BootArchive, StartUp,
                RecoverDownloading, RecoverCopying, RecoverSource, daemonVars
  <2>2. mode' \in Modes
    BY ZenonT(30), <1>2 DEF Startup, BootCommitting, BootReconcile, BootDownloading, BootArchive, StartUp,
                RecoverDownloading, RecoverCopying, RecoverSource, daemonVars, DaemonOK
  <2>3. boot' \subseteq Records
    <3>1. CASE BootDownloading
      BY Zenon, <3>1 DEF BootDownloading, InStatus
    <3>2. CASE BootArchive
      BY Zenon, <3>2 DEF BootArchive, DaemonOK
    <3>3. CASE ~BootDownloading /\ ~BootArchive
      <4>1. boot' = boot \/ \E r \in Records : boot' = boot \ {r}
        BY ZenonT(30), <1>2, <3>3 DEF Startup, BootCommitting, BootReconcile, StartUp,
                    RecoverDownloading, RecoverCopying, RecoverSource, daemonVars
      <4> QED
        BY Zenon, <4>1 DEF DaemonOK
    <3> QED
      BY <3>1, <3>2, <3>3
  <2> QED
    BY Zenon, <2>1, <2>2, <2>3 DEF DaemonOK
<1>3. CASE Crash \/ Shutdown
  <2>1. mode' \in Modes /\ boot' \subseteq Records /\ target' \in TargetStates
    BY Zenon, <1>3 DEF Crash, Shutdown, DaemonOK, TargetStates
  <2>2. UNCHANGED <<controls, edits>>
    BY Zenon, <1>3 DEF Crash, Shutdown
  <2> QED
    BY Zenon, <2>1, <2>2 DEF DaemonOK
<1>4. CASE Scanner \/ Dispatcher \/ FinalizerPass \/ Reconcile \/ Archive \/ (\E r \in Records : Download(r))
           \/ UNCHANGED vars
  BY Zenon, <1>1, <1>4 DEF Scanner, Dispatcher, FinalizerPass, Reconcile, Archive, Download, vars
<1>5. CASE \/ \E r \in Records : StreamUpdate(r) \/ WebSubmit(r) \/ ResolveTargetConflict(r)
           \/ Tick
  BY Zenon, <1>1, <1>5 DEF StreamUpdate, WebSubmit, ResolveTargetConflict, Tick
<1>6. ASSUME NEW r \in Records, Edit(r) PROVE DaemonOK'
  <2>1. edits < MaxEdits /\ edits' = edits + 1 /\ UNCHANGED <<mode, boot, target, controls>>
    BY Zenon, <1>6 DEF Edit
  <2>2. edits' \in 0 .. MaxEdits
    BY <2>1, DaemonAssumption DEF DaemonOK
  <2> QED
    BY Zenon, <2>1, <2>2 DEF DaemonOK
<1>7. CASE PauseResume \/ SwitchTarget
  <2>1. controls < MaxControls /\ controls' = controls + 1
    BY Zenon, <1>7 DEF PauseResume, SwitchTarget, Control
  <2>2. controls' \in 0 .. MaxControls
    BY <2>1, DaemonAssumption DEF DaemonOK
  <2>3. UNCHANGED <<mode, boot, edits>> /\ target' \in TargetStates
    BY Zenon, <1>7 DEF PauseResume, SwitchTarget, DaemonOK, TargetStates
  <2> QED
    BY Zenon, <2>2, <2>3 DEF DaemonOK
<1>8. CASE CancelTarget \/ RefreshTargetCache
  <2>1. UNCHANGED <<mode, boot, controls, edits>> /\ target' \in TargetStates
    BY Zenon, <1>8 DEF CancelTarget, RefreshTargetCache, TargetStates
  <2> QED
    BY Zenon, <2>1 DEF DaemonOK
<1> QED
  BY Zenon, <1>2, <1>3, <1>4, <1>5, <1>6, <1>7, <1>8 DEF Next, Environment

\* The finalizer, over every step.
LEMMA FinTypedStep ==
    ASSUME FinalizerTypeOK, DatabaseTypeOK, [Next]_vars PROVE FinalizerTypeOK'
<1>1. CASE UNCHANGED fin
  BY Zenon, <1>1 DEF FinalizerTypeOK
<1>2. ASSUME FinList(InStatus("committing")) PROVE FinalizerTypeOK'
  BY Zenon, <1>2, FinListTyped DEF InStatus
<1>3. CASE BootReconcile \/ Reconcile
  BY Zenon, <1>3, FinStepTyped DEF BootReconcile, Reconcile
<1>4. CASE BootCommitting \/ FinalizerPass
  BY Zenon, <1>1, <1>2, <1>4 DEF BootCommitting, FinalizerPass
<1>5. CASE Crash
  BY Zenon, <1>5, FinIdleTyped DEF Crash, FinalizerTypeOK
<1>6. CASE Startup /\ ~BootReconcile /\ ~BootCommitting
  BY ZenonT(30), <1>1, <1>6 DEF Startup, BootDownloading, BootArchive, StartUp,
              RecoverDownloading, RecoverCopying, RecoverSource
<1>7. CASE Shutdown \/ Scanner \/ Dispatcher \/ Archive \/ (\E r \in Records : Download(r)) \/ UNCHANGED vars
  BY Zenon, <1>1, <1>7 DEF Shutdown, Scanner, Dispatcher, Archive, Download, vars
<1>8. CASE Environment
  BY ZenonT(30), <1>1, <1>8 DEF Environment, Edit, StreamUpdate, WebSubmit, ResolveTargetConflict,
              PauseResume, SwitchTarget, CancelTarget, RefreshTargetCache, Tick
<1> QED
  BY Zenon, <1>3, <1>4, <1>5, <1>6, <1>7, <1>8 DEF Next

-----------------------------------------------------------------------------
(* What is reported is durable *)

\* Who is about to report a success has seen it in the database.
Proven ==
    /\ \A r \in Records : At(r, "finish") => row[r].status = "success"
    /\ FinAt("tellSuccess") => row[fin.r].status = "success"

\* Where a worker goes.
LEMMA PcAfter ==
    ASSUME w \in [Records -> Workers], NEW r \in Records, NEW pc, NEW kind,
           Goto(r, pc) \/ Fail(r, pc, kind)
    PROVE  w'[r].pc = pc /\ \A q \in Records : q # r => w'[q] = w[q]
<1>1. w[r] \in Workers
  BY Zenon
<1>2. [w[r] EXCEPT !.pc = pc].pc = pc /\ [w[r] EXCEPT !.pc = pc, !.kind = kind].pc = pc
  BY <1>1 DEF Workers
<1>3. \/ w' = [w EXCEPT ![r] = [w[r] EXCEPT !.pc = pc]]
      \/ w' = [w EXCEPT ![r] = [w[r] EXCEPT !.pc = pc, !.kind = kind]]
  BY Zenon DEF Goto, Fail
<1> QED
  BY Zenon, <1>2, <1>3

\* A worker that has returned reports nothing.
LEMMA PcReturned ==
    ASSUME w \in [Records -> Workers], NEW r \in Records, Return(r)
    PROVE  w'[r].pc = "idle" /\ \A q \in Records : q # r => w'[q] = w[q]
<1>1. Idle.pc = "idle"
  BY DEF Idle
<1> QED
  BY Zenon, <1>1 DEF Return

\* CompleteDownloadAndQueueArchive makes the row a success.
LEMMA CompletesRow ==
    ASSUME DatabaseTypeOK, NEW r \in Records, NEW size, NEW sha,
           CompleteDownloadAndQueueArchive(r, size, sha)
    PROVE  row'[r].status = "success"
<1>1. row[r] \in Rows
  BY Zenon DEF DatabaseTypeOK
<1>2. Completed(row[r], size, sha).status = "success"
  BY <1>1 DEF Completed, Rows
<1> QED
  BY Zenon, <1>2 DEF CompleteDownloadAndQueueArchive, DatabaseTypeOK

\* BeginDownload ends the task only for a row that is a success.
LEMMA BeginProven ==
    ASSUME w \in [Records -> Workers], NEW r \in Records, Begin(r) \/ Begin2(r)
    PROVE  /\ w'[r].pc = "finish" => row'[r].status = "success"
           /\ \A q \in Records : q # r => w'[q] = w[q]
<1>1. \/ Goto(r, "resolve") \/ Goto(r, "open") \/ Goto(r, "reject")
      \/ /\ Goto(r, "finish") /\ UNCHANGED dbVars
         /\ \E size : AlreadySuccess(row[r], size)
  BY Zenon DEF Begin, Begin2, BeginDownload
<1>2. (\E size : AlreadySuccess(row[r], size)) => row[r].status = "success"
  BY Zenon DEF AlreadySuccess
<1>3. ASSUME NEW pc, Goto(r, pc) PROVE w'[r].pc = pc /\ \A q \in Records : q # r => w'[q] = w[q]
  BY Zenon, <1>3, PcAfter
<1> DEFINE Goal == /\ w'[r].pc = "finish" => row'[r].status = "success"
                   /\ \A q \in Records : q # r => w'[q] = w[q]
<1> SUFFICES Goal
  OBVIOUS
<1>4. ASSUME NEW pc, pc # "finish", Goto(r, pc) PROVE Goal
  BY Zenon, <1>3, <1>4
<1>5. CASE Goto(r, "finish") /\ UNCHANGED dbVars /\ row[r].status = "success"
  BY Zenon, <1>3, <1>5 DEF dbVars
<1> HIDE DEF Goal
<1> QED
  BY Zenon, <1>1, <1>2, <1>4, <1>5

\* Every step of downloadOne.
LEMMA WorkerProven ==
    ASSUME w \in [Records -> Workers], DatabaseTypeOK, NEW r \in Records, Worker(r)
    PROVE  /\ w'[r].pc = "finish" => row'[r].status = "success"
           /\ \A q \in Records : q # r => w'[q] = w[q]
<1> DEFINE Goal == /\ w'[r].pc = "finish" => row'[r].status = "success"
                   /\ \A q \in Records : q # r => w'[q] = w[q]
<1> SUFFICES Goal
  OBVIOUS
<1>1. ASSUME NEW pc, NEW kind, Goto(r, pc) \/ Fail(r, pc, kind), pc # "finish" PROVE Goal
  BY Zenon, <1>1, PcAfter
<1>2. ASSUME Return(r) PROVE Goal
  BY Zenon, <1>2, PcReturned
<1>3. ASSUME NEW kind, Goto(r, "finish") \/ Fail(r, "finish", kind), row'[r].status = "success" PROVE Goal
  BY Zenon, <1>3, PcAfter
<1>4. CASE Begin(r) \/ Begin2(r)
  BY Zenon, <1>4, BeginProven
<1> HIDE DEF Goal
<1>5. CASE CheckFinal(r)
  <2>1. \/ Goto(r, "reject") \/ Goto(r, "begin2") \/ Goto(r, "requeue") \/ Fail(r, "failTask", "conflict")
        \/ Goto(r, "finish") /\ UNCHANGED dbVars /\ row[r].status = "success"
        \/ Goto(r, "finish") /\ CompleteDownloadAndQueueArchive(r, row[r].size, row[r].sha)
    BY Zenon, <1>5 DEF CheckFinal
  <2>2. CASE Goto(r, "finish") /\ UNCHANGED dbVars /\ row[r].status = "success"
    BY Zenon, <1>3, <2>2 DEF dbVars
  <2>3. CASE Goto(r, "finish") /\ CompleteDownloadAndQueueArchive(r, row[r].size, row[r].sha)
    BY Zenon, <1>3, <2>3, CompletesRow
  <2>4. CASE Goto(r, "reject") \/ Goto(r, "begin2") \/ Goto(r, "requeue") \/ Fail(r, "failTask", "conflict")
    BY Zenon, <1>1, <2>4
  <2> QED
    BY Zenon, <2>1, <2>2, <2>3, <2>4
<1>6. CASE Complete(r)
  <2>1. \/ Return(r)
        \/ Goto(r, "finish") /\ CompleteDownloadAndQueueArchive(r, GotSize(r), w[r].got)
    BY Zenon, <1>6 DEF Complete
  <2> QED
    BY Zenon, <1>2, <1>3, <2>1, CompletesRow
<1>7. CASE Resolve(r)
  <2>1. \/ w' = [w EXCEPT ![r].pc = "check", ![r].got = media[r]]
        \/ \E kind : Fail(r, "failTask", kind)
    BY Zenon, <1>7 DEF Resolve
  <2>2. CASE w' = [w EXCEPT ![r].pc = "check", ![r].got = media[r]]
    <3>1. [w[r] EXCEPT !.pc = "check", !.got = media[r]].pc = "check"
      BY DEF Workers
    <3>2. w' = [w EXCEPT ![r] = [w[r] EXCEPT !.pc = "check", !.got = media[r]]]
      BY Zenon, <2>2
    <3> QED
      BY Zenon, <3>1, <3>2 DEF Goal
  <2> QED
    BY Zenon, <1>1, <2>1, <2>2
<1>8. CASE Gate(r)
  <2>1. w' = [w EXCEPT ![r].pc = "prepare"] \/ Goto(r, "cancelRow")
    BY Zenon, <1>8 DEF Gate
  <2>2. CASE w' = [w EXCEPT ![r].pc = "prepare"]
    <3>1. [w[r] EXCEPT !.pc = "prepare"].pc = "prepare"
      BY DEF Workers
    <3>2. w' = [w EXCEPT ![r] = [w[r] EXCEPT !.pc = "prepare"]]
      BY Zenon, <2>2
    <3> QED
      BY Zenon, <3>1, <3>2 DEF Goal
  <2> QED
    BY Zenon, <1>1, <2>1, <2>2
<1>9. CASE Publish(r)
  <2>1. \A failure :
          Decision(part[r], final[r], GotSize(r), w[r].got, failure) \in {"success", "conflict", "io"}
    BY DEF Decision, CommitError
  <2>2. Goto(r, "complete") \/ \E kind : Fail(r, "commitRow", kind)
    BY Zenon, <1>9, <2>1 DEF Publish
  <2> QED
    BY Zenon, <1>1, <2>2
<1>10. CASE OpenPart(r) \/ Transfer(r) \/ Seal(r) \/ Prepare(r)
  <2>1. \/ Goto(r, "transfer") \/ Goto(r, "seal") \/ Goto(r, "cancelRow") \/ Goto(r, "gate")
        \/ Goto(r, "publish") \/ Goto(r, "reject") \/ Return(r) \/ \E kind : Fail(r, "failTask", kind)
    BY Zenon, <1>10 DEF OpenPart, Transfer, Seal, Prepare
  <2> QED
    BY Zenon, <1>1, <1>2, <2>1
<1>11. CASE \/ RequeueTask(r) \/ SucceedResult(r) \/ EndFailed(r) \/ FailTask(r) \/ FailRow(r)
            \/ CancelRow(r) \/ CommitRow(r)
  <2>1. Goto(r, "failRow") \/ Goto(r, "cancelTask") \/ Goto(r, "commitTask") \/ Return(r)
    BY Zenon, <1>11 DEF RequeueTask, SucceedResult, EndFailed, EndTask, FailTask, FailRow, CancelRow, CommitRow
  <2> QED
    BY Zenon, <1>1, <1>2, <2>1
<1> QED
  BY Zenon, <1>4, <1>5, <1>6, <1>7, <1>8, <1>9, <1>10, <1>11 DEF Worker

\* Every step of a finalizer visit.
LEMMA FinProven ==
    ASSUME FinalizerTypeOK, DatabaseTypeOK, NEW online, FinStep(online), fin'.pc = "tellSuccess"
    PROVE  row'[fin'.r].status = "success"
<1>1. fin \in Finalizers /\ fin.r \in Records /\ FinIdle.pc = "idle"
  BY DEF FinalizerTypeOK, Finalizers, FinIdle
<1>2. \A pc : /\ [fin EXCEPT !.pc = pc].pc = pc /\ [fin EXCEPT !.pc = pc].r = fin.r
              /\ \A x, y : [fin EXCEPT !.pc = pc, !.r = x, !.snap = y].pc = pc
  BY <1>1 DEF Finalizers
<1>3. ASSUME FinNext PROVE FALSE
  <2>1. fin' = FinIdle \/ \E x, y : fin' = [fin EXCEPT !.pc = "pick", !.r = x, !.snap = y]
    BY Zenon, <1>3 DEF FinNext
  <2> QED
    BY Zenon, <1>1, <1>2, <2>1
<1>4. ASSUME NEW r \in Records, FinPick(r) PROVE FALSE
  <2>1. \/ fin' = FinIdle
        \/ FinAt("pick") /\ \E x, y : fin' = [fin EXCEPT !.todo = x, !.snap = y]
        \/ \E x, z : fin' = [fin EXCEPT !.pc = "inspect", !.r = x, !.todo = z]
    BY Zenon, <1>4 DEF FinPick
  <2>2. \A x, z : [fin EXCEPT !.pc = "inspect", !.r = x, !.todo = z].pc = "inspect"
    BY <1>1 DEF Finalizers
  <2>3. CASE FinAt("pick") /\ \E x, y : fin' = [fin EXCEPT !.todo = x, !.snap = y]
    <3>1. PICK x, y : fin' = [fin EXCEPT !.todo = x, !.snap = y]
      BY Zenon, <2>3
    <3>2. fin'.pc = fin.pc
      BY <1>1, <3>1 DEF Finalizers
    <3> QED
      BY Zenon, <2>3, <3>2 DEF FinAt
  <2>4. CASE \E x, z : fin' = [fin EXCEPT !.pc = "inspect", !.r = x, !.todo = z]
    BY Zenon, <2>2, <2>4
  <2> QED
    BY Zenon, <1>1, <2>1, <2>3, <2>4
<1>5. ASSUME NEW pc, pc # "tellSuccess", FinGoto(pc) PROVE FALSE
  BY Zenon, <1>2, <1>5 DEF FinGoto
<1>6. CASE FinInspect
  <2>1. \E pc \in {"complete", "reset", "conflict", "commit"} : FinGoto(pc)
    BY Zenon, <1>6 DEF FinInspect
  <2> QED
    BY Zenon, <1>5, <2>1
<1>7. CASE FinCommit
  <2>1. \A failure :
          Decision(part[fin.r], final[fin.r], Snap.size, Snap.sha, failure) \in {"success", "conflict", "io"}
    BY DEF Decision, CommitError
  <2>2. FinGoto("complete") \/ FinGoto("conflict") \/ FinNext
    BY Zenon, <1>7, <2>1 DEF FinCommit
  <2> QED
    BY Zenon, <1>3, <1>5, <2>2
<1>8. CASE FinComplete
  <2>1. FinNext \/ (CompleteDownloadAndQueueArchive(fin.r, Snap.size, Snap.sha) /\ FinGoto("tellSuccess"))
    BY Zenon, <1>8 DEF FinComplete
  <2>2. FinGoto("tellSuccess") => fin'.r = fin.r
    BY Zenon, <1>2 DEF FinGoto
  <2> QED
    BY Zenon, <1>1, <1>3, <2>1, <2>2, CompletesRow
<1>9. CASE FinConflict \/ FinReset \/ FinTell(online)
  <2>1. FinGoto("tellFailed") \/ FinNext
    BY Zenon, <1>9 DEF FinConflict, FinReset, FinTell
  <2> QED
    BY Zenon, <1>3, <1>5, <2>1
<1> QED
  BY Zenon, <1>4, <1>6, <1>7, <1>8, <1>9 DEF FinStep

\* Only a finalizer pass, and a crash, change the finalizer.
LEMMA FinMoves ==
    ASSUME [Next]_vars
    PROVE  \/ UNCHANGED fin \/ fin' = FinIdle \/ (\E S : FinList(S)) \/ \E online : FinStep(online)
<1>1. CASE BootReconcile \/ Reconcile \/ BootCommitting \/ FinalizerPass \/ Crash
  BY Zenon, <1>1 DEF BootReconcile, Reconcile, BootCommitting, FinalizerPass, Crash
<1>2. CASE Startup /\ ~BootReconcile /\ ~BootCommitting
  BY ZenonT(30), <1>2 DEF Startup, BootDownloading, BootArchive, StartUp,
              RecoverDownloading, RecoverCopying, RecoverSource
<1>3. CASE Shutdown \/ Scanner \/ Dispatcher \/ Archive \/ (\E r \in Records : Download(r)) \/ UNCHANGED vars
  BY Zenon, <1>3 DEF Shutdown, Scanner, Dispatcher, Archive, Download, vars
<1>4. CASE Environment
  BY ZenonT(30), <1>4 DEF Environment, Edit, StreamUpdate, WebSubmit, ResolveTargetConflict,
              PauseResume, SwitchTarget, CancelTarget, RefreshTargetCache, Tick
<1> QED
  BY Zenon, <1>1, <1>2, <1>3, <1>4 DEF Next

\* Only downloadOne, the dispatcher and a crash change a worker.
LEMMA WorkersMove ==
    ASSUME [Next]_vars
    PROVE  UNCHANGED w \/ Crash \/ Dispatch \/ \E r \in Records : Worker(r)
<1>1. CASE UNCHANGED orcVars
  BY Zenon, <1>1 DEF orcVars
<1>2. CASE BootReconcile \/ Reconcile \/ FinalizerPass \/ BootCommitting
  BY Zenon, <1>1, <1>2, FinLeaves DEF BootReconcile, Reconcile, FinalizerPass, FinList, BootCommitting
<1>3. CASE Startup /\ ~BootReconcile /\ ~BootCommitting
  BY ZenonT(30), <1>1, <1>3 DEF Startup, BootDownloading, BootArchive, StartUp,
              RecoverDownloading, RecoverCopying, RecoverSource
<1>4. CASE Shutdown \/ Scanner \/ PauseResume
  BY Zenon, <1>4 DEF Shutdown, Scanner, ScanList, ScanSubmit, PauseResume
<1>5. CASE Archive \/ UNCHANGED vars
  BY Zenon, <1>1, <1>5 DEF Archive, vars
<1>6. CASE Crash \/ Dispatcher \/ \E r \in Records : Download(r)
  BY Zenon, <1>6 DEF Dispatcher, Download
<1>7. CASE Environment /\ ~PauseResume
  BY ZenonT(30), <1>1, <1>7 DEF Environment, Edit, StreamUpdate, WebSubmit, ResolveTargetConflict,
              SwitchTarget, CancelTarget, RefreshTargetCache, Tick
<1> QED
  BY Zenon, <1>2, <1>3, <1>4, <1>5, <1>6, <1>7 DEF Next

\* Every step: a success stays, and nobody reports one that is not there.
LEMMA ProvenStep ==
    ASSUME Proven, WorkersRun, DatabaseTypeOK, FinalizerTypeOK, SuccessStep, [Next]_vars
    PROVE  Proven'
<1>1. w \in [Records -> Workers] /\ fin.r \in Records
  BY Zenon DEF WorkersRun, FinalizerTypeOK, Finalizers
<1>2. \A q \in Records : row[q].status = "success" => row'[q].status = "success"
  BY Zenon DEF SuccessStep
<1>3. \A q \in Records : w'[q].pc = "finish" => row'[q].status = "success"
  <2>1. ASSUME NEW q \in Records, w'[q] = w[q], w'[q].pc = "finish" PROVE row'[q].status = "success"
    BY Zenon, <1>2, <2>1 DEF Proven, At
  <2>2. CASE UNCHANGED w
    BY Zenon, <2>1, <2>2
  <2>3. CASE Crash
    <3>1. Idle.pc = "idle"
      BY DEF Idle
    <3> QED
      BY Zenon, <2>3, <3>1 DEF Crash
  <2>4. CASE Dispatch
    <3>1. \A a : [Idle EXCEPT !.pc = "begin", !.a = a].pc = "begin"
      BY DEF Idle
    <3>2. \E r, a : w' = w \/ w' = [w EXCEPT ![r] = [Idle EXCEPT !.pc = "begin", !.a = a]]
      BY Zenon, <2>4 DEF Dispatch
    <3>3. PICK r, a : w' = w \/ w' = [w EXCEPT ![r] = [Idle EXCEPT !.pc = "begin", !.a = a]]
      BY Zenon, <3>2
    <3>4. \A q \in Records : w'[q] = w[q] \/ w'[q].pc = "begin"
      BY Zenon, <1>1, <3>1, <3>3
    <3> QED
      BY Zenon, <2>1, <3>4
  <2>5. ASSUME NEW r \in Records, Worker(r), NEW q \in Records, w'[q].pc = "finish"
        PROVE  row'[q].status = "success"
    BY Zenon, <1>1, <2>1, <2>5, WorkerProven
  <2> QED
    BY Zenon, <2>2, <2>3, <2>4, <2>5, WorkersMove
<1>4. ASSUME fin'.pc = "tellSuccess" PROVE row'[fin'.r].status = "success"
  <2>1. CASE UNCHANGED fin
    BY Zenon, <1>1, <1>2, <1>4, <2>1 DEF Proven, FinAt
  <2>2. fin' # FinIdle /\ ~\E S : FinList(S)
    <3>1. FinIdle.pc # "tellSuccess" /\ \A S, r, s : [pc |-> "pick", todo |-> S, r |-> r, snap |-> s].pc = "pick"
      BY DEF FinIdle
    <3>2. \A S : FinList(S) => \E s : fin' = [pc |-> "pick", todo |-> S, r |-> NoRecord, snap |-> s]
      BY Zenon DEF FinList
    <3> QED
      BY Zenon, <1>4, <3>1, <3>2
  <2> QED
    BY Zenon, <1>4, <2>1, <2>2, FinMoves, FinProven
<1> QED
  BY Zenon, <1>3, <1>4 DEF Proven, At, FinAt

\* What is reported now was reported before, or is vouched for by its reporter.
LEMMA ReportsStep ==
    ASSUME RegOK, ReportedIsDurable, Proven, SuccessStep, Reports PROVE ReportedIsDurable'
<1>1. \A q \in Records : row[q].status = "success" => row'[q].status = "success"
  BY Zenon DEF SuccessStep
<1>2. \A q \in Reportable : q \in Records /\ row[q].status = "success"
  BY Zenon DEF Reportable, Proven
<1>3. \A a \in Attempts : att[a].rec \in Records
  BY Zenon DEF RegOK, RegistryTypeOK, TaskState
<1>4. ASSUME NEW a \in Attempts, att'[a].state = "success" PROVE row'[att'[a].rec].status = "success"
  <2>1. att'[a].rec = att[a].rec /\ (att[a].state = "success" \/ att[a].rec \in Reportable)
    BY Zenon, <1>4 DEF Reports, AttemptsMove
  <2> QED
    BY Zenon, <1>1, <1>2, <1>3, <2>1 DEF ReportedIsDurable
<1> QED
  BY Zenon, <1>4 DEF ReportedIsDurable

-----------------------------------------------------------------------------
(***************************************************************************)
(* The invariant of the whole daemon: the four files and the archive       *)
(* (DiskInv, StorageInv), the registry and its workers (RunInv), the       *)
(* types of what is left, and who may report a success (Proven).           *)
(***************************************************************************)
DaemonInv ==
    /\ DiskInv /\ StorageInv /\ RunInv /\ DatabaseTypeOK /\ FinalizerTypeOK
    /\ GoroutinesOK /\ DaemonOK /\ Proven /\ ReportedIsDurable

\* Every step of every goroutine, of the users, and a crash.
LEMMA DaemonStep == DaemonInv /\ [Next]_vars => DaemonInv'
<1> SUFFICES ASSUME DaemonInv, [Next]_vars PROVE DaemonInv'
  OBVIOUS
<1>1. /\ DiskInv /\ StorageInv /\ RunInv /\ DatabaseTypeOK /\ FinalizerTypeOK
      /\ GoroutinesOK /\ DaemonOK /\ Proven /\ ReportedIsDurable
  BY Zenon DEF DaemonInv
<1>2. DiskInv'
  BY Zenon, <1>1, TypeStep
<1>3. StorageInv' /\ SuccessStep
  BY Zenon, <1>1, StorageStep DEF SafeStep
<1>4. RunInv' /\ Reports
  <2>1. MediaOK /\ scan \in [Records -> Rows] /\ fin.r \in Records
    BY Zenon, <1>1 DEF DiskInv, GoroutinesOK, FinalizerTypeOK, Finalizers
  <2> QED
    BY Zenon, <1>1, <2>1, RunStep
<1>5. DatabaseTypeOK'
  BY Zenon, <1>1, <1>4, RowsStep
<1>6. FinalizerTypeOK' /\ GoroutinesOK' /\ DaemonOK'
  BY Zenon, <1>1, FinTypedStep, FlagsStep, ModesStep
<1>7. Proven'
  BY Zenon, <1>1, <1>3, ProvenStep DEF RunInv
<1>8. ReportedIsDurable'
  BY Zenon, <1>1, <1>3, <1>4, ReportsStep DEF RunInv
<1> QED
  BY Zenon, <1>2, <1>3, <1>4, <1>5, <1>6, <1>7, <1>8 DEF DaemonInv

\* The registry and the workers of a new process.
LEMMA RunStarts ==
    ASSUME Init PROVE RunInv /\ \A a \in Attempts : att[a].state # "success"
<1>1. /\ att = [a \in Attempts |-> UnusedTask(CHOOSE r \in Records : TRUE)]
      /\ made = 0 /\ tasks = [r \in Records |-> 0] /\ queue = << >>
      /\ terminalOrder = << >> /\ stamp = FirstGen /\ paused = StartPaused
      /\ w = [r \in Records |-> Idle]
  BY Zenon DEF Init, RegistryInit, OrchestratorInit
<1>2. \A a \in Attempts : att[a].state # "success"
  BY <1>1 DEF UnusedTask
<1>3. 0 \in 0 .. MaxAttempts /\ Len(<< >>) <= TerminalLimit /\ 0 <= 0
  BY RegistryAssumption
<1>4. << >> \in Seq(Attempts) /\ << >> \in Seq(Records) /\ DOMAIN << >> = {}
  OBVIOUS
<1>5. FirstGen \in Gens \ {NoGen}
  BY GensTyped DEF FirstGen, NoGen
<1>6. RegistryTypeOK
  BY Zenon, <1>1, <1>3, <1>4, <1>5, UnusedTyped, DaemonAssumption DEF RegistryTypeOK
<1>7. RegOK
  BY Zenon, <1>1, <1>3, <1>4, <1>6 DEF RegOK
<1>8. WorkersRun
  BY Zenon, <1>1, IdleRuns DEF WorkersRun
<1>9. WaitsOnce
  BY Zenon, <1>1, <1>4 DEF WaitsOnce
<1> QED
  BY Zenon, <1>2, <1>7, <1>8, <1>9 DEF RunInv

\* The daemon starts on an empty database.
LEMMA DaemonStarts ==
    ASSUME Init, DiskInv PROVE DaemonInv
<1>1. NoJob \in Jobs
  BY SizesAreNat, BudgetAssumption DEF NoJob, Jobs, JobStates, Claims
<1>2. DatabaseTypeOK
  BY Zenon, <1>1, AbsentTyped DEF Init, DatabaseInit, DatabaseTypeOK
<1>3. FinalizerTypeOK
  BY Zenon, FinIdleTyped DEF Init, FinalizerTypeOK
<1>4. GoroutinesOK
  BY Zenon, AbsentTyped DEF Init, OrchestratorInit, GoroutinesOK
<1>5. DaemonOK
  <2>1. 0 \in 0 .. MaxControls /\ 0 \in 0 .. MaxEdits
    BY DaemonAssumption
  <2> QED
    BY Zenon, <2>1 DEF Init, DaemonOK, TargetStates
<1>6. Proven
  <2>1. FinIdle.pc # "tellSuccess" /\ Idle.pc # "finish"
    BY DEF FinIdle, Idle
  <2> QED
    BY Zenon, <2>1 DEF Init, OrchestratorInit, Proven, At, FinAt
<1>7. ReportedIsDurable
  BY Zenon, RunStarts DEF ReportedIsDurable
<1> QED
  BY Zenon, <1>2, <1>3, <1>4, <1>5, <1>6, <1>7, RunStarts, StorageInit DEF DaemonInv

\* The inductive invariant holds throughout.
LEMMA DaemonInvariant == Spec => []DaemonInv
<1>1. Init => DiskInv
  BY DiskStarts
<1>2. Init => DaemonInv
  BY <1>1, DaemonStarts
<1> QED
  BY <1>2, DaemonStep, PTL DEF Spec

(***************************************************************************)
(* Every variable of the daemon keeps its type, for any number of records, *)
(* attempts, workers, faults, crashes, edits and requests of users.        *)
(***************************************************************************)
THEOREM DaemonTyped == Spec => []TypeOK
<1>1. DaemonInv => TypeOK
  <2> SUFFICES ASSUME DaemonInv PROVE TypeOK
    OBVIOUS
  <2>1. OrchestratorTypeOK
    <3>1. \A r \in Records : ~At(r, "idle") => w[r].a \in Attempts
      BY Zenon DEF DaemonInv, RunInv, WorkersRun, Runs, At
    <3> QED
      BY Zenon, <3>1 DEF DaemonInv, RunInv, WorkersRun, DiskInv, MediaOK, GoroutinesOK, OrchestratorTypeOK
  <2> QED
    BY Zenon, <2>1 DEF DaemonInv, DiskInv, RunInv, RegOK, DaemonOK, TypeOK
<1> QED
  BY <1>1, DaemonInvariant, PTL

(***************************************************************************)
(* What the registry reports as downloaded is a success in the database,   *)
(* whichever of worker, online finalizer and startup recovery got there    *)
(* first, and whatever crashed in between: nothing but a row that is       *)
(* already success leads to Finish with success.                           *)
(***************************************************************************)
THEOREM ReportsAreDurable == Spec => []ReportedIsDurable
<1>1. DaemonInv => ReportedIsDurable
  BY DEF DaemonInv
<1> QED
  BY <1>1, DaemonInvariant, PTL

(***************************************************************************)
(* An attempt that waits in the queue waits there once, and no worker runs *)
(* it: Requeue, Retry and a new submission never queue it a second time.   *)
(***************************************************************************)
THEOREM QueuesOnce == Spec => []WaitsOnce
<1>1. DaemonInv => WaitsOnce
  BY DEF DaemonInv, RunInv
<1> QED
  BY <1>1, DaemonInvariant, PTL
=============================================================================
