------------------------------- MODULE Daemon -------------------------------
(***************************************************************************)
(* The whole daemon: scanner, dispatcher, workers, finalizer and archive   *)
(* worker running over one database and two disks; startup recovery; the   *)
(* users and Telegram around it; and crashes between any two steps.        *)
(*                                                                         *)
(* mode is the life of the process: the phases of ReconcileOnStartup,      *)
(* then "up", and "stopping" once the daemon context is cancelled.         *)
(***************************************************************************)
EXTENDS Finalizer, ArchiveWorker

CONSTANTS
    StartPaused,        \* the start-paused option
    MaxControls,        \* bound on pause, resume, disable and enable requests
    MaxEdits            \* bound on edits of messages on Telegram

ASSUME DaemonAssumption ==
    /\ StartPaused \in BOOLEAN
    /\ MaxControls \in Nat
    /\ MaxEdits \in Nat

VARIABLES
    mode,
    boot,           \* listed records startup recovery has still to visit
    target,         \* the listen target of the chat
    controls,
    edits

daemonVars == <<mode, boot, target, controls, edits>>

vars == <<dbVars, diskVars, regVars, orcVars, media, fin, aw, daemonVars, processVars>>

Up == mode \in {"up", "stopping"}

(***************************************************************************)
(* A target is switched off in three steps: the database row ("saved"),    *)
(* the cancellation of its tasks ("cancelled"), and the cache the update   *)
(* stream consults ("off").                                                *)
(***************************************************************************)
TargetStates == {"on", "saved", "cancelled", "off"}

TypeOK ==
    /\ ProcessTypeOK /\ DiskTypeOK /\ DatabaseTypeOK /\ RegistryTypeOK
    /\ OrchestratorTypeOK /\ FinalizerTypeOK /\ ArchiveWorkerTypeOK
    /\ mode \in {"start", "committing", "downloading", "archive", "up", "stopping"}
    /\ boot \subseteq Records
    /\ target \in TargetStates
    /\ controls \in 0 .. MaxControls
    /\ edits \in 0 .. MaxEdits

Init ==
    /\ faults = 0 /\ crashes = 0
    /\ DiskInit /\ DatabaseInit /\ RegistryInit(StartPaused) /\ OrchestratorInit
    /\ media \in [Records -> Contents]
    /\ fin = FinIdle
    /\ aw = AwIdle
    /\ mode = "start"
    /\ boot = {}
    /\ target = "on"
    /\ controls = 0
    /\ edits = 0

-----------------------------------------------------------------------------
(***************************************************************************)
(* ReconcileOnStartup.  An error in one visit does not stop the others,    *)
(* and run.go only logs the joined error.                                  *)
(***************************************************************************)
InStatus(s) == {r \in Records : row[r].status = s}

BootCommitting ==
    /\ mode = "start"
    /\ mode' = "committing"
    /\ \/ NoFault /\ InStatus("committing") # {} /\ FinList(InStatus("committing"))
       \/ /\ (NoFault /\ InStatus("committing") = {}) \/ Fault
          /\ UNCHANGED <<dbVars, diskVars, regVars, orcVars, media, fin>>
    /\ UNCHANGED <<aw, boot, target, controls, edits>>

BootReconcile ==
    /\ mode = "committing"
    /\ FinStep(FALSE)
    /\ UNCHANGED <<aw, daemonVars>>

BootDownloading ==
    /\ mode = "committing"
    /\ FinAt("idle")
    /\ mode' = "downloading"
    /\ \/ NoFault /\ boot' = InStatus("downloading")
       \/ Fault /\ boot' = {}
    /\ UNCHANGED <<dbVars, diskVars, regVars, orcVars, media, fin, aw, target, controls, edits>>

\* The .part of an interrupted download is removed, its row reset to pending.
RecoverDownloading(r) ==
    /\ mode = "downloading"
    /\ r \in boot
    /\ part' = [part EXCEPT ![r] = None]
    /\ \/ NoFault /\ row' = [row EXCEPT ![r] = Reset(@, @)]
       \/ Fault /\ UNCHANGED row
    /\ boot' = boot \ {r}
    /\ UNCHANGED <<job, final, moving, hdd, regVars, orcVars, media, fin, aw,
                   mode, target, controls, edits>>

\* The backlog fill, then the list of interrupted copies.
BootArchive ==
    LET filled == [r \in Records |->
                     IF row[r].status = "success" /\ job[r].state = "none"
                     THEN Enqueued(job[r], row[r].size, row[r].sha) ELSE job[r]]
        copying(j) == {r \in Records : j[r].state = "copying"}
    IN
    /\ mode = "downloading"
    /\ boot = {}
    /\ mode' = "archive"
    /\ IF ArchiveOn
       THEN \/ NoFault /\ job' = filled /\ boot' = copying(filled)
            \/ Fault /\ job' \in {job, filled} /\ boot' \in {{}, copying(job')}
       ELSE NoFault /\ UNCHANGED <<job, boot>>
    /\ UNCHANGED <<row, diskVars, regVars, orcVars, media, fin, aw, target, controls, edits>>

(***************************************************************************)
(* An interrupted copy: if the archived file is proven the job becomes     *)
(* archived, and the next step for r removes the SSD file; otherwise, also *)
(* when the file cannot be read, the job returns to pending.  .moving is   *)
(* removed in both cases.                                                  *)
(***************************************************************************)
\* Mutated form: the archived file exists.
ArchiveProven_Exists(r) == hdd[r] # None

ArchiveProven(r) == Matches(hdd[r], job[r].size, job[r].sha)

RecoverCopying(r) ==
    /\ mode = "archive"
    /\ r \in boot
    /\ job[r].state = "copying"
    /\ moving' = [moving EXCEPT ![r] = None]
    /\ \/ /\ NoFault
          /\ job' = [job EXCEPT ![r] = IF ArchiveProven(r) THEN ArchiveCompleted(@)
                                       ELSE RecoverStaleArchiveJob(@)]
          /\ boot' = IF ArchiveProven(r) THEN boot ELSE boot \ {r}
       \/ /\ Fault
          /\ job' \in {job, [job EXCEPT ![r] = RecoverStaleArchiveJob(@)]}
          /\ boot' = boot \ {r}
    /\ UNCHANGED <<row, part, final, hdd, regVars, orcVars, media, fin, aw,
                   mode, target, controls, edits>>

RecoverSource(r) ==
    /\ mode = "archive"
    /\ r \in boot
    /\ job[r].state = "archived"
    /\ \/ NoFault /\ final' = [final EXCEPT ![r] = None]
       \/ Fault /\ UNCHANGED final
    /\ boot' = boot \ {r}
    /\ UNCHANGED <<dbVars, part, moving, hdd, regVars, orcVars, media, fin, aw,
                   mode, target, controls, edits>>

\* Recovery is over: orchestrator and archive worker start.
StartUp ==
    /\ mode = "archive"
    /\ boot = {}
    /\ mode' = "up"
    /\ UNCHANGED <<dbVars, diskVars, regVars, orcVars, media, fin, aw, processVars,
                   boot, target, controls, edits>>

Startup ==
    \/ BootCommitting \/ BootReconcile \/ BootDownloading \/ BootArchive \/ StartUp
    \/ \E r \in Records : RecoverDownloading(r) \/ RecoverCopying(r) \/ RecoverSource(r)

(***************************************************************************)
(* The process dies between two steps and starts again.                    *)
(***************************************************************************)
Crash ==
    /\ crashes < MaxCrashes
    /\ crashes' = crashes + 1
    /\ mode' = "start"
    /\ boot' = {}
    /\ EmptyRegistry(StartPaused)
    /\ w' = [r \in Records |-> Idle]
    /\ pub' = [r \in Records |-> FALSE]
    /\ scan' = [r \in Records |-> AbsentRow]
    /\ running' = TRUE
    /\ ctxDone' = FALSE
    /\ fin' = FinIdle
    /\ aw' = AwIdle
    /\ target' = IF target = "on" THEN "on" ELSE "off"
    /\ UNCHANGED <<dbVars, diskVars, media, stamp, faults, controls, edits>>

\* The end of a shutdown is a crash that was announced.
Restart == mode = "stopping" /\ Crash

\* SIGTERM: the daemon context is cancelled and the orchestrator stopped.
Shutdown ==
    /\ mode = "up"
    /\ crashes < MaxCrashes
    /\ mode' = "stopping"
    /\ ctxDone' = TRUE
    /\ running' = FALSE
    /\ UNCHANGED <<dbVars, diskVars, regVars, w, pub, scan, media, fin, aw, processVars,
                   boot, target, controls, edits>>

-----------------------------------------------------------------------------
\* The goroutines of a running daemon.
Scanner ==
    /\ Up
    /\ ScanList(target = "on") \/ \E r \in Records : ScanSubmit(r)
    /\ UNCHANGED <<fin, aw, daemonVars>>

Dispatcher ==
    /\ Up
    /\ Dispatch
    /\ UNCHANGED <<fin, aw, daemonVars>>

Download(r) ==
    /\ Up
    /\ Worker(r)
    /\ UNCHANGED <<fin, aw, daemonVars>>

\* finalizerLoop starts a pass only while the orchestrator is running.
FinalizerPass ==
    /\ mode = "up"
    /\ running
    /\ FinList(InStatus("committing"))
    /\ UNCHANGED <<aw, daemonVars>>

Reconcile ==
    /\ Up
    /\ FinAt("pick") => ~ctxDone
    /\ FinStep(TRUE)
    /\ UNCHANGED <<aw, daemonVars>>

Archive ==
    /\ Up
    /\ ArchiveOn
    /\ AwAt("idle") => ~ctxDone
    /\ AwStep
    /\ UNCHANGED <<regVars, orcVars, media, fin, daemonVars>>

-----------------------------------------------------------------------------
(***************************************************************************)
(* Telegram and the users.                                                 *)
(***************************************************************************)
\* A message is edited to carry other media, or deleted.
Edit(r) ==
    /\ edits < MaxEdits
    /\ edits' = edits + 1
    /\ \E c \in (Contents \cup {None}) \ {media[r]} : media' = [media EXCEPT ![r] = c]
    /\ UNCHANGED <<dbVars, diskVars, regVars, orcVars, fin, aw, processVars,
                   mode, boot, target, controls>>

\* handleMessage of the update stream: ingest, then TriggerStreamDispatch.
StreamUpdate(r) ==
    /\ mode = "up"
    /\ target # "off"
    /\ media[r] # None
    /\ row' = [row EXCEPT ![r] = Ingested(@, SizeOf[media[r]])]
    /\ IF running
       THEN Submit(r, Request(FALSE, FALSE, SizeOf[media[r]], "stream"), FALSE)
       ELSE UNCHANGED regVars
    /\ UNCHANGED <<job, diskVars, orcVars, media, fin, aw, daemonVars, processVars>>

\* POST /api/tasks with retry set: a new task, or the request of an old one.
WebSubmit(r) ==
    LET req == IF tasks[r] = 0 THEN Request(FALSE, FALSE, 0, "web") ELSE att[tasks[r]].req IN
    /\ mode = "up"
    /\ Len(queue) < QueueCapacity
    /\ Submit(r, [req EXCEPT !.asRetry = FALSE], TRUE)
    /\ row' = [row EXCEPT ![r] = Ensured(@, req.planned, req.size)]
    /\ UNCHANGED <<job, diskVars, orcVars, media, fin, aw, daemonVars, processVars>>

\* The operator resolves a target conflict.
ResolveTargetConflict(r) ==
    /\ mode = "up"
    /\ row[r].status = "conflict"
    /\ RetryTaskWithDecider(r, Request(row[r].named, row[r].planned, row[r].size, "resolve"))
    /\ row' = [row EXCEPT ![r] = ConflictResolved(@, stamp')]
    /\ UNCHANGED <<job, diskVars, orcVars, media, fin, aw, daemonVars, processVars>>

Control ==
    /\ mode = "up"
    /\ controls < MaxControls
    /\ controls' = controls + 1

\* handleControl: pause or resume, whatever the state is.
PauseResume ==
    /\ Control
    /\ \E p \in BOOLEAN : running' = ~p /\ SetPaused(p)
    /\ UNCHANGED <<dbVars, diskVars, w, pub, scan, ctxDone, media, fin, aw, processVars,
                   mode, boot, target, edits>>

\* handleListenTargets: the database row, ...
SwitchTarget ==
    /\ Control
    /\ target \in {"on", "off"}
    /\ target' = IF target = "on" THEN "saved" ELSE "on"
    /\ UNCHANGED <<dbVars, diskVars, regVars, orcVars, media, fin, aw, processVars,
                   mode, boot, edits>>

\* The queued attempts CancelDownload accepts, at most one for each record.
Cancellable(a) == CancelOK(row[att[a].rec], att[a].gen)

CancelledInQueue ==
    {queue[i] : i \in {i \in DOMAIN queue :
        /\ Cancellable(queue[i])
        /\ \A j \in 1 .. i - 1 :
              att[queue[j]].rec = att[queue[i]].rec => ~Cancellable(queue[j])}}

\* The current attempts that are still to be cancelled once hit was.
CancelledTasks(hit) ==
    {tasks[r] : r \in {r \in Records \ hit :
        tasks[r] # 0 /\ ~IsTerminal(tasks[r]) /\ Cancellable(tasks[r])}}

\* ... CancelTasksByChatID, where a database error spares the attempt it is met on, ...
CancelTarget ==
    /\ mode = "up"
    /\ target = "saved"
    /\ target' = "cancelled"
    /\ \E Q \in SUBSET CancelledInQueue :
       LET hit == {att[a].rec : a \in Q} IN
       \E T \in SUBSET CancelledTasks(hit) :
            /\ IF Q = CancelledInQueue /\ T = CancelledTasks(hit) THEN NoFault ELSE Fault
            /\ CancelTasks(Q, T)
            /\ row' = [r \in Records |->
                         IF r \in hit \cup {att[a].rec : a \in T}
                         THEN Cancelled(row[r]) ELSE row[r]]
    /\ UNCHANGED <<job, diskVars, orcVars, media, fin, aw, mode, boot, controls, edits>>

\* ... and refreshTargetCache.
RefreshTargetCache ==
    /\ mode = "up"
    /\ target = "cancelled"
    /\ target' = "off"
    /\ UNCHANGED <<dbVars, diskVars, regVars, orcVars, media, fin, aw, processVars,
                   mode, boot, controls, edits>>

\* A back-off ends.
Tick ==
    /\ \/ /\ \E r \in Records :
               row[r].status = "failed" /\ ~row[r].due /\ row' = [row EXCEPT ![r].due = TRUE]
          /\ UNCHANGED job
       \/ /\ \E r \in Records :
               job[r].state = "pending" /\ ~job[r].due /\ job' = [job EXCEPT ![r].due = TRUE]
          /\ UNCHANGED row
    /\ UNCHANGED <<diskVars, regVars, orcVars, media, fin, aw, daemonVars, processVars>>

Environment ==
    \/ \E r \in Records : Edit(r) \/ StreamUpdate(r) \/ WebSubmit(r) \/ ResolveTargetConflict(r)
    \/ PauseResume \/ SwitchTarget \/ CancelTarget \/ RefreshTargetCache
    \/ Tick

Next ==
    \/ Startup \/ Crash \/ Shutdown
    \/ Scanner \/ Dispatcher \/ FinalizerPass \/ Reconcile \/ Archive
    \/ \E r \in Records : Download(r)
    \/ Environment

Spec == Init /\ [][Next]_vars

(***************************************************************************)
(* Every goroutine keeps running, a shutdown ends with a restart, and time *)
(* passes.  The tickers of scanLoop and finalizerLoop (5 s) and of the     *)
(* archive worker (2 s) justify the first, and Resolve runs under a 30 s   *)
(* timeout.  That a transfer ends, with the file or with an error, is an   *)
(* assumption on the Telegram client: the daemon sets no deadline for it.  *)
(* Nothing is assumed of users, of Telegram or of crashes.                 *)
(***************************************************************************)
Fairness ==
    /\ WF_vars(Startup)
    /\ WF_vars(Restart)
    /\ WF_vars(Scanner)
    /\ WF_vars(Dispatcher)
    /\ \A r \in Records : WF_vars(Download(r))
    /\ WF_vars(FinalizerPass)
    /\ WF_vars(Reconcile)
    /\ WF_vars(Archive)
    /\ WF_vars(Tick)

FairSpec == Spec /\ Fairness
=============================================================================
