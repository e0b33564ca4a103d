---------------------------- MODULE Orchestrator ----------------------------
(***************************************************************************)
(* The download side (app/daemon/orchestrator.go): the scanner that feeds  *)
(* the registry, the dispatcher, and one worker per record that runs       *)
(* downloadOne.  inFlight admits at most one worker per record, so the     *)
(* workers are a function of the record; w[r].pc is the next step of       *)
(* downloadOne, w[r].a the attempt it runs, w[r].got the content Telegram  *)
(* resolved to and w[r].kind the failure being recorded.                   *)
(*                                                                         *)
(* A step ends where the code releases the registry or the database lock   *)
(* or has changed a file another goroutine can see.                        *)
(***************************************************************************)
EXTENDS Registry, Disk

CONSTANTS
    FileConcurrency,    \* workers the dispatcher runs at a time
    NameChanges         \* Telegram resolves to another name than was ingested

ASSUME OrchestratorAssumption ==
    /\ FileConcurrency \in Nat \ {0}
    /\ NameChanges \in BOOLEAN

VARIABLES
    media,          \* Telegram: the content behind each message
    w,              \* the worker of each record
    pub,            \* activePublishers
    scan,           \* the batch the scanner is submitting
    running,        \* Orchestrator.running
    ctxDone         \* the daemon context is cancelled

orcVars == <<w, pub, scan, running, ctxDone>>

Pcs == {"idle", "begin", "resolve", "check", "requeue", "begin2", "open",
        "transfer", "seal", "gate", "prepare", "publish", "complete",
        "finish", "reject", "failTask", "failRow", "cancelRow",
        "cancelTask", "commitRow", "commitTask"}

Workers == [pc : Pcs, a : 0 .. MaxAttempts, got : Contents \cup {None},
            kind : FailKinds \cup {"conflict"}]

Idle == [pc |-> "idle", a |-> 0, got |-> None, kind |-> "error"]

At(r, pc) == w[r].pc = pc

Goto(r, pc) ==
    /\ w' = [w EXCEPT ![r].pc = pc]
    /\ UNCHANGED <<pub, scan, running, ctxDone, media>>

\* downloadOne goes on to record a failure of this kind.
Fail(r, pc, kind) ==
    /\ w' = [w EXCEPT ![r].pc = pc, ![r].kind = kind]
    /\ UNCHANGED <<pub, scan, running, ctxDone, media>>

\* Mutated form: the publisher is never released.
Return_Publishing(r) ==
    /\ w' = [w EXCEPT ![r] = Idle]
    /\ UNCHANGED <<pub, scan, running, ctxDone, media>>

\* downloadOne returns: its deferred calls release publisher and inFlight.
Return(r) ==
    /\ w' = [w EXCEPT ![r] = Idle]
    /\ pub' = [pub EXCEPT ![r] = FALSE]
    /\ UNCHANGED <<scan, running, ctxDone, media>>

Task(r) == att[w[r].a]

\* taskCtx.Err() # nil
CtxErr(r) == Task(r).cancelled \/ ctxDone

Stopped(r) == IsTerminal(w[r].a) \/ CtxErr(r)

GotSize(r) == SizeOf[w[r].got]

\* A database call returns an error: its guard refuses it, or it fails.
Refused(ok) == (~ok /\ NoFault) \/ Fault

-----------------------------------------------------------------------------
(***************************************************************************)
(* scanLoop: a batch is read from the database, then submitted record by   *)
(* record; SubmitRecord fails once the orchestrator is paused.             *)
(***************************************************************************)
ScanList(enabled) ==
    /\ running /\ ~ctxDone
    /\ \A r \in Records : scan[r] = AbsentRow
    /\ enabled
    /\ \E r \in Records : Scannable(row[r])
    /\ scan' = [r \in Records |-> IF Scannable(row[r]) THEN row[r] ELSE AbsentRow]
    /\ UNCHANGED <<w, pub, running, ctxDone, media>>
    /\ UNCHANGED <<dbVars, diskVars, regVars, processVars>>

ScanSubmit(r) ==
    /\ scan[r] # AbsentRow
    /\ IF running
       THEN /\ Submit(r, Request(scan[r].named, scan[r].planned, scan[r].size, "scan"),
                      scan[r].tried)
            /\ scan' = [scan EXCEPT ![r] = AbsentRow]
       ELSE /\ scan' = [q \in Records |-> AbsentRow]
            /\ UNCHANGED regVars
    /\ UNCHANGED <<w, pub, running, ctxDone, media>>
    /\ UNCHANGED <<dbVars, diskVars, processVars>>

(***************************************************************************)
(* dispatchLoop and the inFlight test of downloadOne: the attempt popped   *)
(* while a worker still runs for the same record is dropped.               *)
(***************************************************************************)
Dispatch ==
    /\ running /\ ~ctxDone
    /\ Cardinality({r \in Records : ~At(r, "idle")}) < FileConcurrency
    /\ Next_
    /\ LET a == Head(queue)
           r == att[a].rec
       IN  w' = IF At(r, "idle")
                THEN [w EXCEPT ![r] = [Idle EXCEPT !.pc = "begin", !.a = a]]
                ELSE w
    /\ UNCHANGED <<pub, scan, running, ctxDone, media>>
    /\ UNCHANGED <<dbVars, diskVars, processVars>>

(***************************************************************************)
(* BeginDownload and the branches on its result; the two calls differ in   *)
(* the metadata they pass and in what follows an accepted call.            *)
(***************************************************************************)
BeginDownload(r, named, planned, size, state, next) ==
    LET d == row[r] IN
    \/ /\ BeginOK(d, Task(r).gen)
       /\ NoFault
       /\ row' = [row EXCEPT ![r] = Begun(@, Task(r).gen, named, planned, size)]
       /\ Update(w[r].a, state, planned)
       /\ Goto(r, next)
       /\ UNCHANGED <<job, diskVars>>
    \/ /\ ~BeginOK(d, Task(r).gen)
       /\ NoFault
       /\ Goto(r, IF AlreadySuccess(d, size) /\ Matches(final[r], d.size, d.sha)
                  THEN "finish" ELSE "reject")
       /\ UNCHANGED <<dbVars, regVars, diskVars>>
    \/ /\ Fault
       /\ Goto(r, "reject")
       /\ UNCHANGED <<dbVars, regVars, diskVars>>

Begin(r) ==
    /\ At(r, "begin")
    /\ LET q == Task(r).req
       IN  BeginDownload(r, q.named, q.planned, q.size, Task(r).state, "resolve")

\* Resolve, then SetResolved, the path plan and SetFinalPath.
Resolve(r) ==
    /\ At(r, "resolve")
    /\ \/ /\ media[r] # None
          /\ NoFault
          /\ Update(w[r].a, Task(r).state, TRUE)
          /\ w' = [w EXCEPT ![r].pc = "check", ![r].got = media[r]]
          /\ UNCHANGED <<pub, scan, running, ctxDone, media>>
       \/ /\ media[r] = None
          /\ NoFault
          /\ Fail(r, "failTask", "unavailable")
          /\ UNCHANGED regVars
       \/ /\ CtxErr(r)
          /\ NoFault
          /\ Fail(r, "failTask", "ctx")
          /\ UNCHANGED regVars
       \/ /\ Fault
          /\ \E kind \in {"error", "ctx"} : Fail(r, "failTask", kind)
          /\ UNCHANGED regVars
    /\ UNCHANGED <<dbVars, diskVars>>

(***************************************************************************)
(* The check for an existing final file.  A file that carries the proof of *)
(* the stored row completes the record (CompleteExistingDownload); any     *)
(* other file, or one that cannot be read, is a target conflict; an error  *)
(* of the completion itself only fails the task.  Without a file, SSD      *)
(* admission either reserves the space or sends the task back to the       *)
(* queue.                                                                  *)
(***************************************************************************)
CheckFinal(r) ==
    LET d == row[r]
        proven == d.status \in {"committing", "success"} /\ Matches(final[r], d.size, d.sha)
        accepted == CompleteExistingOK(d, Task(r).gen, d.size, d.sha)
    IN
    /\ At(r, "check")
    /\ \/ /\ final[r] # None
          /\ NoFault
          /\ IF proven
             THEN /\ Goto(r, IF accepted THEN "finish" ELSE "reject")
                  /\ IF accepted /\ d.status # "success"
                     THEN CompleteDownloadAndQueueArchive(r, d.size, d.sha)
                     ELSE UNCHANGED dbVars
             ELSE Fail(r, "failTask", "conflict") /\ UNCHANGED dbVars
       \/ final[r] # None /\ Fault /\ Fail(r, "failTask", "conflict") /\ UNCHANGED dbVars
       \/ final[r] # None /\ proven /\ Fault /\ Goto(r, "reject") /\ UNCHANGED dbVars
       \/ final[r] = None /\ NoFault /\ Goto(r, "begin2") /\ UNCHANGED dbVars
       \/ final[r] = None /\ Fault /\ Goto(r, "requeue") /\ UNCHANGED dbVars
    /\ UNCHANGED <<regVars, diskVars>>

RequeueTask(r) ==
    /\ At(r, "requeue")
    /\ Requeue(w[r].a)
    /\ Return(r)
    /\ UNCHANGED <<dbVars, diskVars, processVars>>

Begin2(r) ==
    /\ At(r, "begin2")
    /\ BeginDownload(r, NameChanges, TRUE, GotSize(r), "downloading", "open")

(***************************************************************************)
(* Directory and .part are created; a task cancelled by now is abandoned   *)
(* without touching the database.                                          *)
(***************************************************************************)
OpenPart(r) ==
    /\ At(r, "open")
    /\ \/ ~Stopped(r) /\ NoFault /\ part' = [part EXCEPT ![r] = Partial] /\ Goto(r, "transfer")
       \/ Stopped(r) /\ NoFault /\ UNCHANGED part /\ Return(r)
       \/ Fault /\ UNCHANGED part /\ Fail(r, "failTask", "error")
    /\ UNCHANGED <<dbVars, regVars, final, moving, hdd>>

\* The bytes go to the inode opened as .part, under whatever name it has now.
\* An error that is context.Canceled is a cancellation, whoever caused it.
Transfer(r) ==
    /\ At(r, "transfer")
    /\ \/ /\ NoFault
          /\ part' = [part EXCEPT ![r] = IF @ = Partial THEN w[r].got ELSE @]
          /\ final' = [final EXCEPT ![r] =
                         IF part[r] # Partial /\ @ = Partial THEN w[r].got ELSE @]
          /\ Goto(r, "seal")
       \/ /\ Stopped(r)
          /\ NoFault
          /\ part' = [part EXCEPT ![r] = None]
          /\ Goto(r, "cancelRow")
          /\ UNCHANGED final
       \/ /\ ~Stopped(r)
          /\ Fault
          /\ part' = [part EXCEPT ![r] = None]
          /\ \/ \E kind \in FailKinds : Fail(r, "failTask", kind)
             \/ Goto(r, "cancelRow")
          /\ UNCHANGED final
    /\ UNCHANGED <<dbVars, regVars, moving, hdd>>

\* Size check, fsync, close, and the digest of the file named .part.
Seal(r) ==
    /\ At(r, "seal")
    /\ \/ part[r] \in Contents /\ NoFault /\ Goto(r, "gate") /\ UNCHANGED part
       \/ /\ Refused(part[r] \in Contents)
          /\ part' = [part EXCEPT ![r] = None]
          /\ Fail(r, "failTask", "error")
    /\ UNCHANGED <<dbVars, regVars, final, moving, hdd>>

\* The last cancellation check; past it the worker owns the publication.
Gate(r) ==
    /\ At(r, "gate")
    /\ IF Stopped(r)
       THEN /\ part' = [part EXCEPT ![r] = None]
            /\ Goto(r, "cancelRow")
       ELSE /\ w' = [w EXCEPT ![r].pc = "prepare"]
            /\ pub' = [pub EXCEPT ![r] = TRUE]
            /\ UNCHANGED <<part, scan, running, ctxDone, media>>
    /\ UNCHANGED <<dbVars, regVars, final, moving, hdd, processVars>>

\* PrepareDownloadCommit, then SetPublishing.
Prepare(r) ==
    LET ok == PrepareOK(row[r], Task(r).gen, GotSize(r), w[r].got) IN
    /\ At(r, "prepare")
    /\ \/ /\ ok /\ NoFault
          /\ row' = [row EXCEPT ![r] = Prepared(@, GotSize(r), w[r].got)]
          /\ Update(w[r].a, "publishing", FALSE)
          /\ Goto(r, "publish")
          /\ UNCHANGED part
       \/ /\ Refused(ok)
          /\ part' = [part EXCEPT ![r] = None]
          /\ Goto(r, "reject")
          /\ UNCHANGED <<row, regVars>>
    /\ UNCHANGED <<job, final, moving, hdd>>

\* CommitSiblingPart and EvaluateCommitSiblingPart.
Publish(r) ==
    /\ At(r, "publish")
    /\ \E failure \in CommitFailures :
        LET decision == Decision(part[r], final[r], GotSize(r), w[r].got, failure) IN
        /\ CommitFailure(part[r], final[r], failure)
        /\ final' = [final EXCEPT ![r] = PublishedFile(part[r], @, failure)]
        /\ part' = [part EXCEPT ![r] =
                      RemainingPart(@, final[r], GotSize(r), w[r].got, failure)]
        /\ CASE decision = "success"  -> Goto(r, "complete")
             [] decision = "conflict" -> Fail(r, "commitRow", "conflict")
             [] decision = "io"       -> Fail(r, "commitRow", "error")
    /\ UNCHANGED <<dbVars, regVars, moving, hdd>>

\* An error here leaves the row committing for the online finalizer.
Complete(r) ==
    LET ok == CompleteOK(row[r], Task(r).gen, GotSize(r), w[r].got) IN
    /\ At(r, "complete")
    /\ \/ /\ ok /\ NoFault
          /\ CompleteDownloadAndQueueArchive(r, GotSize(r), w[r].got)
          /\ Goto(r, "finish")
       \/ /\ Refused(ok)
          /\ Return(r)
          /\ UNCHANGED dbVars
    /\ UNCHANGED <<regVars, diskVars>>

\* The worker's last call into the registry; state is the attempt's outcome.
EndTask(r, pc, state, planned) ==
    /\ At(r, pc)
    /\ Finish(w[r].a, state, planned)
    /\ Return(r)
    /\ UNCHANGED <<dbVars, diskVars, processVars>>

SucceedResult(r) == EndTask(r, "finish", "success", TRUE)

EndFailed(r) ==
    \/ EndTask(r, "reject", "failed", FALSE)
    \/ EndTask(r, "cancelTask", "failed", FALSE)
    \/ EndTask(r, "commitTask", "failed", FALSE)

-----------------------------------------------------------------------------
\* The metadata the worker knows by then; stated is the size it passes for media that
\* it has not resolved.
Disposition(r, stated, d) ==
    LET q == Task(r).req
        resolved == w[r].got # None
        named == IF resolved THEN NameChanges ELSE q.named
        planned == IF resolved THEN TRUE ELSE q.planned
        size == IF resolved THEN GotSize(r) ELSE stated
    IN  IF w[r].kind = "conflict"
        THEN IF ConflictOK(d, Task(r).gen)
             THEN Conflicted(d, Task(r).gen, named, planned, size) ELSE d
        ELSE IF FailOK(d, Task(r).gen)
             THEN Failed(d, w[r].kind, Task(r).gen, named, planned, size) ELSE d

DispositionOK(r, d) ==
    IF w[r].kind = "conflict" THEN ConflictOK(d, Task(r).gen) ELSE FailOK(d, Task(r).gen)

\* A message without media is recorded with size 0, an unavailable one or any other
\* failed resolution with the size that was asked for.
StatedSizes(r) == {Task(r).req.size} \cup (IF w[r].kind = "unavailable" THEN {0} ELSE {})

FailDownloadDisposition(r) ==
    \E stated \in StatedSizes(r) : row' = [row EXCEPT ![r] = Disposition(r, stated, @)]

\* Before the commit: registry first, then the database, whose error is ignored.
FailTask(r) ==
    /\ At(r, "failTask")
    /\ Finish(w[r].a, IF w[r].kind = "unavailable" THEN "unavailable" ELSE "failed", FALSE)
    /\ Goto(r, "failRow")
    /\ UNCHANGED <<dbVars, diskVars, processVars>>

FailRow(r) ==
    /\ At(r, "failRow")
    /\ \/ NoFault /\ FailDownloadDisposition(r)
       \/ Fault /\ UNCHANGED row
    /\ Return(r)
    /\ UNCHANGED <<job, diskVars, regVars>>

\* Cancelled: the database first, its error ignored, then the registry.
CancelRow(r) ==
    /\ At(r, "cancelRow")
    /\ \/ /\ NoFault
          /\ row' = [row EXCEPT ![r] = IF CancelOK(@, Task(r).gen) THEN Cancelled(@) ELSE @]
       \/ Fault /\ UNCHANGED row
    /\ Goto(r, "cancelTask")
    /\ UNCHANGED <<job, diskVars, regVars>>

\* A failed commit: the registry only follows an accepted database update.
CommitRow(r) ==
    /\ At(r, "commitRow")
    /\ \/ /\ DispositionOK(r, row[r]) /\ NoFault
          /\ FailDownloadDisposition(r)
          /\ Goto(r, "commitTask")
       \/ /\ Refused(DispositionOK(r, row[r]))
          /\ Return(r)
          /\ UNCHANGED row
    /\ UNCHANGED <<job, diskVars, regVars>>

Worker(r) ==
    \/ Begin(r) \/ Resolve(r) \/ CheckFinal(r) \/ RequeueTask(r) \/ Begin2(r)
    \/ OpenPart(r) \/ Transfer(r) \/ Seal(r) \/ Gate(r) \/ Prepare(r)
    \/ Publish(r) \/ Complete(r) \/ SucceedResult(r) \/ EndFailed(r)
    \/ FailTask(r) \/ FailRow(r) \/ CancelRow(r) \/ CommitRow(r)

OrchestratorTypeOK ==
    /\ media \in [Records -> Contents \cup {None}]
    /\ w \in [Records -> Workers]
    /\ \A r \in Records : ~At(r, "idle") => w[r].a \in Attempts
    /\ pub \in [Records -> BOOLEAN]
    /\ scan \in [Records -> Rows]
    /\ running \in BOOLEAN
    /\ ctxDone \in BOOLEAN

\* The orchestrator of a new process.
OrchestratorInit ==
    /\ w = [r \in Records |-> Idle]
    /\ pub = [r \in Records |-> FALSE]
    /\ scan = [r \in Records |-> AbsentRow]
    /\ running = TRUE
    /\ ctxDone = FALSE
=============================================================================
