--------------------------- MODULE ArchiveWorker ---------------------------
(***************************************************************************)
(* The single archive worker (app/daemon/archive.go): it claims a due job, *)
(* copies the SSD file to <dst>.moving on the archive disk, renames it,    *)
(* marks the job archived and only then deletes the SSD file.  aw.pc is    *)
(* the next step of processJob, aw.r the record of the claimed job.  The   *)
(* digest and size of a job never change while it is being copied, so the  *)
(* worker's copy of the job is the stored one.                             *)
(***************************************************************************)
EXTENDS Database, Disk

VARIABLE aw

AwPcs == {"idle", "probe", "open", "copy", "commit", "complete", "remove",
          "fail", "conflict"}

ArchiveWorkers == [pc : AwPcs, r : Records]

AwIdle == [pc |-> "idle", r |-> CHOOSE r \in Records : TRUE]

AwAt(pc) == aw.pc = pc

AwGoto(pc) == aw' = [aw EXCEPT !.pc = pc]

\* The claim id of the running process.
Claim == crashes + 1

\* GetDueArchiveJobs and ClaimArchiveJob.
AwClaim(r) ==
    /\ AwAt("idle")
    /\ ClaimOK(job[r]) /\ job[r].due
    /\ job' = [job EXCEPT ![r] = ClaimArchiveJob(@, Claim)]
    /\ aw' = [pc |-> "probe", r |-> r]
    /\ UNCHANGED <<row, diskVars, processVars>>

(***************************************************************************)
(* The existing target, then the SSD source, are examined.  A target that  *)
(* cannot be read counts as a conflict, one that cannot be stat'ed as      *)
(* absent.                                                                 *)
(***************************************************************************)
\* Mutated form: any file with the name of the target will do.
TargetVerdict_Trusts(r) == "complete"

TargetVerdict(r) ==
    IF Matches(hdd[r], job[r].size, job[r].sha) THEN "complete" ELSE "conflict"

\* A file that is still being written may already have the size of the job.
SourceVerdicts(r) ==
    CASE final[r] = None -> {"fail"}
      [] final[r] = Partial -> {"conflict", "open"}
      [] OTHER -> {IF SizeOf[final[r]] = job[r].size THEN "open" ELSE "conflict"}

AwProbe ==
    LET r == aw.r IN
    /\ AwAt("probe")
    /\ \/ /\ NoFault
          /\ \E pc \in IF hdd[r] = None THEN SourceVerdicts(r) ELSE {TargetVerdict(r)} :
                AwGoto(pc)
       \/ /\ Fault
          /\ \E pc \in IF hdd[r] = None THEN {"fail"} ELSE {"conflict"} \cup SourceVerdicts(r) :
                AwGoto(pc)
    /\ UNCHANGED <<dbVars, diskVars>>

\* <dst>.moving is created or truncated.
AwOpen ==
    /\ AwAt("open")
    /\ \/ NoFault /\ moving' = [moving EXCEPT ![aw.r] = Partial] /\ AwGoto("copy")
       \/ Fault /\ UNCHANGED moving /\ AwGoto("fail")
    /\ UNCHANGED <<dbVars, part, final, hdd>>

\* CopyStreamSequential and the verification of size and digest.
AwCopy ==
    LET r == aw.r
        verified == Matches(final[r], job[r].size, job[r].sha)
    IN
    /\ AwAt("copy")
    /\ \/ verified /\ NoFault /\ moving' = [moving EXCEPT ![r] = final[r]] /\ AwGoto("commit")
       \/ ~verified /\ NoFault /\ moving' = [moving EXCEPT ![r] = None] /\ AwGoto("fail")
       \/ Fault /\ moving' = [moving EXCEPT ![r] = None] /\ AwGoto("fail")
    /\ UNCHANGED <<dbVars, part, final, hdd>>

\* CommitSiblingPart on the archive disk; .moving is left behind on an error.
AwCommit ==
    LET r == aw.r IN
    /\ AwAt("commit")
    /\ \E failure \in CommitFailures \ {"read"} :
        LET error == CommitError(moving[r], hdd[r], failure) IN
        /\ CommitFailure(moving[r], hdd[r], failure)
        /\ hdd' = [hdd EXCEPT ![r] = PublishedFile(moving[r], @, failure)]
        /\ moving' = [moving EXCEPT ![r] = IF Moves(@, hdd[r], failure) THEN None ELSE @]
        /\ AwGoto(CASE error = "none" -> "complete"
                    [] error = "exists" -> "conflict"
                    [] error = "io" -> "fail")
    /\ UNCHANGED <<dbVars, part, final>>

\* Mutated form: the error of CompleteArchiveJob is logged and ignored.
AwComplete_NoReturn ==
    /\ AwAt("complete")
    /\ \/ NoFault /\ job' = [job EXCEPT ![aw.r] = ArchiveCompleted(@)]
       \/ Fault /\ UNCHANGED job
    /\ AwGoto("remove")
    /\ UNCHANGED <<row, diskVars>>

\* CompleteArchiveJob; on an error processJob returns and the job stays copying.
AwComplete ==
    LET r == aw.r
        ok == ArchiveCompleteOK(job[r], Claim, job[r].sha)
    IN
    /\ AwAt("complete")
    /\ \/ /\ ok /\ NoFault
          /\ job' = [job EXCEPT ![r] = ArchiveCompleted(@)]
          /\ AwGoto("remove")
       \/ /\ (~ok /\ NoFault) \/ Fault
          /\ aw' = AwIdle
          /\ UNCHANGED job
    /\ UNCHANGED <<row, diskVars>>

\* The SSD copy is deleted; an error is only logged.
AwRemove ==
    /\ AwAt("remove")
    /\ \/ NoFault /\ final' = [final EXCEPT ![aw.r] = None]
       \/ Fault /\ UNCHANGED final
    /\ aw' = AwIdle
    /\ UNCHANGED <<dbVars, part, moving, hdd>>

\* FailArchiveJob and SetArchiveJobConflict; their errors are only logged.
AwEnd ==
    /\ AwAt("fail") \/ AwAt("conflict")
    /\ \/ /\ NoFault
          /\ job' = [job EXCEPT ![aw.r] = IF AwAt("fail") THEN FailArchiveJob(@, Claim)
                                          ELSE SetArchiveJobConflict(@, Claim)]
       \/ Fault /\ UNCHANGED job
    /\ aw' = AwIdle
    /\ UNCHANGED <<row, diskVars>>

AwStep ==
    \/ \E r \in Records : AwClaim(r)
    \/ AwProbe \/ AwOpen \/ AwCopy \/ AwCommit \/ AwComplete \/ AwRemove \/ AwEnd

ArchiveWorkerTypeOK == aw \in ArchiveWorkers
=============================================================================
