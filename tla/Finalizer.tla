----------------------------- MODULE Finalizer -----------------------------
(***************************************************************************)
(* The reconciliation of half-published records (app/daemon/recovery.go    *)
(* and ReconcileCommitting in orchestrator.go).  The same primitive,       *)
(* ReconcileCommittingRecord, runs in two places: once in                  *)
(* ReconcileOnStartup, before any other goroutine exists, and then in the  *)
(* online finalizer, concurrently with the workers.                        *)
(*                                                                         *)
(* fin.pc is the next step, fin.todo the listed records still to be        *)
(* visited, fin.r the record being visited.  fin.snap holds the rows AS    *)
(* LISTED: the code works on those copies for the rest of the pass.        *)
(***************************************************************************)
EXTENDS Orchestrator

VARIABLE fin

FinPcs == {"idle", "pick", "inspect", "commit", "complete", "conflict",
           "reset", "tellSuccess", "tellFailed"}

Finalizers == [pc : FinPcs, todo : SUBSET Records, r : Records,
               snap : [Records -> Rows]]

NoRecord == CHOOSE r \in Records : TRUE

FinIdle == [pc |-> "idle", todo |-> {}, r |-> NoRecord,
            snap |-> [r \in Records |-> AbsentRow]]

FinAt(pc) == fin.pc = pc

FinGoto(pc) == fin' = [fin EXCEPT !.pc = pc]

\* The visit of fin.r is over.  A pass that has visited all its records ends.
FinNext ==
    fin' = IF fin.todo = {} THEN FinIdle
           ELSE [fin EXCEPT !.pc = "pick", !.r = NoRecord, !.snap[fin.r] = AbsentRow]

Snap == fin.snap[fin.r]

\* GetPendingCommittingDownloads
FinList(S) ==
    /\ FinAt("idle")
    /\ S # {}
    /\ fin' = [pc |-> "pick", todo |-> S, r |-> NoRecord,
               snap |-> [r \in Records |-> IF r \in S THEN row[r] ELSE AbsentRow]]
    /\ UNCHANGED <<dbVars, diskVars, regVars, orcVars, media, processVars>>

\* The next listed record, skipped while a worker is publishing it.
FinPick(r) ==
    /\ FinAt("pick")
    /\ r \in fin.todo
    /\ fin' = IF pub[r]
              THEN IF fin.todo = {r} THEN FinIdle
                   ELSE [fin EXCEPT !.todo = @ \ {r}, !.snap[r] = AbsentRow]
              ELSE [fin EXCEPT !.pc = "inspect", !.r = r, !.todo = @ \ {r}]
    /\ UNCHANGED <<dbVars, diskVars, regVars, orcVars, media, processVars>>

(***************************************************************************)
(* What the files say about the listed row.  A file that cannot be read is *)
(* a file without proof; beside a final file the .part is read twice.  The *)
(* .part is removed at once when the final file is proven, and when        *)
(* neither file is.                                                        *)
(***************************************************************************)
FinInspect ==
    LET r == fin.r IN
    /\ FinAt("inspect")
    /\ \E unread \in {"none", "final", "part"} :
        LET finalProven == unread # "final" /\ Matches(final[r], Snap.size, Snap.sha)
            partProven  == /\ unread = "part" => final[r] # None
                           /\ Matches(part[r], Snap.size, Snap.sha)
        IN
        /\ IF unread = "none" THEN NoFault ELSE Fault
        /\ part' = [part EXCEPT ![r] = IF finalProven \/ ~partProven THEN None ELSE @]
        /\ FinGoto(IF finalProven THEN "complete"
                   ELSE IF ~partProven THEN "reset"
                   ELSE IF final[r] # None /\ unread # "part" THEN "conflict"
                   ELSE "commit")
    /\ UNCHANGED <<dbVars, final, moving, hdd, regVars, orcVars, media>>

\* CommitSiblingPart and EvaluateCommitSiblingPart; an I/O error ends the visit.
FinCommit ==
    LET r == fin.r IN
    /\ FinAt("commit")
    /\ \E failure \in CommitFailures :
        LET decision == Decision(part[r], final[r], Snap.size, Snap.sha, failure) IN
        /\ CommitFailure(part[r], final[r], failure)
        /\ final' = [final EXCEPT ![r] = PublishedFile(part[r], @, failure)]
        /\ part' = [part EXCEPT ![r] =
                      RemainingPart(@, final[r], Snap.size, Snap.sha, failure)]
        /\ CASE decision = "success"  -> FinGoto("complete")
             [] decision = "conflict" -> FinGoto("conflict")
             [] decision = "io"       -> FinNext
    /\ UNCHANGED <<dbVars, moving, hdd, regVars, orcVars, media>>

FinComplete ==
    LET ok == CompleteOK(row[fin.r], Snap.gen, Snap.size, Snap.sha) IN
    /\ FinAt("complete")
    /\ \/ /\ ok /\ NoFault
          /\ CompleteDownloadAndQueueArchive(fin.r, Snap.size, Snap.sha)
          /\ FinGoto("tellSuccess")
       \/ /\ Refused(ok)
          /\ FinNext
          /\ UNCHANGED dbVars
    /\ UNCHANGED <<diskVars, regVars, orcVars, media>>

FinConflict ==
    LET ok == ConflictOK(row[fin.r], Snap.gen) IN
    /\ FinAt("conflict")
    /\ \/ /\ ok /\ NoFault
          /\ row' = [row EXCEPT ![fin.r] =
                       Conflicted(@, Snap.gen, Snap.named, Snap.planned, Snap.size)]
          /\ FinGoto("tellFailed")
       \/ /\ Refused(ok)
          /\ FinNext
          /\ UNCHANGED row
    /\ UNCHANGED <<job, diskVars, regVars, orcVars, media>>

\* Neither file is proven: back to pending, without a word to the registry.
FinReset ==
    /\ FinAt("reset")
    /\ \/ NoFault /\ row' = [row EXCEPT ![fin.r] = Reset(@, Snap)]
       \/ Fault /\ UNCHANGED row
    /\ FinNext
    /\ UNCHANGED <<job, diskVars, regVars, orcVars, media>>

\* The registry is told online; startup recovery passes a nil registry.
FinTell(online) ==
    /\ FinAt("tellSuccess") \/ FinAt("tellFailed")
    /\ IF online
       THEN FinishTaskByMessage(fin.r, Snap.gen,
                IF FinAt("tellSuccess") THEN "success" ELSE "failed")
       ELSE UNCHANGED regVars
    /\ FinNext
    /\ UNCHANGED <<dbVars, diskVars, orcVars, media, processVars>>

\* One step of a visit.
FinStep(online) ==
    \/ \E r \in Records : FinPick(r)
    \/ FinInspect \/ FinCommit \/ FinComplete \/ FinConflict \/ FinReset
    \/ FinTell(online)

FinalizerTypeOK == fin \in Finalizers
=============================================================================
