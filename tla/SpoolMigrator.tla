--------------------------- MODULE SpoolMigrator ---------------------------
(***************************************************************************)
(* The migration of the old spool (app/daemon/migration): how Run moves    *)
(* the leftover files of the buffer directory into a quarantine before it  *)
(* commits the changed rows, and how ReconcilePendingQuarantines, at the   *)
(* start of the next run or when the transaction was rolled back, purges   *)
(* the quarantine or restores the files.                                   *)
(*                                                                         *)
(* The process may be killed between any two steps, and the power may be   *)
(* lost.  A directory has its current entries and the entries a power loss *)
(* leaves; fsync, or the file system on its own, makes them equal.  Every  *)
(* file of the buffer is in a directory of its own, the quarantine is      *)
(* another one.  What a run did is on disk before the next one starts.     *)
(***************************************************************************)
EXTENDS Integers, FiniteSetsExt

CONSTANTS
    NumFiles,           \* leftover files, 1 .. NumFiles
    MaxRuns,            \* bounds: calls of Run,
    MaxKills,           \* kills of the process and power losses,
    MaxErrors,          \* failing calls of the operating system or database,
    MaxForeign          \* files other programs create

ASSUME MigratorAssumption ==
    /\ NumFiles \in Nat \ {0}
    /\ {MaxRuns, MaxKills, MaxErrors, MaxForeign} \subseteq Nat

VARIABLES
    orig,               \* orig[b]: the content at the original path
    origDur,            \* orig, as a power loss leaves it
    quar,               \* the quarantine directory
    quarDur,            \* quar, as a power loss leaves it
    verdicts,           \* ids with a COMMITTED row in _tgx_migration_verdicts
    purgeable,          \* history: the contents committed migrations listed
    mig,                \* the process
    used                \* history: what of the bounds is used up

migVars == <<orig, origDur, quar, quarDur, verdicts, purgeable, mig, used>>

Spools == 1 .. NumFiles
Whole == {"old", "foreign"}
Content == Whole \cup {"none", "torn"}

\* A manifest lists the content (size and SHA-256) of every planned file;
\* "none" stands for a file that is not listed.
NoManifest == [state |-> "none", id |-> 0, files |-> [b \in Spools |-> "none"]]
NoQuarantine == [exists |-> FALSE, manifest |-> NoManifest,
                 staged |-> [b \in Spools |-> "none"]]

Quarantines ==
    [exists : BOOLEAN,
     manifest : [state : {"none", "torn", "good"}, id : 0 .. MaxRuns,
                 files : [Spools -> Content]],
     staged : [Spools -> Content]]

Idle(result) == [pc |-> "idle", undo |-> FALSE, id |-> 0, todo |-> {}, move |-> "none",
                 plan |-> [b \in Spools |-> "none"], result |-> result]

MigPcs == {"idle", "reconcile", "purge", "restore", "verify", "apply", "hash", "manifest",
           "stage", "commit", "link", "copy", "sync", "remove", "syncsrc"}
MigPlans == [Spools -> Content \cup {"move", "dedup", "keep"}]

Migrators ==
    [pc     : MigPcs,
     undo   : BOOLEAN,                      \* reconciling after a rollback
     id     : 0 .. MaxRuns,                 \* migrationID
     todo   : SUBSET Spools,                \* files the current loop has left
     move   : {"none", "stage", "restore"},
     plan   : MigPlans,
     result : {"none", "ok", "failed", "refused"}]

MigratorTypeOK ==
    /\ orig \in [Spools -> Content] /\ origDur \in [Spools -> Content]
    /\ quar \in Quarantines /\ quarDur \in Quarantines
    /\ verdicts \subseteq 1 .. MaxRuns
    /\ mig \in Migrators
    /\ quar.exists \/ quar = NoQuarantine

MigratorInit ==
    /\ orig = [b \in Spools |-> "old"] /\ origDur = orig
    /\ quar = NoQuarantine /\ quarDur = quar
    /\ verdicts = {} /\ purgeable = {}
    /\ mig = Idle("none")
    /\ used = [runs |-> 0, kills |-> 0, errors |-> 0, foreign |-> 0]

MigAt(pc) == mig.pc = pc
MigGoto(pc) == mig' = [mig EXCEPT !.pc = pc]

\* The file the loop is at.
This == Min(mig.todo)

\* An operation of this step fails.
SomethingFails ==
    used.errors < MaxErrors /\ used' = [used EXCEPT !.errors = @ + 1]

\* Run returns.  What it did reaches the disk before the next run.
Ends(result) ==
    /\ mig' = Idle(result)
    /\ origDur' = orig' /\ quarDur' = quar'

\* A step fails.  In reconciliation the run ends; in the transaction it is
\* rolled back, and the quarantine is reconciled.
Aborts ==
    IF mig.id = 0 THEN Ends("failed")
    ELSE /\ mig' = [Idle("none") EXCEPT !.pc = "reconcile", !.undo = TRUE]
         /\ UNCHANGED <<origDur, quarDur>>

dbVars == <<verdicts, purgeable>>

-----------------------------------------------------------------------------
(* ReconcilePendingQuarantines *)

StartRun ==
    /\ MigAt("idle") /\ used.runs < MaxRuns
    /\ used' = [used EXCEPT !.runs = @ + 1]
    /\ mig' = [Idle("none") EXCEPT !.pc = "reconcile"]
    /\ UNCHANGED <<orig, origDur, quar, quarDur, dbVars>>

\* Nothing is pending any more: Run goes on, or a rollback is complete.
Reconciled ==
    IF mig.undo THEN Ends("failed")
    ELSE /\ mig' = [Idle("none") EXCEPT !.pc = "apply"]
         /\ origDur' = orig' /\ quarDur' = quar'

NothingPending ==
    /\ MigAt("reconcile") /\ ~quar.exists
    /\ UNCHANGED <<orig, quar>>
    /\ Reconciled
    /\ UNCHANGED <<dbVars, used>>

EmptyQuarantine ==
    /\ quar.manifest.state = "none"
    /\ \A b \in Spools : quar.staged[b] = "none"

\* An empty directory without a manifest is removed.
RemoveOrphan ==
    /\ MigAt("reconcile") /\ quar.exists /\ EmptyQuarantine
    /\ quar' = NoQuarantine /\ UNCHANGED orig
    /\ Reconciled
    /\ UNCHANGED <<dbVars, used>>

\* The manifest is missing or does not parse: nothing is touched.
RefuseManifest ==
    /\ MigAt("reconcile") /\ quar.exists
    /\ quar.manifest.state # "good" /\ ~EmptyQuarantine
    /\ UNCHANGED <<orig, quar>>
    /\ Ends("refused")
    /\ UNCHANGED <<dbVars, used>>

\* The database cannot tell the verdict: nothing is touched.
VerdictUnknown ==
    /\ MigAt("reconcile") /\ quar.manifest.state = "good"
    /\ SomethingFails
    /\ UNCHANGED <<orig, quar>>
    /\ Ends("failed")
    /\ UNCHANGED dbVars

Listed == {b \in Spools : quar.manifest.files[b] # "none"}

\* The migration committed: finish the purge.
PurgeCommitted ==
    /\ MigAt("reconcile") /\ quar.manifest.state = "good"
    /\ quar.manifest.id \in verdicts
    /\ mig' = [mig EXCEPT !.pc = "purge", !.todo = Listed]
    /\ UNCHANGED <<orig, origDur, quar, quarDur, dbVars, used>>

\* Phase 1: of every listed file a copy exists, and every copy is the listed one.
Restorable ==
    \A b \in Listed :
        /\ orig[b] # "none" \/ quar.staged[b] # "none"
        /\ {orig[b], quar.staged[b]} \subseteq {"none", quar.manifest.files[b]}

RestorePlan ==
    [b \in Spools |->
        IF b \notin Listed THEN "none"
        ELSE IF quar.staged[b] = "none" THEN "keep"
        ELSE IF orig[b] = "none" THEN "move" ELSE "dedup"]

\* The migration did not commit: plan what to restore, or refuse.
Validate ==
    /\ MigAt("reconcile") /\ quar.manifest.state = "good"
    /\ quar.manifest.id \notin verdicts
    /\ IF Restorable
       THEN /\ mig' = [mig EXCEPT !.pc = "restore", !.todo = Listed, !.plan = RestorePlan]
            /\ UNCHANGED <<orig, origDur, quar, quarDur>>
       ELSE UNCHANGED <<orig, quar>> /\ Ends("refused")
    /\ UNCHANGED <<dbVars, used>>

\* Phase 2, one file: move it back, drop the second copy, or leave it.
RestoreOne ==
    /\ MigAt("restore") /\ mig.todo # {}
    /\ CASE mig.plan[This] = "move" ->
              mig' = [mig EXCEPT !.pc = "link", !.move = "restore"] /\ UNCHANGED quar
         [] mig.plan[This] = "dedup" ->
              /\ quar' = [quar EXCEPT !.staged[This] = "none"]
              /\ mig' = [mig EXCEPT !.todo = @ \ {This}]
         [] mig.plan[This] = "keep" ->
              mig' = [mig EXCEPT !.todo = @ \ {This}] /\ UNCHANGED quar
    /\ UNCHANGED <<orig, origDur, quarDur, dbVars, used>>

\* Phase 3: nothing is staged any more, and every original is there with its
\* size; a torn copy is shorter.
VerifyRestored ==
    /\ MigAt("restore") /\ mig.todo = {}
    /\ IF \A b \in Listed : quar.staged[b] = "none" /\ orig[b] \notin {"none", "torn"}
       THEN /\ MigGoto("verify")
            /\ UNCHANGED <<orig, origDur, quar, quarDur>>
       ELSE UNCHANGED <<orig, quar>> /\ Ends("refused")
    /\ UNCHANGED <<dbVars, used>>

RemoveManifest == quar' = [quar EXCEPT !.manifest = NoManifest]

\* The files are restored: the manifest goes, then the directory.
RemoveRestored ==
    /\ MigAt("verify")
    /\ UNCHANGED orig
    /\ IF quar.manifest.state = "good"
       THEN RemoveManifest /\ UNCHANGED <<mig, origDur, quarDur>>
       ELSE quar' = NoQuarantine /\ Reconciled
    /\ UNCHANGED <<dbVars, used>>

\* Mutated form: the manifest goes before the staged files.
Purge_ManifestFirst ==
    /\ MigAt("purge")
    /\ UNCHANGED orig
    /\ IF quar.manifest.state = "good"
       THEN RemoveManifest /\ UNCHANGED <<mig, origDur, quarDur>>
       ELSE IF mig.todo # {}
       THEN /\ quar' = [quar EXCEPT !.staged[This] = "none"]
            /\ mig' = [mig EXCEPT !.todo = @ \ {This}]
            /\ UNCHANGED <<origDur, quarDur>>
       ELSE quar' = NoQuarantine /\ IF mig.id = 0 THEN Reconciled ELSE Ends("ok")
    /\ UNCHANGED <<dbVars, used>>

\* A purge, in Run after the commit and in reconciliation alike: the staged
\* files go first, then the manifest, then the directory.
Purge ==
    /\ MigAt("purge")
    /\ UNCHANGED orig
    /\ IF mig.todo # {}
       THEN /\ quar' = [quar EXCEPT !.staged[This] = "none"]
            /\ mig' = [mig EXCEPT !.todo = @ \ {This}]
            /\ UNCHANGED <<origDur, quarDur>>
       ELSE IF quar.manifest.state = "good"
       THEN RemoveManifest /\ UNCHANGED <<mig, origDur, quarDur>>
       ELSE quar' = NoQuarantine /\ IF mig.id = 0 THEN Reconciled ELSE Ends("ok")
    /\ UNCHANGED <<dbVars, used>>

\* Removing a file, the manifest or the directory fails.
RemovalFails ==
    /\ MigAt("purge") \/ MigAt("verify") \/ (MigAt("restore") /\ mig.todo # {})
    /\ SomethingFails
    /\ UNCHANGED <<orig, quar>>
    /\ Ends("failed")
    /\ UNCHANGED dbVars

-----------------------------------------------------------------------------
(* durableNoReplaceMove, between the original path and the quarantine *)

Staging == mig.move = "stage"
SourceOf(b) == IF Staging THEN orig[b] ELSE quar.staged[b]
TargetOf(b) == IF Staging THEN quar.staged[b] ELSE orig[b]

PutTarget(b, c) ==
    IF Staging THEN quar' = [quar EXCEPT !.staged[b] = c] /\ UNCHANGED orig
    ELSE orig' = [orig EXCEPT ![b] = c] /\ UNCHANGED quar

\* 1. Link, or create and copy; neither replaces a file that is there.
LinkTarget ==
    /\ MigAt("link")
    /\ IF TargetOf(This) # "none" \/ SourceOf(This) = "none"
       THEN UNCHANGED <<orig, quar>> /\ Aborts
       ELSE /\ \/ PutTarget(This, SourceOf(This)) /\ MigGoto("sync")
               \/ PutTarget(This, "torn") /\ MigGoto("copy")
            /\ UNCHANGED <<origDur, quarDur>>
    /\ UNCHANGED <<dbVars, used>>

\* 2. The copy is complete, and its data are synced.
CopyTarget ==
    /\ MigAt("copy")
    /\ PutTarget(This, SourceOf(This))
    /\ MigGoto("sync")
    /\ UNCHANGED <<origDur, quarDur, dbVars, used>>

\* Mutated form: the directory of the target is not synced.
SyncTarget_Unsynced ==
    /\ MigAt("sync")
    /\ IF TargetOf(This) = quar.manifest.files[This]
       THEN MigGoto("remove") /\ UNCHANGED <<orig, origDur, quar, quarDur>>
       ELSE PutTarget(This, "none") /\ Aborts
    /\ UNCHANGED <<dbVars, used>>

\* 3., 4. The directory of the target is synced, and the target verified
\* against the manifest.
SyncTarget ==
    /\ MigAt("sync")
    /\ IF TargetOf(This) = quar.manifest.files[This]
       THEN /\ IF Staging THEN quarDur' = quar /\ UNCHANGED origDur
               ELSE origDur' = [origDur EXCEPT ![This] = orig[This]] /\ UNCHANGED quarDur
            /\ MigGoto("remove")
            /\ UNCHANGED <<orig, quar>>
       ELSE PutTarget(This, "none") /\ Aborts
    /\ UNCHANGED <<dbVars, used>>

\* 1. - 4. fail: what was created at the target is removed again.
MoveFails ==
    /\ MigAt("copy") \/ MigAt("sync")
    /\ SomethingFails
    /\ PutTarget(This, "none")
    /\ Aborts
    /\ UNCHANGED dbVars

\* 5. The source is removed.
RemoveSource ==
    /\ MigAt("remove")
    /\ IF Staging THEN orig' = [orig EXCEPT ![This] = "none"] /\ UNCHANGED quar
       ELSE quar' = [quar EXCEPT !.staged[This] = "none"] /\ UNCHANGED orig
    /\ MigGoto("syncsrc")
    /\ UNCHANGED <<origDur, quarDur, dbVars, used>>

\* 6. The directory of the source is synced.
SyncSource ==
    /\ MigAt("syncsrc")
    /\ IF Staging THEN origDur' = [origDur EXCEPT ![This] = orig[This]] /\ UNCHANGED quarDur
       ELSE quarDur' = quar /\ UNCHANGED origDur
    /\ mig' = [mig EXCEPT !.pc = mig.move, !.move = "none", !.todo = @ \ {This}]
    /\ UNCHANGED <<orig, quar, dbVars, used>>

\* 5. or 6. fails: the target stays.
SourceFails ==
    /\ MigAt("remove") \/ MigAt("syncsrc")
    /\ SomethingFails
    /\ UNCHANGED <<orig, quar>>
    /\ Aborts
    /\ UNCHANGED dbVars

-----------------------------------------------------------------------------
(* Run, after reconciliation *)

\* The buffer is walked, the transaction begins and the rows are changed; the
\* quarantine directory is created if there is anything to move.
Apply ==
    LET planned == {b \in Spools : orig[b] # "none"}
    IN  /\ MigAt("apply")
        /\ mig' = [mig EXCEPT !.pc = IF planned = {} THEN "commit" ELSE "hash",
                              !.id = used.runs, !.todo = planned]
        /\ quar' = [NoQuarantine EXCEPT !.exists = planned # {}]
        /\ UNCHANGED <<orig, origDur, quarDur, dbVars, used>>

\* Before the transaction, or with nothing moved yet, Run fails.
ApplyFails ==
    /\ MigAt("apply") \/ MigAt("hash") \/ MigAt("manifest")
    /\ SomethingFails
    /\ UNCHANGED <<orig, quar>>
    /\ Aborts
    /\ UNCHANGED dbVars

\* Every planned file is measured and hashed; the manifest is created empty.
CreateManifest ==
    /\ MigAt("hash")
    /\ mig' = [mig EXCEPT !.pc = "manifest",
                          !.plan = [b \in Spools |-> IF b \in mig.todo THEN orig[b] ELSE "none"]]
    /\ quar' = [quar EXCEPT !.manifest.state = "torn"]
    /\ UNCHANGED <<orig, origDur, quarDur, dbVars, used>>

\* The manifest is written, and synced with its directory.
WriteManifest ==
    /\ MigAt("manifest")
    /\ quar' = [quar EXCEPT !.manifest = [state |-> "good", id |-> mig.id, files |-> mig.plan]]
    /\ quarDur' = quar'
    /\ mig' = [mig EXCEPT !.pc = "stage", !.plan = Idle("none").plan]
    /\ UNCHANGED <<orig, origDur, dbVars, used>>

\* The next planned file is moved, or all are.
StageOne ==
    /\ MigAt("stage")
    /\ mig' = [mig EXCEPT !.pc = IF mig.todo = {} THEN "commit" ELSE "link",
                          !.move = IF mig.todo = {} THEN "none" ELSE "stage"]
    /\ UNCHANGED <<orig, origDur, quar, quarDur, dbVars, used>>

\* The verdict joins the transaction when there is a quarantine.
Verdict ==
    /\ verdicts' = IF quar.exists THEN verdicts \cup {mig.id} ELSE verdicts
    /\ purgeable' = purgeable \cup {<<b, quar.manifest.files[b]>> : b \in Listed}

Commit ==
    /\ MigAt("commit")
    /\ Verdict
    /\ UNCHANGED <<orig, quar, used>>
    /\ IF quar.exists
       THEN mig' = [mig EXCEPT !.pc = "purge", !.todo = Listed] /\ UNCHANGED <<origDur, quarDur>>
       ELSE Ends("ok")

\* Commit reports an error, and either took effect or did not.
CommitFails ==
    /\ MigAt("commit")
    /\ SomethingFails
    /\ Verdict \/ UNCHANGED dbVars
    /\ UNCHANGED <<orig, quar>>
    /\ Aborts

-----------------------------------------------------------------------------
(* The environment *)

\* The process is killed between two runs' worth of time, so the disk catches up.
Kill ==
    /\ ~MigAt("idle") /\ used.kills < MaxKills
    /\ used' = [used EXCEPT !.kills = @ + 1]
    /\ UNCHANGED <<orig, quar>>
    /\ Ends("none")
    /\ UNCHANGED dbVars

\* The power is lost: every directory is as it was last synced.
PowerLoss ==
    /\ ~MigAt("idle") /\ used.kills < MaxKills
    /\ used' = [used EXCEPT !.kills = @ + 1]
    /\ orig' = origDur /\ quar' = quarDur
    /\ Ends("none")
    /\ UNCHANGED dbVars

\* The file system syncs a directory on its own.
Flush ==
    /\ \/ origDur # orig /\ (\E b \in Spools : origDur' = [origDur EXCEPT ![b] = orig[b]])
          /\ UNCHANGED quarDur
       \/ quarDur # quar /\ quarDur' = quar /\ UNCHANGED origDur
    /\ UNCHANGED <<orig, quar, dbVars, mig, used>>

\* Another program creates a file at an original path.
Foreign ==
    /\ used.foreign < MaxForeign
    /\ used' = [used EXCEPT !.foreign = @ + 1]
    /\ \E b \in Spools : /\ orig[b] = "none" /\ origDur[b] = "none"
                         /\ orig' = [orig EXCEPT ![b] = "foreign"]
                         /\ origDur' = [origDur EXCEPT ![b] = "foreign"]
    /\ UNCHANGED <<quar, quarDur, dbVars, mig>>

MigratorNext ==
    \/ StartRun \/ NothingPending \/ RemoveOrphan \/ RefuseManifest \/ VerdictUnknown
    \/ PurgeCommitted \/ Validate \/ RestoreOne \/ VerifyRestored \/ RemoveRestored
    \/ Purge \/ RemovalFails
    \/ LinkTarget \/ CopyTarget \/ SyncTarget \/ MoveFails \/ RemoveSource \/ SyncSource
    \/ SourceFails
    \/ Apply \/ ApplyFails \/ CreateManifest \/ WriteManifest \/ StageOne
    \/ Commit \/ CommitFails
    \/ Kill \/ PowerLoss \/ Flush \/ Foreign

MigratorSpec == MigratorInit /\ [][MigratorNext]_migVars

-----------------------------------------------------------------------------
\* The contents that are in the buffer directory, in full.
KeptCopies == {copy \in Spools \X Whole : copy[2] \in {orig[copy[1]], quar.staged[copy[1]]}}

Promise == INSTANCE SpoolPromise WITH
    Copies <- Spools \X Whole, kept <- KeptCopies, granted <- purgeable

\* The migration implements its promise: at every instant, and after a kill or
\* a power loss at every instant, every file of the buffer directory that no
\* committed migration listed is whole at its path or in the quarantine.
MigrationKeepsFiles == Promise!Spec

\* Reconciliation refuses to go on only when it met a torn manifest or copy,
\* or a file another program put in the place of a staged one: no sequence of
\* kills, power losses and errors leaves a quarantine without its manifest,
\* or a listed file without a copy.
RefusalHasCause ==
    mig.result = "refused" =>
        \/ quar.manifest.state = "torn"
        \/ \E b \in Spools : \/ "torn" \in {orig[b], quar.staged[b]}
                             \/ orig[b] = "foreign" /\ quar.staged[b] = "old"
=============================================================================
