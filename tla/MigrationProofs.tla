-------------------------- MODULE MigrationProofs --------------------------
(***************************************************************************)
(* The migration of the old spool keeps the files: SpoolMigrator           *)
(* implements SpoolPromise for any number of files, runs, kills, power     *)
(* losses and failing calls, and reconciliation refuses only for a cause.  *)
(* First the inductive invariant, what the operations on the directories   *)
(* do to it, and the reconciliation of pending quarantines; then the moves,*)
(* the other steps, and the theorems.                                      *)
(***************************************************************************)
EXTENDS SpoolMigrator, TLAPS, WellFoundedInduction

-----------------------------------------------------------------------------
(* The inductive invariant: the directories *)

Good(q) == q.manifest.state = "good"
Committed(q) == Good(q) /\ q.manifest.id \in verdicts
Pending(q) == Good(q) /\ q.manifest.id \notin verdicts

\* Content c of file b survives whatever directory a power loss takes back:
\* it is at one of its two places now, and will be there after the loss.
Held(b, c) == \/ orig[b] = c /\ origDur[b] = c
              \/ quar.staged[b] = c /\ quarDur.staged[b] = c

Entries(b) == {orig[b], origDur[b], quar.staged[b], quarDur.staged[b]}

\* Every content that no committed migration listed is held.
Secured ==
    \A b \in Spools, c \in Whole :
        c \in Entries(b) /\ <<b, c>> \notin purgeable => Held(b, c)

\* File b of quarantine q, which is the current one or what a power loss
\* leaves of it, is as its manifest says.
AsListed(q, b) ==
    LET f == q.manifest.files[b]
    IN  /\ f \in Whole \cup {"none"}
        /\ q.staged[b] \in {"none", "torn", f}
        /\ ~Good(q) \/ f = "none" => q.staged[b] = "none"
        /\ Good(q) => {orig[b], origDur[b]} \subseteq {"none", "torn", "foreign", f}
        /\ Committed(q) /\ f # "none" => <<b, f>> \in purgeable
        /\ Pending(q) /\ f # "none" => Held(b, f)

Listing(q) ==
    /\ q.exists \/ q = NoQuarantine
    /\ \A b \in Spools : AsListed(q, b)

DiskShape ==
    /\ orig \in [Spools -> Content] /\ origDur \in [Spools -> Content]
    /\ quar \in Quarantines /\ quarDur \in Quarantines
    /\ verdicts \subseteq 1 .. MaxRuns
    /\ purgeable \subseteq Spools \X Whole

DiskInv == DiskShape /\ Secured /\ Listing(quar) /\ Listing(quarDur)

\* A step neither loses nor invents a content that no committed migration listed.
Keeps ==
    \A b \in Spools, c \in Whole :
        <<b, c>> \notin purgeable =>
            (c \in {orig[b], quar.staged[b]} <=> c \in {orig'[b], quar'.staged[b]})

-----------------------------------------------------------------------------
(* What the steps do to the directories, and that it keeps the files *)

\* Nothing changes.
Rests == UNCHANGED <<orig, origDur, quar, quarDur, dbVars>>

\* A step that leaves the directories alone keeps every file.
LEMMA RestsKeeps ==
    ASSUME DiskInv, Rests
    PROVE  DiskInv' /\ Keeps
BY Zenon DEF DiskInv, DiskShape, Secured, Listing, AsListed, Entries, Held, Good, Committed, Pending,
   Keeps, Rests, dbVars

\* The disk catches up.
Settles == UNCHANGED <<orig, quar, dbVars>> /\ origDur' = orig /\ quarDur' = quar

\* When what a run did reaches the disk, no file is lost.
LEMMA SettlesKeeps ==
    ASSUME DiskInv, Settles
    PROVE  DiskInv' /\ Keeps
BY Zenon DEF DiskInv, DiskShape, Secured, Listing, AsListed, Entries, Held, Good, Committed, Pending,
   Keeps, Settles, dbVars

LosesPower == UNCHANGED <<origDur, quarDur, dbVars>> /\ orig' = origDur /\ quar' = quarDur

\* A power loss, which takes every unsynced entry back, loses no file.
LEMMA LosesPowerKeeps ==
    ASSUME DiskInv, LosesPower
    PROVE  DiskInv' /\ Keeps
BY DEF DiskInv, DiskShape, Secured, Listing, AsListed, Entries, Held, Good, Committed, Pending,
   Keeps,
   LosesPower, dbVars

\* No quarantine is a quarantine by type.
LEMMA NoQuarantineType == NoQuarantine \in Quarantines
<1>1. [b \in Spools |-> "none"] \in [Spools -> Content]
  BY DEF Content
<1>2. 0 \in 0 .. MaxRuns
  BY MigratorAssumption
<1> QED
  BY Zenon, <1>1, <1>2 DEF NoQuarantine, NoManifest, Quarantines

\* The quarantine is removed, with nothing in it that may not go.
Clears ==
    /\ UNCHANGED <<orig, dbVars>> /\ origDur' = orig
    /\ quar' = NoQuarantine /\ quarDur' = NoQuarantine

\* Removing a quarantine with only purgeable files keeps every other file.
LEMMA ClearsKeeps ==
    ASSUME DiskInv, Clears,
           \A b \in Spools : quar.staged[b] \in Whole => <<b, quar.staged[b]>> \in purgeable
    PROVE  DiskInv' /\ Keeps
<1>1. DiskShape'
  BY NoQuarantineType DEF DiskInv, DiskShape, Clears, dbVars
<1>2. /\ \A b \in Spools : quar'.staged[b] = "none" /\ quarDur'.staged[b] = "none"
      /\ \A b \in Spools : quar'.manifest.files[b] = "none" /\ quarDur'.manifest.files[b] = "none"
      /\ ~Good(quar)' /\ ~Good(quarDur)'
  BY Zenon DEF Clears, NoQuarantine, NoManifest, Good
<1> QED
  BY <1>1, <1>2 DEF DiskInv, Secured, Listing, AsListed, Entries, Held, Committed, Pending, Keeps,
     Clears, dbVars, Whole

\* The quarantine directory is synced.
SyncsQuar == UNCHANGED <<orig, origDur, quar, dbVars>> /\ quarDur' = quar

\* Syncing the quarantine keeps the files, while its manifest is synced and a
\* new entry is a second copy.
LEMMA SyncsQuarKeeps ==
    ASSUME DiskInv, SyncsQuar, Good(quar) => quarDur.manifest = quar.manifest,
           \A b \in Spools : \/ quar.staged[b] \in {"none", quarDur.staged[b]}
                             \/ quar.staged[b] \in {"torn", orig[b]} /\ orig[b] = origDur[b]
    PROVE  DiskInv' /\ Keeps
BY DEF DiskInv, DiskShape, Secured, Listing, AsListed, Entries, Held, Good, Committed, Pending,
   Keeps,
   SyncsQuar, dbVars, Whole

\* The directory of one file is synced.
SyncsOrig(b) ==
    UNCHANGED <<orig, quar, quarDur, dbVars>> /\ origDur' = [origDur EXCEPT ![b] = orig[b]]

\* Syncing the directory of an original keeps the files, while a new entry in
\* it is a second copy.
LEMMA SyncsOrigKeeps ==
    ASSUME DiskInv, NEW d \in Spools, SyncsOrig(d),
           \/ orig[d] \in {"none", origDur[d]}
           \/ orig[d] \in {"torn", quar.staged[d]} /\ quar.staged[d] = quarDur.staged[d]
    PROVE  DiskInv' /\ Keeps
BY DEF DiskInv, DiskShape, Secured, Listing, AsListed, Entries, Held, Good, Committed, Pending,
   Keeps,
   SyncsOrig, dbVars, Whole

\* The staged file b becomes c.
PutsQuar(b, c) ==
    UNCHANGED <<orig, origDur, quarDur, dbVars>> /\ quar' = [quar EXCEPT !.staged[b] = c]

\* Staging or unstaging a file changes that entry of the quarantine alone.
LEMMA PutsQuarFields ==
    ASSUME quar \in Quarantines, NEW d \in Spools, NEW c \in Content, PutsQuar(d, c)
    PROVE  /\ quar' \in Quarantines
           /\ quar'.exists = quar.exists /\ quar'.manifest = quar.manifest
           /\ quar'.staged = [quar.staged EXCEPT ![d] = c]
BY Zenon DEF Quarantines, PutsQuar

\* What goes is a second copy or purged, what comes is a second copy.
LEMMA PutsQuarKeeps ==
    ASSUME DiskInv, NEW d \in Spools, NEW c \in Content, PutsQuar(d, c), quar.exists,
           \/ c = "none"
           \/ /\ Good(quar) /\ quar.manifest.files[d] # "none"
              /\ c \in {"torn", quar.manifest.files[d]},
           c \in Whole => orig[d] = c /\ origDur[d] = c,
           quar.staged[d] \in Whole =>
               \/ orig[d] = quar.staged[d] /\ origDur[d] = quar.staged[d]
               \/ <<d, quar.staged[d]>> \in purgeable /\ ~Pending(quar) /\ ~Pending(quarDur)
    PROVE  DiskInv' /\ Keeps
<1>1. /\ quar' \in Quarantines /\ quar.staged \in [Spools -> Content]
      /\ quar'.exists = quar.exists /\ quar'.manifest = quar.manifest
      /\ quar'.staged = [quar.staged EXCEPT ![d] = c]
  BY Zenon, PutsQuarFields DEF DiskInv, DiskShape, Quarantines
<1> QED
  BY <1>1 DEF DiskInv, DiskShape, Secured, Listing, AsListed, Entries, Held, Good, Committed,
     Pending,
     Keeps, PutsQuar, dbVars, Whole

\* The file at the original path becomes c.
PutsOrig(b, c) ==
    UNCHANGED <<origDur, quar, quarDur, dbVars>> /\ orig' = [orig EXCEPT ![b] = c]

\* What goes is staged and synced, and so is what comes.
LEMMA PutsOrigKeeps ==
    ASSUME DiskInv, NEW d \in Spools, NEW c \in Content, PutsOrig(d, c),
           Good(quar), quarDur.manifest = quar.manifest,
           c \in {"none", "torn", quar.manifest.files[d]},
           c \in Whole => quar.staged[d] = c /\ quarDur.staged[d] = c,
           orig[d] \in Whole => quar.staged[d] = orig[d] /\ quarDur.staged[d] = orig[d]
    PROVE  DiskInv' /\ Keeps
BY DEF DiskInv, DiskShape, Secured, Listing, AsListed, Entries, Held, Good, Committed, Pending,
   Keeps,
   PutsOrig, dbVars, Whole

\* Another program creates a file.
CreatesForeign(b) ==
    /\ orig[b] = "none" /\ origDur[b] = "none"
    /\ orig' = [orig EXCEPT ![b] = "foreign"] /\ origDur' = [origDur EXCEPT ![b] = "foreign"]
    /\ UNCHANGED <<quar, quarDur, dbVars>>

\* A file another program creates where there was none breaks no listing.
LEMMA ForeignDisk ==
    ASSUME DiskInv, NEW d \in Spools, CreatesForeign(d)
    PROVE  DiskInv'
BY DEF DiskInv, DiskShape, Secured, Listing, AsListed, Entries, Held, Good, Committed, Pending,
   CreatesForeign, dbVars, Whole, Content

\* The manifest is removed; nothing is staged.
DropsManifest == UNCHANGED <<orig, origDur, quarDur, dbVars>> /\ RemoveManifest

\* A manifest that lists nothing staged can go.
LEMMA DropsManifestKeeps ==
    ASSUME DiskInv, DropsManifest, quar.exists, \A b \in Spools : quar.staged[b] = "none"
    PROVE  DiskInv' /\ Keeps
<1>1. NoManifest \in [state : {"none", "torn", "good"}, id : 0 .. MaxRuns, files : [Spools -> Content]]
  BY Zenon, NoQuarantineType DEF NoQuarantine, Quarantines
<1>2. /\ quar' \in Quarantines
      /\ quar'.exists = quar.exists /\ quar'.manifest = NoManifest /\ quar'.staged = quar.staged
  BY Zenon, <1>1 DEF DiskInv, DiskShape, Quarantines, DropsManifest, RemoveManifest
<1>3. ~Good(quar)' /\ \A b \in Spools : quar'.manifest.files[b] = "none"
  BY <1>2 DEF NoManifest, Good
<1> QED
  BY <1>2, <1>3 DEF DiskInv, DiskShape, Secured, Listing, AsListed, Entries, Held, Committed,
     Pending, Keeps,
     DropsManifest, dbVars, Whole

\* The quarantine directory is created, or its manifest, empty.
Opens ==
    /\ UNCHANGED <<orig, origDur, quarDur, dbVars>>
    /\ \/ quar' = [NoQuarantine EXCEPT !.exists = TRUE]
       \/ quar.exists /\ quar' = [quar EXCEPT !.manifest.state = "torn"]

\* Creating the quarantine or an empty manifest changes no file.
LEMMA OpensKeeps ==
    ASSUME DiskInv, Opens, ~Good(quar)
    PROVE  /\ DiskInv' /\ Keeps
           /\ quar'.exists /\ ~Good(quar')
<1>1. CASE quar' = [NoQuarantine EXCEPT !.exists = TRUE]
  <2>1. /\ quar' \in Quarantines /\ quar'.exists
        /\ quar'.manifest = NoQuarantine.manifest /\ quar'.staged = NoQuarantine.staged
    BY Zenon, <1>1, NoQuarantineType DEF Quarantines
  <2>2. /\ ~Good(quar')
        /\ \A b \in Spools : quar'.staged[b] = "none" /\ quar'.manifest.files[b] = "none"
    BY <2>1 DEF NoQuarantine, NoManifest, Good
  <2>3. \A b \in Spools : quar.staged[b] = "none"
    BY Zenon DEF DiskInv, Listing, AsListed
  <2> QED
    BY <2>1, <2>2, <2>3 DEF DiskInv, DiskShape, Secured, Listing, AsListed, Entries, Held, Good,
       Committed,
       Pending, Keeps, Opens, dbVars, Whole
<1>2. CASE quar.exists /\ quar' = [quar EXCEPT !.manifest.state = "torn"]
  <2>1. /\ quar' \in Quarantines /\ quar'.exists = quar.exists
        /\ quar'.manifest.state = "torn" /\ quar'.manifest.files = quar.manifest.files
        /\ quar'.staged = quar.staged
    BY Zenon, <1>2 DEF Quarantines, DiskInv, DiskShape
  <2>2. ~Good(quar')
    BY Zenon, <2>1 DEF Good
  <2>3. DiskShape' /\ Secured' /\ Keeps
    BY Zenon, <2>1 DEF DiskInv, DiskShape, Secured, Entries, Held, Keeps, Opens, dbVars
  <2>4. Listing(quar)'
    BY <1>2, <2>1, <2>2 DEF DiskInv, Listing, AsListed, Committed, Pending, Opens
  <2>5. Listing(quarDur)'
    BY <2>1 DEF DiskInv, Listing, AsListed, Held, Good, Committed, Pending, Opens, dbVars
  <2> QED
    BY Zenon, <1>2, <2>1, <2>2, <2>3, <2>4, <2>5 DEF DiskInv
<1> QED
  BY Zenon, <1>1, <1>2 DEF Opens

\* The manifest is written and synced.
Lists(id, plan) ==
    /\ UNCHANGED <<orig, origDur, dbVars>>
    /\ quar' = [quar EXCEPT !.manifest = [state |-> "good", id |-> id, files |-> plan]]
    /\ quarDur' = quar'

\* It lists what is at the original paths.
LEMMA ListsKeeps ==
    ASSUME DiskInv, NEW id \in 0 .. MaxRuns, NEW plan \in [Spools -> Whole \cup {"none"}], Lists(id, plan),
           quar.exists, ~Good(quar), ~Good(quarDur), id \notin verdicts, origDur = orig,
           \A b \in Spools : IF plan[b] = "none" THEN orig[b] \in {"none", "foreign"}
                             ELSE orig[b] = plan[b]
    PROVE  /\ DiskInv' /\ Keeps
           /\ Good(quar') /\ quar'.manifest.id = id
<1>1. /\ quar' \in Quarantines /\ quar'.exists = quar.exists /\ quar'.staged = quar.staged
      /\ quar'.manifest = [state |-> "good", id |-> id, files |-> plan]
  <2>1. plan \in [Spools -> Content]
    BY DEF Content
  <2>2. [state |-> "good", id |-> id, files |-> plan] \in
            [state : {"none", "torn", "good"}, id : 0 .. MaxRuns, files : [Spools -> Content]]
    BY Zenon, <2>1
  <2> QED
    BY Zenon, <2>2 DEF DiskInv, DiskShape, Quarantines, Lists
<1>2. Good(quar') /\ quar'.manifest.id = id /\ quar'.manifest.files = plan
  BY <1>1 DEF Good
<1>3. \A b \in Spools : quar.staged[b] = "none" /\ quarDur.staged[b] = "none"
  BY Zenon DEF DiskInv, Listing, AsListed
<1> QED
  BY <1>1, <1>2, <1>3 DEF DiskInv, DiskShape, Secured, Listing, AsListed, Entries, Held,
     Committed, Pending,
     Keeps, Lists, dbVars, Whole

\* What a restore put at the original path is removed again, and the run ends.
Undoes(b) ==
    /\ UNCHANGED <<quar, dbVars>> /\ quarDur' = quar
    /\ orig' = [orig EXCEPT ![b] = "none"] /\ origDur' = orig'

\* What a restore put at the original path can go: the staged copy is synced.
LEMMA UndoesKeeps ==
    ASSUME DiskInv, NEW d \in Spools, Undoes(d), Good(quar), quarDur.manifest = quar.manifest,
           orig[d] \in Whole => quar.staged[d] = orig[d] /\ quarDur.staged[d] = orig[d],
           \A b \in Spools : quar.staged[b] \in {"none", quarDur.staged[b]},
           \A b \in Spools : b # d => orig[b] \in {"none", origDur[b]}
    PROVE  DiskInv' /\ Keeps
<1>1. orig' \in [Spools -> Content] /\ orig'[d] = "none" /\ \A b \in Spools \ {d} : orig'[b] = orig[b]
  BY Zenon DEF DiskInv, DiskShape, Undoes, Content
<1>2. /\ origDur' = orig' /\ quarDur' = quar /\ quar' = quar /\ "none" \notin Whole
      /\ UNCHANGED <<verdicts, purgeable>>
  BY DEF Undoes, dbVars, Whole
<1>3. DiskShape'
  BY Zenon, <1>1, <1>2 DEF DiskInv, DiskShape
<1>4. Secured' /\ Keeps
  BY <1>1, <1>2 DEF DiskInv, Secured, Entries, Held, Keeps
<1>5. Listing(quar)'
  BY <1>1, <1>2 DEF DiskInv, Listing, AsListed, Held, Good, Committed, Pending
<1> QED
  BY Zenon, <1>2, <1>3, <1>4, <1>5 DEF DiskInv, Listing, AsListed, Held, Good, Committed, Pending

\* The transaction commits: the verdict is in the database.
Grants == UNCHANGED <<orig, quar, origDur, quarDur>> /\ Verdict

\* With its verdict the manifest turns from pending to committed.
LEMMA GrantsDisk ==
    ASSUME DiskInv, Grants, mig.id \in 1 .. MaxRuns,
           quar.exists => Good(quar) /\ quar.manifest.id = mig.id /\ quarDur.manifest = quar.manifest
    PROVE  DiskInv' /\ purgeable' \ purgeable \in SUBSET (Spools \X Whole)
<1>1. /\ \A b \in Spools : quar.manifest.files[b] # "none" => <<b, quar.manifest.files[b]>> \in purgeable'
      /\ purgeable \subseteq purgeable'
      /\ purgeable' \subseteq Spools \X Whole
  BY DEF Grants, Verdict, Listed, DiskInv, DiskShape, Listing, AsListed
<1>2. CASE quar.exists
  <2>1. /\ verdicts' = verdicts \cup {quar.manifest.id} /\ quar.manifest.id \in 1 .. MaxRuns
        /\ quarDur.manifest = quar.manifest /\ Good(quar)
    BY <1>2 DEF Grants, Verdict
  <2>2. DiskShape' /\ Secured'
    BY Zenon, <1>1, <2>1 DEF DiskInv, DiskShape, Secured, Entries, Held, Grants
  <2>3. Committed(quar)' /\ Committed(quarDur)'
    BY Zenon, <2>1 DEF Committed, Good, Grants
  <2>4. ASSUME NEW b \in Spools PROVE AsListed(quar, b)' /\ AsListed(quarDur, b)'
    BY <1>1, <2>1, <2>3 DEF DiskInv, Listing, AsListed, Good, Committed, Pending, Grants
  <2>5. Listing(quar)' /\ Listing(quarDur)'
    BY <2>4 DEF DiskInv, Listing, Grants
  <2> QED
    BY <1>1, <2>2, <2>5 DEF DiskInv
<1>3. CASE ~quar.exists
  <2>1. quar = NoQuarantine
    BY <1>3 DEF DiskInv, Listing
  <2>2. Listed = {}
    BY <2>1 DEF Listed, NoQuarantine, NoManifest
  <2>3. Rests
    BY <1>3, <2>2 DEF Grants, Verdict, Rests, dbVars
  <2> QED
    BY <2>3, RestsKeeps DEF Rests, dbVars
<1> QED
  BY <1>2, <1>3

-----------------------------------------------------------------------------
(* The inductive invariant: the process *)

Moving == {"link", "copy", "sync", "remove", "syncsrc"}

Loops ==
    /\ mig.pc \in Moving <=> mig.move # "none"
    /\ mig.pc \in Moving => mig.todo # {}

\* The target of a move is there and not synced yet.
HalfDone(move, b) == mig.move = move /\ mig.pc \in {"copy", "sync"} /\ b = This

\* An entry is as a power loss leaves it, unless it was removed or is half done.
Synced ==
    /\ \A b \in Spools :
          /\ orig[b] \in {"none", origDur[b]} \/ HalfDone("restore", b)
          /\ quar.staged[b] \in {"none", quarDur.staged[b]} \/ HalfDone("stage", b)
    /\ Good(quar) => quarDur.manifest = quar.manifest

\* Only a restore leaves a torn file at an original path.
Torn ==
    \A b \in Spools :
        /\ orig[b] = "torn" => Pending(quar) /\ quar.manifest.files[b] # "none" /\ mig.id = 0
        /\ origDur[b] = "torn" => Pending(quarDur) /\ quarDur.manifest.files[b] # "none" /\ mig.id = 0

\* Every run has an id of its own, and no verdict before its commit.
Ids ==
    /\ verdicts \subseteq 1 .. used.runs
    /\ mig.id \in {0, used.runs}
    /\ mig.undo \/ mig.pc = "reconcile" => mig.id = 0
    /\ mig.pc # "idle" => used.runs > 0 /\ mig.result = "none"
    /\ mig.pc # "idle" /\ ~mig.undo /\ (mig.pc = "purge" => mig.id = 0) => used.runs \notin verdicts

\* Until the manifest is written nothing is staged, and what is planned is in place.
PlanPhase ==
    /\ mig.pc \in {"apply", "hash", "manifest"} => origDur = orig /\ ~mig.undo
    /\ mig.pc = "apply" => mig.id = 0 /\ quar = NoQuarantine /\ quarDur = NoQuarantine
    /\ mig.pc \in {"hash", "manifest"} =>
          mig.id # 0 /\ quar.exists /\ ~Good(quar) /\ ~Good(quarDur)
    /\ mig.pc = "hash" =>
          \A b \in Spools : orig[b] \in IF b \in mig.todo THEN Whole ELSE {"none", "foreign"}
    /\ mig.pc = "manifest" =>
          \A b \in Spools : IF b \in mig.todo THEN mig.plan[b] \in Whole /\ orig[b] = mig.plan[b]
                            ELSE mig.plan[b] = "none" /\ orig[b] \in {"none", "foreign"}

\* What is not moved yet is in place, as listed.
StagePhase ==
    mig.pc \in {"stage", "commit"} \/ mig.move = "stage" =>
        /\ mig.id # 0
        /\ quar.exists \/ mig.pc # "commit" =>
              quar.exists /\ Good(quar) /\ quar.manifest.id = mig.id /\ quarDur.manifest = quar.manifest
        /\ \A b \in mig.todo :
              /\ quar.manifest.files[b] # "none"
              /\ \/ orig[b] = quar.manifest.files[b] /\ origDur[b] = quar.manifest.files[b]
                 \/ b = This /\ mig.pc = "syncsrc"

\* What is purged was committed, and what is left is to do.
PurgePhase ==
    mig.pc = "purge" =>
        /\ quar.exists
        /\ Good(quar) => Committed(quar)
        /\ Good(quarDur) => Committed(quarDur)
        /\ \A b \in Spools :
              /\ quar.staged[b] # "none" => b \in mig.todo
              /\ quar.staged[b] \in Whole => <<b, quar.staged[b]>> \in purgeable

\* The plan of the restore stays true of the files it has left.
RestorePhase ==
    mig.pc = "restore" \/ mig.move = "restore" =>
        /\ mig.move = "restore" => mig.plan[This] = "move"
        /\ mig.id = 0 /\ quar.exists /\ Pending(quar)
        /\ \A b \in Spools :
              /\ quar.staged[b] # "none" => b \in mig.todo
              /\ b \in mig.todo =>
                    /\ quar.manifest.files[b] # "none"
                    /\ \/ mig.plan[b] = "move"
                       \/ mig.plan[b] = "keep" /\ quar.staged[b] = "none"
                       \/ /\ mig.plan[b] = "dedup"
                          /\ orig[b] = quar.staged[b] /\ origDur[b] = quar.staged[b]

VerifyPhase ==
    mig.pc = "verify" =>
        /\ mig.id = 0 /\ quar.exists
        /\ \A b \in Spools : quar.staged[b] = "none" /\ orig[b] # "torn"

\* Of the two copies that a move has for a while, one is synced.
MovePhase ==
    /\ mig.pc \in {"copy", "sync"} /\ mig.move = "stage" =>
          /\ orig[This] # "none" /\ origDur[This] = orig[This]
          /\ quar.staged[This] \in {"torn", orig[This]}
    /\ mig.pc \in {"copy", "sync"} /\ mig.move = "restore" =>
          /\ quar.staged[This] # "none" /\ quarDur.staged[This] = quar.staged[This]
          /\ orig[This] \in {"torn", quar.staged[This]}
    /\ mig.pc = "remove" => Entries(This) = {orig[This]}
    /\ mig.pc = "syncsrc" /\ mig.move = "restore" => quar.staged[This] = "none"

Counters == used \in [runs : 0 .. MaxRuns, kills : Nat, errors : Nat, foreign : Nat]

SpoolInv ==
    /\ DiskInv /\ mig \in Migrators /\ Counters
    /\ Loops /\ Synced /\ Torn /\ Ids
    /\ PlanPhase /\ StagePhase /\ PurgePhase /\ RestorePhase /\ VerifyPhase /\ MovePhase
    /\ RefusalHasCause

-----------------------------------------------------------------------------
(* What the steps do to the process *)

Results == {"none", "ok", "failed", "refused"}
MoveKinds == {"none", "stage", "restore"}

\* The records the steps assign to the process have its type.
LEMMA MigFields ==
    ASSUME NEW m \in Migrators, NEW pc \in MigPcs
    PROVE  /\ [m EXCEPT !.pc = pc] \in Migrators
           /\ [m EXCEPT !.pc = pc, !.undo = TRUE] \in Migrators
           /\ \A todo \in SUBSET Spools :
                 /\ [m EXCEPT !.todo = todo] \in Migrators
                 /\ [m EXCEPT !.pc = pc, !.todo = todo] \in Migrators
                 /\ \A id \in 0 .. MaxRuns : [m EXCEPT !.pc = pc, !.id = id, !.todo = todo] \in Migrators
                 /\ \A move \in MoveKinds :
                       [m EXCEPT !.pc = pc, !.move = move, !.todo = todo] \in Migrators
                 /\ \A plan \in MigPlans :
                       [m EXCEPT !.pc = pc, !.todo = todo, !.plan = plan] \in Migrators
           /\ \A move \in MoveKinds : [m EXCEPT !.pc = pc, !.move = move] \in Migrators
           /\ \A plan \in MigPlans : [m EXCEPT !.pc = pc, !.plan = plan] \in Migrators
BY Zenon DEF Migrators, MoveKinds

\* So has the record a run starts and ends with.
LEMMA IdleType == ASSUME NEW r \in Results PROVE Idle(r) \in Migrators
<1>1. [b \in Spools |-> "none"] \in MigPlans
  BY DEF MigPlans, Content
<1>2. 0 \in 0 .. MaxRuns
  BY MigratorAssumption
<1>3. "idle" \in MigPcs
  BY DEF MigPcs
<1> QED
  BY Zenon, <1>1, <1>2, <1>3 DEF Idle, Migrators, Results

\* A loop that has files left is at one of them.
LEMMA Smallest ==
    ASSUME NEW S \in SUBSET Nat, S # {}
    PROVE  \E k \in S : \A j \in S : k <= j
<1>1. PICK k \in S : \A j \in S : ~(<<j, k>> \in OpToRel(<, Nat))
  BY Zenon, NatLessThanWellFounded, WFMin
<1>2. \A j \in S : ~(j < k)
  BY Zenon, <1>1 DEF OpToRel
<1> QED
  BY <1>2

\* In a loop with files left, This is one of them.
LEMMA ThisListed ==
    ASSUME mig \in Migrators, mig.todo # {}
    PROVE  This \in mig.todo /\ This \in Spools
<1>1. mig.todo \subseteq Spools
  BY Zenon DEF Migrators
<1>2. mig.todo \in SUBSET Nat
  BY <1>1 DEF Spools
<1>3. This \in mig.todo
  BY Zenon, <1>2, Smallest DEF This, Min
<1> QED
  BY <1>1, <1>3

\* Between the loops the invariant of a phase says nothing.
Phases == Loops /\ PlanPhase /\ StagePhase /\ PurgePhase /\ RestorePhase /\ VerifyPhase /\ MovePhase

\* An idle process, or one about to reconcile, is in no phase.
LEMMA Quiet ==
    ASSUME mig'.pc \in {"idle", "reconcile"}, mig'.move = "none"
    PROVE  Phases'
BY DEF Phases, Loops, PlanPhase, StagePhase, PurgePhase, RestorePhase, VerifyPhase, MovePhase,
   Moving

\* Run returns: the disk has caught up.
LEMMA Ended ==
    ASSUME SpoolInv, NEW r \in Results, mig' = Idle(r), origDur' = orig', quarDur' = quar',
           DiskInv', Counters', used'.runs = used.runs, verdicts' \subseteq 1 .. used.runs,
           \A b \in Spools : orig'[b] = "torn" => Pending(quar)' /\ quar'.manifest.files[b] # "none",
           RefusalHasCause'
    PROVE  SpoolInv'
<1>1. mig' \in Migrators
  BY IdleType
<1>2. mig'.pc = "idle" /\ mig'.move = "none" /\ mig'.id = 0 /\ ~mig'.undo
  BY DEF Idle
<1>3. Phases'
  BY <1>2, Quiet
<1>4. Synced' /\ Torn' /\ Ids'
  BY <1>2 DEF Synced, Torn, Ids, Pending, Good
<1> QED
  BY <1>1, <1>3, <1>4 DEF SpoolInv, Phases

\* The commonest end: nothing else changes.
LEMMA EndsSettled ==
    ASSUME SpoolInv, NEW r \in Results, Ends(r), UNCHANGED <<orig, quar, dbVars>>,
           Counters', used'.runs = used.runs, RefusalHasCause'
    PROVE  SpoolInv' /\ Keeps
<1>1. Settles
  BY DEF Ends, Settles
<1>2. DiskInv' /\ Keeps
  BY <1>1, SettlesKeeps DEF SpoolInv
<1>3. \A b \in Spools : orig'[b] = "torn" => Pending(quar)' /\ quar'.manifest.files[b] # "none"
  BY <1>1 DEF SpoolInv, Torn, Settles, Pending, Good, dbVars
<1>4. verdicts' \subseteq 1 .. used.runs
  BY <1>1 DEF SpoolInv, Ids, Settles, dbVars
<1> QED
  BY <1>2, <1>3, <1>4, Ended DEF Ends

\* What an error adds to the counters.
LEMMA Failing ==
    ASSUME Counters, SomethingFails
    PROVE  Counters' /\ used'.runs = used.runs
BY DEF Counters, SomethingFails

\* A run with another result than a refusal needs no cause.
LEMMA NotRefused ==
    ASSUME NEW r \in Results, r # "refused", mig' = Idle(r)
    PROVE  RefusalHasCause'
BY DEF RefusalHasCause, Idle

\* The transaction is rolled back, with nothing half done.
LEMMA RolledBack ==
    ASSUME SpoolInv, mig.id # 0, Aborts, DiskInv', Counters', used'.runs = used.runs, 
           UNCHANGED orig, verdicts' \subseteq 1 .. used.runs,
           Good(quar') => quarDur'.manifest = quar'.manifest,
           \A b \in Spools : quar'.staged[b] \in {"none", quarDur'.staged[b]}
    PROVE  SpoolInv'
<1>1. /\ mig' = [Idle("none") EXCEPT !.pc = "reconcile", !.undo = TRUE]
      /\ UNCHANGED <<origDur, quarDur>>
  BY DEF Aborts
<1>2. mig' \in Migrators
  BY Zenon, <1>1, IdleType, MigFields DEF Results, MigPcs
<1>3. mig'.pc = "reconcile" /\ mig'.move = "none" /\ mig'.id = 0 /\ mig'.undo /\ mig'.result = "none"
  BY <1>1 DEF Idle
<1>4. Phases'
  BY <1>3, Quiet
<1>5. Synced'
  BY <1>1, <1>3 DEF SpoolInv, Synced, HalfDone, Loops, RestorePhase
<1>6. Torn'
  BY <1>1, <1>3 DEF SpoolInv, Torn
<1>7. Ids'
  BY <1>3 DEF SpoolInv, Ids, Counters
<1>8. RefusalHasCause'
  BY <1>3 DEF RefusalHasCause
<1> QED
  BY <1>2, <1>4, <1>5, <1>6, <1>7, <1>8 DEF SpoolInv, Phases

\* The process goes on in the same run.
LEMMA GoesOn ==
    ASSUME SpoolInv, UNCHANGED <<used, verdicts>>, mig.pc # "idle", mig'.pc \notin {"idle", "reconcile"},
           mig'.id = mig.id, mig'.undo = mig.undo, mig'.result = mig.result,
           mig.pc = "purge" => mig'.pc = "purge"
    PROVE  Counters' /\ Ids' /\ RefusalHasCause'
BY DEF SpoolInv, Counters, Ids, RefusalHasCause

\* A quarantine with a manifest exists.
LEMMA GoodExists == ASSUME NEW q, Listing(q), Good(q) PROVE q.exists
BY DEF Listing, Good, NoQuarantine, NoManifest

-----------------------------------------------------------------------------
(* ReconcilePendingQuarantines *)

\* The invariant holds again, and no file that may not go went.
Preserves == SpoolInv' /\ Keeps /\ UNCHANGED purgeable

\* Run starts with ReconcilePendingQuarantines.
LEMMA StartRunStep == ASSUME SpoolInv, StartRun PROVE Preserves
<1>1. Rests /\ mig' = [Idle("none") EXCEPT !.pc = "reconcile"]
  BY DEF StartRun, Rests
<1>2. DiskInv' /\ Keeps /\ UNCHANGED purgeable
  BY <1>1, RestsKeeps DEF SpoolInv, Rests, dbVars
<1>3. mig' \in Migrators
  BY Zenon, <1>1, IdleType, MigFields DEF Results, MigPcs
<1>4. /\ mig'.pc = "reconcile" /\ mig'.move = "none" /\ mig'.id = 0 /\ ~mig'.undo /\ mig'.result = "none"
      /\ mig.pc = "idle" /\ mig.move = "none"
  BY <1>1 DEF Idle, StartRun, MigAt, SpoolInv, Loops, Moving
<1>5. Counters' /\ used'.runs = used.runs + 1 /\ used.runs \in Nat
  BY MigratorAssumption DEF SpoolInv, Counters, StartRun
<1>6. Phases'
  BY <1>4, Quiet
<1>7. Synced' /\ Torn' /\ RefusalHasCause'
  BY <1>1, <1>4 DEF SpoolInv, Synced, Torn, HalfDone, Rests, dbVars, Good, Pending,
     RefusalHasCause
<1>8. Ids'
  BY <1>1, <1>4, <1>5 DEF SpoolInv, Ids, Rests, dbVars
<1> QED
  BY <1>2, <1>3, <1>5, <1>6, <1>7, <1>8 DEF SpoolInv, Phases, Preserves

\* Nothing is left in the quarantine that may not go, and no original is torn.
LEMMA Cleared ==
    ASSUME SpoolInv, quar' = NoQuarantine, UNCHANGED <<orig, dbVars, used>>,
           \/ Reconciled
           \/ Ends("ok"),
           mig.id = 0 \/ Ends("ok"), mig.pc # "idle",
           \A b \in Spools : /\ quar.staged[b] \in Whole => <<b, quar.staged[b]>> \in purgeable
                             /\ orig[b] # "torn"
    PROVE  Preserves
<1>1. Clears
  BY DEF Clears, Reconciled, Ends
<1>2. DiskInv' /\ Keeps /\ UNCHANGED purgeable
  BY <1>1, ClearsKeeps DEF SpoolInv, Clears, dbVars
<1>3. ~Good(quar') /\ \A b \in Spools : quar'.staged[b] = "none"
  BY DEF Good, NoQuarantine, NoManifest
<1>4. Counters'
  BY DEF SpoolInv, Counters
<1>5. CASE \E r \in {"ok", "failed"} : mig' = Idle(r)
  <2>1. PICK r \in {"ok", "failed"} : mig' = Idle(r)
    BY <1>5
  <2>2. RefusalHasCause'
    BY <2>1, NotRefused DEF Results
  <2>3. r \in Results /\ verdicts' \subseteq 1 .. used.runs
    BY DEF SpoolInv, Ids, Results, dbVars
  <2> QED
    BY Zenon, <1>1, <1>2, <1>4, <2>1, <2>2, <2>3, Ended DEF Clears, Preserves
<1>6. CASE mig' = [Idle("none") EXCEPT !.pc = "apply"] /\ ~mig.undo /\ mig.id = 0
  <2>1. mig' \in Migrators
    BY Zenon, <1>6, IdleType, MigFields DEF Results, MigPcs
  <2>2. mig'.pc = "apply" /\ mig'.move = "none" /\ mig'.id = 0 /\ ~mig'.undo /\ mig'.result = "none"
    BY <1>6 DEF Idle
  <2>3. Phases'
    BY <1>1, <2>2 DEF Phases, Loops, PlanPhase, StagePhase, PurgePhase, RestorePhase,
       VerifyPhase, MovePhase,
       Moving, Clears
  <2>4. Synced' /\ Torn' /\ RefusalHasCause'
    BY Zenon, <1>1, <1>3, <2>2 DEF Synced, Torn, HalfDone, Clears, RefusalHasCause
  <2>5. Ids'
    BY <1>6, <2>2 DEF SpoolInv, Ids, dbVars
  <2> QED
    BY <1>2, <1>4, <2>1, <2>3, <2>4, <2>5 DEF SpoolInv, Phases, Preserves
<1> QED
  BY <1>5, <1>6 DEF Reconciled, Ends

\* ReconcilePendingQuarantines finds no quarantine.
LEMMA NothingPendingStep == ASSUME SpoolInv, NothingPending PROVE Preserves
<1>1. quar = NoQuarantine
  BY DEF SpoolInv, DiskInv, Listing, NothingPending
<1>2. ~Good(quar) /\ \A b \in Spools : quar.staged[b] = "none"
  BY <1>1 DEF NoQuarantine, NoManifest, Good
<1>3. \A b \in Spools : orig[b] # "torn"
  BY <1>2 DEF SpoolInv, Torn, Pending
<1>4. mig.pc = "reconcile" /\ mig.id = 0
  BY DEF NothingPending, MigAt, SpoolInv, Ids
<1> QED
  BY <1>1, <1>2, <1>3, <1>4, Cleared DEF NothingPending, Whole

\* It removes an empty directory without a manifest.
LEMMA RemoveOrphanStep == ASSUME SpoolInv, RemoveOrphan PROVE Preserves
<1>2. ~Good(quar) /\ \A b \in Spools : quar.staged[b] = "none"
  BY DEF RemoveOrphan, EmptyQuarantine, Good
<1>3. \A b \in Spools : orig[b] # "torn"
  BY <1>2 DEF SpoolInv, Torn, Pending
<1>4. mig.pc = "reconcile" /\ mig.id = 0
  BY DEF RemoveOrphan, MigAt, SpoolInv, Ids
<1> QED
  BY <1>2, <1>3, <1>4, Cleared DEF RemoveOrphan, Whole

\* It refuses a quarantine whose manifest does not parse: that manifest is torn.
LEMMA RefuseManifestStep == ASSUME SpoolInv, RefuseManifest PROVE Preserves
<1>1. quar.manifest.state = "torn"
  BY Zenon DEF RefuseManifest, EmptyQuarantine, SpoolInv, DiskInv, DiskShape, Quarantines, Listing,
     AsListed, Good
<1>2. RefusalHasCause'
  BY <1>1 DEF RefuseManifest, RefusalHasCause
<1>3. Counters' /\ used'.runs = used.runs
  BY DEF RefuseManifest, SpoolInv, Counters
<1> QED
  BY <1>2, <1>3, EndsSettled DEF RefuseManifest, Preserves, Results, dbVars

\* It touches nothing when the database cannot tell the verdict.
LEMMA VerdictUnknownStep == ASSUME SpoolInv, VerdictUnknown PROVE Preserves
<1>1. RefusalHasCause' /\ Counters' /\ used'.runs = used.runs
  BY NotRefused, Failing DEF VerdictUnknown, Ends, Results, SpoolInv
<1> QED
  BY <1>1, EndsSettled DEF VerdictUnknown, Preserves, Results, dbVars

\* A removal that fails leaves the rest for the next run.
LEMMA RemovalFailsStep == ASSUME SpoolInv, RemovalFails PROVE Preserves
<1>1. RefusalHasCause' /\ Counters' /\ used'.runs = used.runs
  BY NotRefused, Failing DEF RemovalFails, Ends, Results, SpoolInv
<1> QED
  BY <1>1, EndsSettled DEF RemovalFails, Preserves, Results, dbVars

\* It purges only what a committed migration listed.
LEMMA PurgeCommittedStep == ASSUME SpoolInv, PurgeCommitted PROVE Preserves
<1>1. Rests /\ mig' = [mig EXCEPT !.pc = "purge", !.todo = Listed]
  BY DEF PurgeCommitted, Rests
<1>2. DiskInv' /\ Keeps /\ UNCHANGED purgeable
  BY <1>1, RestsKeeps DEF SpoolInv, Rests, dbVars
<1>3. mig' \in Migrators
  BY Zenon, <1>1, MigFields DEF SpoolInv, MigPcs, Listed
<1>4. /\ mig'.pc = "purge" /\ mig'.todo = Listed /\ mig.pc = "reconcile"
      /\ UNCHANGED <<mig.id, mig.undo, mig.move, mig.result>> /\ mig.move = "none"
  BY <1>1 DEF SpoolInv, PurgeCommitted, MigAt, Migrators, Loops, Moving
<1>5. Counters' /\ Ids' /\ RefusalHasCause'
  BY <1>1, <1>4, GoesOn DEF PurgeCommitted, dbVars
<1>6. Synced' /\ Torn'
  BY <1>1, <1>4 DEF SpoolInv, Synced, Torn, HalfDone, Rests, dbVars, Good, Pending
<1>7. PurgePhase'
  <2>1. Good(quar) /\ Committed(quar) /\ quar.exists
    BY GoodExists DEF PurgeCommitted, Good, Committed, SpoolInv, DiskInv
  <2>2. Good(quarDur) => Committed(quarDur)
    BY <2>1 DEF SpoolInv, Synced, Good, Committed
  <2>3. \A b \in Spools :
            /\ quar.staged[b] # "none" => b \in Listed
            /\ quar.staged[b] \in Whole => <<b, quar.staged[b]>> \in purgeable
    BY Zenon, <2>1 DEF SpoolInv, DiskInv, Listing, AsListed, Listed, Whole
  <2> QED
    BY <1>1, <1>4, <2>1, <2>2, <2>3 DEF PurgePhase, Rests, dbVars, Good, Committed
<1>8. Phases'
  BY <1>4, <1>7 DEF Phases, Loops, PlanPhase, StagePhase, RestorePhase, VerifyPhase, MovePhase,
     Moving
<1> QED
  BY <1>2, <1>3, <1>5, <1>6, <1>8 DEF SpoolInv, Phases, Preserves

\* A quarantine that cannot be restored has a torn copy, or a file of another
\* program is in the place of a staged one.
LEMMA RefusedForCause ==
    ASSUME SpoolInv, Pending(quar), ~Restorable
    PROVE  \E b \in Spools : \/ "torn" \in {orig[b], quar.staged[b]}
                             \/ orig[b] = "foreign" /\ quar.staged[b] = "old"
<1>1. PICK b \in Listed : ~(/\ orig[b] # "none" \/ quar.staged[b] # "none"
                            /\ {orig[b], quar.staged[b]} \subseteq {"none", quar.manifest.files[b]})
  BY DEF Restorable
<1>2. b \in Spools /\ quar.manifest.files[b] # "none"
  BY DEF Listed
<1>3. Held(b, quar.manifest.files[b]) /\ quar.manifest.files[b] \in Whole
  BY Zenon, <1>2 DEF SpoolInv, DiskInv, Listing, AsListed
<1>4. /\ quar.staged[b] \in {"none", "torn", quar.manifest.files[b]}
      /\ orig[b] \in {"none", "torn", "foreign", quar.manifest.files[b]}
  BY Zenon, <1>2 DEF SpoolInv, DiskInv, Listing, AsListed, Pending
<1> QED
  BY <1>1, <1>2, <1>3, <1>4 DEF Held, Whole

\* It plans the restore of a quarantine without a verdict, or refuses for a cause.
LEMMA ValidateStep == ASSUME SpoolInv, Validate PROVE Preserves
<1>1. Pending(quar) /\ mig.pc = "reconcile" /\ mig.move = "none"
  BY DEF Validate, Pending, Good, MigAt, SpoolInv, Loops, Moving
<1>2. CASE ~Restorable
  <2>1. Ends("refused") /\ UNCHANGED <<orig, quar, dbVars, used>>
    BY <1>2 DEF Validate
  <2>2. RefusalHasCause'
    BY <1>1, <1>2, <2>1, RefusedForCause DEF RefusalHasCause
  <2>3. Counters' /\ used'.runs = used.runs
    BY <2>1 DEF SpoolInv, Counters
  <2> QED
    BY <2>1, <2>2, <2>3, EndsSettled DEF Preserves, Results, dbVars
<1>3. CASE Restorable
  <2>1. Rests /\ mig' = [mig EXCEPT !.pc = "restore", !.todo = Listed, !.plan = RestorePlan]
    BY <1>3 DEF Validate, Rests
  <2>2. DiskInv' /\ Keeps /\ UNCHANGED purgeable
    BY <2>1, RestsKeeps DEF SpoolInv, Rests, dbVars
  <2>3. RestorePlan \in MigPlans
    BY DEF RestorePlan, MigPlans, Content
  <2>4. mig' \in Migrators
    BY Zenon, <2>1, <2>3, MigFields DEF SpoolInv, MigPcs, Listed
  <2>5. /\ mig'.pc = "restore" /\ mig'.todo = Listed /\ mig'.plan = RestorePlan
        /\ UNCHANGED <<mig.id, mig.undo, mig.move, mig.result>>
    BY <2>1 DEF SpoolInv, Migrators
  <2>6. Counters' /\ Ids' /\ RefusalHasCause'
    BY <1>1, <2>1, <2>5, GoesOn DEF Validate, dbVars
  <2>7. Synced' /\ Torn'
    BY <1>1, <2>1, <2>5 DEF SpoolInv, Synced, Torn, HalfDone, Rests, dbVars, Good, Pending
  <2>8. RestorePhase'
    <3>1. mig'.id = 0 /\ Pending(quar)' /\ quar'.exists
      BY <1>1, <2>1, <2>5, GoodExists DEF SpoolInv, Ids, Rests, Pending, Good, dbVars, DiskInv
    <3>2. ASSUME NEW b \in Spools, quar.staged[b] # "none" PROVE b \in Listed
      BY Zenon, <3>2, <1>1 DEF SpoolInv, DiskInv, Listing, AsListed, Listed
    <3>3. ASSUME NEW b \in Listed
          PROVE  /\ quar.manifest.files[b] # "none"
                 /\ \/ RestorePlan[b] = "move"
                    \/ RestorePlan[b] = "keep" /\ quar.staged[b] = "none"
                    \/ /\ RestorePlan[b] = "dedup"
                       /\ orig[b] = quar.staged[b] /\ origDur[b] = quar.staged[b]
      <4>1. orig[b] \in {"none", origDur[b]} /\ b \in Spools
        BY <1>1 DEF SpoolInv, Synced, HalfDone, Listed
      <4> QED
        BY <1>3, <4>1 DEF Restorable, RestorePlan, Listed
    <3> QED
      BY <1>1, <2>1, <2>5, <3>1, <3>2, <3>3 DEF RestorePhase, Rests
  <2>9. Phases'
    BY <1>1, <2>5, <2>8 DEF Phases, Loops, PlanPhase, StagePhase, PurgePhase, VerifyPhase,
       MovePhase, Moving
  <2> QED
    BY <2>2, <2>4, <2>6, <2>7, <2>9 DEF SpoolInv, Phases, Preserves
<1> QED
  BY <1>2, <1>3

\* One file less to do.
LEMMA LessToDo ==
    ASSUME mig \in Migrators, mig' = [mig EXCEPT !.todo = @ \ {This}]
    PROVE  /\ mig' \in Migrators /\ mig'.todo = mig.todo \ {This}
           /\ UNCHANGED <<mig.pc, mig.id, mig.undo, mig.move, mig.plan, mig.result>>
<1>1. mig.todo \ {This} \in SUBSET Spools
  BY DEF Migrators
<1>2. mig' = [mig EXCEPT !.todo = mig.todo \ {This}]
  BY Zenon DEF Migrators
<1>3. mig' \in Migrators
  BY Zenon, <1>1, <1>2 DEF Migrators
<1> QED
  BY <1>2, <1>3 DEF Migrators

\* It moves a file back, or drops one of two synced copies.
LEMMA RestoreOneStep == ASSUME SpoolInv, RestoreOne PROVE Preserves
<1>1. /\ mig.pc = "restore" /\ mig.move = "none" /\ This \in mig.todo /\ This \in Spools
      /\ mig \in Migrators
  BY ThisListed DEF RestoreOne, MigAt, SpoolInv, Loops, Moving
<1>2. CASE mig.plan[This] = "move"
  <2>1. Rests /\ mig' = [mig EXCEPT !.pc = "link", !.move = "restore"]
    BY <1>2 DEF RestoreOne, Rests
  <2>2. DiskInv' /\ Keeps /\ UNCHANGED purgeable
    BY <2>1, RestsKeeps DEF SpoolInv, Rests, dbVars
  <2>3. mig' \in Migrators
    BY Zenon, <1>1, <2>1, MigFields DEF MoveKinds, MigPcs
  <2>4. /\ mig'.pc = "link" /\ mig'.move = "restore"
        /\ UNCHANGED <<mig.id, mig.undo, mig.todo, mig.plan, mig.result>>
    BY <1>1, <2>1 DEF Migrators
  <2>5. Counters' /\ Ids' /\ RefusalHasCause'
    BY <1>1, <2>4, GoesOn DEF RestoreOne, dbVars
  <2>6. Synced' /\ Torn' /\ RestorePhase'
    <3>1. This' = This
      BY <2>4 DEF This
    <3>2. Synced' /\ Torn'
      BY <1>1, <2>1, <2>4 DEF SpoolInv, Synced, Torn, HalfDone, Rests, dbVars, Good, Pending
    <3>3. RestorePhase'
      BY <1>1, <1>2, <2>1, <2>4, <3>1 DEF SpoolInv, RestorePhase, Rests, dbVars, Good, Pending
    <3> QED
      BY <3>2, <3>3
  <2>7. Phases'
    BY Zenon, <1>1, <2>4, <2>6 DEF Phases, Loops, PlanPhase, StagePhase, PurgePhase, VerifyPhase,
       MovePhase, Moving
  <2> QED
    BY <2>2, <2>3, <2>5, <2>6, <2>7 DEF SpoolInv, Phases, Preserves
<1>3. CASE mig.plan[This] = "dedup"
  <2>1. PutsQuar(This, "none") /\ mig' = [mig EXCEPT !.todo = @ \ {This}]
    BY <1>3 DEF RestoreOne, PutsQuar
  <2>2. /\ orig[This] = quar.staged[This] /\ origDur[This] = quar.staged[This]
        /\ quar.exists /\ Pending(quar)
    BY <1>1, <1>3 DEF SpoolInv, RestorePhase
  <2>3. DiskInv' /\ Keeps
    <3>1. "none" \in Content /\ "none" \notin Whole
      BY DEF Content, Whole
    <3> QED
      BY <1>1, <2>1, <2>2, <3>1, PutsQuarKeeps DEF SpoolInv
  <2>4. /\ mig' \in Migrators /\ mig'.todo = mig.todo \ {This}
        /\ UNCHANGED <<mig.pc, mig.id, mig.undo, mig.move, mig.plan, mig.result>>
    BY <1>1, <2>1, LessToDo
  <2>5. Counters' /\ Ids' /\ RefusalHasCause'
    BY <1>1, <2>4, GoesOn DEF RestoreOne, dbVars
  <2>6. /\ quar'.staged = [quar.staged EXCEPT ![This] = "none"] /\ quar.staged \in [Spools -> Content]
        /\ quar'.manifest = quar.manifest /\ quar'.exists = quar.exists
        /\ UNCHANGED <<orig, origDur, quarDur, verdicts, purgeable>>
    <3>1. quar \in Quarantines /\ "none" \in Content
      BY Zenon DEF SpoolInv, DiskInv, DiskShape, Content
    <3> QED
      BY Zenon, <1>1, <2>1, <3>1, PutsQuarFields DEF Quarantines, PutsQuar, dbVars
  <2>7. Synced' /\ Torn' /\ RestorePhase'
    BY <1>1, <2>4, <2>6 DEF SpoolInv, Synced, Torn, RestorePhase, HalfDone, Good, Pending
  <2>8. Phases'
    BY <1>1, <2>4, <2>7 DEF Phases, Loops, PlanPhase, StagePhase, PurgePhase, VerifyPhase,
       MovePhase, Moving
  <2> QED
    BY <2>3, <2>4, <2>5, <2>6, <2>7, <2>8 DEF SpoolInv, Phases, Preserves
<1>4. CASE mig.plan[This] = "keep"
  <2>1. Rests /\ mig' = [mig EXCEPT !.todo = @ \ {This}]
    BY <1>4 DEF RestoreOne, Rests
  <2>2. DiskInv' /\ Keeps /\ UNCHANGED purgeable
    BY <2>1, RestsKeeps DEF SpoolInv, Rests, dbVars
  <2>3. /\ mig' \in Migrators /\ mig'.todo = mig.todo \ {This}
        /\ UNCHANGED <<mig.pc, mig.id, mig.undo, mig.move, mig.plan, mig.result>>
    BY Zenon, <1>1, <2>1, LessToDo
  <2>4. Counters' /\ Ids' /\ RefusalHasCause'
    BY <1>1, <2>3, GoesOn DEF RestoreOne, dbVars
  <2>5. Synced' /\ Torn' /\ RestorePhase'
    <3>1. UNCHANGED <<orig, origDur, quar, quarDur, verdicts>>
      BY Zenon, <2>1 DEF Rests, dbVars
    <3>2. Synced' /\ Torn'
      BY Zenon, <1>1, <2>3, <3>1 DEF SpoolInv, Synced, Torn, HalfDone, Good, Pending
    <3>3. RestorePhase'
      BY <1>1, <1>4, <2>3, <3>1 DEF SpoolInv, RestorePhase, Good, Pending
    <3> QED
      BY Zenon, <3>2, <3>3
  <2>6. Phases'
    BY <1>1, <2>3, <2>5 DEF Phases, Loops, PlanPhase, StagePhase, PurgePhase, VerifyPhase,
       MovePhase, Moving
  <2> QED
    BY <2>2, <2>3, <2>4, <2>5, <2>6 DEF SpoolInv, Phases, Preserves
<1> QED
  BY <1>1, <1>2, <1>3, <1>4 DEF SpoolInv, RestorePhase

\* A restore that is through has nothing staged, and the original is whole.
LEMMA VerifyRestoredStep == ASSUME SpoolInv, VerifyRestored PROVE Preserves
<1>1. mig.pc = "restore" /\ mig.move = "none" /\ mig.todo = {} /\ Pending(quar) /\ quar.exists
  BY DEF VerifyRestored, MigAt, SpoolInv, Loops, Moving, RestorePhase
<1>2. ASSUME NEW b \in Spools
      PROVE  /\ quar.staged[b] = "none" /\ orig[b] # "torn"
             /\ b \in Listed => orig[b] # "none"
  <2>1. quar.staged[b] = "none"
    BY <1>1 DEF SpoolInv, RestorePhase
  <2>2. b \in Listed => Held(b, quar.manifest.files[b]) /\ quar.manifest.files[b] \in Whole
    BY Zenon, <1>1 DEF SpoolInv, DiskInv, Listing, AsListed, Listed
  <2>3. b \in Listed => orig[b] \in Whole
    BY <2>1, <2>2 DEF Held, Whole
  <2>4. b \notin Listed => orig[b] # "torn"
    BY DEF SpoolInv, Torn, Listed
  <2> QED
    BY <2>1, <2>3, <2>4 DEF Whole
<1>3. Rests /\ MigGoto("verify")
  BY <1>2 DEF VerifyRestored, Rests, Listed
<1>4. DiskInv' /\ Keeps /\ UNCHANGED purgeable
  BY <1>3, RestsKeeps DEF SpoolInv, Rests, dbVars
<1>5. mig' \in Migrators
  BY Zenon, <1>3, MigFields DEF SpoolInv, MigGoto, MigPcs
<1>6. mig'.pc = "verify" /\ UNCHANGED <<mig.id, mig.undo, mig.move, mig.result>>
  BY <1>3 DEF SpoolInv, Migrators, MigGoto
<1>7. Counters' /\ Ids' /\ RefusalHasCause'
  BY Zenon, <1>1, <1>3, <1>6, GoesOn DEF VerifyRestored, dbVars
<1>8. Synced' /\ Torn'
  BY <1>1, <1>3, <1>6 DEF SpoolInv, Synced, Torn, HalfDone, Rests, dbVars, Good, Pending
<1>9. VerifyPhase'
  BY Zenon, <1>1, <1>2, <1>3, <1>6 DEF SpoolInv, RestorePhase, VerifyPhase, Rests
<1>10. Phases'
  BY <1>1, <1>6, <1>9 DEF Phases, Loops, PlanPhase, StagePhase, PurgePhase, RestorePhase,
     MovePhase, Moving
<1> QED
  BY <1>4, <1>5, <1>7, <1>8, <1>10 DEF SpoolInv, Phases, Preserves

\* Of a removed manifest nothing is left but what a power loss brings back.
LEMMA ManifestGone ==
    ASSUME DiskInv, DropsManifest
    PROVE  /\ quar'.exists = quar.exists /\ quar'.staged = quar.staged
           /\ ~Good(quar')
BY Zenon DEF DiskInv, DiskShape, Quarantines, DropsManifest, RemoveManifest, NoManifest, Good

\* It removes the manifest when nothing is staged, then the directory.
LEMMA RemoveRestoredStep == ASSUME SpoolInv, RemoveRestored PROVE Preserves
<1>1. /\ mig.pc = "verify" /\ mig.id = 0 /\ quar.exists
      /\ \A b \in Spools : quar.staged[b] = "none" /\ orig[b] # "torn"
  BY DEF RemoveRestored, MigAt, SpoolInv, VerifyPhase
<1>2. CASE quar.manifest.state = "good"
  <2>1. DropsManifest /\ UNCHANGED <<mig, used>>
    BY <1>2 DEF RemoveRestored, DropsManifest
  <2>2. DiskInv' /\ Keeps /\ UNCHANGED purgeable
    BY <1>1, <2>1, DropsManifestKeeps DEF SpoolInv, DropsManifest, dbVars
  <2>3. /\ quar'.exists = quar.exists /\ quar'.staged = quar.staged /\ ~Good(quar')
        /\ UNCHANGED <<orig, origDur, quarDur, verdicts, mig, used>>
    BY <2>1, ManifestGone DEF SpoolInv, DropsManifest, dbVars
  <2>4. Synced' /\ Torn' /\ VerifyPhase'
    BY Zenon, <1>1, <2>3 DEF SpoolInv, Synced, Torn, VerifyPhase, HalfDone, Pending, Good, This
  <2>5. Phases'
    BY Zenon, <1>1, <2>3, <2>4 DEF SpoolInv, Phases, Loops, PlanPhase, StagePhase, PurgePhase,
       RestorePhase, MovePhase, Moving
  <2>6. Counters' /\ Ids' /\ RefusalHasCause' /\ mig' \in Migrators
    BY <1>1, <2>3, GoesOn DEF SpoolInv
  <2> QED
    BY <2>2, <2>4, <2>5, <2>6 DEF SpoolInv, Phases, Preserves
<1>3. CASE quar.manifest.state # "good"
  BY <1>1, <1>3, Cleared DEF RemoveRestored, Whole
<1> QED
  BY <1>2, <1>3

\* A purge removes what a committed migration listed, and the manifest last.
LEMMA PurgeStep == ASSUME SpoolInv, Purge PROVE Preserves
<1>1. /\ mig.pc = "purge" /\ mig.move = "none" /\ mig \in Migrators /\ quar.exists
      /\ ~Pending(quar) /\ ~Pending(quarDur)
      /\ \A b \in Spools : orig[b] # "torn"
  BY Zenon DEF Purge, MigAt, SpoolInv, Loops, Moving, PurgePhase, Committed, Pending, Torn
<1>2. CASE mig.todo # {}
  <2>1. PutsQuar(This, "none") /\ mig' = [mig EXCEPT !.todo = @ \ {This}] /\ This \in Spools
    BY <1>1, <1>2, ThisListed DEF Purge, PutsQuar
  <2>2. quar.staged[This] \in Whole => <<This, quar.staged[This]>> \in purgeable
    BY <1>1, <2>1 DEF SpoolInv, PurgePhase
  <2>3. "none" \in Content /\ "none" \notin Whole
    BY DEF Content, Whole
  <2>4. DiskInv' /\ Keeps
    BY <1>1, <2>1, <2>2, <2>3, PutsQuarKeeps DEF SpoolInv
  <2>5. /\ mig' \in Migrators /\ mig'.todo = mig.todo \ {This}
        /\ UNCHANGED <<mig.pc, mig.id, mig.undo, mig.move, mig.plan, mig.result>>
    BY <1>1, <2>1, LessToDo
  <2>6. Counters' /\ Ids' /\ RefusalHasCause'
    BY <1>1, <2>5, GoesOn DEF Purge, dbVars
  <2>7. /\ quar'.staged = [quar.staged EXCEPT ![This] = "none"] /\ quar.staged \in [Spools -> Content]
        /\ quar'.manifest = quar.manifest /\ quar'.exists = quar.exists
        /\ UNCHANGED <<orig, origDur, quarDur, verdicts, purgeable>>
    BY Zenon, <2>1, <2>3, PutsQuarFields DEF SpoolInv, DiskInv, DiskShape, Quarantines, PutsQuar,
       dbVars
  <2>8. Synced' /\ Torn'
    BY Zenon, <1>1, <2>5, <2>7 DEF SpoolInv, Synced, Torn, HalfDone, Good, Pending
  <2>9. PurgePhase'
    BY Zenon, <1>1, <2>3, <2>5, <2>7 DEF SpoolInv, PurgePhase, Good, Committed
  <2>10. Phases'
    BY <1>1, <2>5, <2>9 DEF Phases, Loops, PlanPhase, StagePhase, RestorePhase, VerifyPhase,
       MovePhase, Moving
  <2> QED
    BY <2>4, <2>5, <2>6, <2>7, <2>8, <2>10 DEF SpoolInv, Phases, Preserves
<1>3. CASE mig.todo = {} /\ quar.manifest.state = "good"
  <2>1. DropsManifest /\ UNCHANGED <<mig, used>>
    BY <1>3 DEF Purge, DropsManifest
  <2>2. \A b \in Spools : quar.staged[b] = "none"
    BY Zenon, <1>1, <1>3 DEF SpoolInv, PurgePhase
  <2>3. DiskInv' /\ Keeps /\ UNCHANGED purgeable
    BY Zenon, <1>1, <2>1, <2>2, DropsManifestKeeps DEF SpoolInv, DropsManifest, dbVars
  <2>4. /\ quar'.exists = quar.exists /\ quar'.staged = quar.staged /\ ~Good(quar')
        /\ UNCHANGED <<orig, origDur, quarDur, verdicts, mig, used>>
    BY <2>1, ManifestGone DEF SpoolInv, DropsManifest, dbVars
  <2>5. Synced' /\ Torn' /\ PurgePhase'
    BY Zenon, <1>1, <2>2, <2>3, <2>4 DEF SpoolInv, Synced, Torn, PurgePhase, HalfDone, Pending,
       Committed, Good, This
  <2>6. Phases'
    BY Zenon, <1>1, <2>4, <2>5 DEF SpoolInv, Phases, Loops, PlanPhase, StagePhase, RestorePhase,
       VerifyPhase, MovePhase, Moving
  <2>7. Counters' /\ Ids' /\ RefusalHasCause' /\ mig' \in Migrators
    BY Zenon, <1>1, <2>4, GoesOn DEF SpoolInv
  <2> QED
    BY <2>3, <2>5, <2>6, <2>7 DEF SpoolInv, Phases, Preserves
<1>4. CASE mig.todo = {} /\ quar.manifest.state # "good"
  <2>1. \A b \in Spools : quar.staged[b] \in Whole => <<b, quar.staged[b]>> \in purgeable
    BY <1>1 DEF SpoolInv, PurgePhase
  <2>2. quar' = NoQuarantine /\ UNCHANGED <<orig, dbVars, used>>
        /\ IF mig.id = 0 THEN Reconciled ELSE Ends("ok")
    BY Zenon, <1>4 DEF Purge
  <2> QED
    BY Zenon, <1>1, <2>1, <2>2, Cleared
<1> QED
  BY <1>2, <1>3, <1>4

-----------------------------------------------------------------------------
(* durableNoReplaceMove *)

\* What durableNoReplaceMove can rely on: the manifest is synced and lists the file.
LEMMA MoveFacts ==
    ASSUME SpoolInv, mig.pc \in Moving
    PROVE  /\ mig \in Migrators /\ This \in mig.todo /\ This \in Spools
           /\ quar.exists /\ Good(quar) /\ quarDur.manifest = quar.manifest
           /\ \/ /\ mig.move = "stage" /\ Staging /\ mig.id # 0
                 /\ quar.manifest.files[This] # "none"
                 /\ orig[This] = quar.manifest.files[This] \/ mig.pc = "syncsrc"
                 /\ \A b \in Spools : orig[b] \in {"none", origDur[b]} /\ orig[b] # "torn"
              \/ /\ mig.move = "restore" /\ ~Staging /\ mig.id = 0 /\ Pending(quar)
                 /\ \A b \in Spools : quar.staged[b] \in {"none", quarDur.staged[b]}
           /\ quar.manifest.files[This] \in Whole \cup {"none"}
           /\ quar.staged[This] # "none" => quar.manifest.files[This] # "none"
           /\ quar.staged[This] \in {"none", "torn", quar.manifest.files[This]}
<1>1. mig \in Migrators /\ This \in mig.todo /\ This \in Spools
  BY ThisListed DEF SpoolInv, Loops
<1>2. mig.move \in {"stage", "restore"}
  BY <1>1 DEF SpoolInv, Loops, Migrators
<1>3. mig.pc \notin {"stage", "commit", "restore"}
  BY Zenon DEF Moving
<1>4. quar.exists /\ Good(quar) /\ quarDur.manifest = quar.manifest
  BY <1>2, <1>3 DEF SpoolInv, StagePhase, RestorePhase, Synced, Pending
<1>5. CASE mig.move = "stage"
  <2>1. mig.id # 0 /\ quar.manifest.files[This] # "none"
    BY <1>1, <1>5 DEF SpoolInv, StagePhase
  <2>2. orig[This] = quar.manifest.files[This] \/ mig.pc = "syncsrc"
    BY <1>1, <1>5 DEF SpoolInv, StagePhase
  <2>3. \A b \in Spools : orig[b] \in {"none", origDur[b]} /\ orig[b] # "torn"
    BY <1>5, <2>1 DEF SpoolInv, Synced, HalfDone, Torn
  <2> QED
    BY Zenon, <1>1, <1>4, <1>5, <2>1, <2>2, <2>3 DEF Staging, SpoolInv, DiskInv, Listing, AsListed
<1>6. CASE mig.move = "restore"
  <2>1. mig.id = 0 /\ Pending(quar)
    BY <1>6 DEF SpoolInv, RestorePhase
  <2>2. \A b \in Spools : quar.staged[b] \in {"none", quarDur.staged[b]}
    BY <1>6 DEF SpoolInv, Synced, HalfDone
  <2> QED
    BY Zenon, <1>1, <1>4, <1>6, <2>1, <2>2 DEF Staging, SpoolInv, DiskInv, Listing, AsListed
<1> QED
  BY <1>2, <1>5, <1>6

\* MigGoto changes the place in the code alone.
LEMMA GotoFields ==
    ASSUME mig \in Migrators, NEW pc \in MigPcs, MigGoto(pc)
    PROVE  /\ mig' \in Migrators /\ mig'.pc = pc /\ This' = This
           /\ UNCHANGED <<mig.id, mig.undo, mig.todo, mig.move, mig.plan, mig.result>>
<1>1. mig' \in Migrators
  BY Zenon, MigFields DEF MigGoto
<1>2. mig'.pc = pc /\ UNCHANGED <<mig.id, mig.undo, mig.todo, mig.move, mig.plan, mig.result>>
  BY DEF MigGoto, Migrators
<1> QED
  BY <1>1, <1>2 DEF This

\* A move is given up with the directories as they are.
LEMMA AbortsAsIs ==
    ASSUME SpoolInv, Aborts, UNCHANGED <<orig, quar, dbVars>>, Counters', used'.runs = used.runs,
           ~\E b \in Spools : HalfDone("stage", b)
    PROVE  Preserves
<1>1. CASE mig.id = 0
  <2>1. Ends("failed")
    BY <1>1 DEF Aborts
  <2>2. RefusalHasCause'
    BY <2>1, NotRefused DEF Ends, Results
  <2> QED
    BY <2>1, <2>2, EndsSettled DEF Preserves, Results, dbVars
<1>2. CASE mig.id # 0
  <2>1. Rests
    BY <1>2 DEF Aborts, Rests
  <2>2. DiskInv' /\ Keeps /\ UNCHANGED purgeable
    BY <2>1, RestsKeeps DEF SpoolInv, Rests, dbVars
  <2>3. /\ Good(quar') => quarDur'.manifest = quar'.manifest
        /\ \A b \in Spools : quar'.staged[b] \in {"none", quarDur'.staged[b]}
    BY <2>1 DEF SpoolInv, Synced, Rests
  <2>4. verdicts' \subseteq 1 .. used.runs
    BY DEF SpoolInv, Ids, dbVars
  <2> QED
    BY <1>2, <2>2, <2>3, <2>4, RolledBack DEF Preserves
<1> QED
  BY <1>1, <1>2

\* A file is put at the target of a move: of the two copies the source is synced.
LEMMA PutsTarget ==
    ASSUME SpoolInv, mig.pc \in {"link", "copy"}, NEW c, PutTarget(This, c),
           c \in {"torn", SourceOf(This)}, SourceOf(This) # "none",
           IF mig.pc = "link" THEN TargetOf(This) = "none" ELSE c = SourceOf(This),
           UNCHANGED <<origDur, quarDur, dbVars, used>>,
           NEW pc \in {"copy", "sync"}, MigGoto(pc)
    PROVE  Preserves
<1>1. mig.pc \in Moving /\ pc \in MigPcs
  BY Zenon DEF Moving, MigPcs
<1>2. mig \in Migrators /\ This \in mig.todo /\ This \in Spools
  BY Zenon, <1>1, MoveFacts
<1>3. /\ mig' \in Migrators /\ mig'.pc = pc /\ This' = This
      /\ UNCHANGED <<mig.id, mig.undo, mig.todo, mig.move, mig.plan, mig.result>>
  BY Zenon, <1>1, <1>2, GotoFields
<1>4. Counters' /\ Ids' /\ RefusalHasCause'
  BY <1>1, <1>3, GoesOn DEF dbVars, Moving
<1>5. CASE Staging
  <2>1. /\ mig.move = "stage" /\ quar.exists /\ Good(quar) /\ quarDur.manifest = quar.manifest
        /\ quar.manifest.files[This] # "none" /\ orig[This] = quar.manifest.files[This]
        /\ origDur[This] = orig[This] /\ orig[This] \in Whole
        /\ \A b \in Spools : orig[b] \in {"none", origDur[b]}
    BY <1>1, <1>2, <1>5, MoveFacts DEF Staging, Whole
  <2>2. PutsQuar(This, c) /\ c \in {"torn", orig[This]}
    BY Zenon, <1>5 DEF PutTarget, PutsQuar, SourceOf
  <2>3. quar.staged[This] \in {"none", "torn", orig[This]}
    BY Zenon, <1>1, <2>1, MoveFacts
  <2>4. c \in Content
    BY <1>2, <2>2 DEF SpoolInv, DiskInv, DiskShape, Content
  <2>5. DiskInv' /\ Keeps
    <3>1. c \in Whole => orig[This] = c /\ origDur[This] = c
      BY Zenon, <2>1, <2>2 DEF Whole
    <3>2. quar.staged[This] \in Whole => orig[This] = quar.staged[This] /\ origDur[This] = quar.staged[This]
      BY <2>1, <2>3 DEF Whole
    <3> QED
      BY Zenon, <1>2, <2>1, <2>2, <2>4, <3>1, <3>2, PutsQuarKeeps DEF SpoolInv
  <2>6. /\ quar'.staged = [quar.staged EXCEPT ![This] = c] /\ quar.staged \in [Spools -> Content]
        /\ quar'.manifest = quar.manifest /\ quar'.exists = quar.exists
        /\ UNCHANGED <<orig, origDur, quarDur, verdicts, purgeable>>
    BY Zenon, <1>2, <2>2, <2>4, PutsQuarFields DEF SpoolInv, DiskInv, DiskShape, Quarantines,
       PutsQuar, dbVars
  <2>7. /\ quar'.staged[This] = c /\ Good(quar)' /\ (Pending(quar)' <=> Pending(quar))
        /\ \A b \in Spools \ {This} : quar'.staged[b] = quar.staged[b]
    BY Zenon, <1>2, <2>1, <2>6 DEF Good, Pending
  <2>8. Synced' /\ Torn'
    <3>1. Synced'
      BY Zenon, <1>2, <1>3, <2>1, <2>6, <2>7 DEF SpoolInv, Synced, HalfDone
    <3>2. Torn'
      BY Zenon, <1>3, <2>6, <2>7 DEF SpoolInv, Torn, Good, Pending
    <3> QED
      BY Zenon, <3>1, <3>2
  <2>9. StagePhase' /\ MovePhase'
    <3>1. StagePhase'
      <4>1. /\ mig.id # 0 /\ quar.manifest.id = mig.id
            /\ \A b \in mig.todo : /\ quar.manifest.files[b] # "none"
                                   /\ orig[b] = quar.manifest.files[b]
                                   /\ origDur[b] = quar.manifest.files[b]
        BY Zenon, <1>1, <2>1 DEF SpoolInv, StagePhase
      <4>2. /\ mig'.id # 0 /\ quar'.exists /\ Good(quar)'
            /\ quar'.manifest.id = mig'.id /\ quarDur'.manifest = quar'.manifest
        BY Zenon, <1>3, <2>1, <2>6, <2>7, <4>1
      <4>3. \A b \in mig'.todo : /\ quar'.manifest.files[b] # "none"
                               /\ orig'[b] = quar'.manifest.files[b]
                               /\ origDur'[b] = quar'.manifest.files[b]
        BY Zenon, <1>3, <2>6, <4>1
      <4> QED
        BY Zenon, <4>2, <4>3 DEF StagePhase
    <3>2. MovePhase'
      BY <1>1, <1>3, <2>1, <2>2, <2>6, <2>7 DEF MovePhase, Whole
    <3> QED
      BY Zenon, <3>1, <3>2
  <2>10. Phases'
    BY Zenon, <1>1, <1>3, <2>1, <2>9 DEF SpoolInv, Phases, Loops, PlanPhase, PurgePhase, RestorePhase,
       VerifyPhase, Moving
  <2> QED
    BY Zenon, <1>3, <1>4, <2>5, <2>6, <2>8, <2>10 DEF SpoolInv, Phases, Preserves
<1>6. CASE ~Staging
  <2>1. /\ mig.move = "restore" /\ quar.exists /\ Good(quar) /\ quarDur.manifest = quar.manifest
        /\ mig.id = 0 /\ Pending(quar) /\ quar.manifest.files[This] # "none"
        /\ quar.staged[This] \in {"torn", quar.manifest.files[This]}
        /\ quar.staged[This] # "none" /\ quarDur.staged[This] = quar.staged[This]
        /\ \A b \in Spools : quar.staged[b] \in {"none", quarDur.staged[b]}
    BY Zenon, <1>1, <1>2, <1>6, MoveFacts DEF Staging, SourceOf
  <2>2. PutsOrig(This, c) /\ c \in {"torn", quar.staged[This]}
    BY Zenon, <1>6 DEF PutTarget, PutsOrig, SourceOf
  <2>3. orig[This] \in {"none", "torn", quar.staged[This]} /\ (mig.pc = "link" => orig[This] = "none")
    BY Zenon, <1>6, <2>1 DEF SpoolInv, MovePhase, TargetOf
  <2>4. c \in Content
    <3>1. quar.staged[This] \in Content /\ "torn" \in Content
      BY Zenon, <1>2 DEF SpoolInv, DiskInv, DiskShape, Quarantines, Content
    <3> QED
      BY Zenon, <2>2, <3>1
  <2>5. DiskInv' /\ Keeps
    <3>1. c \in Whole => quar.staged[This] = c /\ quarDur.staged[This] = c
      BY <2>1, <2>2 DEF Whole
    <3>2. orig[This] \in Whole => quar.staged[This] = orig[This] /\ quarDur.staged[This] = orig[This]
      BY <2>1, <2>3 DEF Whole
    <3> QED
      BY ZenonT(30), <1>2, <2>1, <2>2, <2>4, <3>1, <3>2, PutsOrigKeeps DEF SpoolInv
  <2>6. /\ orig' = [orig EXCEPT ![This] = c] /\ orig \in [Spools -> Content]
        /\ UNCHANGED <<quar, origDur, quarDur, verdicts, purgeable>>
    BY <2>2 DEF SpoolInv, DiskInv, DiskShape, PutsOrig, dbVars
  <2>7. Synced' /\ Torn'
    BY ZenonT(60), <1>2, <1>3, <2>1, <2>6 DEF SpoolInv, Synced, Torn, HalfDone, Good, Pending
  <2>8. RestorePhase' /\ MovePhase'
    <3>1. mig.pc = "copy" => c = quar.staged[This]
      BY <1>6 DEF SourceOf
    <3>2. ASSUME NEW b \in mig.todo
          PROVE  /\ quar.manifest.files[b] # "none"
                 /\ \/ mig.plan[b] = "move"
                    \/ mig.plan[b] = "keep" /\ quar.staged[b] = "none"
                    \/ /\ mig.plan[b] = "dedup"
                       /\ orig'[b] = quar.staged[b] /\ origDur[b] = quar.staged[b]
      <4>1. b \in Spools
        BY Zenon, <1>2 DEF Migrators
      <4> QED
        BY Zenon, <2>1, <2>3, <2>6, <3>1, <4>1 DEF SpoolInv, RestorePhase
    <3>3. RestorePhase'
      BY <1>3, <2>1, <2>6, <3>2 DEF SpoolInv, RestorePhase, Good, Pending
    <3>4. MovePhase'
      BY Zenon, <1>2, <1>3, <2>1, <2>2, <2>6 DEF MovePhase
    <3> QED
      BY <3>3, <3>4
  <2>9. Phases'
    BY Zenon, <1>1, <1>3, <2>1, <2>8 DEF SpoolInv, Phases, Loops, PlanPhase, StagePhase, PurgePhase,
       VerifyPhase, Moving
  <2> QED
    BY Zenon, <1>3, <1>4, <2>5, <2>6, <2>7, <2>9 DEF SpoolInv, Phases, Preserves
<1> QED
  BY <1>5, <1>6

\* Linking or creating the target replaces nothing.
LEMMA LinkTargetStep == ASSUME SpoolInv, LinkTarget PROVE Preserves
<1>1. mig.pc = "link" /\ UNCHANGED <<dbVars, used>>
  BY DEF LinkTarget, MigAt
<1>2. CASE TargetOf(This) # "none" \/ SourceOf(This) = "none"
  <2>1. Aborts /\ UNCHANGED <<orig, quar>>
    BY <1>2 DEF LinkTarget
  <2>2. Counters' /\ used'.runs = used.runs /\ ~\E b \in Spools : HalfDone("stage", b)
    BY <1>1 DEF SpoolInv, Counters, HalfDone
  <2> QED
    BY <1>1, <2>1, <2>2, AbortsAsIs DEF dbVars
<1>3. CASE TargetOf(This) = "none" /\ SourceOf(This) # "none"
  <2>1. UNCHANGED <<origDur, quarDur>>
    BY <1>3 DEF LinkTarget
  <2>2. CASE PutTarget(This, SourceOf(This)) /\ MigGoto("sync")
    BY <1>1, <1>3, <2>1, <2>2, PutsTarget
  <2>3. CASE PutTarget(This, "torn") /\ MigGoto("copy")
    BY <1>1, <1>3, <2>1, <2>3, PutsTarget
  <2> QED
    BY <1>3, <2>2, <2>3 DEF LinkTarget
<1> QED
  BY <1>2, <1>3

\* The copy is complete while the source is still there.
LEMMA CopyTargetStep == ASSUME SpoolInv, CopyTarget PROVE Preserves
<1>1. mig.pc = "copy" /\ mig.pc \in Moving
  BY DEF CopyTarget, MigAt, Moving
<1>2. SourceOf(This) # "none"
  BY Zenon, <1>1, MoveFacts DEF SpoolInv, MovePhase, SourceOf
<1> QED
  BY <1>1, <1>2, PutsTarget DEF CopyTarget

\* A move is given up, and what was put at its target removed.
LEMMA GivesUp ==
    ASSUME SpoolInv, mig.pc \in {"copy", "sync"}, PutTarget(This, "none"), Aborts, UNCHANGED dbVars,
           Counters', used'.runs = used.runs
    PROVE  Preserves
<1>1. mig.pc \in Moving
  BY DEF Moving
<1>2. mig \in Migrators /\ This \in mig.todo /\ This \in Spools
  BY Zenon, <1>1, MoveFacts
<1>3. "none" \in Content /\ "none" \notin Whole
  BY Zenon DEF Content, Whole
<1>4. CASE Staging
  <2>1. /\ mig.move = "stage" /\ mig.id # 0 /\ quar.exists /\ Good(quar) /\ quarDur.manifest = quar.manifest
        /\ origDur[This] = orig[This] /\ quar.staged[This] \in {"torn", orig[This]}
    BY Zenon, <1>1, <1>4, MoveFacts DEF Staging, SpoolInv, MovePhase
  <2>2. PutsQuar(This, "none")
    BY <1>4, <2>1 DEF PutTarget, PutsQuar, Aborts
  <2>3. DiskInv' /\ Keeps
    <3>1. quar.staged[This] \in Whole => orig[This] = quar.staged[This] /\ origDur[This] = quar.staged[This]
      BY <2>1 DEF Whole
    <3> QED
      BY Zenon, <1>2, <1>3, <2>1, <2>2, <3>1, PutsQuarKeeps DEF SpoolInv
  <2>4. /\ quar'.staged = [quar.staged EXCEPT ![This] = "none"] /\ quar.staged \in [Spools -> Content]
        /\ quar'.manifest = quar.manifest /\ UNCHANGED <<orig, quarDur, verdicts, purgeable>>
    BY Zenon, <1>2, <1>3, <2>2, PutsQuarFields DEF SpoolInv, DiskInv, DiskShape, Quarantines,
       PutsQuar, dbVars
  <2>5. /\ quarDur'.manifest = quar'.manifest
        /\ \A b \in Spools : quar'.staged[b] \in {"none", quarDur'.staged[b]}
    BY <2>1, <2>4 DEF SpoolInv, Synced, HalfDone
  <2>6. verdicts' \subseteq 1 .. used.runs
    BY DEF SpoolInv, Ids, dbVars
  <2> QED
    BY Zenon, <2>1, <2>3, <2>4, <2>5, <2>6, RolledBack DEF Preserves
<1>5. CASE ~Staging
  <2>1. /\ mig.move = "restore" /\ mig.id = 0 /\ Good(quar) /\ quarDur.manifest = quar.manifest
        /\ quarDur.staged[This] = quar.staged[This] /\ orig[This] \in {"torn", quar.staged[This]}
        /\ \A b \in Spools : quar.staged[b] \in {"none", quarDur.staged[b]}
    BY Zenon, <1>1, <1>5, MoveFacts DEF Staging, SpoolInv, MovePhase
  <2>2. Ends("failed")
    BY <2>1 DEF Aborts
  <2>3. Undoes(This)
    BY <1>5, <2>2 DEF PutTarget, Ends, Undoes
  <2>4. \A b \in Spools : b # This => orig[b] \in {"none", origDur[b]}
    BY DEF SpoolInv, Synced, HalfDone
  <2>5. DiskInv' /\ Keeps
    <3>1. orig[This] \in Whole => quar.staged[This] = orig[This] /\ quarDur.staged[This] = orig[This]
      BY Zenon, <2>1 DEF Whole
    <3> QED
      BY Zenon, <1>2, <2>1, <2>3, <2>4, <3>1, UndoesKeeps DEF SpoolInv
  <2>6. \A b \in Spools : orig'[b] = "torn" => Pending(quar)' /\ quar'.manifest.files[b] # "none"
    BY <1>2, <2>3 DEF SpoolInv, DiskInv, DiskShape, Torn, Undoes, Pending, Good, dbVars
  <2>7. verdicts' \subseteq 1 .. used.runs /\ RefusalHasCause'
    BY Zenon, <2>2, NotRefused DEF SpoolInv, Ids, dbVars, Ends, Results
  <2> QED
    BY Zenon, <2>2, <2>5, <2>6, <2>7, Ended DEF Ends, Results, Preserves, dbVars
<1> QED
  BY Zenon, <1>4, <1>5

\* A move that fails before its source is removed takes its target away.
LEMMA MoveFailsStep == ASSUME SpoolInv, MoveFails PROVE Preserves
<1>1. Counters' /\ used'.runs = used.runs
  BY Failing DEF SpoolInv, MoveFails
<1> QED
  BY <1>1, GivesUp DEF MoveFails, MigAt

\* A move that fails after that leaves the target.
LEMMA SourceFailsStep == ASSUME SpoolInv, SourceFails PROVE Preserves
<1>1. Counters' /\ used'.runs = used.runs
  BY Failing DEF SpoolInv, SourceFails
<1>2. ~\E b \in Spools : HalfDone("stage", b)
  BY DEF HalfDone, SourceFails, MigAt
<1> QED
  BY <1>1, <1>2, AbortsAsIs DEF SourceFails, dbVars

\* When the target is synced and verified, both copies survive a power loss.
LEMMA SyncTargetStep == ASSUME SpoolInv, SyncTarget PROVE Preserves
<1>1. mig.pc = "sync" /\ mig.pc \in Moving /\ UNCHANGED <<dbVars, used>> /\ "remove" \in MigPcs
  BY DEF SyncTarget, MigAt, Moving, MigPcs
<1>2. mig \in Migrators /\ This \in mig.todo /\ This \in Spools
  BY Zenon, <1>1, MoveFacts
<1>3. CASE TargetOf(This) # quar.manifest.files[This]
  <2>1. Counters' /\ used'.runs = used.runs
    BY <1>1 DEF SpoolInv, Counters
  <2> QED
    BY <1>1, <1>3, <2>1, GivesUp DEF SyncTarget
<1>4. CASE TargetOf(This) = quar.manifest.files[This]
  <2>1. /\ mig' \in Migrators /\ mig'.pc = "remove" /\ This' = This
        /\ UNCHANGED <<mig.id, mig.undo, mig.todo, mig.move, mig.plan, mig.result>>
    BY <1>1, <1>2, <1>4, GotoFields DEF SyncTarget
  <2>2. Counters' /\ Ids' /\ RefusalHasCause'
    BY Zenon, <1>1, <2>1, GoesOn DEF dbVars
  <2>3. CASE Staging
    <3>1. SyncsQuar
      BY Zenon, <1>4, <2>3 DEF SyncTarget, SyncsQuar
    <3>2. /\ mig.move = "stage" /\ Good(quar) /\ quarDur.manifest = quar.manifest
          /\ quar.staged[This] = orig[This] /\ origDur[This] = orig[This]
      BY Zenon, <1>1, <1>2, <1>4, <2>3, MoveFacts DEF Staging, TargetOf, SpoolInv, MovePhase
    <3>3. \A b \in Spools : b # This => quar.staged[b] \in {"none", quarDur.staged[b]}
      BY DEF SpoolInv, Synced, HalfDone
    <3>4. DiskInv' /\ Keeps
      BY <3>1, <3>2, <3>3, SyncsQuarKeeps DEF SpoolInv
    <3>5. quarDur' = quar /\ UNCHANGED <<orig, origDur, quar, verdicts, purgeable>>
      BY Zenon, <3>1 DEF SyncsQuar, dbVars
    <3>6. Synced' /\ Torn'
      BY <2>1, <3>2, <3>5 DEF SpoolInv, Synced, Torn, HalfDone, Good, Pending
    <3>7. StagePhase' /\ MovePhase'
      BY Zenon, <1>1, <2>1, <3>2, <3>5 DEF SpoolInv, StagePhase, MovePhase, Entries, Good
    <3>8. Phases'
      BY Zenon, <1>1, <2>1, <3>2, <3>7 DEF SpoolInv, Phases, Loops, PlanPhase, PurgePhase, RestorePhase,
         VerifyPhase,
         Moving
    <3> QED
      BY Zenon, <2>1, <2>2, <3>4, <3>5, <3>6, <3>8 DEF SpoolInv, Phases, Preserves
  <2>4. CASE ~Staging
    <3>1. SyncsOrig(This)
      BY <1>4, <2>4 DEF SyncTarget, SyncsOrig
    <3>2. /\ mig.move = "restore" /\ Pending(quar) /\ quarDur.manifest = quar.manifest
          /\ quar.staged[This] = orig[This] /\ quarDur.staged[This] = orig[This] /\ orig[This] # "torn"
      BY Zenon, <1>1, <1>2, <1>4, <2>4, MoveFacts DEF Staging, TargetOf, SpoolInv, MovePhase, Whole
    <3>3. DiskInv' /\ Keeps
      BY <1>2, <3>1, <3>2, SyncsOrigKeeps DEF SpoolInv
    <3>4. /\ origDur' = [origDur EXCEPT ![This] = orig[This]] /\ origDur \in [Spools -> Content]
          /\ UNCHANGED <<orig, quar, quarDur, verdicts, purgeable>>
      BY Zenon, <3>1 DEF SyncsOrig, SpoolInv, DiskInv, DiskShape, dbVars
    <3>5. Synced' /\ Torn'
      BY Zenon, <1>2, <2>1, <3>2, <3>4 DEF SpoolInv, Synced, Torn, HalfDone, Good, Pending
    <3>6. RestorePhase' /\ MovePhase'
      <4>1. /\ origDur'[This] = orig[This] /\ Pending(quar)'
            /\ \A b \in Spools \ {This} : origDur'[b] = origDur[b]
        BY Zenon, <1>2, <3>2, <3>4 DEF Good, Pending
      <4>2. mig.plan[This] = "move" /\ mig.id = 0 /\ quar.exists
        BY Zenon, <3>2 DEF SpoolInv, RestorePhase
      <4>3. ASSUME NEW b \in Spools
            PROVE  /\ quar.staged[b] # "none" => b \in mig.todo
                   /\ b \in mig.todo =>
                        /\ quar.manifest.files[b] # "none"
                        /\ \/ mig.plan[b] = "move"
                           \/ mig.plan[b] = "keep" /\ quar.staged[b] = "none"
                           \/ /\ mig.plan[b] = "dedup"
                              /\ orig[b] = quar.staged[b] /\ origDur'[b] = quar.staged[b]
        <5>1. CASE b = This
          BY Zenon, <3>2, <4>2, <5>1 DEF SpoolInv, RestorePhase
        <5>2. CASE b # This
          <6>1. origDur'[b] = origDur[b]
            BY Zenon, <4>1, <5>2
          <6> QED
            BY Zenon, <3>2, <6>1 DEF SpoolInv, RestorePhase
        <5> QED
          BY Zenon, <5>1, <5>2
      <4>4. RestorePhase'
        <5>1. mig'.plan[This'] = "move" /\ mig'.id = 0 /\ quar'.exists
          BY Zenon, <2>1, <3>4, <4>2
        <5>2. \A b \in Spools :
                 /\ quar'.staged[b] # "none" => b \in mig'.todo
                 /\ b \in mig'.todo =>
                      /\ quar'.manifest.files[b] # "none"
                      /\ \/ mig'.plan[b] = "move"
                         \/ mig'.plan[b] = "keep" /\ quar'.staged[b] = "none"
                         \/ /\ mig'.plan[b] = "dedup"
                            /\ orig'[b] = quar'.staged[b] /\ origDur'[b] = quar'.staged[b]
          BY Zenon, <2>1, <3>4, <4>3
        <5> QED
          BY Zenon, <4>1, <5>1, <5>2 DEF RestorePhase
      <4>5. MovePhase'
        BY <1>1, <2>1, <3>2, <3>4, <4>1 DEF SpoolInv, MovePhase, Entries
      <4> QED
        BY Zenon, <4>4, <4>5
    <3>7. Phases'
      BY Zenon, <1>1, <2>1, <3>2, <3>6 DEF SpoolInv, Phases, Loops, PlanPhase, StagePhase, PurgePhase,
         VerifyPhase,
         Moving
    <3> QED
      BY Zenon, <2>1, <2>2, <3>3, <3>4, <3>5, <3>7 DEF SpoolInv, Phases, Preserves
  <2> QED
    BY Zenon, <2>3, <2>4
<1> QED
  BY <1>3, <1>4

\* The source goes only after its synced copy is there.
LEMMA RemoveSourceStep == ASSUME SpoolInv, RemoveSource PROVE Preserves
<1>1. mig.pc = "remove" /\ mig.pc \in Moving /\ UNCHANGED <<dbVars, used>> /\ "syncsrc" \in MigPcs
  BY Zenon DEF RemoveSource, MigAt, Moving, MigPcs
<1>2. mig \in Migrators /\ This \in mig.todo /\ This \in Spools
  BY <1>1, MoveFacts
<1>3. /\ mig' \in Migrators /\ mig'.pc = "syncsrc" /\ This' = This
      /\ UNCHANGED <<mig.id, mig.undo, mig.todo, mig.move, mig.plan, mig.result>>
  BY Zenon, <1>1, <1>2, GotoFields DEF RemoveSource
<1>4. Counters' /\ Ids' /\ RefusalHasCause'
  BY Zenon, <1>1, <1>3, GoesOn DEF dbVars
<1>5. "none" \in Content /\ "none" \notin Whole
  BY DEF Content, Whole
<1>6. origDur[This] = orig[This] /\ quar.staged[This] = orig[This] /\ quarDur.staged[This] = orig[This]
  BY <1>1 DEF SpoolInv, MovePhase, Entries
<1>7. CASE Staging
  <2>1. mig.move = "stage" /\ Good(quar) /\ quarDur.manifest = quar.manifest
    BY <1>1, <1>7, MoveFacts DEF Staging
  <2>2. PutsOrig(This, "none")
    BY Zenon, <1>7 DEF RemoveSource, PutsOrig
  <2>3. DiskInv' /\ Keeps
    BY <1>2, <1>5, <1>6, <2>1, <2>2, PutsOrigKeeps DEF SpoolInv
  <2>4. /\ orig' = [orig EXCEPT ![This] = "none"] /\ orig \in [Spools -> Content]
        /\ UNCHANGED <<quar, origDur, quarDur, verdicts, purgeable>>
    BY Zenon, <2>2 DEF SpoolInv, DiskInv, DiskShape, PutsOrig, dbVars
  <2>5. Synced' /\ Torn'
    BY Zenon, <1>1, <1>2, <1>3, <2>1, <2>4 DEF SpoolInv, Synced, Torn, HalfDone, Good, Pending
  <2>6. StagePhase' /\ MovePhase'
    <3>1. Good(quar)' /\ \A b \in Spools \ {This} : orig'[b] = orig[b]
      BY Zenon, <1>2, <2>1, <2>4 DEF Good
    <3>2. mig.todo \subseteq Spools
      BY Zenon, <1>2 DEF Migrators
    <3>3. StagePhase'
      BY Zenon, <1>1, <1>3, <2>1, <2>4, <3>1, <3>2 DEF SpoolInv, StagePhase
    <3>4. MovePhase'
      BY <1>1, <1>3, <2>1 DEF MovePhase
    <3> QED
      BY Zenon, <3>3, <3>4
  <2>7. Phases'
    BY Zenon, <1>1, <1>3, <2>1, <2>6 DEF SpoolInv, Phases, Loops, PlanPhase, PurgePhase, RestorePhase,
       VerifyPhase,
       Moving
  <2> QED
    BY Zenon, <1>3, <1>4, <2>3, <2>4, <2>5, <2>7 DEF SpoolInv, Phases, Preserves
<1>8. CASE ~Staging
  <2>1. mig.move = "restore" /\ Pending(quar) /\ quar.exists /\ mig.id = 0
    BY <1>1, <1>8, MoveFacts DEF Staging
  <2>2. PutsQuar(This, "none")
    BY Zenon, <1>8 DEF RemoveSource, PutsQuar
  <2>3. DiskInv' /\ Keeps
    BY Zenon, <1>2, <1>5, <1>6, <2>1, <2>2, PutsQuarKeeps DEF SpoolInv
  <2>4. /\ quar'.staged = [quar.staged EXCEPT ![This] = "none"] /\ quar.staged \in [Spools -> Content]
        /\ quar'.manifest = quar.manifest /\ quar'.exists = quar.exists
        /\ UNCHANGED <<orig, origDur, quarDur, verdicts, purgeable>>
    BY Zenon, <1>2, <1>5, <2>2, PutsQuarFields DEF SpoolInv, DiskInv, DiskShape, Quarantines,
       PutsQuar, dbVars
  <2>5. Synced' /\ Torn'
    BY ZenonT(60), <1>1, <1>2, <1>3, <2>1, <2>4 DEF SpoolInv, Synced, Torn, HalfDone, Good, Pending
  <2>6. RestorePhase' /\ MovePhase'
    <3>1. ASSUME NEW b \in Spools
          PROVE  /\ quar'.staged[b] # "none" => b \in mig.todo
                 /\ b \in mig.todo =>
                       /\ quar.manifest.files[b] # "none"
                       /\ \/ mig.plan[b] = "move"
                          \/ mig.plan[b] = "keep" /\ quar'.staged[b] = "none"
                          \/ /\ mig.plan[b] = "dedup"
                             /\ orig[b] = quar'.staged[b] /\ origDur[b] = quar'.staged[b]
      BY <1>2, <2>1, <2>4 DEF SpoolInv, RestorePhase
    <3>2. RestorePhase'
      BY <1>3, <2>1, <2>4, <3>1 DEF SpoolInv, RestorePhase, Good, Pending
    <3>3. MovePhase'
      BY Zenon, <1>2, <1>3, <2>1, <2>4 DEF MovePhase
    <3> QED
      BY <3>2, <3>3
  <2>7. Phases'
    BY Zenon, <1>1, <1>3, <2>1, <2>6 DEF SpoolInv, Phases, Loops, PlanPhase, StagePhase, PurgePhase,
       VerifyPhase,
       Moving
  <2> QED
    BY Zenon, <1>3, <1>4, <2>3, <2>4, <2>5, <2>7 DEF SpoolInv, Phases, Preserves
<1> QED
  BY <1>7, <1>8

\* With the directory of the source synced the file has moved.
LEMMA SyncSourceStep == ASSUME SpoolInv, SyncSource PROVE Preserves
<1>1. /\ mig.pc = "syncsrc" /\ mig.pc \in Moving /\ UNCHANGED <<orig, quar, dbVars, used>>
      /\ mig' = [mig EXCEPT !.pc = mig.move, !.move = "none", !.todo = @ \ {This}]
  BY DEF SyncSource, MigAt, Moving
<1>2. mig \in Migrators /\ This \in mig.todo /\ This \in Spools /\ mig.move \in {"stage", "restore"}
  BY <1>1, MoveFacts
<1>3. mig' \in Migrators
  <2>1. mig' = [mig EXCEPT !.pc = mig.move, !.move = "none", !.todo = mig.todo \ {This}]
    BY Zenon, <1>1, <1>2 DEF Migrators
  <2>2. mig.todo \ {This} \in SUBSET Spools /\ mig.move \in MigPcs /\ "none" \in MoveKinds
    BY <1>2 DEF Migrators, MigPcs, MoveKinds
  <2> QED
    BY Zenon, <1>2, <2>1, <2>2, MigFields
<1>4. /\ mig'.pc = mig.move /\ mig'.move = "none" /\ mig'.todo = mig.todo \ {This}
      /\ UNCHANGED <<mig.id, mig.undo, mig.plan, mig.result>>
  BY <1>1, <1>2 DEF Migrators
<1>5. Counters' /\ Ids' /\ RefusalHasCause'
  BY Zenon, <1>1, <1>2, <1>4, GoesOn DEF dbVars
<1>6. CASE Staging
  <2>1. /\ mig.move = "stage" /\ mig.id # 0 /\ Good(quar) /\ quarDur.manifest = quar.manifest
        /\ \A b \in Spools : orig[b] \in {"none", origDur[b]}
    BY <1>1, <1>6, MoveFacts DEF Staging
  <2>2. SyncsOrig(This)
    BY <1>1, <1>6 DEF SyncSource, SyncsOrig
  <2>3. DiskInv' /\ Keeps
    BY Zenon, <1>2, <2>1, <2>2, SyncsOrigKeeps DEF SpoolInv
  <2>4. /\ origDur' = [origDur EXCEPT ![This] = orig[This]] /\ origDur \in [Spools -> Content]
        /\ UNCHANGED <<orig, quar, quarDur, verdicts, purgeable>>
    BY <2>2 DEF SyncsOrig, SpoolInv, DiskInv, DiskShape, dbVars
  <2>5. Synced' /\ Torn'
    BY Zenon, <1>1, <1>2, <1>4, <2>1, <2>4 DEF SpoolInv, Synced, Torn, HalfDone, Good, Pending
  <2>6. StagePhase'
    <3>1. ASSUME NEW b \in mig.todo, b # This
          PROVE  /\ quar.manifest.files[b] # "none"
                 /\ orig[b] = quar.manifest.files[b] /\ origDur'[b] = quar.manifest.files[b]
      <4>1. b \in Spools
        BY <1>2 DEF Migrators
      <4> QED
        BY Zenon, <1>1, <1>2, <2>1, <2>4, <3>1, <4>1 DEF SpoolInv, StagePhase
    <3> QED
      BY <1>1, <1>4, <2>1, <2>4, <3>1 DEF SpoolInv, StagePhase, Good
  <2>7. Phases'
    BY Zenon, <1>1, <1>4, <2>1, <2>6 DEF Phases, Loops, PlanPhase, PurgePhase, RestorePhase,
       VerifyPhase, MovePhase,
       Moving
  <2> QED
    BY Zenon, <1>3, <1>5, <2>3, <2>4, <2>5, <2>7 DEF SpoolInv, Phases, Preserves
<1>7. CASE ~Staging
  <2>1. /\ mig.move = "restore" /\ mig.id = 0 /\ quar.exists /\ Pending(quar) /\ Good(quar)
        /\ quarDur.manifest = quar.manifest
        /\ \A b \in Spools : quar.staged[b] \in {"none", quarDur.staged[b]}
    BY <1>1, <1>7, MoveFacts DEF Staging
  <2>2. SyncsQuar
    BY <1>1, <1>7 DEF SyncSource, SyncsQuar
  <2>3. DiskInv' /\ Keeps
    BY Zenon, <2>1, <2>2, SyncsQuarKeeps DEF SpoolInv
  <2>4. quarDur' = quar /\ UNCHANGED <<orig, origDur, quar, verdicts, purgeable>>
    BY <2>2 DEF SyncsQuar, dbVars
  <2>5. Synced' /\ Torn'
    <3>1. /\ mig.pc \notin {"copy", "sync", "remove"} /\ Good(quar)' /\ (Pending(quar)' <=> Pending(quar))
          /\ (Pending(quarDur)' <=> Pending(quar))
      BY <1>1, <2>1, <2>4 DEF Good, Pending
    <3>2. Synced'
      BY Zenon, <1>1, <1>4, <2>1, <2>4, <3>1 DEF SpoolInv, Synced, HalfDone
    <3>3. Torn'
      BY ZenonT(30), <1>1, <1>4, <2>1, <2>4, <3>1 DEF SpoolInv, Torn, Good, Pending
    <3> QED
      BY Zenon, <3>2, <3>3
  <2>6. RestorePhase'
    <3>1. quar.staged[This] = "none"
      BY <1>1, <2>1 DEF SpoolInv, MovePhase
    <3> QED
      BY <1>4, <2>1, <2>4, <3>1 DEF SpoolInv, RestorePhase, Good, Pending
  <2>7. Phases'
    BY <1>1, <1>4, <2>1, <2>6 DEF Phases, Loops, PlanPhase, StagePhase, PurgePhase, VerifyPhase,
       MovePhase,
       Moving
  <2> QED
    BY Zenon, <1>3, <1>5, <2>3, <2>4, <2>5, <2>7 DEF SpoolInv, Phases, Preserves
<1> QED
  BY <1>6, <1>7

-----------------------------------------------------------------------------
(* Run, after reconciliation *)

\* Run plans what is in the buffer, and creates the quarantine for it.
LEMMA ApplyStep == ASSUME SpoolInv, Apply PROVE Preserves
<1> DEFINE planned == {b \in Spools : orig[b] # "none"}
           pc == IF planned = {} THEN "commit" ELSE "hash"
<1>1. /\ mig.pc = "apply" /\ mig.move = "none" /\ mig \in Migrators /\ UNCHANGED <<dbVars, used>>
      /\ mig' = [mig EXCEPT !.pc = pc, !.id = used.runs, !.todo = planned]
      /\ quar' = [NoQuarantine EXCEPT !.exists = planned # {}]
      /\ UNCHANGED <<orig, origDur, quarDur>>
  BY DEF Apply, MigAt, SpoolInv, Loops, Moving
<1>2. mig' \in Migrators
  <2>1. pc \in MigPcs /\ planned \in SUBSET Spools /\ used.runs \in 0 .. MaxRuns
    BY DEF MigPcs, SpoolInv, Counters
  <2> HIDE DEF planned, pc
  <2> QED
    BY Zenon, <1>1, <2>1, MigFields
<1>3. /\ mig'.pc = pc /\ mig'.id = used.runs /\ mig'.todo = planned
      /\ UNCHANGED <<mig.undo, mig.move, mig.plan, mig.result>>
  BY <1>1 DEF Migrators
<1>4. quar = NoQuarantine /\ quarDur = NoQuarantine /\ origDur = orig /\ ~mig.undo
  BY <1>1 DEF SpoolInv, PlanPhase
<1>5. ~Good(quar) /\ quar.manifest = NoManifest /\ \A b \in Spools : quar.staged[b] = "none"
  BY <1>4 DEF NoQuarantine, NoManifest, Good
<1>6. \A b \in Spools : orig[b] \in Whole \cup {"none"}
  BY <1>5 DEF SpoolInv, DiskInv, DiskShape, Content, Torn, Pending
<1>7. Counters' /\ Ids' /\ RefusalHasCause'
  BY <1>1, <1>3, <1>4 DEF SpoolInv, Counters, Ids, RefusalHasCause, dbVars
<1>8. CASE planned = {}
  <2>1. quar' = NoQuarantine
    BY Zenon, <1>1, <1>8 DEF NoQuarantine
  <2>2. Rests /\ ~quar'.exists
    <3>1. Rests
      BY <1>1, <1>4, <2>1 DEF Rests
    <3>2. ~quar'.exists
      BY <2>1 DEF NoQuarantine
    <3> QED
      BY <3>1, <3>2
  <2>3. DiskInv' /\ Keeps /\ UNCHANGED purgeable
    BY <2>2, RestsKeeps DEF SpoolInv, Rests, dbVars
  <2>4. Synced' /\ Torn'
    BY Zenon, <1>1, <1>4, <1>5, <1>6, <2>1 DEF Synced, Torn, HalfDone, Whole
  <2>5. Phases'
    <3>1. mig'.pc = "commit" /\ mig'.move = "none" /\ mig'.todo = {}
      BY Zenon, <1>1, <1>3, <1>8
    <3>2. mig'.id # 0
      BY <1>1, <1>3 DEF SpoolInv, Ids
    <3> QED
      BY Zenon, <2>2, <3>1, <3>2 DEF Phases, Loops, PlanPhase, StagePhase, PurgePhase,
         RestorePhase, VerifyPhase, MovePhase, Moving
  <2> QED
    BY <1>2, <1>7, <2>3, <2>4, <2>5 DEF SpoolInv, Phases, Preserves
<1>9. CASE planned # {}
  <2>1. Opens /\ quar' = [NoQuarantine EXCEPT !.exists = TRUE]
    BY Zenon, <1>1, <1>9 DEF Opens
  <2>2. DiskInv' /\ Keeps /\ quar'.exists /\ ~Good(quar')
    BY <1>5, <2>1, OpensKeeps DEF SpoolInv
  <2>3. \A b \in Spools : quar'.staged[b] = "none"
    BY <2>1 DEF NoQuarantine
  <2>4. Synced' /\ Torn' /\ UNCHANGED purgeable
    BY Zenon, <1>1, <1>4, <1>6, <2>2, <2>3 DEF Synced, Torn, HalfDone, Whole, dbVars
  <2>5. PlanPhase'
    <3>1. mig'.pc = "hash" /\ mig'.id # 0 /\ ~mig'.undo
      BY <1>1, <1>3, <1>4, <1>9 DEF SpoolInv, Ids
    <3>2. ASSUME NEW b \in Spools
          PROVE  orig'[b] \in IF b \in mig'.todo THEN Whole ELSE {"none", "foreign"}
      BY <1>1, <1>3, <1>6
    <3>3. origDur' = orig' /\ ~Good(quarDur)'
      BY Zenon, <1>1, <1>4, <1>5 DEF Good
    <3> QED
      BY Zenon, <2>2, <3>1, <3>2, <3>3 DEF PlanPhase, Good
  <2>6. Phases'
    BY <1>1, <1>3, <1>9, <2>5 DEF Phases, Loops, StagePhase, PurgePhase, RestorePhase,
       VerifyPhase, MovePhase,
       Moving
  <2> QED
    BY <1>2, <1>7, <2>2, <2>4, <2>6 DEF SpoolInv, Phases, Preserves
<1> QED
  BY <1>8, <1>9

\* Run fails with nothing moved.
LEMMA ApplyFailsStep == ASSUME SpoolInv, ApplyFails PROVE Preserves
<1>1. Counters' /\ used'.runs = used.runs
  BY Failing DEF SpoolInv, ApplyFails
<1>2. ~\E b \in Spools : HalfDone("stage", b)
  BY DEF HalfDone, ApplyFails, MigAt
<1> QED
  BY <1>1, <1>2, AbortsAsIs DEF ApplyFails, dbVars

\* The files are hashed, and the manifest is created empty.
LEMMA CreateManifestStep == ASSUME SpoolInv, CreateManifest PROVE Preserves
<1> DEFINE plan == [b \in Spools |-> IF b \in mig.todo THEN orig[b] ELSE "none"]
<1>1. /\ mig.pc = "hash" /\ mig.move = "none" /\ mig \in Migrators
      /\ UNCHANGED <<orig, origDur, quarDur, dbVars, used>>
      /\ mig' = [mig EXCEPT !.pc = "manifest", !.plan = plan]
  BY DEF CreateManifest, MigAt, SpoolInv, Loops, Moving
<1>2. /\ origDur = orig /\ ~mig.undo /\ mig.id # 0 /\ quar.exists /\ ~Good(quar) /\ ~Good(quarDur)
      /\ \A b \in Spools : orig[b] \in IF b \in mig.todo THEN Whole ELSE {"none", "foreign"}
  BY <1>1 DEF SpoolInv, PlanPhase
<1>3. mig' \in Migrators
  <2>1. plan \in MigPlans /\ "manifest" \in MigPcs
    BY <1>2 DEF MigPlans, Content, Whole, MigPcs
  <2> HIDE DEF plan
  <2> QED
    BY Zenon, <1>1, <2>1, MigFields
<1>4. /\ mig'.pc = "manifest" /\ mig'.plan = plan
      /\ UNCHANGED <<mig.id, mig.undo, mig.todo, mig.move, mig.result>>
  BY <1>1 DEF Migrators
<1>5. Opens
  BY <1>1, <1>2 DEF CreateManifest, Opens
<1>6. DiskInv' /\ Keeps /\ quar'.exists /\ ~Good(quar')
  BY <1>2, <1>5, OpensKeeps DEF SpoolInv
<1>7. Counters' /\ Ids' /\ RefusalHasCause'
  BY <1>1, <1>4, GoesOn DEF dbVars
<1>8. \A b \in Spools : quar'.staged[b] = "none"
  BY Zenon, <1>6 DEF DiskInv, Listing, AsListed
<1>9. Synced' /\ Torn' /\ UNCHANGED purgeable
  BY <1>1, <1>2, <1>6, <1>8 DEF Synced, Torn, HalfDone, Whole, dbVars
<1>10. PlanPhase'
  BY <1>1, <1>2, <1>4, <1>6 DEF PlanPhase
<1>11. Phases'
  BY Zenon, <1>1, <1>4, <1>10 DEF Phases, Loops, StagePhase, PurgePhase, RestorePhase, VerifyPhase,
     MovePhase, Moving
<1> QED
  BY Zenon, <1>3, <1>6, <1>7, <1>9, <1>11 DEF SpoolInv, Phases, Preserves

\* The manifest lists what is at the original paths.
LEMMA WriteManifestStep == ASSUME SpoolInv, WriteManifest PROVE Preserves
<1>1. /\ mig.pc = "manifest" /\ mig.move = "none" /\ mig \in Migrators
      /\ UNCHANGED <<orig, origDur, dbVars, used>>
      /\ mig' = [mig EXCEPT !.pc = "stage", !.plan = Idle("none").plan]
      /\ Lists(mig.id, mig.plan)
  BY DEF WriteManifest, Lists, MigAt, SpoolInv, Loops, Moving
<1>2. /\ origDur = orig /\ ~mig.undo /\ mig.id # 0 /\ quar.exists /\ ~Good(quar) /\ ~Good(quarDur)
      /\ \A b \in Spools : IF b \in mig.todo THEN mig.plan[b] \in Whole /\ orig[b] = mig.plan[b]
                           ELSE mig.plan[b] = "none" /\ orig[b] \in {"none", "foreign"}
  BY <1>1 DEF SpoolInv, PlanPhase
<1>3. mig.id \in 0 .. MaxRuns /\ mig.id \notin verdicts /\ mig.plan \in MigPlans /\ mig.todo \subseteq Spools
  BY <1>1, <1>2 DEF SpoolInv, Ids, Migrators
<1>4. mig.plan \in [Spools -> Whole \cup {"none"}]
  BY <1>2, <1>3 DEF MigPlans
<1>5. \A b \in Spools : IF mig.plan[b] = "none" THEN orig[b] \in {"none", "foreign"} ELSE orig[b] = mig.plan[b]
  BY <1>2 DEF Whole
<1>6. DiskInv' /\ Keeps /\ Good(quar') /\ quar'.manifest.id = mig.id
  BY Zenon, <1>1, <1>2, <1>3, <1>4, <1>5, ListsKeeps DEF SpoolInv
<1>7. /\ quar'.manifest.files = mig.plan /\ quar'.exists /\ quar'.staged = quar.staged /\ quarDur' = quar'
      /\ UNCHANGED purgeable
  BY <1>1, <1>2 DEF Lists, dbVars, SpoolInv, DiskInv, DiskShape, Quarantines
<1>8. mig' \in Migrators
  <2>1. Idle("none").plan \in MigPlans /\ "stage" \in MigPcs
    BY DEF Idle, MigPlans, Content, MigPcs
  <2> QED
    BY Zenon, <1>1, <2>1, MigFields
<1>9. mig'.pc = "stage" /\ UNCHANGED <<mig.id, mig.undo, mig.todo, mig.move, mig.result>>
  BY <1>1 DEF Migrators
<1>10. Counters' /\ Ids' /\ RefusalHasCause'
  BY <1>1, <1>9, GoesOn DEF dbVars
<1>11. \A b \in Spools : orig[b] # "torn"
  BY <1>2 DEF Whole
<1>12. Synced' /\ Torn'
  BY <1>1, <1>2, <1>7, <1>11 DEF Synced, Torn
<1>13. StagePhase'
  BY Zenon, <1>1, <1>2, <1>3, <1>6, <1>7, <1>9 DEF StagePhase, Whole
<1>14. Phases'
  BY <1>1, <1>9, <1>13 DEF Phases, Loops, PlanPhase, PurgePhase, RestorePhase, VerifyPhase,
     MovePhase, Moving
<1> QED
  BY Zenon, <1>6, <1>7, <1>8, <1>10, <1>12, <1>14 DEF SpoolInv, Phases, Preserves

\* Run goes on to the next planned file, or to the commit.
LEMMA StageOneStep == ASSUME SpoolInv, StageOne PROVE Preserves
<1> DEFINE pc == IF mig.todo = {} THEN "commit" ELSE "link"
           move == IF mig.todo = {} THEN "none" ELSE "stage"
<1>1. /\ mig.pc = "stage" /\ mig.move = "none" /\ mig \in Migrators /\ Rests /\ UNCHANGED used
      /\ mig' = [mig EXCEPT !.pc = pc, !.move = move]
  BY DEF StageOne, Rests, MigAt, SpoolInv, Loops, Moving
<1>2. mig' \in Migrators
  <2>1. pc \in MigPcs /\ move \in MoveKinds
    BY DEF MigPcs, MoveKinds
  <2> HIDE DEF pc, move
  <2> QED
    BY Zenon, <1>1, <2>1, MigFields
<1>3. mig'.pc = pc /\ mig'.move = move /\ UNCHANGED <<mig.id, mig.undo, mig.todo, mig.plan, mig.result>>
  BY <1>1 DEF Migrators
<1>4. DiskInv' /\ Keeps /\ UNCHANGED purgeable
  BY <1>1, RestsKeeps DEF SpoolInv, Rests, dbVars
<1>5. Counters' /\ Ids' /\ RefusalHasCause'
  BY <1>1, <1>3, GoesOn DEF Rests, dbVars
<1>6. Synced' /\ Torn'
  BY <1>1, <1>3 DEF SpoolInv, Synced, Torn, HalfDone, Rests, dbVars, Good, Pending
<1>7. StagePhase'
  BY <1>1, <1>3 DEF SpoolInv, StagePhase, Rests, Good
<1>8. Phases'
  BY <1>1, <1>3, <1>7 DEF Phases, Loops, PlanPhase, PurgePhase, RestorePhase, VerifyPhase,
     MovePhase, Moving
<1> QED
  BY <1>2, <1>4, <1>5, <1>6, <1>8 DEF SpoolInv, Phases, Preserves

\* The transaction commits, with its verdict: what its manifest lists may go.
Commits ==
    /\ SpoolInv' /\ UNCHANGED <<orig, quar>>
    /\ purgeable \subseteq purgeable' /\ purgeable' \subseteq Spools \X Whole

\* At the commit every file is staged and synced, under the manifest of this run.
LEMMA CommitFacts ==
    ASSUME SpoolInv, mig.pc = "commit"
    PROVE  /\ mig \in Migrators /\ mig.move = "none" /\ mig.id \in 1 .. MaxRuns /\ mig.id = used.runs
           /\ quar.exists => Good(quar) /\ quar.manifest.id = mig.id /\ quarDur.manifest = quar.manifest
           /\ \A b \in Spools : quar.staged[b] \in {"none", quarDur.staged[b]} /\ orig[b] # "torn"
           /\ \A b \in Spools : origDur[b] # "torn"
<1>1. mig \in Migrators /\ mig.move = "none" /\ mig.id # 0
  BY DEF SpoolInv, Loops, Moving, StagePhase
<1>2. mig.id \in 1 .. MaxRuns /\ mig.id = used.runs
  BY <1>1 DEF SpoolInv, Ids, Migrators
<1> QED
  BY Zenon, <1>1, <1>2 DEF SpoolInv, StagePhase, Synced, Torn, HalfDone

\* Without a quarantine a commit lists nothing.
LEMMA NothingListed ==
    ASSUME SpoolInv, ~quar.exists, Verdict
    PROVE  UNCHANGED dbVars
<1>1. quar = NoQuarantine
  BY DEF SpoolInv, DiskInv, Listing
<1>2. Listed = {}
  BY <1>1 DEF Listed, NoQuarantine, NoManifest
<1> QED
  BY <1>2 DEF Verdict, dbVars

\* The verdict is of this run.
LEMMA VerdictIds ==
    ASSUME SpoolInv, Verdict, mig.id \in 1 .. MaxRuns, mig.id = used.runs
    PROVE  verdicts' \subseteq 1 .. used.runs
<1>1. verdicts' \subseteq verdicts \cup {mig.id} /\ verdicts \subseteq 1 .. used.runs
  BY DEF Verdict, SpoolInv, Ids
<1>2. mig.id \in 1 .. used.runs
  BY MigratorAssumption
<1> QED
  BY Zenon, <1>1, <1>2

\* The commit makes purgeable what the manifest lists, and nothing else.
LEMMA CommitStep == ASSUME SpoolInv, Commit PROVE Commits
<1>1. mig.pc = "commit" /\ Verdict /\ UNCHANGED <<orig, quar, used>>
  BY DEF Commit, MigAt
<1>2. /\ mig \in Migrators /\ mig.move = "none" /\ mig.id \in 1 .. MaxRuns /\ mig.id = used.runs
      /\ quar.exists => Good(quar) /\ quar.manifest.id = mig.id /\ quarDur.manifest = quar.manifest
      /\ \A b \in Spools : quar.staged[b] \in {"none", quarDur.staged[b]} /\ orig[b] # "torn"
      /\ \A b \in Spools : origDur[b] # "torn"
  BY <1>1, CommitFacts
<1>3. CASE quar.exists
  <2>1. Grants /\ mig' = [mig EXCEPT !.pc = "purge", !.todo = Listed]
    BY <1>1, <1>3 DEF Commit, Grants
  <2>2. DiskInv' /\ UNCHANGED <<orig, origDur, quar, quarDur>>
    BY <1>2, <2>1, GrantsDisk DEF SpoolInv, Grants
  <2>3. /\ purgeable \subseteq purgeable' /\ purgeable' \subseteq Spools \X Whole
        /\ verdicts' = verdicts \cup {mig.id}
    BY <1>3, <2>1, <2>2 DEF Grants, Verdict, DiskInv, DiskShape
  <2>4. mig' \in Migrators
    BY Zenon, <1>2, <2>1, MigFields DEF Listed, MigPcs
  <2>5. mig'.pc = "purge" /\ mig'.todo = Listed /\ UNCHANGED <<mig.id, mig.undo, mig.move, mig.result>>
    BY Zenon, <1>2, <2>1 DEF Migrators
  <2>6. Counters' /\ Ids' /\ RefusalHasCause'
    <3>1. Counters' /\ RefusalHasCause' /\ mig.result = "none" /\ ~mig.undo
      BY <1>1, <1>2, <2>5 DEF SpoolInv, Counters, Ids, RefusalHasCause
    <3>2. verdicts' \subseteq 1 .. used.runs
      BY Zenon, <1>2, <2>1, VerdictIds DEF Grants
    <3>3. mig'.id \in {0, used'.runs} /\ ~mig'.undo /\ mig'.id # 0 /\ mig'.result = "none"
      BY <1>1, <1>2, <2>5, <3>1 DEF SpoolInv, Ids
    <3>4. used'.runs > 0 /\ UNCHANGED used
      BY <1>1 DEF SpoolInv, Ids
    <3> QED
      BY Zenon, <2>5, <3>1, <3>2, <3>3, <3>4 DEF Ids
  <2>7. Synced' /\ Torn'
    BY <1>2, <2>2, <2>5 DEF SpoolInv, Synced, Torn, HalfDone, Good
  <2>8. PurgePhase'
    <3>1. Committed(quar)' /\ Committed(quarDur)'
      BY <1>2, <1>3, <2>2, <2>3 DEF Committed, Good
    <3>2. ASSUME NEW b \in Spools
          PROVE  /\ quar.staged[b] # "none" => b \in Listed
                 /\ quar.staged[b] \in Whole => <<b, quar.staged[b]>> \in purgeable'
      <4>1. AsListed(quar, b)' /\ AsListed(quar, b)
        BY <2>2 DEF SpoolInv, DiskInv, Listing
      <4> QED
        BY Zenon, <1>2, <1>3, <2>2, <3>1, <4>1 DEF AsListed, Listed, Whole
    <3> QED
      BY Zenon, <1>3, <2>2, <2>5, <3>1, <3>2 DEF PurgePhase
  <2>9. Phases'
    BY Zenon, <1>2, <2>5, <2>8 DEF Phases, Loops, PlanPhase, StagePhase, RestorePhase, VerifyPhase,
       MovePhase, Moving
  <2> QED
    BY Zenon, <2>2, <2>3, <2>4, <2>6, <2>7, <2>9 DEF SpoolInv, Phases, Commits
<1>4. CASE ~quar.exists
  <2>1. UNCHANGED dbVars /\ Ends("ok")
    BY <1>1, <1>4, NothingListed DEF Commit
  <2>2. RefusalHasCause' /\ Counters'
    BY <1>1, <2>1, NotRefused DEF Ends, Results, SpoolInv, Counters
  <2>3. SpoolInv'
    BY Zenon, <1>1, <2>1, <2>2, EndsSettled DEF Results, dbVars
  <2> QED
    BY <1>1, <2>1, <2>3 DEF Commits, dbVars, SpoolInv, DiskInv, DiskShape
<1> QED
  BY <1>3, <1>4

\* A commit that reports an error may have taken effect; its verdict tells.
LEMMA CommitFailsStep == ASSUME SpoolInv, CommitFails PROVE Commits
<1>1. mig.pc = "commit" /\ (Verdict \/ UNCHANGED dbVars) /\ UNCHANGED <<orig, quar>> /\ Aborts
  BY Zenon DEF CommitFails, MigAt
<1>2. /\ mig \in Migrators /\ mig.id \in 1 .. MaxRuns /\ mig.id = used.runs
      /\ quar.exists => Good(quar) /\ quar.manifest.id = mig.id /\ quarDur.manifest = quar.manifest
      /\ \A b \in Spools : quar.staged[b] \in {"none", quarDur.staged[b]}
  BY <1>1, CommitFacts
<1>3. UNCHANGED <<origDur, quarDur>>
  BY <1>1, <1>2 DEF Aborts
<1>4. Counters' /\ used'.runs = used.runs
  BY Failing DEF SpoolInv, CommitFails
<1>5. DiskInv' /\ purgeable \subseteq purgeable' /\ verdicts' \subseteq 1 .. used.runs
  <2>1. CASE Verdict
    <3>1. DiskInv'
      BY Zenon, <1>1, <1>2, <1>3, <2>1, GrantsDisk DEF SpoolInv, Grants
    <3> QED
      BY Zenon, <1>2, <2>1, <3>1, VerdictIds DEF Verdict
  <2>2. CASE UNCHANGED dbVars
    BY <1>1, <1>3, <2>2, RestsKeeps DEF Rests, SpoolInv, Ids, dbVars
  <2> QED
    BY <1>1, <2>1, <2>2
<1>6. Good(quar') => quarDur'.manifest = quar'.manifest
  BY Zenon, <1>1, <1>3 DEF SpoolInv, Synced
<1>7. SpoolInv'
  BY <1>1, <1>2, <1>3, <1>4, <1>5, <1>6, RolledBack
<1> QED
  BY <1>1, <1>5, <1>7 DEF Commits, DiskInv, DiskShape

-----------------------------------------------------------------------------
(* The environment *)

\* A kill leaves the directories as they are.
LEMMA KillStep == ASSUME SpoolInv, Kill PROVE Preserves
<1>1. Counters' /\ used'.runs = used.runs
  BY DEF SpoolInv, Counters, Kill
<1>2. RefusalHasCause'
  BY NotRefused DEF Kill, Ends, Results
<1> QED
  BY <1>1, <1>2, EndsSettled DEF Kill, Results, Preserves, dbVars

\* A power loss leaves them as they were last synced.
LEMMA PowerLossStep == ASSUME SpoolInv, PowerLoss PROVE Preserves
<1>1. Counters' /\ used'.runs = used.runs
  BY DEF SpoolInv, Counters, PowerLoss
<1>2. LosesPower /\ mig' = Idle("none") /\ origDur' = orig' /\ quarDur' = quar'
  BY DEF PowerLoss, LosesPower, Ends
<1>3. DiskInv' /\ Keeps /\ UNCHANGED purgeable
  BY <1>2, LosesPowerKeeps DEF SpoolInv, LosesPower, dbVars
<1>4. RefusalHasCause'
  BY Zenon, <1>2, NotRefused DEF Results
<1>5. \A b \in Spools : orig'[b] = "torn" => Pending(quar)' /\ quar'.manifest.files[b] # "none"
  BY <1>2 DEF SpoolInv, Torn, LosesPower, Pending, Good, dbVars
<1>6. verdicts' \subseteq 1 .. used.runs
  BY <1>2 DEF SpoolInv, Ids, LosesPower, dbVars
<1> QED
  BY Zenon, <1>1, <1>2, <1>3, <1>4, <1>5, <1>6, Ended DEF Results, Preserves

\* The file system may sync a directory at any time.
LEMMA FlushStep == ASSUME SpoolInv, Flush PROVE Preserves
<1>1. UNCHANGED <<orig, quar, dbVars, mig, used>> /\ This' = This
  BY Zenon DEF Flush, This
<1>2. Counters' /\ Ids' /\ RefusalHasCause' /\ mig' \in Migrators /\ Loops' /\ VerifyPhase'
  BY <1>1 DEF SpoolInv, Counters, Ids, RefusalHasCause, Loops, VerifyPhase, dbVars
<1>3. ASSUME NEW d \in Spools, origDur' = [origDur EXCEPT ![d] = orig[d]], UNCHANGED quarDur
      PROVE  Preserves
  <2>1. \/ orig[d] \in {"none", origDur[d]}
        \/ orig[d] \in {"torn", quar.staged[d]} /\ quar.staged[d] = quarDur.staged[d]
    BY DEF SpoolInv, Synced, HalfDone, MovePhase
  <2>2. SyncsOrig(d)
    BY <1>1, <1>3 DEF SyncsOrig
  <2>3. DiskInv' /\ Keeps /\ UNCHANGED purgeable
    BY Zenon, <2>1, <2>2, SyncsOrigKeeps DEF SpoolInv, SyncsOrig, dbVars
  <2>4. /\ origDur' \in [Spools -> Content] /\ origDur'[d] = orig[d]
        /\ \A b \in Spools \ {d} : origDur'[b] = origDur[b]
    BY Zenon, <1>3 DEF SpoolInv, DiskInv, DiskShape
  <2>5. Synced'
    BY <1>1, <1>3, <2>4 DEF SpoolInv, Synced, HalfDone, Good
  <2>6. Torn'
    BY Zenon, <1>1, <1>3, <2>4 DEF SpoolInv, Torn, Synced, Good, Pending, dbVars
  <2>7. PlanPhase'
    <3>1. origDur = orig => origDur' = orig
      BY Zenon, <1>3 DEF SpoolInv, DiskInv, DiskShape
    <3> QED
      BY Zenon, <1>1, <1>3, <3>1 DEF SpoolInv, PlanPhase, Good
  <2>8. \A b \in Spools : orig[b] = origDur[b] => origDur'[b] = orig[b]
    BY Zenon, <2>4
  <2>9. mig.todo \subseteq Spools /\ UNCHANGED <<verdicts, purgeable>>
    BY Zenon, <1>1 DEF SpoolInv, Migrators, dbVars
  <2>10. StagePhase'
    BY <1>1, <1>3, <2>8, <2>9 DEF SpoolInv, StagePhase, Good
  <2>11. PurgePhase'
    BY Zenon, <1>1, <1>3, <2>9 DEF SpoolInv, PurgePhase, Good, Committed
  <2>12. RestorePhase'
    BY ZenonT(30), <1>1, <1>3, <2>8, <2>9 DEF SpoolInv, RestorePhase, Good, Pending
  <2>13. MovePhase'
    <3>1. mig.pc \in {"copy", "sync", "remove"} => This \in Spools
      BY ThisListed DEF SpoolInv, Loops, Moving
    <3>2. mig.pc = "remove" => orig[This] = origDur[This]
      BY Zenon DEF SpoolInv, MovePhase, Entries
    <3>3. mig.pc = "remove" => Entries(This)' = {orig'[This]}
      BY <1>1, <1>3, <2>8, <3>1, <3>2 DEF SpoolInv, MovePhase, Entries
    <3> QED
      BY Zenon, <1>1, <1>3, <2>8, <3>1, <3>3 DEF SpoolInv, MovePhase
  <2> QED
    BY Zenon, <1>2, <2>3, <2>5, <2>6, <2>7, <2>10, <2>11, <2>12, <2>13 DEF SpoolInv, Preserves
<1>4. ASSUME quarDur' = quar, UNCHANGED origDur
      PROVE  Preserves
  <2>1. SyncsQuar
    BY <1>1, <1>4 DEF SyncsQuar
  <2>2. \A b \in Spools : \/ quar.staged[b] \in {"none", quarDur.staged[b]}
                          \/ quar.staged[b] \in {"torn", orig[b]} /\ orig[b] = origDur[b]
    BY Zenon DEF SpoolInv, Synced, HalfDone, MovePhase
  <2>3. DiskInv' /\ Keeps /\ UNCHANGED purgeable
    BY Zenon, <2>1, <2>2, SyncsQuarKeeps DEF SpoolInv, Synced, SyncsQuar, dbVars
  <2>4. Synced'
    BY <1>1, <1>4 DEF SpoolInv, Synced, HalfDone
  <2>5. ASSUME NEW b \in Spools, origDur[b] = "torn" PROVE Good(quar)
    <3>1. Pending(quarDur) /\ quarDur.manifest.files[b] # "none" /\ AsListed(quarDur, b) /\ AsListed(quar, b)
      BY Zenon, <2>5 DEF SpoolInv, Torn, DiskInv, Listing
    <3>2. quarDur.manifest.files[b] \in Whole /\ Held(b, quarDur.manifest.files[b])
      BY Zenon, <3>1 DEF AsListed
    <3>3. quar.staged[b] # "none"
      BY <2>5, <3>2 DEF Held, Whole
    <3> QED
      BY Zenon, <3>1, <3>3 DEF AsListed
  <2>6. Torn'
    BY Zenon, <1>1, <1>4, <2>5 DEF SpoolInv, Torn, Synced, Good, Pending, dbVars
  <2>7. PlanPhase' /\ StagePhase' /\ PurgePhase' /\ RestorePhase' /\ MovePhase'
    BY Zenon, <1>1, <1>4 DEF SpoolInv, PlanPhase, StagePhase, PurgePhase, RestorePhase, MovePhase,
       Entries, Synced,
       Good, Committed, Pending, dbVars
  <2> QED
    BY Zenon, <1>2, <2>3, <2>4, <2>6, <2>7 DEF SpoolInv, Preserves
<1> QED
  BY <1>3, <1>4 DEF Flush

\* Another program may create a file where there is none.
LEMMA ForeignStep ==
    ASSUME SpoolInv, Foreign
    PROVE  /\ SpoolInv' /\ UNCHANGED <<quar, purgeable>>
           /\ \E d \in Spools : orig[d] = "none" /\ orig' = [orig EXCEPT ![d] = "foreign"]
<1>1. PICK d \in Spools : CreatesForeign(d)
  BY Zenon DEF Foreign, CreatesForeign
<1>2. DiskInv'
  BY <1>1, ForeignDisk DEF SpoolInv
<1>3. /\ orig[d] = "none" /\ origDur[d] = "none" /\ orig'[d] = "foreign" /\ origDur'[d] = "foreign"
      /\ \A b \in Spools \ {d} : orig'[b] = orig[b] /\ origDur'[b] = origDur[b]
      /\ UNCHANGED <<quar, quarDur, mig, verdicts, purgeable>> /\ This' = This
  BY <1>1 DEF CreatesForeign, SpoolInv, DiskInv, DiskShape, Foreign, dbVars, This
<1>4. Counters' /\ used'.runs = used.runs
  BY DEF SpoolInv, Counters, Foreign
<1>5. mig' \in Migrators /\ Loops' /\ Ids' /\ RefusalHasCause'
  BY <1>3, <1>4 DEF SpoolInv, Loops, Ids, RefusalHasCause
<1>6. Synced' /\ Torn'
  BY Zenon, <1>3 DEF SpoolInv, Synced, Torn, HalfDone, Good, Pending
<1>7. PlanPhase'
  <2>1. origDur = orig => origDur' = orig'
    BY <1>1 DEF CreatesForeign
  <2> QED
    BY <1>3, <2>1 DEF SpoolInv, PlanPhase, Good, Whole
<1>8. StagePhase' /\ PurgePhase' /\ VerifyPhase'
  <2>1. mig.todo \subseteq Spools
    BY DEF SpoolInv, Migrators
  <2> QED
    BY ZenonT(60), <1>3, <2>1 DEF SpoolInv, StagePhase, PurgePhase, VerifyPhase, Good, Committed
<1>9. ASSUME Pending(quar), quar.manifest.files[d] # "none" PROVE quar.staged[d] # "none"
  <2>1. AsListed(quar, d)
    BY DEF SpoolInv, DiskInv, Listing
  <2> QED
    BY Zenon, <1>3, <1>9, <2>1 DEF AsListed, Held, Whole
<1>10. RestorePhase'
  <2>1. CASE mig.pc = "restore" \/ mig.move = "restore"
    <3>1. d \in mig.todo => mig.plan[d] # "dedup"
      BY Zenon, <1>3, <1>9, <2>1 DEF SpoolInv, RestorePhase
    <3> QED
      BY ZenonT(60), <1>3, <3>1 DEF SpoolInv, RestorePhase, Good, Pending
  <2> QED
    BY <1>3, <2>1 DEF RestorePhase
<1>11. MovePhase'
  <2>1. ASSUME mig.pc \in {"copy", "sync", "remove"} PROVE This \in Spools /\ This # d
    <3>1. mig.pc \in Moving /\ mig.pc # "syncsrc"
      BY <2>1 DEF Moving
    <3>2. This \in Spools /\ This \in mig.todo
      BY Zenon, <3>1, MoveFacts
    <3>3. \/ mig.move = "stage" /\ orig[This] # "none"
          \/ mig.move = "restore" /\ Pending(quar)
      BY Zenon, <3>1, MoveFacts
    <3>4. CASE mig.move = "restore"
      <4>1. quar.manifest.files[This] # "none"
        BY Zenon, <3>2, <3>4 DEF SpoolInv, RestorePhase
      <4>2. This = d => quar.staged[This] # "none"
        BY Zenon, <1>9, <3>3, <3>4, <4>1
      <4>3. quar.staged[This] # "none" => orig[This] # "none"
        <5>1. CASE mig.pc = "remove"
          BY Zenon, <5>1 DEF SpoolInv, MovePhase, Entries
        <5>2. CASE mig.pc \in {"copy", "sync"}
          BY Zenon, <3>4, <5>2 DEF SpoolInv, MovePhase
        <5> QED
          BY Zenon, <2>1, <5>1, <5>2
      <4> QED
        BY Zenon, <1>3, <3>2, <4>2, <4>3
    <3> QED
      BY Zenon, <1>3, <3>2, <3>3, <3>4
  <2> QED
    BY <1>3, <2>1 DEF SpoolInv, MovePhase, Entries
<1> QED
  BY Zenon, <1>1, <1>2, <1>3, <1>4, <1>5, <1>6, <1>7, <1>8, <1>10, <1>11 DEF SpoolInv, CreatesForeign

-----------------------------------------------------------------------------
(* The theorems *)

\* The invariant holds before the first run.
LEMMA SpoolInitially == MigratorInit => SpoolInv
<1> SUFFICES ASSUME MigratorInit PROVE SpoolInv
  OBVIOUS
<1>1. mig \in Migrators
  BY Zenon, IdleType DEF MigratorInit, Results
<1>2. mig.pc = "idle" /\ mig.move = "none" /\ mig.id = 0 /\ ~mig.undo /\ mig.result = "none"
  BY DEF MigratorInit, Idle
<1>3. Loops /\ PlanPhase /\ StagePhase /\ PurgePhase /\ RestorePhase /\ VerifyPhase /\ MovePhase
  BY Zenon, <1>2 DEF Loops, PlanPhase, StagePhase, PurgePhase, RestorePhase, VerifyPhase, MovePhase,
     Moving
<1>4. Counters
  BY MigratorAssumption DEF MigratorInit, Counters
<1>5. Ids /\ RefusalHasCause
  BY Zenon, <1>2 DEF MigratorInit, Ids, RefusalHasCause
<1>6. /\ \A b \in Spools : quar.staged[b] = "none" /\ quar.manifest.files[b] = "none"
      /\ \A b \in Spools : orig[b] = "old" /\ origDur[b] = "old"
      /\ ~Good(quar) /\ quarDur = quar /\ quar = NoQuarantine
  BY DEF MigratorInit, NoQuarantine, NoManifest, Good
<1>7. DiskShape
  BY <1>6, NoQuarantineType DEF MigratorInit, DiskShape, Content, Whole
<1>8. Secured /\ Listing(quar) /\ Listing(quarDur)
  BY Zenon, <1>6 DEF Secured, Listing, AsListed, Entries, Held, Committed, Pending, Whole
<1>9. Synced /\ Torn
  BY <1>6 DEF Synced, Torn
<1> QED
  BY Zenon, <1>1, <1>3, <1>4, <1>5, <1>7, <1>8, <1>9 DEF SpoolInv, DiskInv

\* A step that keeps the files discards granted ones only.
LEMMA PreservesIsDiscard ==
    ASSUME SpoolInv, Preserves
    PROVE  SpoolInv' /\ Promise!Next
<1> DEFINE S == KeptCopies' \cap purgeable
<1>1. ASSUME NEW copy \in Spools \X Whole, copy \notin purgeable
      PROVE  copy \in KeptCopies <=> copy \in KeptCopies'
  <2>1. PICK b \in Spools, c \in Whole : copy = <<b, c>>
    OBVIOUS
  <2>2. c \in {orig[b], quar.staged[b]} <=> c \in {orig'[b], quar'.staged[b]}
    BY <1>1, <2>1 DEF Preserves, Keeps
  <2> QED
    BY <2>1, <2>2 DEF KeptCopies
<1>2. KeptCopies \subseteq Spools \X Whole /\ KeptCopies' \subseteq Spools \X Whole
  BY DEF KeptCopies
<1>3. KeptCopies' = (KeptCopies \ purgeable) \cup S
  BY <1>1, <1>2
<1>4. S \in SUBSET (Spools \X Whole) /\ S \subseteq purgeable
  BY <1>2
<1>5. Promise!Discard(S)
  BY <1>3, <1>4 DEF Preserves, Promise!Discard
<1> QED
  BY Zenon, <1>4, <1>5 DEF Preserves, Promise!Next

\* A commit of the transaction is a commit of the promise.
LEMMA CommitsIsCommit ==
    ASSUME SpoolInv, Commits
    PROVE  SpoolInv' /\ Promise!Next
<1>1. purgeable' \in SUBSET (Spools \X Whole) /\ purgeable' = purgeable \cup purgeable'
  BY DEF Commits
<1>2. UNCHANGED KeptCopies
  BY DEF Commits, KeptCopies
<1>3. Promise!Commit(purgeable')
  BY <1>1, <1>2 DEF Promise!Commit
<1> QED
  BY Zenon, <1>1, <1>3 DEF Commits, Promise!Next

\* A file of another program adds to the promise, or is there already.
LEMMA ForeignIsAdd ==
    ASSUME SpoolInv, Foreign
    PROVE  SpoolInv' /\ (Promise!Next \/ UNCHANGED <<KeptCopies, purgeable>>)
<1>1. SpoolInv' /\ UNCHANGED <<quar, purgeable>>
  BY ForeignStep
<1>2. PICK d \in Spools : orig[d] = "none" /\ orig' = [orig EXCEPT ![d] = "foreign"]
  BY ForeignStep
<1>3. <<d, "foreign">> \in Spools \X Whole
  BY DEF Whole
<1>4. KeptCopies' = KeptCopies \cup {<<d, "foreign">>}
  <2>1. ASSUME NEW b \in Spools, NEW c \in Whole
        PROVE  c \in {orig'[b], quar.staged[b]} <=> c \in {orig[b], quar.staged[b]} \/ <<b, c>> = <<d, "foreign">>
    BY Zenon, <1>2 DEF SpoolInv, DiskInv, DiskShape, Whole
  <2>2. ASSUME NEW copy \in Spools \X Whole
        PROVE  copy \in KeptCopies' <=> copy \in KeptCopies \/ copy = <<d, "foreign">>
    <3>1. PICK b \in Spools, c \in Whole : copy = <<b, c>>
      OBVIOUS
    <3> QED
      BY <1>1, <2>1, <3>1 DEF KeptCopies
  <2> QED
    BY Zenon, <1>3, <2>2 DEF KeptCopies
<1>5. CASE <<d, "foreign">> \in KeptCopies
  BY <1>1, <1>4, <1>5
<1>6. CASE <<d, "foreign">> \notin KeptCopies
  <2>1. Promise!Add
    BY Zenon, <1>1, <1>3, <1>4, <1>6 DEF Promise!Add
  <2> QED
    BY <1>1, <2>1 DEF Promise!Next
<1> QED
  BY <1>5, <1>6

\* A step that changes nothing keeps the invariant.
LEMMA SpoolStutter ==
    ASSUME SpoolInv, UNCHANGED migVars
    PROVE  SpoolInv' /\ UNCHANGED <<KeptCopies, purgeable>>
<1>1. Rests /\ UNCHANGED <<orig, origDur, quar, quarDur, verdicts, purgeable, mig, used, This>>
  BY DEF migVars, Rests, dbVars, This
<1>2. DiskInv'
  BY <1>1, RestsKeeps DEF SpoolInv
<1>3. mig' \in Migrators /\ Counters' /\ Loops' /\ Synced' /\ Torn' /\ Ids' /\ RefusalHasCause'
  BY Zenon, <1>1 DEF SpoolInv, Counters, Loops, Synced, Torn, Ids, RefusalHasCause, HalfDone, Good,
     Pending
<1>4. PlanPhase' /\ StagePhase' /\ PurgePhase' /\ RestorePhase' /\ VerifyPhase' /\ MovePhase'
  BY Zenon, <1>1 DEF SpoolInv, PlanPhase, StagePhase, PurgePhase, RestorePhase, VerifyPhase, MovePhase,
     Entries,
     Good, Committed, Pending
<1>5. UNCHANGED KeptCopies
  BY Zenon, <1>1 DEF KeptCopies
<1> QED
  BY Zenon, <1>1, <1>2, <1>3, <1>4, <1>5 DEF SpoolInv

\* Every step keeps the invariant, and is a step of the promise or none.
LEMMA SpoolStep ==
    ASSUME SpoolInv, [MigratorNext]_migVars
    PROVE  SpoolInv' /\ [Promise!Next]_<<KeptCopies, purgeable>>
<1>1. CASE StartRun \/ NothingPending \/ RemoveOrphan \/ RefuseManifest \/ VerdictUnknown
           \/ PurgeCommitted \/ Validate \/ RestoreOne \/ VerifyRestored \/ RemoveRestored
           \/ Purge \/ RemovalFails
  BY Zenon, <1>1, PreservesIsDiscard, StartRunStep, NothingPendingStep, RemoveOrphanStep,
     RefuseManifestStep,
     VerdictUnknownStep, PurgeCommittedStep, ValidateStep, RestoreOneStep, VerifyRestoredStep,
     RemoveRestoredStep, PurgeStep, RemovalFailsStep
<1>2. CASE LinkTarget \/ CopyTarget \/ SyncTarget \/ MoveFails \/ RemoveSource \/ SyncSource \/ SourceFails
  BY Zenon, <1>2, PreservesIsDiscard, LinkTargetStep, CopyTargetStep, SyncTargetStep, MoveFailsStep,
     RemoveSourceStep, SyncSourceStep, SourceFailsStep
<1>3. CASE Apply \/ ApplyFails \/ CreateManifest \/ WriteManifest \/ StageOne
  BY Zenon, <1>3, PreservesIsDiscard, ApplyStep, ApplyFailsStep, CreateManifestStep, WriteManifestStep,
     StageOneStep
<1>4. CASE Commit \/ CommitFails
  BY <1>4, CommitsIsCommit, CommitStep, CommitFailsStep
<1>5. CASE Kill \/ PowerLoss \/ Flush
  BY Zenon, <1>5, PreservesIsDiscard, KillStep, PowerLossStep, FlushStep
<1>6. CASE Foreign
  BY <1>6, ForeignIsAdd
<1>7. CASE UNCHANGED migVars
  BY <1>7, SpoolStutter
<1> QED
  BY Zenon, <1>1, <1>2, <1>3, <1>4, <1>5, <1>6, <1>7 DEF MigratorNext

\* Run and ReconcilePendingQuarantines refuse to go on only for a cause that
\* a kill, a power loss or another program can leave: whatever the number of
\* files, runs, kills, power losses and failing calls, and in whatever order.
THEOREM RefusesForCause == MigratorSpec => []RefusalHasCause
<1>1. MigratorInit => SpoolInv
  BY SpoolInitially
<1>2. SpoolInv /\ [MigratorNext]_migVars => SpoolInv'
  BY SpoolStep
<1>3. SpoolInv => RefusalHasCause
  BY DEF SpoolInv
<1> QED
  BY <1>1, <1>2, <1>3, PTL DEF MigratorSpec

\* The migration implements its promise: every step of Run, of the
\* reconciliation, of durableNoReplaceMove and of the environment is a step of
\* SpoolPromise or leaves its variables alone, so no file of the buffer that
\* no committed migration listed is ever lost.
THEOREM KeepsFiles == MigratorSpec => MigrationKeepsFiles
<1>1. MigratorInit => SpoolInv /\ Promise!Init
  BY SpoolInitially DEF MigratorInit, Promise!Init, KeptCopies
<1>2. SpoolInv /\ [MigratorNext]_migVars => SpoolInv' /\ [Promise!Next]_<<KeptCopies, purgeable>>
  BY SpoolStep
<1> QED
  BY <1>1, <1>2, PTL DEF MigratorSpec, MigrationKeepsFiles, Promise!Spec

=============================================================================
