---------------------------- MODULE StoredProofs ----------------------------
(***************************************************************************)
(* What a success vouches for is stored, and the daemon keeps the vault,   *)
(* for any number of records, attempts, crashes and failing calls, as long *)
(* as no message is edited to carry other media.  First, what a record's   *)
(* worker, row and files say of each other, and that every step keeps it;  *)
(* then the refinement of Vault.                                           *)
(***************************************************************************)
EXTENDS StorageProofs

-----------------------------------------------------------------------------
(* The inductive invariant *)

\* Every message that has media has the media c of its record.
Unedited(c) == \A r \in Records : media[r] \in {c[r], None}

\* Steps of downloadOne that know the content, and those before the intent.
KnowsContent == {"check", "requeue", "begin2", "open", "transfer", "seal", "gate", "prepare",
                 "publish", "complete"}

Unprepared == {"resolve", "check", "requeue", "begin2", "open", "transfer", "seal", "gate",
               "prepare"}

(***************************************************************************)
(* Worker x, row d, .part p, final file f and archived file h of a record  *)
(* fit together.  Past the check for an existing file a worker that still  *)
(* has its .part finds no other content under the final name, and so does  *)
(* whoever finds the row committing; no worker starts over beside a        *)
(* committing row.                                                         *)
(***************************************************************************)
Fits(x, d, p, f, h, c) ==
    /\ x.pc \in KnowsContent => x.got = c
    /\ p \in {None, Partial, c}
    /\ x.pc \in {"gate", "prepare"} => p # Partial
    /\ x.pc \in {"begin2", "open", "gate", "prepare"} => f \in {None, c}
    /\ x.pc \in {"transfer", "seal"} /\ p # None => f \in {None, c}
    /\ x.pc = "complete" => f # None \/ d.status = "success"
    /\ d.status = "committing" =>
          d.sha = c /\ p # Partial /\ f \in {None, c} /\ x.pc \notin Unprepared
    /\ d.status = "success" => d.sha \in Contents /\ d.sha \in {f, h}

RecordFits(r, c) == Fits(w[r], row[r], part[r], final[r], hdd[r], c)

\* What the finalizer proved of its files, or a worker has since reopened one.
FinFits ==
    /\ FinAt("commit") /\ part[fin.r] = Partial => w[fin.r].pc = "transfer"
    /\ FinAt("complete") => final[fin.r] # None \/ row[fin.r].status = "success"

IsWorker(x) ==
    {"pc", "got", "kind"} \subseteq DOMAIN x /\ x.kind \in FailKinds \cup {"conflict"}

\* The fields the argument needs are there.
StoredShape ==
    /\ DOMAIN w = Records /\ \A r \in Records : IsWorker(w[r])
    /\ DOMAIN part = Records
    /\ {"pc", "todo", "r"} \subseteq DOMAIN fin /\ fin.r \in Records /\ fin.todo \subseteq Records

StoredInv(c) == StoredShape /\ FinFits /\ \A r \in Records : RecordFits(r, c[r])

\* An update of a row that states no intent and completes nothing.
Calm(d, e) == e.status \in {"committing", "success"} => e.status = d.status /\ e.sha = d.sha

\* A calm update that keeps a success leaves a record fitting.
LEMMA CalmFits ==
    ASSUME NEW x, NEW d, NEW e, NEW p, NEW f, NEW h, NEW c,
           Fits(x, d, p, f, h, c), Calm(d, e), Keeps(d, e)
    PROVE  Fits(x, e, p, f, h, c)
BY DEF Fits, Calm, Keeps

\* Steps of a worker at which nothing is claimed of its files.
Outside == {"idle", "begin", "finish", "reject", "failTask", "failRow", "cancelRow",
            "cancelTask", "commitRow", "commitTask"}

\* A worker that goes on to such a step fits, also without its .part.
LEMMA OutsideFits ==
    ASSUME NEW x, NEW y, NEW d, NEW p, NEW q, NEW f, NEW h, NEW c,
           Fits(x, d, p, f, h, c), y.pc \in Outside, q \in {p, None}
    PROVE  Fits(y, d, q, f, h, c)
BY ContentsAssumption DEF Fits, Outside, KnowsContent, Unprepared

\* A .part that is removed leaves a record fitting.
LEMMA RemovedFits ==
    ASSUME NEW x, NEW d, NEW p, NEW f, NEW h, NEW c, Fits(x, d, p, f, h, c)
    PROVE  Fits(x, d, None, f, h, c)
BY ContentsAssumption DEF Fits

(***************************************************************************)
(* The methods of the database other than Prepare and Complete are calm.   *)
(***************************************************************************)
LEMMA SizesCalm ==
    ASSUME NEW d, IsRow(d), NEW planned, NEW size
    PROVE  Calm(d, d) /\ Calm(d, Ingested(d, size)) /\ Calm(d, Ensured(d, planned, size))
BY DEF IsRow, Calm, Ingested, Ensured

\* BeginDownload leaves a row downloading.
LEMMA BegunCalm ==
    ASSUME NEW d, IsRow(d), NEW gen, NEW named, NEW planned, NEW size
    PROVE  Calm(d, Begun(d, gen, named, planned, size))
BY DescribedKeeps DEF IsRow, Calm, Begun

\* RecordTargetConflict leaves a row in conflict.
LEMMA ConflictedCalm ==
    ASSUME NEW d, IsRow(d), NEW gen, NEW named, NEW planned, NEW size
    PROVE  Calm(d, Conflicted(d, gen, named, planned, size))
BY DescribedKeeps DEF IsRow, Calm, Conflicted

\* FailDownload leaves a row failed, unavailable or pending.
LEMMA FailedCalm ==
    ASSUME NEW d, IsRow(d), NEW kind \in FailKinds, NEW gen, NEW named, NEW planned, NEW size
    PROVE  Calm(d, Failed(d, kind, gen, named, planned, size))
BY DescribedKeeps DEF IsRow, Calm, Failed, FailKinds

\* CancelDownload, UpdateDownloadStatus and ResolveTargetConflict are calm.
LEMMA ResetCalm ==
    ASSUME NEW d, IsRow(d), NEW s, NEW gen
    PROVE  Calm(d, Cancelled(d)) /\ Calm(d, Reset(d, s)) /\ Calm(d, ConflictResolved(d, gen))
BY DescribedKeeps DEF IsRow, Calm, Cancelled, Reset, ConflictResolved

\* Rows of all records are updated calmly.
RowsCalm == \A r \in Records : Calm(row[r], row'[r])

\* An update of one row that is calm.
LEMMA OneRowCalm ==
    ASSUME StorageInv, NEW r, NEW e, r \in Records => Calm(row[r], e),
           row' = [row EXCEPT ![r] = e]
    PROVE  RowsCalm
BY DEF StorageInv, Shape, RowsCalm, Calm

\* No row is touched.
LEMMA SameRowsCalm == ASSUME UNCHANGED row PROVE RowsCalm
BY DEF RowsCalm, Calm

-----------------------------------------------------------------------------
(***************************************************************************)
(* A step beside the downloads: no .part is written, no file published, no *)
(* row completed; workers start or are lost, and the finalizer stays where *)
(* it is or goes where it claims nothing.                                  *)
(***************************************************************************)
Beside ==
    /\ StoredShape' /\ RowsCalm
    /\ \A r \in Records :
          /\ w'[r] = w[r] \/ (w'[r].pc \in Outside /\ (w[r].pc = "idle" \/ fin'.pc = "idle"))
          /\ part'[r] \in {part[r], None}
          /\ \/ final'[r] = final[r]
             \/ final'[r] = None /\ row[r].status = "success"
          /\ hdd'[r] = hdd[r] \/ hdd[r] = None
    /\ fin' = fin \/ fin'.pc \notin {"commit", "complete"}

\* Such a step preserves the invariant: files leave the SSD for the archive.
LEMMA BesideStored ==
    ASSUME NEW c, StorageInv, StoredInv(c), Beside, SafeStep
    PROVE  StoredInv(c)'
<1>1. ASSUME NEW r \in Records PROVE RecordFits(r, c[r])'
  <2>1. Fits(w'[r], row[r], part'[r], final[r], hdd[r], c[r])
    BY OutsideFits, RemovedFits DEF StoredInv, RecordFits, Beside
  <2>2. Calm(row[r], row'[r]) /\ Keeps(row[r], row'[r])
    BY DEF Beside, RowsCalm, SafeStep, SuccessStep, StorageInv, Shape, Keeps
  <2>3. Fits(w'[r], row'[r], part'[r], final[r], hdd[r], c[r])
    BY <2>1, <2>2, CalmFits
  <2>4. final'[r] # final[r] => final'[r] = None /\ row'[r].status = "success"
    BY <2>2 DEF Beside, Keeps
  <2>5. row'[r].status = "success" => row'[r].sha \in {final'[r], hdd'[r]}
    BY <2>2, <2>3, ContentsAssumption DEF Fits, SafeStep, FinalStep, Beside, Calm
  <2> QED
    BY <2>3, <2>4, <2>5 DEF Fits, RecordFits
<1>2. FinFits'
  <2>1. CASE fin' = fin
    <3>1. fin.r \in Records
      BY DEF StoredInv, StoredShape
    <3>2. w[fin.r].pc = "transfer" /\ fin'.pc # "idle" => w'[fin.r] = w[fin.r]
      BY <3>1 DEF Beside
    <3>3. final'[fin.r] # final[fin.r] => row[fin.r].status = "success"
      BY <3>1 DEF Beside
    <3>4. row[fin.r].status = "success" => row'[fin.r].status = "success"
      BY <3>1 DEF SafeStep, SuccessStep
    <3>5. part'[fin.r] \in {part[fin.r], None}
      BY <3>1 DEF Beside
    <3> QED
      BY <2>1, <3>2, <3>3, <3>4, <3>5, ContentsAssumption DEF FinFits, FinAt, StoredInv
  <2>2. CASE fin'.pc \notin {"commit", "complete"}
    BY <2>2 DEF FinFits, FinAt
  <2> QED
    BY <2>1, <2>2 DEF Beside
<1> QED
  BY <1>1, <1>2 DEF StoredInv, Beside

\* Only rows change, and calmly.
LEMMA StillBeside ==
    ASSUME NEW c, StoredInv(c), RowsCalm, UNCHANGED <<w, part, final, hdd, fin>>
    PROVE  Beside
BY DEF Beside, StoredInv, StoredShape

\* Telegram, the users and the clock step beside the downloads.
LEMMA EnvironmentBeside ==
    ASSUME NEW c, StorageInv, StoredInv(c), Environment PROVE Beside
<1>1. UNCHANGED <<w, part, final, hdd, fin>>
  BY Zenon DEF Environment, Edit, StreamUpdate, WebSubmit, ResolveTargetConflict, PauseResume,
     SwitchTarget, CancelTarget, RefreshTargetCache, Tick, diskVars, orcVars
<1>2. \A r \in Records : IsRow(row[r])
  BY DEF StorageInv, Shape
<1>3. RowsCalm
  <2>1. ASSUME NEW r \in Records, Edit(r) PROVE RowsCalm
    BY <2>1, SameRowsCalm DEF Edit, dbVars
  <2>2. ASSUME NEW r \in Records, StreamUpdate(r) PROVE RowsCalm
    BY Zenon, <1>2, <2>2, SizesCalm, OneRowCalm DEF StreamUpdate
  <2>3. ASSUME NEW r \in Records, WebSubmit(r) PROVE RowsCalm
    BY Zenon, <1>2, <2>3, SizesCalm, OneRowCalm DEF WebSubmit
  <2>4. ASSUME NEW r \in Records, ResolveTargetConflict(r) PROVE RowsCalm
    BY Zenon, <1>2, <2>4, ResetCalm, OneRowCalm DEF ResolveTargetConflict
  <2>5. CASE PauseResume \/ SwitchTarget \/ RefreshTargetCache
    BY <2>5, SameRowsCalm DEF PauseResume, SwitchTarget, RefreshTargetCache, dbVars
  <2>6. CASE CancelTarget
    BY Zenon, <1>2, <2>6, CancelTargetRows, SizesCalm, ResetCalm DEF RowsCalm
  <2>7. CASE Tick
    <3>1. ASSUME NEW r \in Records PROVE Calm(row[r], row'[r])
      BY <1>2, <2>7 DEF Tick, Calm, IsRow, StorageInv, Shape
    <3> QED
      BY <3>1 DEF RowsCalm
  <2> QED
    BY Zenon, <2>1, <2>2, <2>3, <2>4, <2>5, <2>6, <2>7 DEF Environment
<1> QED
  BY <1>1, <1>3, StillBeside

\* Startup recovery, apart from its visits of committing rows.
LEMMA BootBeside ==
    ASSUME NEW c, StorageInv, StoredInv(c),
           BootCommitting \/ BootDownloading \/ BootArchive \/ StartUp
             \/ \E r \in Records : RecoverDownloading(r) \/ RecoverCopying(r)
    PROVE  Beside
<1>1. CASE BootCommitting
  <2>1. UNCHANGED <<row, w, part, final, hdd>>
    BY <1>1 DEF BootCommitting, FinList, dbVars, diskVars, orcVars
  <2>2. \/ fin' = fin
        \/ /\ {"pc", "todo", "r"} \subseteq DOMAIN fin' /\ fin'.pc = "pick"
           /\ fin'.r = NoRecord /\ fin'.todo = InStatus("committing")
    BY <1>1 DEF BootCommitting, FinList
  <2> QED
    BY Zenon, <2>1, <2>2, SameRowsCalm, RecordsAssumption DEF Beside, StoredInv, StoredShape, NoRecord,
       InStatus
<1>2. CASE BootDownloading \/ BootArchive \/ StartUp
  <2>1. UNCHANGED <<row, w, part, final, hdd, fin>>
    BY Zenon, <1>2 DEF BootDownloading, BootArchive, StartUp, dbVars, diskVars, orcVars
  <2> QED
    BY <2>1, SameRowsCalm, StillBeside
<1>3. ASSUME NEW r \in Records, RecoverDownloading(r) PROVE Beside
  <2>1. UNCHANGED <<w, final, hdd, fin>> /\ part' = [part EXCEPT ![r] = None]
    BY <1>3 DEF RecoverDownloading, orcVars
  <2>2. RowsCalm
    <3>1. Calm(row[r], Reset(row[r], row[r]))
      BY ResetCalm DEF StorageInv, Shape
    <3> QED
      BY Zenon, <1>3, <3>1, OneRowCalm, SameRowsCalm DEF RecoverDownloading
  <2> QED
    BY <2>1, <2>2 DEF Beside, StoredInv, StoredShape
<1>4. ASSUME NEW r \in Records, RecoverCopying(r) PROVE Beside
  <2>1. UNCHANGED <<row, w, part, final, hdd, fin>>
    BY Zenon, <1>4 DEF RecoverCopying, orcVars
  <2> QED
    BY <2>1, SameRowsCalm, StillBeside
<1> QED
  BY Zenon, <1>1, <1>2, <1>3, <1>4

\* The archive worker deletes SSD files behind archived jobs only.
LEMMA ArchiveBeside ==
    ASSUME NEW c, StorageInv, StoredInv(c), Archive \/ \E r \in Records : RecoverSource(r)
    PROVE  Beside
<1>1. UNCHANGED <<w, fin, row, part>>
  BY Zenon DEF Archive, AwStep, AwClaim, AwProbe, AwOpen, AwCopy, AwCommit, AwComplete, AwRemove,
     AwEnd, RecoverSource, orcVars, dbVars, diskVars
<1>2. ASSUME NEW r \in Records
      PROVE  /\ final'[r] = final[r] \/ (final'[r] = None /\ job[r].state = "archived")
             /\ hdd'[r] = hdd[r] \/ hdd[r] = None
  <2>1. CASE AwRemove \/ \E q \in Records : RecoverSource(q)
    BY <2>1 DEF AwRemove, RecoverSource, AwAt, StorageInv, Shape, ArchiveInv
  <2>2. CASE AwCommit
    BY <2>2 DEF AwCommit, PublishedFile, Moves, StorageInv, Shape
  <2>3. CASE (\E q \in Records : AwClaim(q)) \/ AwProbe \/ AwOpen \/ AwCopy \/ AwComplete \/ AwEnd
    BY Zenon, <2>3 DEF AwClaim, AwProbe, AwOpen, AwCopy, AwComplete, AwEnd, diskVars
  <2> QED
    BY Zenon, <2>1, <2>2, <2>3 DEF Archive, AwStep
<1>3. \A r \in Records : job[r].state = "archived" => row[r].status = "success"
  BY DEF StorageInv, ArchiveInv
<1> QED
  BY Zenon, <1>1, <1>2, <1>3, SameRowsCalm DEF Beside, StoredInv, StoredShape, IsWorker

\* Scanner, dispatcher and the listing of the online finalizer.
LEMMA SchedulingBeside ==
    ASSUME NEW c, StorageInv, StoredInv(c), Scanner \/ Dispatcher \/ FinalizerPass
    PROVE  Beside
<1>1. CASE Scanner
  <2>1. UNCHANGED <<row, w, part, final, hdd, fin>>
    BY Zenon, <1>1 DEF Scanner, ScanList, ScanSubmit, dbVars, diskVars
  <2> QED
    BY <2>1, SameRowsCalm, StillBeside
<1>2. CASE Dispatcher
  <2>1. UNCHANGED <<row, part, final, hdd, fin>>
    BY Zenon, <1>2 DEF Dispatcher, Dispatch, dbVars, diskVars
  <2>2. \E r : \/ w' = w
               \/ w[r].pc = "idle" /\ w' = [w EXCEPT ![r] = [Idle EXCEPT !.pc = "begin", !.a = Head(queue)]]
    BY <1>2 DEF Dispatcher, Dispatch, At
  <2>3. \A a : LET x == [Idle EXCEPT !.pc = "begin", !.a = a] IN IsWorker(x) /\ x.pc = "begin"
    BY DEF Idle, IsWorker, FailKinds
  <2>4. \A r \in Records : \/ w'[r] = w[r]
                           \/ w[r].pc = "idle" /\ w'[r].pc = "begin" /\ IsWorker(w'[r])
    BY ZenonT(30), <2>2, <2>3 DEF StoredInv, StoredShape
  <2>5. DOMAIN w' = Records
    BY <2>2 DEF StoredInv, StoredShape
  <2> QED
    BY <2>1, <2>4, <2>5, SameRowsCalm DEF Beside, StoredInv, StoredShape, Outside
<1>3. CASE FinalizerPass
  <2>1. UNCHANGED <<row, w, part, final, hdd>>
    BY <1>3 DEF FinalizerPass, FinList, dbVars, diskVars, orcVars
  <2>2. /\ {"pc", "todo", "r"} \subseteq DOMAIN fin' /\ fin'.pc = "pick"
        /\ fin'.r = NoRecord /\ fin'.todo = InStatus("committing")
    BY <1>3 DEF FinalizerPass, FinList
  <2> QED
    BY <2>1, <2>2, SameRowsCalm, RecordsAssumption DEF Beside, StoredInv, StoredShape, NoRecord,
       InStatus
<1> QED
  BY <1>1, <1>2, <1>3

\* A crash loses workers and finalizer; a shutdown request changes no data.
LEMMA CrashBeside ==
    ASSUME NEW c, StorageInv, StoredInv(c), Crash \/ Shutdown \/ UNCHANGED vars
    PROVE  Beside
<1>1. CASE Crash
  <2>1. UNCHANGED <<row, part, final, hdd>> /\ w' = [r \in Records |-> Idle] /\ fin' = FinIdle
    BY <1>1 DEF Crash, dbVars, diskVars
  <2>2. IsWorker(Idle) /\ Idle.pc = "idle"
    BY DEF Idle, IsWorker, FailKinds
  <2>3. /\ {"pc", "todo", "r"} \subseteq DOMAIN FinIdle /\ FinIdle.pc = "idle"
        /\ FinIdle.r \in Records /\ FinIdle.todo = {}
    BY RecordsAssumption DEF FinIdle, NoRecord
  <2> QED
    BY <2>1, <2>2, <2>3, SameRowsCalm DEF Beside, StoredInv, StoredShape, Outside
<1>2. CASE Shutdown \/ UNCHANGED vars
  <2>1. UNCHANGED <<row, w, part, final, hdd, fin>>
    BY <1>2 DEF Shutdown, vars, dbVars, diskVars, orcVars
  <2> QED
    BY <2>1, SameRowsCalm, StillBeside
<1> QED
  BY <1>1, <1>2

-----------------------------------------------------------------------------
(***************************************************************************)
(* The steps of downloadOne, one by one.                                   *)
(***************************************************************************)
\* The worker of r, its row and its files are all that changes.
Alone(r) ==
    /\ DOMAIN w' = Records /\ IsWorker(w'[r]) /\ DOMAIN part' = Records
    /\ \A q \in Records \ {r} :
          w'[q] = w[q] /\ row'[q] = row[q] /\ part'[q] = part[q] /\ final'[q] = final[q]
    /\ UNCHANGED <<hdd, fin>>
    /\ part'[r] = Partial => w'[r].pc = "transfer" \/ (part[r] = Partial /\ w[r].pc # "transfer")
    /\ final'[r] = None => final[r] = None

\* Then the invariant is a matter of record r alone.
LEMMA AloneStored ==
    ASSUME NEW c, StoredInv(c), SafeStep, NEW r \in Records, Alone(r), RecordFits(r, c[r])'
    PROVE  StoredInv(c)'
<1>1. StoredShape'
  BY DEF StoredInv, StoredShape, Alone
<1>2. ASSUME NEW q \in Records PROVE RecordFits(q, c[q])'
  <2>1. CASE q = r
    BY <2>1
  <2>2. CASE q # r
    BY <2>2 DEF StoredInv, RecordFits, Alone
  <2> QED
    BY <2>1, <2>2
<1>3. FinFits'
  <2>1. CASE fin.r = r
    BY Zenon, <2>1 DEF StoredInv, FinFits, FinAt, Alone, SafeStep, SuccessStep
  <2>2. CASE fin.r # r
    BY <2>2 DEF StoredInv, StoredShape, FinFits, FinAt, Alone
  <2> QED
    BY <2>1, <2>2
<1> QED
  BY Zenon, <1>1, <1>2, <1>3 DEF StoredInv

\* The worker of r goes on to pc, with the content it knows, or returns.
Went(r, pc) ==
    /\ DOMAIN w' = Records /\ IsWorker(w'[r]) /\ w'[r].pc = pc
    /\ pc # "idle" => w'[r].got = w[r].got
    /\ \A q \in Records \ {r} : w'[q] = w[q]

\* The three ways a step of downloadOne ends.
LEMMA GotoWent ==
    ASSUME StoredShape, NEW r \in Records
    PROVE  /\ \A pc : Goto(r, pc) => Went(r, pc)
           /\ \A pc : \A kind \in FailKinds \cup {"conflict"} : Fail(r, pc, kind) => Went(r, pc)
           /\ Return(r) => Went(r, "idle")
<1>1. IsWorker(Idle) /\ Idle.pc = "idle"
  BY Zenon DEF Idle, IsWorker, FailKinds
<1> QED
  BY <1>1 DEF StoredShape, IsWorker, Went, Goto, Fail, Return

\* A worker gives up or is done: it claims nothing, and its row changes calmly.
LEMMA LeavesAlone ==
    ASSUME NEW c, StorageInv, StoredInv(c), SafeStep, NEW r \in Records, RowsCalm,
           NEW pc \in Outside, Went(r, pc), UNCHANGED <<final, hdd, fin>>,
           \A q \in Records \ {r} : row'[q] = row[q],
           (part' = part /\ w[r].pc # "transfer") \/ part' = [part EXCEPT ![r] = None]
    PROVE  Alone(r) /\ RecordFits(r, c[r])'
<1>1. DOMAIN part = Records
  BY DEF StoredInv, StoredShape
<1>2. part'[r] \in {part[r], None} /\ \A q \in Records \ {r} : part'[q] = part[q]
  BY <1>1
<1>3. Alone(r)
  BY <1>1, <1>2, ContentsAssumption DEF Alone, Went
<1>4. Fits(w'[r], row[r], part'[r], final'[r], hdd'[r], c[r])
  BY Zenon, <1>2, OutsideFits DEF StoredInv, RecordFits, Went
<1>5. Calm(row[r], row'[r]) /\ Keeps(row[r], row'[r])
  BY DEF RowsCalm, SafeStep, SuccessStep, StorageInv, Shape, Keeps
<1> QED
  BY Zenon, <1>3, <1>4, <1>5, CalmFits DEF RecordFits

\* Without a change of the row.
LEMMA QuitsAlone ==
    ASSUME NEW c, StorageInv, StoredInv(c), SafeStep, NEW r \in Records,
           NEW pc \in Outside, Went(r, pc), UNCHANGED <<row, final, hdd, fin>>,
           (part' = part /\ w[r].pc # "transfer") \/ part' = [part EXCEPT ![r] = None]
    PROVE  Alone(r) /\ RecordFits(r, c[r])'
BY Zenon, SameRowsCalm, LeavesAlone

\* BeginDownload takes the row, and the worker goes on.
LEMMA BegunFits ==
    ASSUME NEW x, NEW y, NEW d, IsRow(d), NEW p, NEW f, NEW h, NEW c, Fits(x, d, p, f, h, c),
           NEW gen, NEW named, NEW planned, NEW size,
           \/ y.pc = "resolve"
           \/ x.pc = "begin2" /\ y.pc = "open" /\ y.got = x.got
    PROVE  Fits(y, Begun(d, gen, named, planned, size), p, f, h, c)
<1>1. Begun(d, gen, named, planned, size).status = "downloading"
  BY Zenon, DescribedKeeps DEF Begun, IsRow
<1> QED
  BY <1>1 DEF Fits, KnowsContent, Unprepared

\* Either call of BeginDownload.
LEMMA BeginAlone ==
    ASSUME NEW c, StorageInv, StoredInv(c), SafeStep, NEW r \in Records, UNCHANGED fin,
           NEW named, NEW planned, NEW size, NEW state, NEW next,
           BeginDownload(r, named, planned, size, state, next),
           \/ w[r].pc = "begin" /\ next = "resolve"
           \/ w[r].pc = "begin2" /\ next = "open"
    PROVE  Alone(r) /\ RecordFits(r, c[r])'
<1>1. CASE /\ row' = [row EXCEPT ![r] = Begun(@, Task(r).gen, named, planned, size)]
           /\ Goto(r, next)
           /\ UNCHANGED diskVars
  <2>1. Went(r, next)
    BY Zenon, <1>1, GotoWent DEF StoredInv
  <2>2. /\ row'[r] = Begun(row[r], Task(r).gen, named, planned, size)
        /\ \A q \in Records \ {r} : row'[q] = row[q]
    BY Zenon, <1>1 DEF StorageInv, Shape
  <2>3. Alone(r)
    BY Zenon, <1>1, <2>1, <2>2 DEF Alone, Went, diskVars, StoredInv, StoredShape
  <2>4. IsRow(row[r]) /\ Fits(w[r], row[r], part[r], final[r], hdd[r], c[r])
    BY Zenon DEF StorageInv, Shape, StoredInv, RecordFits
  <2>5. w'[r].pc = next /\ w'[r].got = w[r].got
    BY <2>1 DEF Went
  <2>6. Fits(w'[r], row'[r], part[r], final[r], hdd[r], c[r])
    <3> DEFINE d == Begun(row[r], Task(r).gen, named, planned, size)
    <3>1. w'[r].pc = "resolve" \/ (w[r].pc = "begin2" /\ w'[r].pc = "open" /\ w'[r].got = w[r].got)
      BY Zenon, <2>5
    <3>2. Fits(w'[r], d, part[r], final[r], hdd[r], c[r])
      BY Zenon, <2>4, <3>1, BegunFits
    <3> QED
      BY Zenon, <2>2, <3>2
  <2> QED
    BY Zenon, <1>1, <2>3, <2>6 DEF RecordFits, diskVars
<1>2. CASE /\ Goto(r, "finish") \/ Goto(r, "reject")
           /\ UNCHANGED <<dbVars, diskVars>>
  <2>1. Went(r, "finish") \/ Went(r, "reject")
    BY <1>2, GotoWent DEF StoredInv
  <2> QED
    BY <1>2, <2>1, QuitsAlone DEF Outside, dbVars, diskVars
<1> QED
  BY Zenon, <1>1, <1>2 DEF BeginDownload

\* Resolve and the check for an existing final file.
LEMMA ResolveAlone ==
    ASSUME NEW c, StorageInv, StoredInv(c), SafeStep, NEW r \in Records, UNCHANGED fin,
           media[r] \in {c[r], None}, Resolve(r) \/ CheckFinal(r)
    PROVE  Alone(r) /\ RecordFits(r, c[r])'
<1>0. Fits(w[r], row[r], part[r], final[r], hdd[r], c[r])
  BY DEF StoredInv, RecordFits
<1>1. CASE Resolve(r)
  <2>1. CASE media[r] # None /\ w' = [w EXCEPT ![r].pc = "check", ![r].got = media[r]]
    <3>1. /\ DOMAIN w' = Records /\ IsWorker(w'[r])
          /\ w'[r].pc = "check" /\ w'[r].got = c[r]
          /\ \A q \in Records \ {r} : w'[q] = w[q]
      BY <2>1 DEF StoredInv, StoredShape, IsWorker
    <3>2. UNCHANGED <<row, part, final, hdd>> /\ w[r].pc = "resolve"
      BY <1>1 DEF Resolve, At, dbVars, diskVars
    <3>3. Alone(r)
      BY Zenon, <3>1, <3>2 DEF Alone, StoredInv, StoredShape
    <3>4. Fits(w'[r], row[r], part[r], final[r], hdd[r], c[r])
      BY Zenon, <1>0, <3>1, <3>2 DEF Fits, KnowsContent, Unprepared
    <3> QED
      BY <3>2, <3>3, <3>4 DEF RecordFits
  <2>2. CASE \E kind \in FailKinds : Fail(r, "failTask", kind)
    <3>1. Went(r, "failTask")
      BY Zenon, <2>2, GotoWent DEF StoredInv
    <3>2. UNCHANGED <<row, part, final, hdd>> /\ w[r].pc = "resolve"
      BY <1>1 DEF Resolve, At, dbVars, diskVars
    <3> QED
      BY <3>1, <3>2, QuitsAlone DEF Outside
  <2> QED
    BY Zenon, <1>1, <2>1, <2>2 DEF Resolve, FailKinds
<1>2. CASE CheckFinal(r)
  <2>1. UNCHANGED <<row, part, final, hdd>> /\ w[r].pc = "check"
    <3>1. row[r].status # "committing"
      BY Zenon, <1>0, <1>2 DEF CheckFinal, At, Fits, Unprepared
    <3> QED
      BY Zenon, <1>2, <3>1 DEF CheckFinal, At, dbVars, diskVars
  <2>2. CASE Goto(r, "finish") \/ Goto(r, "reject") \/ Fail(r, "failTask", "conflict")
    <3>1. Went(r, "finish") \/ Went(r, "reject") \/ Went(r, "failTask")
      BY Zenon, <2>2, GotoWent DEF StoredInv
    <3> QED
      BY Zenon, <2>1, <3>1, QuitsAlone DEF Outside
  <2>3. CASE final[r] = None /\ (Goto(r, "begin2") \/ Goto(r, "requeue"))
    <3>1. Went(r, "begin2") \/ Went(r, "requeue")
      BY Zenon, <2>3, GotoWent DEF StoredInv
    <3>2. Alone(r)
      BY <2>1, <3>1 DEF Alone, Went, StoredInv, StoredShape
    <3>3. w'[r].pc \in {"begin2", "requeue"} /\ w'[r].got = w[r].got
      BY Zenon, <3>1 DEF Went
    <3>4. Fits(w'[r], row[r], part[r], final[r], hdd[r], c[r])
      BY Zenon, <1>0, <2>1, <2>3, <3>3 DEF Fits, KnowsContent, Unprepared
    <3> QED
      BY <2>1, <3>2, <3>4 DEF RecordFits
  <2> QED
    BY Zenon, <1>2, <2>2, <2>3 DEF CheckFinal
<1> QED
  BY <1>1, <1>2

\* The .part is opened, written, sealed and passed through the gate.
LEMMA OpenAlone ==
    ASSUME NEW c, StorageInv, StoredInv(c), SafeStep, NEW r \in Records, UNCHANGED fin, OpenPart(r)
    PROVE  Alone(r) /\ RecordFits(r, c[r])'
<1>0. Fits(w[r], row[r], part[r], final[r], hdd[r], c[r])
  BY DEF StoredInv, RecordFits
<1>1. UNCHANGED <<row, final, hdd>> /\ w[r].pc = "open"
  BY DEF OpenPart, At, dbVars
<1>2. CASE part' = [part EXCEPT ![r] = Partial] /\ Goto(r, "transfer")
  <2>1. Went(r, "transfer")
    BY <1>2, GotoWent DEF StoredInv
  <2>2. part'[r] = Partial /\ DOMAIN part' = Records /\ \A q \in Records \ {r} : part'[q] = part[q]
    BY Zenon, <1>2 DEF StoredInv, StoredShape
  <2>3. Alone(r)
    BY Zenon, <1>1, <2>1, <2>2 DEF Alone, Went
  <2>4. w'[r].pc = "transfer" /\ w'[r].got = w[r].got
    BY Zenon, <2>1 DEF Went
  <2>5. Fits(w'[r], row[r], part'[r], final[r], hdd[r], c[r])
    BY Zenon, <1>0, <1>1, <2>2, <2>4 DEF Fits, KnowsContent, Unprepared
  <2> QED
    BY <1>1, <2>3, <2>5 DEF RecordFits
<1>3. CASE UNCHANGED part /\ (Return(r) \/ Fail(r, "failTask", "error"))
  <2>1. Went(r, "idle") \/ Went(r, "failTask")
    BY Zenon, <1>3, GotoWent DEF StoredInv, FailKinds
  <2> QED
    BY Zenon, <1>1, <1>3, <2>1, QuitsAlone DEF Outside
<1> QED
  BY Zenon, <1>2, <1>3 DEF OpenPart

\* The bytes of the message end up in the file that was opened.
LEMMA TransferAlone ==
    ASSUME NEW c, StorageInv, StoredInv(c), SafeStep, NEW r \in Records, c[r] \in Contents, UNCHANGED fin,
           Transfer(r)
    PROVE  Alone(r) /\ RecordFits(r, c[r])'
<1>0. Fits(w[r], row[r], part[r], final[r], hdd[r], c[r])
  BY DEF StoredInv, RecordFits
<1>1. UNCHANGED <<row, hdd>> /\ w[r].pc = "transfer"
  BY DEF Transfer, At, dbVars
<1>2. CASE /\ part' = [part EXCEPT ![r] = IF @ = Partial THEN w[r].got ELSE @]
           /\ final' = [final EXCEPT ![r] =
                          IF part[r] # Partial /\ @ = Partial THEN w[r].got ELSE @]
           /\ Goto(r, "seal")
  <2>1. Went(r, "seal")
    BY Zenon, <1>2, GotoWent DEF StoredInv
  <2>2. w[r].got = c[r]
    BY Zenon, <1>0, <1>1 DEF Fits, KnowsContent
  <2>3. /\ part'[r] = IF part[r] = Partial THEN c[r] ELSE part[r]
        /\ DOMAIN part' = Records
        /\ \A q \in Records \ {r} : part'[q] = part[q]
    BY Zenon, <1>2, <2>2 DEF StoredInv, StoredShape
  <2>4. /\ final'[r] = IF part[r] # Partial /\ final[r] = Partial THEN c[r] ELSE final[r]
        /\ \A q \in Records \ {r} : final'[q] = final[q]
    BY Zenon, <1>2, <2>2 DEF StorageInv, Shape
  <2>5. Alone(r)
    <3>1. part'[r] # Partial /\ (final'[r] = None => final[r] = None)
      BY Zenon, <2>3, <2>4, ContentsAssumption
    <3> QED
      BY Zenon, <1>1, <2>1, <2>3, <2>4, <3>1 DEF Alone, Went
  <2>7. w'[r].pc = "seal" /\ w'[r].got = w[r].got
    BY ZenonT(30), <2>1 DEF Went
  <2>8. Fits(w'[r], row[r], part'[r], final'[r], hdd[r], c[r])
    BY <1>0, <1>1, <2>3, <2>4, <2>7, ContentsAssumption DEF Fits, KnowsContent, Unprepared
  <2> QED
    BY Zenon, <1>1, <2>5, <2>8 DEF RecordFits
<1>3. CASE /\ part' = [part EXCEPT ![r] = None] /\ UNCHANGED final
           /\ Goto(r, "cancelRow") \/ \E kind \in FailKinds : Fail(r, "failTask", kind)
  <2>1. Went(r, "cancelRow") \/ Went(r, "failTask")
    BY Zenon, <1>3, GotoWent DEF StoredInv
  <2> QED
    BY Zenon, <1>1, <1>3, <2>1, QuitsAlone DEF Outside
<1> QED
  BY Zenon, <1>2, <1>3 DEF Transfer

\* Size check and digest of the .part, then the last cancellation check.
LEMMA SealAlone ==
    ASSUME NEW c, StorageInv, StoredInv(c), SafeStep, NEW r \in Records, UNCHANGED fin,
           Seal(r) \/ Gate(r)
    PROVE  Alone(r) /\ RecordFits(r, c[r])'
<1>0. Fits(w[r], row[r], part[r], final[r], hdd[r], c[r])
  BY DEF StoredInv, RecordFits
<1>1. UNCHANGED <<row, final, hdd>> /\ w[r].pc \in {"seal", "gate"}
  BY DEF Seal, Gate, At, dbVars
<1>2. CASE /\ part' = [part EXCEPT ![r] = None]
           /\ Goto(r, "cancelRow") \/ Fail(r, "failTask", "error")
  <2>1. Went(r, "cancelRow") \/ Went(r, "failTask")
    BY Zenon, <1>2, GotoWent DEF StoredInv, FailKinds
  <2> QED
    BY Zenon, <1>1, <1>2, <2>1, QuitsAlone DEF Outside
<1>3. CASE /\ UNCHANGED part
           /\ \/ w[r].pc = "seal" /\ part[r] \in Contents /\ Goto(r, "gate")
              \/ w[r].pc = "gate" /\ w' = [w EXCEPT ![r].pc = "prepare"]
  <2>1. \/ w[r].pc = "seal" /\ part[r] \in Contents /\ Went(r, "gate")
        \/ w[r].pc = "gate" /\ Went(r, "prepare")
    <3>1. w' = [w EXCEPT ![r].pc = "prepare"] => Went(r, "prepare")
      BY DEF StoredInv, StoredShape, IsWorker, Went
    <3> QED
      BY <1>3, <3>1, GotoWent DEF StoredInv
  <2>2. Alone(r)
    BY Zenon, <1>1, <1>3, <2>1 DEF Alone, Went, StoredInv, StoredShape
  <2>3. /\ w'[r].got = w[r].got
        /\ \/ w[r].pc = "seal" /\ part[r] \in Contents /\ w'[r].pc = "gate"
           \/ w[r].pc = "gate" /\ w'[r].pc = "prepare"
    BY Zenon, <2>1 DEF Went
  <2>4. Fits(w'[r], row[r], part[r], final[r], hdd[r], c[r])
    BY Zenon, <1>0, <2>3, ContentsAssumption DEF Fits, KnowsContent, Unprepared
  <2> QED
    BY <1>1, <1>3, <2>2, <2>4 DEF RecordFits
<1> QED
  BY ZenonT(30), <1>2, <1>3 DEF Seal, Gate, At

\* The intent to publish is recorded beside a complete .part.
LEMMA PrepareAlone ==
    ASSUME NEW c, StorageInv, StoredInv(c), SafeStep, NEW r \in Records, UNCHANGED fin, Prepare(r)
    PROVE  Alone(r) /\ RecordFits(r, c[r])'
<1>0. Fits(w[r], row[r], part[r], final[r], hdd[r], c[r]) /\ IsRow(row[r])
  BY Zenon DEF StoredInv, RecordFits, StorageInv, Shape
<1>1. UNCHANGED <<final, hdd>> /\ w[r].pc = "prepare"
  BY Zenon DEF Prepare, At
<1>2. CASE /\ row' = [row EXCEPT ![r] = Prepared(@, GotSize(r), w[r].got)]
           /\ Goto(r, "publish") /\ UNCHANGED part
  <2>1. Went(r, "publish")
    BY Zenon, <1>2, GotoWent DEF StoredInv
  <2>2. /\ row'[r] = Prepared(row[r], GotSize(r), w[r].got)
        /\ \A q \in Records \ {r} : row'[q] = row[q]
    BY <1>2 DEF StorageInv, Shape
  <2>3. row'[r] = row[r] \/ (row'[r].status = "committing" /\ row'[r].sha = w[r].got)
    BY Zenon, <1>0, <2>2 DEF Prepared, IsRow
  <2>4. Alone(r)
    BY Zenon, <1>1, <1>2, <2>1, <2>2 DEF Alone, Went, StoredInv, StoredShape
  <2>5. w'[r].pc = "publish" /\ w'[r].got = w[r].got
    BY ZenonT(30), <2>1 DEF Went
  <2>6. Fits(w'[r], row'[r], part[r], final[r], hdd[r], c[r])
    BY <1>0, <1>1, <2>3, <2>5 DEF Fits, KnowsContent, Unprepared
  <2> QED
    BY Zenon, <1>1, <1>2, <2>4, <2>6 DEF RecordFits
<1>3. CASE part' = [part EXCEPT ![r] = None] /\ Goto(r, "reject") /\ UNCHANGED row
  <2>1. Went(r, "reject")
    BY <1>3, GotoWent DEF StoredInv
  <2> QED
    BY Zenon, <1>1, <1>3, <2>1, QuitsAlone DEF Outside
<1> QED
  BY Zenon, <1>2, <1>3 DEF Prepare

(***************************************************************************)
(* CommitSiblingPart, by a worker or by the finalizer: p and f become q    *)
(* and g.                                                                  *)
(***************************************************************************)
Committed(p, f, q, g) ==
    \/ q = None /\ f = None /\ p # None /\ g = p
    \/ q \in {p, None} /\ g = f

\* The .part is moved, removed or left; a success is told of a file that is there.
LEMMA CommitOutcome ==
    ASSUME NEW p, NEW f, NEW size, NEW sha, NEW failure
    PROVE  /\ Committed(p, f, RemainingPart(p, f, size, sha, failure), PublishedFile(p, f, failure))
           /\ Decision(p, f, size, sha, failure) \in {"success", "conflict", "io"}
           /\ Decision(p, f, size, sha, failure) = "success" => PublishedFile(p, f, failure) # None
<1>1. Committed(p, f, RemainingPart(p, f, size, sha, failure), PublishedFile(p, f, failure))
  BY DEF Committed, RemainingPart, PublishedFile, Moves
<1>2. CommitError(p, f, failure) \in {"none", "io", "exists"}
  BY DEF CommitError
<1>3. CommitError(p, f, failure) = "none" \/ f # None => PublishedFile(p, f, failure) # None
  BY DEF CommitError, PublishedFile, Moves
<1>4. CommitError(p, f, failure) = "exists" => f # None
  BY Zenon DEF CommitError
<1> QED
  BY <1>1, <1>2, <1>3, <1>4 DEF Decision

\* The record of an unmoved worker fits after a commit by the finalizer.
LEMMA CommittedFits ==
    ASSUME NEW x, NEW d, NEW p, NEW f, NEW h, NEW q, NEW g, NEW c \in Contents,
           Fits(x, d, p, f, h, c), Committed(p, f, q, g), p = Partial => x.pc = "transfer"
    PROVE  Fits(x, d, q, g, h, c)
BY Zenon, ContentsAssumption DEF Fits, Committed, Unprepared

\* The record of a worker fits after its own commit.
LEMMA PublishedFits ==
    ASSUME NEW x, NEW y, NEW d, NEW p, NEW f, NEW h, NEW q, NEW g, NEW c \in Contents,
           Fits(x, d, p, f, h, c), Committed(p, f, q, g),
           y.pc \in Outside \/ (y.pc = "complete" /\ y.got = c /\ g # None)
    PROVE  Fits(y, d, q, g, h, c)
<1>1. d.status = "success" => d.sha \in Contents /\ d.sha \in {g, h}
  BY Zenon, ContentsAssumption DEF Fits, Committed
<1>2. q \in {None, Partial, c}
  BY DEF Fits, Committed
<1>3. d.status = "committing" => d.sha = c /\ q # Partial /\ g \in {None, c}
  BY ContentsAssumption DEF Fits, Committed
<1> QED
  BY Zenon, <1>1, <1>2, <1>3 DEF Fits, Outside, KnowsContent, Unprepared

\* The .part is published under the final name.
LEMMA PublishAlone ==
    ASSUME NEW c, StorageInv, StoredInv(c), SafeStep, NEW r \in Records, c[r] \in Contents,
           UNCHANGED fin, Publish(r)
    PROVE  Alone(r) /\ RecordFits(r, c[r])'
<1>0. Fits(w[r], row[r], part[r], final[r], hdd[r], c[r])
  BY DEF StoredInv, RecordFits
<1>1. UNCHANGED <<row, hdd>> /\ w[r].pc = "publish"
  BY DEF Publish, At, dbVars
<1>2. PICK failure \in CommitFailures :
        LET decision == Decision(part[r], final[r], GotSize(r), w[r].got, failure) IN
        /\ CommitFailure(part[r], final[r], failure)
        /\ final' = [final EXCEPT ![r] = PublishedFile(part[r], @, failure)]
        /\ part' = [part EXCEPT ![r] =
                      RemainingPart(@, final[r], GotSize(r), w[r].got, failure)]
        /\ CASE decision = "success"  -> Goto(r, "complete")
             [] decision = "conflict" -> Fail(r, "commitRow", "conflict")
             [] decision = "io"       -> Fail(r, "commitRow", "error")
  BY Zenon DEF Publish
<1>3. /\ part'[r] = RemainingPart(part[r], final[r], GotSize(r), w[r].got, failure)
      /\ DOMAIN part' = Records
      /\ \A q \in Records \ {r} : part'[q] = part[q]
  BY Zenon, <1>2 DEF StoredInv, StoredShape
<1>4. /\ final'[r] = PublishedFile(part[r], final[r], failure)
      /\ \A q \in Records \ {r} : final'[q] = final[q]
  BY Zenon, <1>2 DEF StorageInv, Shape
<1>5. \/ /\ Decision(part[r], final[r], GotSize(r), w[r].got, failure) = "success"
         /\ Went(r, "complete")
      \/ Went(r, "commitRow")
  <2> DEFINE decision == Decision(part[r], final[r], GotSize(r), w[r].got, failure)
  <2>1. decision \in {"success", "conflict", "io"}
    BY Zenon, CommitOutcome
  <2>2. \/ decision = "success" /\ Goto(r, "complete")
        \/ Fail(r, "commitRow", "conflict")
        \/ Fail(r, "commitRow", "error")
    <3> HIDE DEF decision
    <3> QED
      BY Zenon, <1>2, <2>1 DEF decision
  <2> HIDE DEF decision
  <2>3. (decision = "success" /\ Went(r, "complete")) \/ Went(r, "commitRow")
    BY Zenon, <2>2, GotoWent DEF StoredInv, FailKinds
  <2> QED
    BY <2>3 DEF decision
<1>6. Alone(r)
  <2>1. part'[r] = Partial => part[r] = Partial
    BY Zenon, <1>3, ContentsAssumption DEF RemainingPart
  <2>2. final'[r] = None => final[r] = None
    BY Zenon, <1>4 DEF PublishedFile, Moves
  <2> QED
    BY Zenon, <1>1, <1>3, <1>4, <1>5, <2>1, <2>2 DEF Alone, Went
<1>7. \/ w'[r].pc \in Outside
      \/ /\ w'[r].pc = "complete" /\ w'[r].got = c[r]
         /\ final'[r] # None
  <2>1. w[r].got = c[r]
    BY Zenon, <1>0, <1>1 DEF Fits, KnowsContent
  <2> QED
    BY Zenon, <1>4, <1>5, <2>1, CommitOutcome DEF Went, Outside
<1>8. Committed(part[r], final[r], part'[r], final'[r])
  BY Zenon, <1>3, <1>4, CommitOutcome
<1>9. Fits(w'[r], row[r], part'[r], final'[r], hdd[r], c[r])
  BY Zenon, <1>0, <1>7, <1>8, PublishedFits
<1> QED
  BY <1>1, <1>6, <1>9 DEF RecordFits

Succeeded(e, sha) == e.status = "success" /\ e.sha = sha

\* A completed row is a success with the digest that came.
LEMMA CompletedFields ==
    \A d, size, sha : IsRow(d) => Succeeded(Completed(d, size, sha), sha)
BY DEF IsRow, Completed, Succeeded

\* The completion of a row, by a worker or by the finalizer, vouches for a file there.
LEMMA CompletedFits ==
    ASSUME NEW x, NEW y, NEW d, IsRow(d), NEW p, NEW f, NEW h, NEW c \in Contents,
           NEW gen, NEW size, NEW sha, Fits(x, d, p, f, h, c), f # None \/ d.status = "success",
           CompleteOK(d, gen, size, sha), y = x \/ y.pc \in Outside
    PROVE  Fits(y, Completed(d, size, sha), p, f, h, c)
<1>1. Succeeded(Completed(d, size, sha), sha)
  BY Zenon, CompletedFields
<1>2. sha \in Contents /\ sha \in {f, h}
  BY Zenon, ContentsAssumption DEF CompleteOK, Fits
<1>3. CASE y = x
  BY Zenon, <1>1, <1>2, <1>3 DEF Fits, Succeeded
<1>4. CASE y.pc \in Outside
  BY Zenon, <1>1, <1>2, <1>4 DEF Fits, Succeeded, Outside, KnowsContent, Unprepared
<1> QED
  BY <1>3, <1>4

\* The worker completes the row of the file it published.
LEMMA CompleteAlone ==
    ASSUME NEW c, StorageInv, StoredInv(c), SafeStep, NEW r \in Records, c[r] \in Contents,
           UNCHANGED fin, Complete(r)
    PROVE  Alone(r) /\ RecordFits(r, c[r])'
<1>0. Fits(w[r], row[r], part[r], final[r], hdd[r], c[r]) /\ IsRow(row[r])
  BY Zenon DEF StoredInv, RecordFits, StorageInv, Shape
<1>1. UNCHANGED <<part, final, hdd>> /\ w[r].pc = "complete"
  BY Zenon DEF Complete, At, diskVars
<1>2. CASE /\ CompleteOK(row[r], Task(r).gen, GotSize(r), w[r].got)
           /\ CompleteDownloadAndQueueArchive(r, GotSize(r), w[r].got)
           /\ Goto(r, "finish")
  <2>1. Went(r, "finish")
    BY Zenon, <1>2, GotoWent DEF StoredInv
  <2>2. /\ row'[r] = Completed(row[r], GotSize(r), w[r].got)
        /\ \A q \in Records \ {r} : row'[q] = row[q]
    BY Zenon, <1>2 DEF CompleteDownloadAndQueueArchive, StorageInv, Shape
  <2>3. Alone(r)
    BY Zenon, <1>1, <2>1, <2>2 DEF Alone, Went, StoredInv, StoredShape
  <2>4. w'[r].pc \in Outside /\ (final[r] # None \/ row[r].status = "success")
    BY <1>0, <1>1, <2>1 DEF Went, Outside, Fits
  <2>5. Fits(w'[r], row'[r], part[r], final[r], hdd[r], c[r])
    BY Zenon, <1>0, <1>2, <2>2, <2>4, CompletedFits
  <2> QED
    BY Zenon, <1>1, <2>3, <2>5 DEF RecordFits
<1>3. CASE Return(r) /\ UNCHANGED dbVars
  <2>1. Went(r, "idle")
    BY <1>3, GotoWent DEF StoredInv
  <2> QED
    BY Zenon, <1>1, <1>3, <2>1, QuitsAlone DEF Outside, dbVars
<1> QED
  BY Zenon, <1>2, <1>3 DEF Complete

\* What a worker records about a failure is calm.
LEMMA DispositionCalm ==
    ASSUME StoredShape, NEW r \in Records, NEW stated, NEW d, IsRow(d)
    PROVE  Calm(d, Disposition(r, stated, d))
<1>1. w[r].kind # "conflict" => w[r].kind \in FailKinds
  BY DEF StoredShape, IsWorker
<1>2. Calm(d, d)
  BY DEF Calm
<1> QED
  BY Zenon, <1>1, <1>2, ConflictedCalm, FailedCalm DEF Disposition

\* The steps that end an attempt.
LEMMA EndAlone ==
    ASSUME NEW c, StorageInv, StoredInv(c), SafeStep, NEW r \in Records, UNCHANGED fin,
           \/ RequeueTask(r) \/ SucceedResult(r) \/ EndFailed(r)
           \/ FailTask(r) \/ FailRow(r) \/ CancelRow(r) \/ CommitRow(r)
    PROVE  Alone(r) /\ RecordFits(r, c[r])'
<1>1. UNCHANGED <<part, final, hdd>> /\ w[r].pc # "transfer"
  BY Zenon DEF RequeueTask, SucceedResult, EndFailed, EndTask, FailTask, FailRow, CancelRow,
     CommitRow, At, diskVars
<1>2. \E pc \in Outside : Went(r, pc)
  <2>1. Return(r) \/ Goto(r, "failRow") \/ Goto(r, "cancelTask") \/ Goto(r, "commitTask")
    BY Zenon DEF RequeueTask, SucceedResult, EndFailed, EndTask, FailTask, FailRow, CancelRow,
       CommitRow
  <2>2. Went(r, "idle") \/ Went(r, "failRow") \/ Went(r, "cancelTask") \/ Went(r, "commitTask")
    BY Zenon, <2>1, GotoWent DEF StoredInv
  <2> QED
    BY <2>2 DEF Outside
<1>3. \/ UNCHANGED row
      \/ FailDownloadDisposition(r)
      \/ row' = [row EXCEPT ![r] = IF CancelOK(@, Task(r).gen) THEN Cancelled(@) ELSE @]
  BY ZenonT(30) DEF RequeueTask, SucceedResult, EndFailed, EndTask, FailTask, FailRow, CancelRow,
     CommitRow, dbVars
<1>4. \A q \in Records \ {r} : row'[q] = row[q]
  BY <1>3 DEF FailDownloadDisposition, StorageInv, Shape
<1>5. RowsCalm
  <2>1. IsRow(row[r])
    BY DEF StorageInv, Shape
  <2>2. /\ \A stated : Calm(row[r], Disposition(r, stated, row[r]))
        /\ Calm(row[r], IF CancelOK(row[r], Task(r).gen) THEN Cancelled(row[r]) ELSE row[r])
    BY Zenon, <2>1, DispositionCalm, SizesCalm, ResetCalm DEF StoredInv
  <2> QED
    BY ZenonT(30), <1>3, <2>2, OneRowCalm, SameRowsCalm DEF FailDownloadDisposition
<1> QED
  BY Zenon, <1>1, <1>2, <1>4, <1>5, LeavesAlone

\* Every step of downloadOne changes its own record alone, and keeps it fitting.
LEMMA WorkerAlone ==
    ASSUME NEW c, StorageInv, StoredInv(c), SafeStep, NEW r \in Records, c[r] \in Contents,
           media[r] \in {c[r], None}, UNCHANGED fin, Worker(r)
    PROVE  Alone(r) /\ RecordFits(r, c[r])'
<1>1. CASE Begin(r) \/ Begin2(r)
  BY Zenon, <1>1, BeginAlone DEF Begin, Begin2, At
<1>2. CASE Resolve(r) \/ CheckFinal(r)
  BY Zenon, <1>2, ResolveAlone
<1>3. CASE OpenPart(r) \/ Transfer(r)
  BY Zenon, <1>3, OpenAlone, TransferAlone
<1>4. CASE Seal(r) \/ Gate(r) \/ Prepare(r)
  BY Zenon, <1>4, SealAlone, PrepareAlone
<1>5. CASE Publish(r) \/ Complete(r)
  BY Zenon, <1>5, PublishAlone, CompleteAlone
<1>6. CASE \/ RequeueTask(r) \/ SucceedResult(r) \/ EndFailed(r)
           \/ FailTask(r) \/ FailRow(r) \/ CancelRow(r) \/ CommitRow(r)
  BY ZenonT(30), <1>6, EndAlone
<1> QED
  BY Zenon, <1>1, <1>2, <1>3, <1>4, <1>5, <1>6 DEF Worker

-----------------------------------------------------------------------------
(***************************************************************************)
(* The steps of a finalizer visit, online or at startup.                   *)
(***************************************************************************)
FinShape(f) == {"pc", "todo", "r"} \subseteq DOMAIN f /\ f.r \in Records /\ f.todo \subseteq Records

\* The two ways a step of a visit ends.
LEMMA FinWent ==
    ASSUME StoredShape
    PROVE  /\ \A pc : FinGoto(pc) => FinShape(fin') /\ fin'.pc = pc /\ fin'.r = fin.r
           /\ FinNext => FinShape(fin') /\ fin'.pc \in {"idle", "pick"}
<1>1. NoRecord \in Records
  BY Zenon, RecordsAssumption DEF NoRecord
<1>2. FinShape(FinIdle) /\ FinIdle.pc = "idle"
  BY <1>1 DEF FinIdle, FinShape
<1>3. ASSUME NEW pc, FinGoto(pc) PROVE FinShape(fin') /\ fin'.pc = pc /\ fin'.r = fin.r
  BY <1>3 DEF FinGoto, StoredShape, FinShape
<1>4. ASSUME FinNext PROVE FinShape(fin') /\ fin'.pc \in {"idle", "pick"}
  BY Zenon, <1>1, <1>2, <1>4 DEF FinNext, StoredShape, FinShape
<1> QED
  BY <1>3, <1>4

\* A step that claims nothing and changes no file and no row but calmly.
LEMMA FinBeside ==
    ASSUME NEW c, StoredInv(c), RowsCalm, UNCHANGED <<w, final, hdd>>, FinShape(fin'),
           fin'.pc \notin {"commit", "complete"},
           DOMAIN part' = Records, \A r \in Records : part'[r] \in {part[r], None}
    PROVE  Beside
BY DEF Beside, StoredInv, StoredShape, FinShape

\* Picking a record, recording a conflict, resetting a row, telling the registry.
LEMMA FinQuietBeside ==
    ASSUME NEW c, StorageInv, StoredInv(c), NEW online,
           \/ \E r \in Records : FinPick(r)
           \/ FinConflict \/ FinReset \/ FinTell(online)
    PROVE  Beside
<1>1. UNCHANGED <<w, part, final, hdd>>
  BY Zenon DEF FinPick, FinConflict, FinReset, FinTell, diskVars, orcVars
<1>2. fin.r \in Records /\ IsRow(row[fin.r])
  BY Zenon DEF StoredInv, StoredShape, StorageInv, Shape
<1>0. DOMAIN part' = Records /\ \A r \in Records : part'[r] \in {part[r], None}
  BY <1>1 DEF StoredInv, StoredShape
<1>3. CASE \E r \in Records : FinPick(r)
  <2>1. RowsCalm
    BY Zenon, <1>3, SameRowsCalm DEF FinPick, dbVars
  <2>2. NoRecord \in Records
    BY Zenon, RecordsAssumption DEF NoRecord
  <2>3. FinShape(FinIdle) /\ FinIdle.pc = "idle"
    BY <2>2 DEF FinIdle, FinShape
  <2>4. PICK r \in Records :
          fin' = IF pub[r]
                 THEN IF fin.todo = {r} THEN FinIdle
                      ELSE [fin EXCEPT !.todo = @ \ {r}, !.snap[r] = AbsentRow]
                 ELSE [fin EXCEPT !.pc = "inspect", !.r = r, !.todo = @ \ {r}]
    BY Zenon, <1>3 DEF FinPick
  <2>5. fin.pc = "pick"
    BY Zenon, <1>3 DEF FinPick, FinAt
  <2>6. FinShape(fin') /\ fin'.pc \in {"idle", "pick", "inspect"}
    BY <2>3, <2>4, <2>5 DEF StoredInv, StoredShape, FinShape
  <2> QED
    BY <1>0, <1>1, <2>1, <2>6, FinBeside
<1>4. CASE FinConflict \/ FinReset \/ FinTell(online)
  <2>1. \/ UNCHANGED row
        \/ row' = [row EXCEPT ![fin.r] = Conflicted(@, Snap.gen, Snap.named, Snap.planned, Snap.size)]
        \/ row' = [row EXCEPT ![fin.r] = Reset(@, Snap)]
    BY Zenon, <1>4 DEF FinConflict, FinReset, FinTell, dbVars
  <2>2. RowsCalm
    BY Zenon, <1>2, <2>1, ConflictedCalm, ResetCalm, OneRowCalm, SameRowsCalm
  <2>3. FinNext \/ FinGoto("tellFailed")
    BY Zenon, <1>4 DEF FinConflict, FinReset, FinTell
  <2>4. FinShape(fin') /\ fin'.pc \in {"idle", "pick", "tellFailed"}
    BY <2>3, FinWent DEF StoredInv
  <2> QED
    BY <1>0, <1>1, <2>2, <2>4, FinBeside
<1> QED
  BY <1>3, <1>4

\* A step of a visit that changes the visited record alone.
LEMMA VisitStored ==
    ASSUME NEW c, StoredInv(c), UNCHANGED <<w, hdd>>, DOMAIN part' = Records, FinShape(fin'),
           NEW r \in Records,
           \A q \in Records \ {r} : row'[q] = row[q] /\ part'[q] = part[q] /\ final'[q] = final[q],
           RecordFits(r, c[r])', FinFits'
    PROVE  StoredInv(c)'
<1>1. StoredShape'
  BY Zenon DEF StoredInv, StoredShape, FinShape
<1>2. ASSUME NEW q \in Records PROVE RecordFits(q, c[q])'
  <2>1. CASE q = r
    BY Zenon, <2>1
  <2>2. CASE q # r
    BY <2>2 DEF StoredInv, RecordFits
  <2> QED
    BY Zenon, <2>1, <2>2
<1> QED
  BY Zenon, <1>1, <1>2 DEF StoredInv

\* What the finalizer concludes from the files it reads.
LEMMA InspectStored ==
    ASSUME NEW c, StorageInv, StoredInv(c), SafeStep, FinInspect PROVE StoredInv(c)'
<1>0. PICK r \in Records : r = fin.r
  BY Zenon DEF StoredInv, StoredShape
<1>1. UNCHANGED <<row, final, hdd, w>> /\ DOMAIN part = Records
  BY DEF FinInspect, dbVars, orcVars, StoredInv, StoredShape
<1>2. \/ FinGoto("complete") /\ part' = [part EXCEPT ![r] = None] /\ final[r] \in Contents
      \/ FinGoto("reset") /\ part' = [part EXCEPT ![r] = None]
      \/ FinGoto("conflict") /\ part' = [part EXCEPT ![r] = @]
      \/ FinGoto("commit") /\ part' = [part EXCEPT ![r] = @] /\ part[r] \in Contents
  <2>1. PICK unread \in {"none", "final", "part"} :
          LET finalProven == unread # "final" /\ Matches(final[r], Snap.size, Snap.sha)
              partProven  == /\ unread = "part" => final[r] # None
                             /\ Matches(part[r], Snap.size, Snap.sha)
          IN
          /\ part' = [part EXCEPT ![r] = IF finalProven \/ ~partProven THEN None ELSE @]
          /\ FinGoto(IF finalProven THEN "complete"
                     ELSE IF ~partProven THEN "reset"
                     ELSE IF final[r] # None /\ unread # "part" THEN "conflict"
                     ELSE "commit")
    BY Zenon, <1>0 DEF FinInspect
  <2> DEFINE finalProven == unread # "final" /\ Matches(final[r], Snap.size, Snap.sha)
             partProven  == /\ unread = "part" => final[r] # None
                            /\ Matches(part[r], Snap.size, Snap.sha)
  <2>2. CASE finalProven
    BY Zenon, <2>1, <2>2 DEF Matches
  <2>3. CASE ~finalProven /\ ~partProven
    BY Zenon, <2>1, <2>3
  <2>4. CASE ~finalProven /\ partProven
    BY Zenon, <2>1, <2>4 DEF Matches
  <2> QED
    BY Zenon, <2>2, <2>3, <2>4
<1>3. /\ DOMAIN part' = Records /\ part'[r] \in {part[r], None}
      /\ \A q \in Records \ {r} : part'[q] = part[q]
  BY <1>1, <1>2
<1>4. CASE FinGoto("reset") \/ FinGoto("conflict")
  <2>1. FinShape(fin') /\ fin'.pc \in {"reset", "conflict"}
    BY <1>4, FinWent DEF StoredInv
  <2>2. Beside
    <3>1. \A q \in Records : part'[q] \in {part[q], None}
      BY <1>3
    <3> QED
      BY Zenon, <1>1, <1>3, <2>1, <3>1, SameRowsCalm, FinBeside
  <2> QED
    BY Zenon, <2>2, BesideStored
<1>5. CASE \/ FinGoto("complete") /\ final[r] \in Contents
           \/ FinGoto("commit") /\ part' = [part EXCEPT ![r] = @] /\ part[r] \in Contents
  <2>1. /\ FinShape(fin') /\ fin'.r = r
        /\ \/ fin'.pc = "complete" /\ final[r] \in Contents
           \/ fin'.pc = "commit" /\ part'[r] \in Contents
    BY Zenon, <1>0, <1>1, <1>5, FinWent DEF StoredInv
  <2>2. FinFits'
    BY <1>1, <2>1, ContentsAssumption DEF FinFits, FinAt
  <2>3. Fits(w[r], row[r], part'[r], final[r], hdd[r], c[r])
    BY Zenon, <1>1, <1>3, RemovedFits DEF StoredInv, RecordFits
  <2>4. RecordFits(r, c[r])'
    BY <1>1, <2>3 DEF RecordFits
  <2> QED
    BY Zenon, <1>1, <1>3, <2>1, <2>2, <2>4, VisitStored
<1> QED
  BY Zenon, <1>2, <1>4, <1>5

\* The finalizer publishes a .part it found complete.
LEMMA FinCommitStored ==
    ASSUME NEW c \in [Records -> Contents], StorageInv, StoredInv(c), SafeStep, FinCommit
    PROVE  StoredInv(c)'
<1>0. PICK r \in Records : r = fin.r
  BY DEF StoredInv, StoredShape
<1>1. UNCHANGED <<row, hdd, w>> /\ FinAt("commit")
  BY DEF FinCommit, dbVars, orcVars
<1>2. PICK failure \in CommitFailures :
        LET decision == Decision(part[r], final[r], Snap.size, Snap.sha, failure) IN
        /\ CommitFailure(part[r], final[r], failure)
        /\ final' = [final EXCEPT ![r] = PublishedFile(part[r], @, failure)]
        /\ part' = [part EXCEPT ![r] =
                      RemainingPart(@, final[r], Snap.size, Snap.sha, failure)]
        /\ CASE decision = "success"  -> FinGoto("complete")
             [] decision = "conflict" -> FinGoto("conflict")
             [] decision = "io"       -> FinNext
  BY Zenon, <1>0 DEF FinCommit
<1>3. /\ part'[r] = RemainingPart(part[r], final[r], Snap.size, Snap.sha, failure)
      /\ DOMAIN part' = Records
      /\ \A q \in Records \ {r} : part'[q] = part[q]
  BY Zenon, <1>2 DEF StoredInv, StoredShape
<1>4. /\ final'[r] = PublishedFile(part[r], final[r], failure)
      /\ \A q \in Records \ {r} : final'[q] = final[q]
  BY Zenon, <1>2 DEF StorageInv, Shape
<1>5. FinShape(fin') /\ FinFits'
  <2> DEFINE decision == Decision(part[r], final[r], Snap.size, Snap.sha, failure)
  <2>1. /\ decision \in {"success", "conflict", "io"}
        /\ decision = "success" => final'[r] # None
    BY Zenon, <1>4, CommitOutcome
  <2>2. /\ decision = "success" => FinGoto("complete")
        /\ decision = "conflict" => FinGoto("conflict")
        /\ decision = "io" => FinNext
    BY Zenon, <1>2
  <2> HIDE DEF decision
  <2>3. /\ FinShape(fin')
        /\ \/ fin'.pc \in {"conflict", "idle", "pick"}
           \/ fin'.pc = "complete" /\ fin'.r = r /\ final'[r] # None
    BY <1>0, <2>1, <2>2, FinWent DEF StoredInv
  <2> QED
    BY <2>3 DEF FinFits, FinAt
<1>6. Committed(part[r], final[r], part'[r], final'[r])
  BY Zenon, <1>3, <1>4, CommitOutcome
<1>7. Fits(w[r], row[r], part[r], final[r], hdd[r], c[r]) /\ c[r] \in Contents
  BY Zenon DEF StoredInv, RecordFits
<1>8. part[r] = Partial => w[r].pc = "transfer"
  BY <1>0, <1>1 DEF StoredInv, FinFits
<1>9. Fits(w[r], row[r], part'[r], final'[r], hdd[r], c[r])
  BY ZenonT(30), <1>6, <1>7, <1>8, CommittedFits
<1>10. RecordFits(r, c[r])'
  BY <1>1, <1>9 DEF RecordFits
<1> QED
  BY Zenon, <1>1, <1>3, <1>4, <1>5, <1>10, VisitStored

\* The finalizer completes the row of the visited record.
LEMMA FinCompleteStored ==
    ASSUME NEW c \in [Records -> Contents], StorageInv, StoredInv(c), SafeStep, FinComplete
    PROVE  StoredInv(c)'
<1>0. PICK r \in Records : r = fin.r
  BY DEF StoredInv, StoredShape
<1>1. UNCHANGED <<part, final, hdd, w>> /\ FinAt("complete") /\ DOMAIN part' = Records
  BY Zenon DEF FinComplete, diskVars, orcVars, StoredInv, StoredShape
<1>2. CASE /\ CompleteOK(row[r], Snap.gen, Snap.size, Snap.sha)
           /\ CompleteDownloadAndQueueArchive(r, Snap.size, Snap.sha)
           /\ FinGoto("tellSuccess")
  <2>1. /\ row'[r] = Completed(row[r], Snap.size, Snap.sha)
        /\ \A q \in Records \ {r} : row'[q] = row[q]
    BY Zenon, <1>2 DEF CompleteDownloadAndQueueArchive, StorageInv, Shape
  <2>2. FinShape(fin') /\ FinFits'
    <3>1. FinShape(fin') /\ fin'.pc = "tellSuccess"
      BY Zenon, <1>2, FinWent DEF StoredInv
    <3> QED
      BY <3>1 DEF FinFits, FinAt
  <2>3. /\ Fits(w[r], row[r], part[r], final[r], hdd[r], c[r]) /\ c[r] \in Contents
        /\ IsRow(row[r])
    BY Zenon DEF StoredInv, RecordFits, StorageInv, Shape
  <2>4. final[r] # None \/ row[r].status = "success"
    BY Zenon, <1>0, <1>1 DEF StoredInv, FinFits
  <2>5. Fits(w[r], row'[r], part[r], final[r], hdd[r], c[r])
    BY Zenon, <1>2, <2>1, <2>3, <2>4, CompletedFits
  <2>6. RecordFits(r, c[r])'
    BY Zenon, <1>1, <2>5 DEF RecordFits
  <2> QED
    BY Zenon, <1>1, <2>1, <2>2, <2>6, VisitStored
<1>3. CASE FinNext /\ UNCHANGED dbVars
  <2>1. FinShape(fin') /\ fin'.pc \in {"idle", "pick"}
    BY Zenon, <1>3, FinWent DEF StoredInv
  <2>2. RowsCalm
    BY <1>3, SameRowsCalm DEF dbVars
  <2>3. \A q \in Records : part'[q] \in {part[q], None}
    BY <1>1
  <2>4. Beside
    BY <1>1, <2>1, <2>2, <2>3, FinBeside
  <2> QED
    BY Zenon, <2>4, BesideStored
<1> QED
  BY Zenon, <1>0, <1>2, <1>3 DEF FinComplete

\* Every step of a visit preserves the invariant.
LEMMA FinStored ==
    ASSUME NEW c \in [Records -> Contents], StorageInv, StoredInv(c), SafeStep, NEW online,
           FinStep(online)
    PROVE  StoredInv(c)'
<1>1. CASE (\E r \in Records : FinPick(r)) \/ FinConflict \/ FinReset \/ FinTell(online)
  BY Zenon, <1>1, FinQuietBeside, BesideStored
<1> QED
  BY Zenon, <1>1, InspectStored, FinCommitStored, FinCompleteStored DEF FinStep

-----------------------------------------------------------------------------
\* A new process on a fresh database fits, whatever files it finds.
LEMMA StoredInit == ASSUME NEW c, Init PROVE StoredInv(c)
<1>1. /\ w = [r \in Records |-> Idle] /\ fin = FinIdle /\ part = [r \in Records |-> None]
      /\ row = [r \in Records |-> AbsentRow]
  BY Zenon DEF Init, OrchestratorInit, DiskInit, DatabaseInit
<1>2. IsWorker(Idle) /\ Idle.pc = "idle" /\ AbsentRow.status = "absent"
  BY Zenon DEF Idle, IsWorker, FailKinds, AbsentRow
<1>3. FinShape(FinIdle) /\ FinIdle.pc = "idle"
  BY Zenon, RecordsAssumption DEF FinIdle, NoRecord, FinShape
<1>4. StoredShape
  BY Zenon, <1>1, <1>2, <1>3 DEF StoredShape, FinShape
<1>5. FinFits
  BY ZenonT(30), <1>1, <1>3 DEF FinFits, FinAt
<1>6. ASSUME NEW r \in Records PROVE RecordFits(r, c[r])
  BY <1>1, <1>2, ContentsAssumption DEF RecordFits, Fits, KnowsContent, Unprepared
<1> QED
  BY Zenon, <1>4, <1>5, <1>6 DEF StoredInv

\* Every step preserves the invariant while no message carries other media.
LEMMA StoredStep ==
    ASSUME NEW c \in [Records -> Contents], StorageInv, StoredInv(c), Unedited(c), [Next]_vars
    PROVE  StoredInv(c)'
<1>0. SafeStep
  BY StorageStep
<1>1. CASE \E r \in Records : Download(r)
  <2>1. PICK r \in Records : Worker(r) /\ UNCHANGED fin
    BY Zenon, <1>1 DEF Download
  <2>2. c[r] \in Contents /\ media[r] \in {c[r], None}
    BY DEF Unedited
  <2> QED
    BY Zenon, <1>0, <2>1, <2>2, WorkerAlone, AloneStored
<1>2. CASE BootReconcile \/ Reconcile
  BY Zenon, <1>0, <1>2, FinStored DEF BootReconcile, Reconcile
<1>3. CASE \/ BootCommitting \/ BootDownloading \/ BootArchive \/ StartUp
           \/ \E r \in Records : RecoverDownloading(r) \/ RecoverCopying(r)
  BY Zenon, <1>0, <1>3, BootBeside, BesideStored
<1>4. CASE Archive \/ \E r \in Records : RecoverSource(r)
  BY Zenon, <1>0, <1>4, ArchiveBeside, BesideStored
<1>5. CASE Scanner \/ Dispatcher \/ FinalizerPass
  BY Zenon, <1>0, <1>5, SchedulingBeside, BesideStored
<1>6. CASE Crash \/ Shutdown \/ UNCHANGED vars
  BY Zenon, <1>0, <1>6, CrashBeside, BesideStored
<1>7. CASE Environment
  BY Zenon, <1>0, <1>7, EnvironmentBeside, BesideStored
<1> QED
  BY Zenon, <1>1, <1>2, <1>3, <1>4, <1>5, <1>6, <1>7 DEF Next, Startup

(***************************************************************************)
(* While messages are deleted but never edited to carry other media, every *)
(* success row vouches for content that a disk holds: through publication  *)
(* by a worker or by the finalizer, their races, archiving and crashes.    *)
(***************************************************************************)
THEOREM StoredUnedited ==
    ASSUME NEW c \in [Records -> Contents]
    PROVE  Spec /\ []Unedited(c) => []SuccessIsStored
<1>1. Init => StoredInv(c)
  BY StoredInit
<1>2. StorageInv /\ StoredInv(c) /\ Unedited(c) /\ [Next]_vars => StoredInv(c)'
  BY Zenon, StoredStep
<1>3. StoredInv(c) => SuccessIsStored
  BY DEF StoredInv, RecordFits, Fits, SuccessIsStored
<1> QED
  BY StorageInvariant, <1>1, <1>2, <1>3, PTL DEF Spec

-----------------------------------------------------------------------------
(***************************************************************************)
(* The refinement of Vault: what a row promises and what the SSD holds.    *)
(***************************************************************************)
Vouched(d) == IF d.status = "success" THEN d.sha ELSE None

OnSSD(f) == IF f \in Contents THEN f ELSE None

VouchedSame == \A r \in Records : Vouched(row'[r]) = Vouched(row[r])

\* Nothing happens to promises and files.
VaultSame ==
    /\ VouchedSame /\ UNCHANGED hdd
    /\ \A r \in Records : OnSSD(final'[r]) = OnSSD(final[r])

\* The four steps of Vault.
Puts(r) ==
    /\ VouchedSame /\ UNCHANGED hdd
    /\ OnSSD(final[r]) = None /\ OnSSD(final'[r]) \in Contents
    /\ \A q \in Records \ {r} : OnSSD(final'[q]) = OnSSD(final[q])

Promises(r) ==
    /\ UNCHANGED <<final, hdd>>
    /\ Vouched(row[r]) = None /\ OnSSD(final[r]) # None /\ Vouched(row'[r]) = OnSSD(final[r])
    /\ \A q \in Records \ {r} : Vouched(row'[q]) = Vouched(row[q])

Copies(r) ==
    /\ VouchedSame /\ UNCHANGED final
    /\ Vouched(row[r]) # None /\ hdd[r] = None
    /\ hdd' = [hdd EXCEPT ![r] = Vouched(row[r])]

LetsGo(r) ==
    /\ VouchedSame /\ UNCHANGED hdd
    /\ Vouched(row[r]) # None /\ hdd[r] = Vouched(row[r])
    /\ OnSSD(final'[r]) = None
    /\ \A q \in Records \ {r} : OnSSD(final'[q]) = OnSSD(final[q])

VaultStep ==
    VaultSame \/ \E r \in Records : Puts(r) \/ Promises(r) \/ Copies(r) \/ LetsGo(r)

\* They are steps of Vault.
LEMMA VaultStepRefines == VaultStep => [V!Next]_V!vars
<1> USE DEF Vouched, OnSSD
<1>1. ASSUME VaultSame PROVE UNCHANGED V!vars
  BY <1>1 DEF VaultSame, VouchedSame, V!vars
<1>2. ASSUME NEW r \in Records, Puts(r) PROVE V!Put(r)
  BY Zenon, <1>2 DEF Puts, VouchedSame, V!Put
<1>3. ASSUME NEW r \in Records, Promises(r) PROVE V!Promise(r)
  BY Zenon, <1>3 DEF Promises, V!Promise
<1>4. ASSUME NEW r \in Records, Copies(r) PROVE V!Copy(r)
  BY <1>4 DEF Copies, VouchedSame, V!Copy
<1>5. ASSUME NEW r \in Records, LetsGo(r) PROVE V!LetGo(r)
  BY Zenon, <1>5 DEF LetsGo, VouchedSame, V!LetGo
<1> QED
  BY Zenon, <1>1, <1>2, <1>3, <1>4, <1>5 DEF VaultStep, V!Next

\* A calm update of the rows promises nothing new and takes nothing back.
LEMMA CalmVouched == ASSUME RowsCalm, SafeStep PROVE VouchedSame
BY ZenonT(30) DEF RowsCalm, Calm, SafeStep, SuccessStep, VouchedSame, Vouched

\* A step beside the downloads that leaves the files alone.
LEMMA BesideVault == ASSUME Beside, SafeStep, UNCHANGED <<final, hdd>> PROVE VaultStep
BY CalmVouched DEF Beside, VaultStep, VaultSame

\* A final file appears, or none does.
LEMMA FilesVault ==
    ASSUME VouchedSame, FinalKept, UNCHANGED hdd, NEW r \in Records,
           \A q \in Records \ {r} : final'[q] = final[q]
    PROVE  VaultStep
<1>1. CASE OnSSD(final[r]) = OnSSD(final'[r])
  BY <1>1 DEF VaultStep, VaultSame
<1>2. CASE OnSSD(final[r]) # OnSSD(final'[r])
  <2>1. Puts(r)
    BY Zenon, <1>2, ContentsAssumption DEF Puts, OnSSD, FinalKept
  <2> QED
    BY Zenon, <2>1 DEF VaultStep
<1> QED
  BY ZenonT(30), <1>1, <1>2

\* A first completion is of the content under the final name.
LEMMA CompletesFinal ==
    ASSUME NEW x, NEW d, NEW p, NEW f, NEW h, NEW c \in Contents, Fits(x, d, p, f, h, c), f # None,
           NEW gen, NEW size, NEW sha, CompleteOK(d, gen, size, sha), d.status # "success"
    PROVE  f = sha /\ sha \in Contents
BY ContentsAssumption DEF Fits, CompleteOK

\* A completion promises the file it found, or repeats a promise.
LEMMA CompletedVault ==
    ASSUME NEW r \in Records, SafeStep, row'[r].status = "success",
           row[r].status # "success" => final[r] = row'[r].sha /\ row'[r].sha \in Contents,
           \A q \in Records \ {r} : row'[q] = row[q], UNCHANGED <<final, hdd>>
    PROVE  VaultStep
<1>1. CASE row[r].status = "success"
  <2>1. VaultSame
    BY Zenon, <1>1 DEF VaultSame, VouchedSame, Vouched, SafeStep, SuccessStep
  <2> QED
    BY Zenon, <2>1 DEF VaultStep
<1>2. CASE row[r].status # "success"
  <2>1. Promises(r)
    BY <1>2, ContentsAssumption DEF Promises, Vouched, OnSSD
  <2> QED
    BY Zenon, <2>1 DEF VaultStep
<1> QED
  BY Zenon, <1>1, <1>2

\* No step of a worker but Complete promises anything.
LEMMA WorkerVouched ==
    ASSUME NEW c, StorageInv, StoredInv(c), SafeStep, NEW r \in Records, UNCHANGED fin, Worker(r),
           ~Complete(r)
    PROVE  VouchedSame
<1>1. CASE Begin(r) \/ Begin2(r)
  <2>1. \/ UNCHANGED row
        \/ \E gen, named, planned, size :
              row' = [row EXCEPT ![r] = Begun(row[r], gen, named, planned, size)]
    BY Zenon, <1>1 DEF Begin, Begin2, BeginDownload, dbVars
  <2>2. IsRow(row[r])
    BY DEF StorageInv, Shape
  <2>3. RowsCalm
    BY Zenon, <2>1, <2>2, BegunCalm, OneRowCalm, SameRowsCalm
  <2> QED
    BY Zenon, <1>1, <2>3, CalmVouched
<1>2. CASE CheckFinal(r)
  <2>1. row[r].status # "committing"
    BY Zenon, <1>2 DEF CheckFinal, At, StoredInv, RecordFits, Fits, Unprepared
  <2>2. UNCHANGED row
    BY Zenon, <1>2, <2>1 DEF CheckFinal, dbVars
  <2> QED
    BY Zenon, <2>2 DEF VouchedSame
<1>3. CASE Prepare(r)
  <2>1. row' = row \/ row' = [row EXCEPT ![r] = Prepared(@, GotSize(r), w[r].got)]
    BY Zenon, <1>3 DEF Prepare
  <2>2. IsRow(row[r]) /\ DOMAIN row = Records
    BY Zenon DEF StorageInv, Shape
  <2>3. Vouched(Prepared(row[r], GotSize(r), w[r].got)) = Vouched(row[r])
    BY <2>2 DEF IsRow, Prepared, Vouched
  <2> QED
    BY Zenon, <2>1, <2>2, <2>3 DEF VouchedSame
<1>4. CASE FailRow(r) \/ CommitRow(r) \/ CancelRow(r)
  <2>1. \/ UNCHANGED row
        \/ FailDownloadDisposition(r)
        \/ row' = [row EXCEPT ![r] = IF CancelOK(@, Task(r).gen) THEN Cancelled(@) ELSE @]
    BY Zenon, <1>4 DEF FailRow, CommitRow, CancelRow
  <2>2. IsRow(row[r])
    BY DEF StorageInv, Shape
  <2>3. /\ \A stated : Calm(row[r], Disposition(r, stated, row[r]))
        /\ Calm(row[r], IF CancelOK(row[r], Task(r).gen) THEN Cancelled(row[r]) ELSE row[r])
    BY Zenon, <2>2, DispositionCalm, SizesCalm, ResetCalm DEF StoredInv
  <2>4. RowsCalm
    BY Zenon, <2>1, <2>3, OneRowCalm, SameRowsCalm DEF FailDownloadDisposition
  <2> QED
    BY Zenon, <2>4, CalmVouched
<1>5. CASE \/ Resolve(r) \/ RequeueTask(r) \/ OpenPart(r) \/ Transfer(r) \/ Seal(r) \/ Gate(r)
           \/ Publish(r) \/ SucceedResult(r) \/ EndFailed(r) \/ FailTask(r)
  <2>1. UNCHANGED row
    BY Zenon, <1>5 DEF Resolve, RequeueTask, OpenPart, Transfer, Seal, Gate, Publish, SucceedResult,
       EndFailed, EndTask, FailTask, dbVars
  <2> QED
    BY <2>1 DEF VouchedSame
<1> QED
  BY Zenon, <1>1, <1>2, <1>3, <1>4, <1>5 DEF Worker

\* Every step of downloadOne is a step of Vault.
LEMMA WorkerVault ==
    ASSUME NEW c, StorageInv, StoredInv(c), SafeStep, NEW r \in Records, c[r] \in Contents,
           media[r] \in {c[r], None}, UNCHANGED <<fin, aw, mode>>, Worker(r)
    PROVE  VaultStep
<1>1. /\ \A q \in Records \ {r} : row'[q] = row[q] /\ final'[q] = final[q]
      /\ UNCHANGED hdd
  BY Zenon, WorkerAlone DEF Alone
<1>2. CASE Complete(r)
  <2>1. UNCHANGED <<final, hdd>> /\ w[r].pc = "complete"
    BY Zenon, <1>2 DEF Complete, At, diskVars
  <2>2. /\ Fits(w[r], row[r], part[r], final[r], hdd[r], c[r]) /\ IsRow(row[r])
        /\ DOMAIN row = Records
    BY Zenon DEF StoredInv, RecordFits, StorageInv, Shape
  <2>3. final[r] # None \/ row[r].status = "success"
    BY Zenon, <2>1, <2>2 DEF Fits
  <2>4. CASE /\ CompleteOK(row[r], Task(r).gen, GotSize(r), w[r].got)
             /\ CompleteDownloadAndQueueArchive(r, GotSize(r), w[r].got)
    <3>1. row'[r] = Completed(row[r], GotSize(r), w[r].got)
      BY Zenon, <2>2, <2>4 DEF CompleteDownloadAndQueueArchive
    <3>2. row'[r].status = "success" /\ row'[r].sha = w[r].got
      <4>1. Succeeded(Completed(row[r], GotSize(r), w[r].got), w[r].got)
        BY Zenon, <2>2, CompletedFields
      <4> QED
        BY Zenon, <3>1, <4>1 DEF Succeeded
    <3>3. row[r].status # "success" => final[r] = w[r].got /\ w[r].got \in Contents
      <4> SUFFICES ASSUME row[r].status # "success"
                   PROVE  final[r] = w[r].got /\ w[r].got \in Contents
        BY Zenon
      <4>1. final[r] # None /\ CompleteOK(row[r], Task(r).gen, GotSize(r), w[r].got)
        BY Zenon, <2>3, <2>4
      <4> QED
        BY Zenon, <2>2, <4>1, CompletesFinal
    <3> QED
      BY Zenon, <1>1, <2>1, <3>2, <3>3, CompletedVault
  <2>5. CASE UNCHANGED row
    BY Zenon, <2>1, <2>5 DEF VaultStep, VaultSame, VouchedSame
  <2> QED
    BY Zenon, <1>2, <2>4, <2>5 DEF Complete, dbVars
<1>3. CASE ~Complete(r)
  <2>1. VouchedSame /\ FinalKept
    BY Zenon, <1>3, WorkerVouched, WorkerQuiet DEF Quiet
  <2> QED
    BY Zenon, <1>1, <2>1, FilesVault
<1> QED
  BY Zenon, <1>2, <1>3

\* Every step of a finalizer visit is a step of Vault.
LEMMA FinVault ==
    ASSUME NEW c \in [Records -> Contents], StorageInv, StoredInv(c), SafeStep, NEW online,
           UNCHANGED <<aw, mode>>, FinStep(online)
    PROVE  VaultStep
<1>0. PICK r \in Records : r = fin.r
  BY Zenon DEF StoredInv, StoredShape
<1>1. CASE (\E q \in Records : FinPick(q)) \/ FinConflict \/ FinReset \/ FinTell(online)
  <2>1. UNCHANGED <<final, hdd>>
    BY Zenon, <1>1 DEF FinPick, FinConflict, FinReset, FinTell, diskVars
  <2> QED
    BY Zenon, <1>1, <2>1, FinQuietBeside, BesideVault
<1>2. CASE FinInspect
  <2>1. UNCHANGED <<row, final, hdd>>
    BY Zenon, <1>2 DEF FinInspect, dbVars
  <2> QED
    BY Zenon, <2>1 DEF VaultStep, VaultSame, VouchedSame
<1>3. CASE FinCommit
  <2>1. UNCHANGED <<row, hdd>>
    BY Zenon, <1>3 DEF FinCommit, dbVars
  <2>2. \E failure : final' = [final EXCEPT ![r] = PublishedFile(part[r], @, failure)]
    BY Zenon, <1>0, <1>3 DEF FinCommit
  <2>3. FinalKept
    BY Zenon, <2>2, PublishedKept
  <2>4. \A q \in Records \ {r} : final'[q] = final[q]
    BY Zenon, <2>2 DEF StorageInv, Shape
  <2>5. VouchedSame
    BY Zenon, <2>1 DEF VouchedSame
  <2> QED
    BY Zenon, <2>1, <2>3, <2>4, <2>5, FilesVault
<1>4. CASE FinComplete
  <2>1. UNCHANGED <<final, hdd>> /\ FinAt("complete")
    BY Zenon, <1>4 DEF FinComplete, diskVars
  <2>2. /\ Fits(w[r], row[r], part[r], final[r], hdd[r], c[r]) /\ IsRow(row[r])
        /\ DOMAIN row = Records /\ c[r] \in Contents
    BY Zenon DEF StoredInv, RecordFits, StorageInv, Shape
  <2>3. final[r] # None \/ row[r].status = "success"
    BY Zenon, <1>0, <2>1 DEF StoredInv, FinFits
  <2>4. CASE /\ CompleteOK(row[r], Snap.gen, Snap.size, Snap.sha)
             /\ CompleteDownloadAndQueueArchive(r, Snap.size, Snap.sha)
    <3>1. /\ row'[r] = Completed(row[r], Snap.size, Snap.sha)
          /\ \A q \in Records \ {r} : row'[q] = row[q]
      BY Zenon, <2>2, <2>4 DEF CompleteDownloadAndQueueArchive
    <3>2. row'[r].status = "success" /\ row'[r].sha = Snap.sha
      <4>1. Succeeded(Completed(row[r], Snap.size, Snap.sha), Snap.sha)
        BY Zenon, <2>2, CompletedFields
      <4> QED
        BY Zenon, <3>1, <4>1 DEF Succeeded
    <3>3. row[r].status # "success" => final[r] = Snap.sha /\ Snap.sha \in Contents
      BY Zenon, <2>2, <2>3, <2>4, CompletesFinal
    <3> QED
      BY Zenon, <2>1, <3>1, <3>2, <3>3, CompletedVault
  <2>5. CASE UNCHANGED row
    BY Zenon, <2>1, <2>5 DEF VaultStep, VaultSame, VouchedSame
  <2> QED
    BY Zenon, <1>0, <1>4, <2>4, <2>5 DEF FinComplete, dbVars
<1> QED
  BY Zenon, <1>1, <1>2, <1>3, <1>4 DEF FinStep

\* A function of the records, which stays one.
HddIsFunction == hdd = [r \in Records |-> hdd[r]]

\* The rename onto the archive disk copies what the row vouches for.
LEMMA AwCommitVault ==
    ASSUME StorageInv, HddIsFunction, Up, AwCommit PROVE VaultStep /\ HddIsFunction'
<1>0. aw.r \in Records /\ moving[aw.r] = Vouched(row[aw.r])
  BY DEF AwCommit, AwAt, StorageInv, ArchiveInv, Vouched
<1>1. PICK r \in Records : r = aw.r
  BY <1>0
<1>2. UNCHANGED <<row, final>> /\ VouchedSame
  BY DEF AwCommit, dbVars, VouchedSame
<1>3. PICK failure : hdd' = [hdd EXCEPT ![r] = PublishedFile(moving[r], hdd[r], failure)]
  BY Zenon, <1>1 DEF AwCommit
<1>4. HddIsFunction'
  BY <1>3 DEF HddIsFunction
<1>5. CASE Moves(moving[r], hdd[r], failure)
  <2>1. hdd' = [hdd EXCEPT ![r] = moving[r]] /\ hdd[r] = None /\ moving[r] # None
    BY Zenon, <1>3, <1>5 DEF PublishedFile, Moves
  <2>2. Copies(r)
    BY <1>0, <1>1, <1>2, <2>1 DEF Copies
  <2> QED
    BY Zenon, <1>4, <2>2 DEF VaultStep
<1>6. CASE ~Moves(moving[r], hdd[r], failure)
  <2>1. hdd' = [hdd EXCEPT ![r] = hdd[r]]
    BY <1>3, <1>6 DEF PublishedFile
  <2>2. hdd' = hdd
    BY <2>1 DEF HddIsFunction
  <2> QED
    BY <1>2, <1>4, <2>2 DEF VaultStep, VaultSame
<1> QED
  BY <1>5, <1>6

\* The removal of a source behind an archived job lets go of it.
LEMMA RemoveVault ==
    ASSUME StorageInv, NEW r \in Records, job[r].state = "archived", UNCHANGED <<row, hdd>>,
           final' = [final EXCEPT ![r] = None] \/ UNCHANGED final, NEW c, StoredInv(c)
    PROVE  VaultStep
<1>1. VouchedSame
  BY Zenon DEF VouchedSame
<1>2. CASE UNCHANGED final
  BY Zenon, <1>1, <1>2 DEF VaultStep, VaultSame
<1>3. CASE final' = [final EXCEPT ![r] = None]
  <2>1. row[r].status = "success" /\ hdd[r] = row[r].sha
    BY Zenon DEF StorageInv, ArchiveInv
  <2>2. row[r].sha \in Contents
    BY Zenon, <2>1 DEF StoredInv, RecordFits, Fits
  <2>3. final'[r] = None /\ \A q \in Records \ {r} : final'[q] = final[q]
    BY Zenon, <1>3 DEF StorageInv, Shape
  <2>4. LetsGo(r)
    BY Zenon, <1>1, <2>1, <2>2, <2>3, ContentsAssumption DEF LetsGo, Vouched, OnSSD
  <2> QED
    BY Zenon, <2>4 DEF VaultStep
<1> QED
  BY Zenon, <1>2, <1>3

\* Every step of the archive worker, and of its recovery, is a step of Vault.
LEMMA ArchiveVault ==
    ASSUME NEW c, StorageInv, StoredInv(c), HddIsFunction,
           Archive \/ \E r \in Records : RecoverSource(r)
    PROVE  VaultStep /\ HddIsFunction'
<1>1. CASE Archive /\ AwCommit
  BY Zenon, <1>1, AwCommitVault DEF Archive
<1>2. CASE AwRemove
  <2>1. PICK r \in Records : r = aw.r /\ job[r].state = "archived"
    BY <1>2 DEF AwRemove, AwAt, StorageInv, ArchiveInv
  <2>2. /\ UNCHANGED <<row, hdd>>
        /\ final' = [final EXCEPT ![r] = None] \/ UNCHANGED final
    BY Zenon, <1>2, <2>1 DEF AwRemove, dbVars
  <2> QED
    BY ZenonT(30), <2>1, <2>2, RemoveVault DEF HddIsFunction
<1>3. CASE \E r \in Records : RecoverSource(r)
  <2>1. PICK r \in Records : RecoverSource(r)
    BY <1>3
  <2>2. /\ UNCHANGED <<row, hdd>> /\ job[r].state = "archived"
        /\ final' = [final EXCEPT ![r] = None] \/ UNCHANGED final
    BY Zenon, <2>1 DEF RecoverSource, dbVars
  <2> QED
    BY Zenon, <2>1, <2>2, RemoveVault DEF HddIsFunction
<1>4. CASE (\E q \in Records : AwClaim(q)) \/ AwProbe \/ AwOpen \/ AwCopy \/ AwComplete \/ AwEnd
  <2>1. UNCHANGED <<row, final, hdd>>
    BY Zenon, <1>4 DEF AwClaim, AwProbe, AwOpen, AwCopy, AwComplete, AwEnd, dbVars, diskVars
  <2> QED
    BY Zenon, <2>1 DEF VaultStep, VaultSame, VouchedSame, HddIsFunction
<1> QED
  BY Zenon, <1>1, <1>2, <1>3, <1>4 DEF Archive, AwStep

\* A new process finds a vault without promises.
LEMMA VaultInit == Init => V!Init /\ HddIsFunction
<1> SUFFICES ASSUME Init PROVE V!Init /\ HddIsFunction
  BY Zenon
<1>1. /\ row = [r \in Records |-> AbsentRow] /\ AbsentRow.status = "absent"
      /\ final \in [Records -> Contents \cup {None}] /\ hdd \in [Records -> Contents \cup {None}]
  BY DEF Init, DatabaseInit, AbsentRow, DiskInit
<1>2. HddIsFunction
  BY <1>1 DEF HddIsFunction
<1>3. [r \in Records |-> IF row[r].status = "success" THEN row[r].sha ELSE None]
        = [r \in Records |-> None]
  BY <1>1
<1>4. [r \in Records |-> IF final[r] \in Contents THEN final[r] ELSE None]
        \in [Records -> Contents \cup {None}]
  BY <1>1
<1> QED
  BY <1>1, <1>2, <1>3, <1>4 DEF V!Init, V!Slots

\* Every step of the daemon is a step of Vault.
LEMMA VaultStepLemma ==
    ASSUME NEW c \in [Records -> Contents], StorageInv, StoredInv(c), HddIsFunction, Unedited(c),
           [Next]_vars
    PROVE  VaultStep /\ HddIsFunction'
<1>0. SafeStep
  BY StorageStep
<1>1. CASE \E r \in Records : Download(r)
  <2>1. PICK r \in Records : Worker(r) /\ UNCHANGED <<fin, aw, mode>>
    BY Zenon, <1>1 DEF Download, daemonVars
  <2>2. c[r] \in Contents /\ media[r] \in {c[r], None}
    BY DEF Unedited
  <2>3. VaultStep
    BY Zenon, <1>0, <2>1, <2>2, WorkerVault
  <2>4. UNCHANGED hdd
    BY Zenon, <1>0, <2>1, <2>2, WorkerAlone DEF Alone
  <2> QED
    BY Zenon, <2>3, <2>4 DEF HddIsFunction
<1>2. CASE BootReconcile \/ Reconcile
  <2>1. PICK online : FinStep(online) /\ UNCHANGED <<aw, mode>>
    BY Zenon, <1>2 DEF BootReconcile, Reconcile, daemonVars
  <2>2. VaultStep
    BY Zenon, <1>0, <2>1, FinVault
  <2>3. UNCHANGED hdd
    BY Zenon, <2>1 DEF FinStep, FinPick, FinInspect, FinCommit, FinComplete, FinConflict, FinReset,
       FinTell, diskVars
  <2> QED
    BY Zenon, <2>2, <2>3 DEF HddIsFunction
<1>3. CASE Archive \/ \E r \in Records : RecoverSource(r)
  BY Zenon, <1>3, ArchiveVault
<1>4. CASE \/ BootCommitting \/ BootDownloading \/ BootArchive \/ StartUp
           \/ \E r \in Records : RecoverDownloading(r) \/ RecoverCopying(r)
  <2>1. UNCHANGED <<final, hdd>>
    BY Zenon, <1>4 DEF BootCommitting, FinList, BootDownloading, BootArchive, StartUp,
       RecoverDownloading, RecoverCopying, diskVars
  <2> QED
    BY Zenon, <1>0, <1>4, <2>1, BootBeside, BesideVault DEF HddIsFunction
<1>5. CASE \/ Scanner \/ Dispatcher \/ FinalizerPass \/ Crash \/ Shutdown \/ Environment
           \/ UNCHANGED vars
  <2>1. UNCHANGED <<final, hdd>>
    <3>1. CASE Scanner \/ Dispatcher \/ FinalizerPass \/ Crash \/ Shutdown \/ UNCHANGED vars
      BY Zenon, <3>1 DEF Scanner, ScanList, ScanSubmit, Dispatcher, Dispatch, FinalizerPass, FinList,
         Crash, Shutdown, vars, diskVars
    <3>2. CASE Environment
      BY Zenon, <3>2 DEF Environment, Edit, StreamUpdate, WebSubmit, ResolveTargetConflict,
         PauseResume, SwitchTarget, CancelTarget, RefreshTargetCache, Tick, diskVars
    <3> QED
      BY <1>5, <3>1, <3>2
  <2>2. Beside
    BY Zenon, <1>5, SchedulingBeside, CrashBeside, EnvironmentBeside
  <2> QED
    BY Zenon, <1>0, <2>1, <2>2, BesideVault DEF HddIsFunction
<1> QED
  BY Zenon, <1>1, <1>2, <1>3, <1>4, <1>5 DEF Next, Startup

(***************************************************************************)
(* Under the same hypothesis the whole daemon implements Vault: a promise  *)
(* is made once, of the file then under the final name; the archive is     *)
(* filled with promised content only, and the SSD lets go of a file only   *)
(* when the archive holds what was promised.                               *)
(***************************************************************************)
THEOREM VaultUnedited ==
    ASSUME NEW c \in [Records -> Contents]
    PROVE  Spec /\ []Unedited(c) => KeepsVault
<1>1. Init => StoredInv(c) /\ V!Init /\ HddIsFunction
  BY Zenon, StoredInit, VaultInit
<1>2. StorageInv /\ StoredInv(c) /\ Unedited(c) /\ [Next]_vars => StoredInv(c)'
  BY StoredStep
<1>3. StorageInv /\ StoredInv(c) /\ HddIsFunction /\ Unedited(c) /\ [Next]_vars
        => [V!Next]_V!vars /\ HddIsFunction'
  BY VaultStepLemma, VaultStepRefines
<1> QED
  BY StorageInvariant, <1>1, <1>2, <1>3, PTL DEF Spec, KeepsVault, V!Spec
=============================================================================
