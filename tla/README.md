# TGX: a TLA+ model of the download and archive daemon

TGX is a Go daemon that downloads the media of Telegram messages to an SSD and
moves them to an archive disk. A SQLite database is its only durable state
besides the files. The difficult part is the order of durable steps: a file is
renamed, a row updated and a source deleted by different goroutines, with
failures and crashes between any two steps. This project models that pipeline,
and beside it the components with concurrency or recovery of their own: the
transfer manager, the data centre pool, SSD admission, the message cache, both
proxy watchdogs, the login wizard, the migration of the old spool and the
command-line downloader. It checks them with TLC, and proves with TLAPS, for any
value of the constants, the central safety properties of the pipeline, that the
daemon (while no message is edited to carry other media) and the migration
implement their promises, and the safety of every component beside the pipeline.

## The system

| Part | Source (under `src/`) | Lines | Here |
|---|---|---|---|
| database | `app/daemon/db.go`, `models.go` | 2232 | `Database`, `Backoff`; accounts in `AuthWizard` |
| task registry | `app/daemon/registry.go`, `naming.go` | 1264 | `Registry` |
| orchestrator: scanner, dispatcher, workers | `app/daemon/orchestrator.go` | 1620 | `Orchestrator` |
| committing reconciler, online finalizer | `app/daemon/recovery.go`, `orchestrator.go` | 410 | `Finalizer` |
| startup recovery, process life | `app/daemon/recovery.go`, `run.go` | 320 | `Daemon` |
| archive worker | `app/daemon/archive.go` | 439 | `ArchiveWorker` |
| atomic publication | `internal/fscommit/rename*.go` | 185 | `Disk` |
| SSD admission | `internal/fscommit/admission.go` | 145 | `Admission`; its outcome in `Orchestrator` |
| update stream, web server | `app/daemon/updates_stream.go`, `web_server.go` | 2491 | the state-changing handlers, in `Daemon` |
| Telegram access | `app/daemon/telegram.go`, `chat_service.go` | 740 | `MessageCache`; its outcome in `Orchestrator` |
| transfer manager | `core/transfer` | 1000 | `Transfer`, `Gate`, `Ranges`; its outcome in `Orchestrator` |
| data centre pool | `core/dcpool` | 250 | `Pool` |
| proxy manager and watchdog | `app/daemon/proxy_manager.go`, `pkg/proxy` | 900 | `ProxyManager`, `FailoverWatchdog` |
| login wizard | `app/daemon/auth_wizard.go` | 406 | `AuthWizard` |
| spool migrator | `app/daemon/migration` | 1177 | `SpoolMigrator`, `SpoolRows`, `SpoolPromise` |
| command-line downloader and login | `app/dl`, `app/login` | 1574 | `Batch`; login left out |
| commands, key-value stores, client set-up, media conversion, tools | `cmd`, `pkg`, `core`, `tools` | about 5000 | left out |

How the parts interact: the update stream, the scanner and the web server submit
requests to the registry, which queues attempts. The dispatcher hands an attempt
to a worker (`downloadOne`). The worker writes `<final>.part`, computes its
digest, states the intent to commit in the database (`committing`), renames the
file without replacing, and then in one transaction sets `success` and creates an
archive job. A row left `committing` is finished by the online finalizer or by
the next startup. The archive worker copies the SSD file to `<dst>.moving`,
renames it, sets the job to `archived` and deletes the SSD file.

## Modules

```
Process                what all components share: records, contents, faults
  Disk                 the four paths of a record; CommitSiblingPart
  Database             download_records and archive_jobs
    Registry           tasks, queue, generations, pruning, cancellation
      Orchestrator     (and Disk) scanner, dispatcher, downloadOne
        Finalizer      ReconcileCommittingRecord
    ArchiveWorker      (and Disk) processJob
          Daemon       Finalizer + ArchiveWorker + startup, crashes, users, Telegram
            Properties what must hold; INSTANCE Vault
              MCDaemon the instance for TLC
Vault                  the abstract promise
Backoff                the retry delays in 64-bit arithmetic
Ranges                 the interval operations of RangeTracker
  RangeTracker         AddRange and IsComplete against sets of bytes
  Transfer             (and Gate) downloads, gotd's workers, budget, errors
    MCTransfer         the instance for TLC
SpoolPromise           what the migration promises
SpoolMigrator          quarantine, commit, reconciliation; INSTANCE SpoolPromise
SpoolRows              the rows a migration leaves
Pool, Admission, MessageCache, ProxyManager, FailoverWatchdog, AuthWizard, Batch
  MCComponents         Backoff, RangeTracker, the migration and these seven
  MCBatch              Batch alone, for one disagreement
StorageProofs          proofs about the archive: Database, ArchiveWorker, Daemon
  StoredProofs         what a success vouches for is stored; Vault is implemented
WorkerProofs           registry, rows and jobs, disks, workers, queue, step by step
  DaemonProofs         (and StorageProofs) the whole daemon: types and reports
MigrationProofs        the migration, and that SpoolPromise is implemented
TransferProofs         Transfer and Gate, RangeTracker
DownloadProofs         Pool, FailoverWatchdog, Batch
ComponentProofs        Admission, MessageCache, AuthWizard, ProxyManager, SpoolRows
```

**State.** `row` and `job` are the two tables. `part`, `final`, `moving` and `hdd`
are the files of a record on the two disks. `att` is the heap of `*taskState`
objects of the running process, `tasks` and `queue` point into it. `w[r]` is the
goroutine running `downloadOne` for record `r` (`inFlight` admits one), `pub`
is `activePublishers`, `scan` is the batch the scanner holds. `fin` is the
finalizer with the rows as it listed them, `aw` the archive worker. `mode` is the
life of the process: the phases of `ReconcileOnStartup`, `up`, `stopping`.

**Steps.** A database method is one atomic operator, since it holds the database
lock for its whole body: `XxxOK` says whether the call returns nil and a past
participle gives the row it leaves. A registry method likewise. `downloadOne`,
`ReconcileCommittingRecord` and `processJob` are cut where they release a lock or
have changed a file that others see.

| Worker step | `downloadOne` in `orchestrator.go` |
|---|---|
| `Begin`, `Begin2` | the two calls of `BeginDownload` |
| `Resolve` | message and path plan |
| `CheckFinal` | existing final file; SSD admission, else `RequeueTask` |
| `OpenPart`, `Transfer`, `Seal` | create `.part`, download, fsync and digest |
| `Gate`, `Prepare` | last cancellation check, `PrepareDownloadCommit` |
| `Publish`, `Complete` | rename, completing transaction |
| `SucceedResult`, `EndFailed` | last call to the registry |
| `FailTask`, `FailRow`, `CancelRow`, `CommitRow` | the error paths, each in its own order |

**Data.** A content is identified with its SHA-256. `Partial` is a file being
written. A length matters only as a part of the proof of a file, hence `SizeOf`. A
request keeps the fields in which two submissions of one message can differ.
`due` stands for `next_retry_at <= now`; `Backoff` treats the computed delay.
A retry generation is a stamp that is never repeated, as `UnixNano` is in the
code; every first attempt has generation 1, as in the code.

**Environment.** `Fault` makes one call to disk, database or network fail,
`Crash` ends the process between any two steps, `Edit` changes or deletes the
media of a message, and files of other origin may occupy the target paths from
the start.

**Abstractions.** All records belong to one chat and have distinct paths. The
stream's ingest and dispatch are one step, and so are the submission and
`EnsureDownloadRecord` of the web server; an ingest that fails changes nothing.
Steps 3 and 4 of startup recovery (statuses `resolving` and `moving`, and
cancellation texts) match no row that the current code writes. Disabling a target
that is already disabled is left out. Three more steps are one where the code has
several calls without a lock over them. `PauseResume` sets `running` and `paused`
together: what the dispatcher does between the two settings it could do just before
a pause, and what scanner and users do, just after a resume. `FinInspect` reads and compares the files and removes the `.part`
in one step; what the finalizer does later with what it read is a step of its own.
`CheckFinal` likewise reads row and file and completes the record, each with its
own outcome when it fails. When a target is disabled, one `Fault` may spare any of
the attempts: the database is down for some of the calls.

### The components beside the pipeline

| Module | State and steps | What must hold |
|---|---|---|
| `Transfer`, `Gate` | a file per task, its gotd workers, each between taking budget, waiting for cooldown and permit, a second look at the cooldown, sending, writing; the gate's permits and the cooldown of each data centre | `PermitsConserved`, `LateRequestsBounded`, `ResultIsTrue`, `TransferEnds` |
| `Ranges` | `AddRange`, `IsComplete`, `CoveredBytes` as operators | `TrackerIsExact`, against sets of bytes |
| `Pool` | callers in `invoker` and `TakeoutInvoker`, the lock of each data centre, the pool lock, `Close` | `OneConnection`, `OneTakeout`, `FailureRespected`, `CallsReturn` |
| `Admission` | a task reads the free space, takes the lock, writes, releases; the archive frees space | `AdmittedFits` |
| `MessageCache` | callers of `Resolve` and `ResolveBatch`, the shared flights, `SyncPeers`, the cache with its age and cap | `CacheBounded`, `CancellationIsOwn` |
| `ProxyManager` | the watchdog between its requests to sing-box, web switches and listings beside it | `LeavesOnlyDead`, `WatchdogRecovers` |
| `FailoverWatchdog` | the probe loop node by node, health records, failover | `ProviderIsCurrent`, `FailoverRecovers` |
| `AuthWizard` | each method is an action, since it holds the wizard's lock throughout; a save of an account is two statements | `LoggedInIsAuthorized` |
| `SpoolMigrator` | each call that changes a file or the database; kills and power losses | `MigrationKeepsFiles`, `RefusalHasCause` |
| `SpoolRows` | a whole run as seen by one row; the daemon works between runs | `SuccessIsVerified`, `MigrationIsFinal` |
| `Batch` | iterator, loop, workers, resume record, over several runs | `SuccessIsComplete`, `SendNeverBlocks`, `BatchEnds` |

Assumptions on what lies outside `src/`:

- gotd's downloader takes offsets in order, retries a request or gives up, and
  stops without an error at a part shorter than it asked for.
- A directory has its current entries and those a power loss leaves. `fsync`
  makes them equal, and the file system may do so at any time. Syncing the
  manifest's directory makes the quarantine itself durable, and what a run did is
  on disk before the next one starts.
- singleflight gives all callers of a key one flight and its result.
- sing-box has one selector, named `proxy`. A switch may take effect although its
  answer is lost.
- Telegram keeps one session for the client of the wizard, and nobody revokes it
  from another device. The session is signed in when the user scans the code, which
  `StartQR` and `PollQR` may find out.
- Between two runs of the downloader that continue each other the options stay
  (album mode, filters). A message may be deleted at any time, but not between the
  two requests with which one call of `process` fetches it and its album.
- Only the daemon works on a migrated row between two migrations, and it writes
  `archived` to the job. A second import of a `success` row rewrites its size and
  digest from the same old entry; the model has the status only.

Some properties have an exception because the code has no lock or check there,
and say so:

- `AdmittedFits` excludes a reservation released between the reading of the free
  space and the check. The unconditional bound of PLAN 567 does not hold: the
  free space is read before the lock is taken. It also allows a file system smaller
  than the minimum free space, where nothing fits and nothing is admitted.
- No cooldown stops a request that has taken its second look at it and is not yet
  sent (`gate.go:123` to `adapter.go:152`). `LateRequestsBounded` therefore counts:
  fewer requests than permits go into one cooldown.
- `LeavesOnlyDead` excludes a web call that overlapped a switch and a switch whose
  answer was lost: both may leave the manager with another active node than
  sing-box. `WatchdogRecovers` excludes only the states in which they do differ.
- `ProviderIsCurrent` has one node without a provider: `NewWatchdog` drops the
  error of a first address that does not parse, and connections are direct until
  the first failover.
- `SuccessIsComplete` ends the list at a dialog without messages, as the iterator
  does (`iter.go:158`), and excuses two runs: one left on a cancellation, and one
  that continues another when a message of an album was deleted, since the resume
  record holds positions and the deletion shifts them.
- `SuccessIsVerified` allows any file for a commit that states neither size nor
  digest: `verifyDiskFile` has nothing to compare it with.
- `TrackerIsExact` speaks of sizes that no recorded byte exceeds. The comment at
  `writer.go:68` says "if and only if", but a byte recorded past the size makes
  `IsComplete` say no. The transfer never asks beyond the size, so nothing
  follows.
- `FailuresBackOff` covers the first 58 failures of a download. From then on
  `60 * (1 << attempts)` in `FailDownload` (`db.go:1767`) wraps around in 64 bits
  and the delay is not positive; `FailArchiveJob` tests for this, and all 70
  failures of an archive job are covered.
- `ResultIsTrue` lets an exhausted request budget hide a write error, as the
  order of the tests in `DownloadFileWithResult` does.

`TransferTypeOK` and `ComponentsTypeOK` state the range of every variable of
these modules. They hold in the runs `Transfer` and `Components` but are not
among the properties those list; name them in the cfg to check them.

## Runs

`tlc -config X.cfg M`, where `M` is `MCDaemon`, `MCTransfer`, `MCComponents` or
`MCBatch`. All use `CHECK_DEADLOCK FALSE`: an idle daemon waits, and a behaviour
that has used up its bounds stops.

| Run | Question | Bounds that matter |
|---|---|---|
| `DaemonStorage` | is anything called success or archived ever lost, taken back or overwritten? | 1 record, 2 contents, 2 faults, 1 crash |
| `DaemonVault` | does every step implement `Vault`? | 2 faults, 1 edit |
| `DaemonCancel` | can a cancelled or superseded attempt commit, or be queued twice? | 3 user requests, 1 fault, 3 attempts, archive off |
| `DaemonPrune` | does pruning forget a running attempt? | 2 records, 2 workers, terminal limit 1 |
| `DaemonSettles` | does every record and job reach an outcome, and a committing one with a fault too? | fair, 1 content, 1 fault, 1 crash or shutdown |
| `Transfer` | is every permit given back, every complete file whole, every download ended, and how many requests overtake a flood wait? | fair, 2 files with 3 workers, 2 permits, flood waits of 1 |
| `Components` | does each of the eleven components do what its table row says? | below |

One record is enough for `DaemonStorage`, `DaemonVault` and `DaemonCancel`: records
share only the queue, the finalizer and the archive worker, which take them one
at a time; `DaemonPrune` is about what they share in the registry. The theorems
below cover any number of records. Two contents let a wrong file occupy a path
and let an edit change the length. Two faults are one to enter an error path and
one inside it. Two attempts are a first one and a retry with its own generation,
three let a retry be superseded. In `DaemonSettles`, `RecordSettles` asks for an
outcome only of behaviours without a failing call, and `RestartSettles` of
behaviours whose faults lie before a restart: `DaemonRetry` and
`DaemonArchiveStuck` show what a fault after the last restart does.

`Transfer` has a file of two parts and one of a single part, so that workers of
one file and of two files compete for the two permits, one can be sent in the
cooldown that another has met, and a short answer can come in the middle of a file.

`Components` checks modules that share no variable. A behaviour picks one of them
and only that one moves, so each has exactly the behaviours of its own
specification and the states add up instead of multiplying. The bounds:

| Component | Bounds | What they allow |
|---|---|---|
| back-off | 70 failures in a row | a 64-bit shift past its width |
| range tracker | bytes 0 to 6 | three disjoint intervals, all overlaps and touches |
| migration | 2 files, 4 runs, 3 kills or power losses, 2 errors, 1 foreign file | a kill in the reconciliation of a killed reconciliation |
| rows | 3 migrations, every old entry, status and pair of files | a run after a run, and the daemon between them |
| pool | 3 callers, 2 data centres, 2 dials per attempt | a caller that waits behind a failing one, and one that waits for the takeout lock |
| admission | 3 tasks of 1, 2 and unknown size on a disk of 5 | refusal, the unknown-size reserve, tasks that just fit |
| login wizard | 2 users, one with a second factor, 2 namespaces | mixed flows and a switch in between |
| proxy manager | 2 nodes and a group, 2 retests, 2 changes of reachability, 2 web calls, 1 failing request | a node that dies during the retries, a web switch inside a switch |
| failover watchdog | 5 nodes, the first and the fourth malformed, 4 outages | a start without a provider, failover past the malformed nodes and around the end |
| message cache | 4 messages, cap 2 with slack 1, batches of 2, 2 callers, 2 attempts | a batch added to a full cache, a shared and cancelled flight |
| downloader | 4 dialogs, the third empty, 3 listed messages before it, one in an album of 2, 2 workers, 2 runs, 1 lost file or deletion | a run that continues one interrupted inside an album, a deleted member of the album, messages behind the empty dialog |

The code's own values (a cooldown of 5 s, 1000 cache entries, 5 dials, 3 retests)
are constants of the modules.

### Disagreements between the code and its documents

These runs find a violation; `PLAN` is
`DIRECT_SSD_DOWNLOAD_ARCHIVE_REFACTOR_PLAN.md`.

| Run | What the run shows | What is said |
|---|---|---|
| `DaemonDuplicate` | a crash after `CompleteArchiveJob` leaves an SSD file that no startup removes | PLAN 380, 403 |
| `DaemonRetry` | the scanner's retry of a record the stream submitted is refused: the stream submits the date of the message, the scanner `created_at` | PLAN 292 |
| `DaemonEvidence` | an edited message changes the size of its `committing` row and the verified `.part` is deleted | PLAN 397 |
| `DaemonArchiveStuck` | one failing database call leaves a job `copying` until a restart | PLAN 305 |
| `BatchCancel` | a cancellation between taking an element and starting its worker ends the run without an error, and the resume record is deleted with files missing | comments, `app/dl/dl.go:95`, `:97` |

## Fairness

`FairSpec` of the daemon assumes weak fairness of startup, scanner, dispatcher,
each worker, finalizer, archive worker and the clock, and that a shutdown ends in
a restart. The loops are driven by tickers (5 s for scanner and finalizer, 2 s for
the archive worker) and every step of a worker is a finite computation or a call
that returns; `Resolve` has a 30 s timeout. A transfer has no deadline in the
daemon: that it ends is what `TransferEnds` shows, from the request budget.
Nothing is assumed of users, Telegram, faults or crashes.

`Transfer` assumes only that some goroutine, timer or answer moves while one can;
nothing is assumed of which. `Components` assumes the same of the pool, of the
watchdog of the proxy manager, of the failover loop and of the downloader's
goroutines, and nothing of callers, users, outages and kills. In the downloader
the failing of a step is not part of what is assumed to happen.

## Proofs

`tlapm X.tla` for the eight proof modules. The theorems hold for any set of records,
contents, files, workers, callers, data centres and nodes and any bounds, under
the named assumptions on the constants: the markers `None` and `Partial` are no
contents, lengths are positive, bounds are natural numbers, the marker of a free
lock is no caller, the session's data centre is one of the pool's, tags of proxy
nodes are strings, the tasks of the admission and the messages of the cache are
finitely many, and the album of a message contains it and fits the channel.

| Theorem | States |
|---|---|
| `StorageProofs!ArchiveOwned` | `[]ArchiveInv` |
| `StorageProofs!ArchiveStored` | `[]ArchivedIsStored` |
| `StorageProofs!SuccessStays` | `SuccessIsFinal` |
| `StorageProofs!FinalStays` | `FinalNeverReplaced` |
| `StoredProofs!StoredUnedited` | `[]SuccessIsStored`, while no message is edited to other media |
| `StoredProofs!VaultUnedited` | `KeepsVault`, the refinement of `Vault`, under the same hypothesis |
| `WorkerProofs!DiskTyped` | `[]DiskInv`: disks, budgets, archive worker and workers keep their types |
| `DaemonProofs!DaemonTyped` | `[]TypeOK` |
| `DaemonProofs!ReportsAreDurable` | `[]ReportedIsDurable` |
| `DaemonProofs!QueuesOnce` | `[]WaitsOnce`: the part of `QueuedOnce` that holds for all constants |
| `MigrationProofs!KeepsFiles` | `MigrationKeepsFiles`: the migration implements `SpoolPromise` |
| `MigrationProofs!RefusesForCause` | `[]RefusalHasCause` |
| `TransferProofs!PermitsKept` | `[]PermitsConserved` |
| `TransferProofs!InFlightBounded` | never more workers hold a permit than there are permits |
| `TransferProofs!LateBounded` | `[]LateRequestsBounded` |
| `TransferProofs!TrackerExact` | `[]TrackerIsExact` |
| `TransferProofs!ResultTrue` | `[]ResultIsTrue` |
| `DownloadProofs!ConnectedOnce` | `[]OneConnection` |
| `DownloadProofs!TakeoutOnce` | `[]OneTakeout` |
| `DownloadProofs!CooldownKept` | `FailureRespected` |
| `DownloadProofs!ProviderFollows` | `[]ProviderIsCurrent` |
| `DownloadProofs!NeverBlocks` | `[]SendNeverBlocks` |
| `DownloadProofs!CompleteRun` | `[]SuccessIsComplete` |
| `ComponentProofs!WhatIsAdmittedFits` | `[]AdmittedFits` |
| `ComponentProofs!CacheStaysBounded` | `[]CacheBounded` |
| `ComponentProofs!CancelsOnlyItself` | `[]CancellationIsOwn` |
| `ComponentProofs!LoginIsReal` | `[]LoggedInIsAuthorized` |
| `ComponentProofs!LeavesADeadNode` | `LeavesOnlyDead` |
| `ComponentProofs!OnlyVerifiedSucceeds` | `SuccessIsVerified` |
| `ComponentProofs!MigratesOnce` | `MigrationIsFinal` |

*The archive.* `ArchivedIsStored` is not inductive: when the archive
worker completes a job one has to know that the target still holds what was
verified steps earlier. `ArchiveInv` adds this: a job exists only beside a
`success` row with its digest; between two steps the archive worker owns a
`copying` job (an `archived` one while it deletes the source); before the rename
`.moving`, and before completion the target, hold the digest of the job; and the
worker is idle whenever the process is not up. `StorageInv` is `ArchiveInv` with
`Shape`, the domains the functions need.

`StorageProofs` first shows that every database operator keeps a success
(`Keeps`), and that a step which keeps successes, adds only fresh jobs and leaves
the archive side and complete SSD files alone (`Quiet`) preserves `StorageInv`;
then that all steps of the download side, the finalizer, the users and most of
startup are quiet; then it treats the rest one by one: the archive worker, the
recovery of interrupted copies, crashes. Each of these is shown to be a
`SafeStep`, which is the invariant after the step and the bodies of both action
properties.

*What a success vouches for.* `SuccessIsStored` depends on what the digest in a
`committing` row, the `.part`, the file under the final name and the step of the
worker say of each other. `StoredInv(c)` states this record by record (`Fits`):
the worker and the `.part` know no other content than `c[r]`; past the check for
an existing file a worker that still has its `.part` finds nothing else under the
final name; a `committing` row carries the digest `c[r]`, and no worker starts over
beside it; what the finalizer proved of a file is still so, or a worker has since
reopened it. No generation enters the argument. With it every step of the daemon
is a step of `Vault` or leaves its state alone, which is the refinement.

The theorems assume `[]Unedited(c)`: messages may be deleted at any moment, yet
one that has media has the media `c[r]`. Without it the properties are not claimed
beyond the bounds of their runs, and the attempt to prove them shows why. A message
is edited to other media and back; the finalizer, in one long visit, has read the
digest of the first attempt and moves the `.part` that the second one left, while a
third is past its check for the final file; and the third has the generation that
the row was read with, because generation 1 is handed out again once an id is
pruned. So the completion is accepted with the digest of a content that is on no
disk. (An argument by hand: the behaviour is longer than TLC reaches.)

*The registry and the workers.* `RegOK` says that the current attempt of an id and
every attempt in the queue are allocated and that a current attempt belongs to its
id; `WorkersRun` that a worker runs an allocated attempt of its own record and has
a content behind `Resolve`. Each method of the registry is then summed up by
`AttemptsMove(S)`, no attempt changes its record and only those of the records in
`S` become success, and `QueueGrows`, only a new attempt enters the queue and at
its end. Cancellation thins the queue, which `Without` states by position: the
provers know nothing of `SelectSeq`.

*The daemon.* `ReportedIsDurable` needs to know that who is about to report has
seen the success (`Proven`: a worker at its last call and a finalizer at its
report), and that a success is never taken back, which is the step lemma of
`StorageProofs`. `DaemonInv` puts the parts together; `TypeOK` follows from it.

*The migration.* `SpoolPromise` speaks of what is whole in the two directories;
the proof has to speak also of what a power loss leaves. `Secured` says that a
content no committed run listed is held: at one place where it is now and would
be after a loss. `Listing` relates each quarantine, the current one and the one a
loss leaves, to its manifest. The other conjuncts of `SpoolInv` belong to the
process: which files the loop has left, that a move has at least one synced copy
at each of its five steps, that a run's id has no verdict before its commit, and
what the plan of a restore says of the files it has left. The directories change
in few ways, and each is one lemma; a kill at any step keeps the directory part,
from which the phases start again.

*The components.* `Admission`: the sum kept beside the map is the sum of the map,
and a reading of the free space that is not stale overstates it by no more than is
reserved and yet to be written; sums over tasks are cardinalities of sets of bytes,
so that the library's facts on finite sets apply. `MessageCache`: a batch is at
most `MaxBatch` long, and a flight is open while someone waits for it. `ProxyManager`: while
no web call crossed a switch, whoever is about to assign the active node holds the
one sing-box uses (`Agreement`), and the last steps of a round follow its last
retest (`Round`). `SpoolRows`: behind a committed run there is no status of the
old spool, and what a run leaves depends on the row only through three upserts of
which each takes nothing back.

*The transfer gate.* `TransferInv` adds to `PermitsConserved` the shape of the
records and that the holders are finitely many, so that their number changes by
one when one joins or leaves; the set of files need not be finite. Each step of a
worker is reduced to one of five effects: it passes without a permit, takes one, is
cleared with the one it has, which it may only outside a cooldown, sends, or gives
it back. The start and the return of a call, a cancellation and time rest: `Return`
waits for workers that hold nothing. For `LateRequestsBounded`, `LateInv` counts in
a cooldown what was sent and what is cleared and can still be sent: together they
are fewer than the permits, because the request that met the flood wait held one,
nobody is cleared in a cooldown, and one that is sent moves from one count to the
other.

*The range tracker.* `LoopInv` is the invariant of the loop in `AddRange`: what is
merged is ordered and ends before the intervals yet to come, what is carried comes
after what is merged, and both stand for the range and the intervals seen. Its
rounds are a recursive function, and the induction schemas take an operator the
provers cannot instantiate; instead the smallest round at which the statement fails
is taken (`Smallest`, from the well-foundedness of the natural numbers), and
`MergeStepInv` shows that there is none.

*The result of a download.* `ResultInv` says that a file's tracker has recorded
exactly the bytes written, all of them the file's, that the writer's error is never
the only one, and that an ended file has the class its errors and its tracker give.
The lemmas of the tracker then make no error mean that all bytes are there.

*The pool.* `OneConnection` alone is not inductive: a caller about to dial must
know that nobody else has opened a connection. `PoolInv` adds the ownership: from
the second look at the maps to the recording of the outcome a caller holds the
lock of its data centre; who dials found neither an invoker nor a failure; an open
connection that is not recorded belongs to the caller about to record it; and the
caller that requests a session holds the pool's lock. Each step of a caller is
first reduced to one of eight effects (`StepEffect`), then each conjunct is shown
for each effect.

*The failover watchdog.* A malformed node fails every probe. `MalformedFailMost`
says that no node has failed more often in a row than a malformed one, where a
node not yet probed in this round counts one more failure. So when the current
node has failed twice every malformed node is unhealthy, and the search for the
next healthy node, whose smallest step exists because the natural numbers are
well-founded, cannot end at one.

*The downloader.* The resume record holds positions in the flattened list, so the
proof needs that a position means the same file in every run, which it does until a
message of an album is deleted (`AlbumLost`). `PosOf` gives a slot
(dialog, message, member of the album) the number of slots before it, a
cardinality, so the library's facts on finite sets replace a sum over nested
sequences. `IterPlaced` says that the iterator's counter is the position of the
place it stands at; `FinishedHeld` and `RecordHeld` that every position in the
record stands for a file that is held, all of them until then; from then on a run
that continues no other still has its finished positions behind it, so it passes
over nothing that it has yet to send. `PassedSettled` says that every slot passed is
held, deleted or on the way, as long as nothing excuses the run (a failure, a
cancellation, shifted positions). At the end nothing is on the way and all slots
up to the first empty dialog are passed. `Next` moves on only when the channel is
empty, and an album fits it.

*Only model-checked.*
- Liveness, which is outside the prover.
- `SuccessIsStored` and `KeepsVault` where messages are edited to other media.
- `CancelledNeverCommits` and `CurrentCommits`, for the same reuse of generation 1:
  the database recognises an attempt by its generation only, so after pruning two
  attempts of an id can be taken for each other.
- `ActiveIsListed`, and of `QueuedOnce` that what waits is the current attempt of
  its id. The attempt to prove them showed that both fail beyond the bounds of
  their runs: a crash leaves a `committing` row of generation 1 and the startup
  fails to list it; the id is submitted anew, again with generation 1, and while
  this attempt waits the online finalizer completes the row and finishes the
  attempt; pruning may now drop the id, and `Next` (`registry.go:412`) still hands
  the attempt out, for it does not look at its state. `DaemonCancel` has no crash,
  and `DaemonPrune` neither crash nor fault, so the runs show the properties for a
  process whose startup found everything.
- `FailuresBackOff`: the arithmetic of 64-bit words.

## Not modelled

- Read-only endpoints, the user interface, statistics, events, telemetry and byte
  counters change nothing that the properties speak of.
- Command-line flags, key-value stores, the set-up of the client library, the
  dialers of `pkg/proxy`, the interactive login and media conversion are pure I/O
  or pure conversions.
- The backup copy, the dry run and the path containment checks of the migration
  either write nothing the model has or refuse before anything is written.
- In `app/dl`: file names, `SkipSame` and the HTTP server of `serve`.
- `ResolveBatch` of the message cache is modelled although nothing but tests calls
  it.
- `Cancel`, `FinishTask` and `RegisterRecoveredTask` of the registry are called by
  tests only.
- Liveness with targets switched off and on: the graph has 1.4 million states.

`PROJECT.json` lists every part with its reason. Behaviours of the code that the
models show or allow and that no property speaks of:

- `Requeue` ignores the capacity of the queue, which can exceed it by the number
  of workers short of disk space.
- A process that dies while the migration writes its manifest leaves a torn one,
  and every later run refuses to start; `RefusalHasCause` names this cause.
- `Close` of the pool does not close connections recorded after it collected the
  closers.
- `Stop` of the failover watchdog waits for ever if `Start` was not called.
- `SwitchAccount` changes namespace and active row while the client keeps its
  session until the restart that follows.
- The resume record of the downloader holds positions: an album that lost a member
  between two runs shifts all later ones, and the second run can pass over files
  that were never fetched.
- The downloader ends its list at the first dialog without messages and reports
  success; the dialogs behind it are not fetched.

## Plan

Next, as proofs: `CurrentCommits` and `CancelledNeverCommits` under a stated
condition on generations, and `ActiveIsListed` for a process whose startup listed
every committing row.
