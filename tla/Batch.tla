------------------------------- MODULE Batch -------------------------------
(***************************************************************************)
(* The command-line downloader of app/dl: the iterator over the listed     *)
(* messages, the download loop with its workers, and the resume record     *)
(* that lets an interrupted run continue.  A listed message may stand for  *)
(* its album.  The transfer of a file is one step that succeeds or fails.  *)
(***************************************************************************)
EXTENDS Integers, Sequences, FiniteSets, Functions

CONSTANTS
    Dialogs,            \* the listed messages, dialog by dialog, sorted
    Album,              \* of each message: its album, <<>> when it has none
    Media,              \* messages with a file the filters let through
    Limit,              \* files downloaded at once
    Buffer,             \* capacity of the channel of elements
    MaxAttempts,        \* bounds: runs started,
    MaxLost             \* files not closed or renamed and messages deleted

Albums == UNION {Range(Album[m]) : m \in DOMAIN Album}

ASSUME BatchAssumption ==
    /\ Limit \in Nat \ {0} /\ Buffer \in Nat \ {0} /\ {MaxAttempts, MaxLost} \subseteq Nat
    /\ Dialogs \in Seq(Seq(DOMAIN Album))
    /\ Album \in [DOMAIN Album -> Seq(DOMAIN Album)]
    /\ \A m \in DOMAIN Album :
            Len(Album[m]) <= Buffer /\ (Album[m] # <<>> => m \in Range(Album[m]))

VARIABLES
    it,                 \* the iterator
    elems,              \* its channel of elements
    finished,           \* the positions it passes over
    loop,               \* the download loop
    workers,            \* elements being downloaded
    resumeKey,          \* the stored record: positions
    deleted,            \* messages deleted on the server
    got                 \* history: the messages whose file the run, or one it
                        \* continues, fetched and those whose file was not closed
                        \* or renamed; the same of the stored record; whether the
                        \* run continues one, and whether the loop was left on a
                        \* cancellation

batchVars == <<it, elems, finished, loop, workers, resumeKey, deleted, got>>

StartOfList == [dialog |-> 1, msg |-> 1, pos |-> 0, err |-> FALSE]
LoopIdle == [pc |-> "idle", elem |-> <<>>, cancelled |-> FALSE, failed |-> FALSE,
             result |-> "none", runs |-> 0]

Elements == (DOMAIN Album) \X Nat
NoFiles == [fetched |-> {}, lost |-> {}]
NothingGot == [fetched |-> {}, lost |-> {}, saved |-> NoFiles, resumed |-> FALSE, left |-> FALSE]

BatchTypeOK ==
    /\ it.dialog \in 1 .. Len(Dialogs) + 1 /\ it.msg \in Nat \ {0}
    /\ it.pos \in Nat /\ it.err \in BOOLEAN
    /\ elems \in Seq(Elements) /\ workers \subseteq Elements
    /\ Cardinality(workers) <= Limit
    /\ finished \subseteq Nat /\ resumeKey \subseteq Nat
    /\ loop.pc \in {"idle", "next", "value", "sem", "wait"}
    /\ loop.result \in {"none", "ok", "error"}
    /\ got.fetched \cup got.lost \cup deleted \subseteq DOMAIN Album

BatchInit ==
    /\ it = StartOfList /\ elems = <<>> /\ finished = {} /\ loop = LoopIdle
    /\ workers = {} /\ resumeKey = {} /\ deleted = {}
    /\ got = NothingGot

\* gctx: cancelled by the user or by the first worker that fails.
Done == loop.cancelled \/ loop.failed

-----------------------------------------------------------------------------
\* Run and resume: the stored positions are passed over; a declined record is
\* deleted, --restart leaves it and starts from nothing.
StartBatch ==
    /\ loop.pc = "idle" /\ loop.runs < MaxAttempts
    /\ loop' = [LoopIdle EXCEPT !.pc = "next", !.runs = loop.runs + 1]
    /\ it' = StartOfList /\ elems' = <<>>
    /\ \/ /\ finished' = resumeKey
          /\ got' = [fetched |-> got.saved.fetched, lost |-> got.saved.lost, saved |-> got.saved,
                     resumed |-> resumeKey # {}, left |-> FALSE]
          /\ UNCHANGED resumeKey
       \/ /\ resumeKey # {}
          /\ finished' = {}
          /\ \/ resumeKey' = {} /\ got' = NothingGot
             \/ UNCHANGED resumeKey /\ got' = [NothingGot EXCEPT !.saved = got.saved]
    /\ UNCHANGED <<workers, deleted>>

\* The deferred step to the next listed message.
Advance(i) ==
    IF i.msg < Len(Dialogs[i.dialog]) THEN [i EXCEPT !.msg = @ + 1]
    ELSE [i EXCEPT !.dialog = @ + 1, !.msg = 1]

\* The messages that stand at a listed one: its album, or itself.
GroupOf(msg) == IF Album[msg] = <<>> THEN <<msg>> ELSE Album[msg]

\* processGrouped: processSingle, for each message of group that the server still
\* has, at its position; the elements sent and the next position.
ProcessGroup(group, pos) ==
    LET sent[k \in 0 .. Len(group)] ==
            IF k = 0 THEN [elems |-> <<>>, pos |-> pos]
            ELSE IF group[k] \in deleted THEN sent[k - 1]
            ELSE [elems |-> IF sent[k - 1].pos \notin finished /\ group[k] \in Media
                            THEN Append(sent[k - 1].elems, <<group[k], sent[k - 1].pos>>)
                            ELSE sent[k - 1].elems,
                  pos |-> sent[k - 1].pos + 1]
    IN  sent[Len(group)]

\* Mutated form: the iterator stays at the message it passes over.
Skip_Stays(pos) == UNCHANGED <<it, elems, loop>>

Skip(pos) ==
    /\ it' = [Advance(it) EXCEPT !.pos = pos]
    /\ UNCHANGED <<elems, loop>>

\* The iteration ends after the last dialog, and at a dialog without messages.
AtEnd == it.dialog > Len(Dialogs) \/ it.msg > Len(Dialogs[it.dialog])

\* Mutated form: a deleted message takes no position.
Process_DeletedUncounted ==
    /\ ~AtEnd /\ ~it.err
    /\ LET msg == Dialogs[it.dialog][it.msg]
           sent == ProcessGroup(GroupOf(msg), it.pos)
       IN  IF msg \in deleted THEN Skip(it.pos)
           ELSE IF sent.elems = <<>> THEN Skip(sent.pos)
           ELSE /\ it' = [Advance(it) EXCEPT !.pos = sent.pos]
                /\ elems' = elems \o sent.elems
                /\ loop' = [loop EXCEPT !.pc = "value"]

\* Process, once, for the listed message the iterator is at.  The album of a
\* deleted message is not asked for.
Process ==
    /\ ~AtEnd /\ ~it.err
    /\ LET msg == Dialogs[it.dialog][it.msg]
           sent == ProcessGroup(GroupOf(msg), it.pos)
       IN  IF msg \in deleted THEN Skip(it.pos + 1)
           ELSE IF sent.elems = <<>> THEN Skip(sent.pos)
           ELSE /\ it' = [Advance(it) EXCEPT !.pos = sent.pos]
                /\ elems' = elems \o sent.elems
                /\ loop' = [loop EXCEPT !.pc = "value"]

\* A request for the peer, the message or the album fails, or a file cannot be
\* created.  Elements of the album sent before are not taken any more.
ProcessFails ==
    /\ loop.pc = "next" /\ ~Done /\ elems = <<>>
    /\ ~AtEnd /\ ~it.err
    /\ it' = [Advance(it) EXCEPT !.err = TRUE]
    /\ loop' = [loop EXCEPT !.pc = "wait"]
    /\ UNCHANGED <<elems, finished, workers, resumeKey, deleted, got>>

\* Mutated form: messages are processed ahead while elements wait.
NextElem_Ahead ==
    /\ loop.pc = "next"
    /\ \/ Done /\ it' = [it EXCEPT !.err = TRUE] /\ loop' = [loop EXCEPT !.pc = "wait"]
          /\ UNCHANGED elems
       \/ ~Done /\ elems # <<>> /\ loop' = [loop EXCEPT !.pc = "value"] /\ UNCHANGED <<it, elems>>
       \/ /\ ~Done /\ ~AtEnd /\ ~it.err
          /\ LET sent == ProcessGroup(GroupOf(Dialogs[it.dialog][it.msg]), it.pos)
             IN  it' = [Advance(it) EXCEPT !.pos = sent.pos] /\ elems' = elems \o sent.elems
          /\ UNCHANGED loop
       \/ ~Done /\ elems = <<>> /\ AtEnd
          /\ loop' = [loop EXCEPT !.pc = "wait"] /\ UNCHANGED <<it, elems>>
    /\ UNCHANGED <<finished, workers, resumeKey, deleted, got>>

NextElem ==
    /\ loop.pc = "next"
    /\ \/ Done /\ it' = [it EXCEPT !.err = TRUE] /\ loop' = [loop EXCEPT !.pc = "wait"]
          /\ UNCHANGED elems
       \/ ~Done /\ elems # <<>> /\ loop' = [loop EXCEPT !.pc = "value"] /\ UNCHANGED <<it, elems>>
       \/ ~Done /\ elems = <<>> /\ Process
       \/ ~Done /\ elems = <<>> /\ AtEnd
          /\ loop' = [loop EXCEPT !.pc = "wait"] /\ UNCHANGED <<it, elems>>
    /\ UNCHANGED <<finished, workers, resumeKey, deleted, got>>

\* Value: the oldest element of the channel.
TakeElem ==
    /\ loop.pc = "value"
    /\ loop' = [loop EXCEPT !.pc = "sem", !.elem = Head(elems)]
    /\ elems' = Tail(elems)
    /\ UNCHANGED <<it, finished, workers, resumeKey, deleted, got>>

\* A free place starts a worker; a cancellation leaves the loop.  With both at
\* hand select takes either.
StartWorker ==
    /\ loop.pc = "sem" /\ Cardinality(workers) < Limit
    /\ workers' = workers \cup {loop.elem}
    /\ loop' = [loop EXCEPT !.pc = "next", !.elem = <<>>]
    /\ UNCHANGED <<it, elems, finished, resumeKey, deleted, got>>

LeaveLoop ==
    /\ loop.pc = "sem" /\ Done
    /\ loop' = [loop EXCEPT !.pc = "wait", !.elem = <<>>]
    /\ got' = [got EXCEPT !.left = loop.cancelled]
    /\ elems' = <<>>
    /\ UNCHANGED <<it, finished, workers, resumeKey, deleted>>

\* OnDone without an error: finished first, then renamed; the rename may fail,
\* and so may the close before either, and the run does not learn of it.
WorkerDone(e) ==
    /\ e \in workers
    /\ workers' = workers \ {e}
    /\ \/ finished' = finished \cup {e[2]} /\ got' = [got EXCEPT !.fetched = @ \cup {e[1]}]
       \/ /\ Cardinality(got.lost) + Cardinality(deleted) < MaxLost
          /\ finished' \in {finished, finished \cup {e[2]}}
          /\ got' = [got EXCEPT !.lost = @ \cup {e[1]}]
    /\ UNCHANGED <<it, elems, loop, resumeKey, deleted>>

\* OnDone with an error: the temporary file is removed, the group cancelled.
WorkerFails(e) ==
    /\ e \in workers
    /\ workers' = workers \ {e}
    /\ loop' = [loop EXCEPT !.failed = TRUE]
    /\ UNCHANGED <<it, elems, finished, resumeKey, deleted, got>>

\* g.Wait and it.Err decide the result; the deferred function stores the
\* positions of an interrupted run and deletes the record of a finished one.
EndBatch ==
    /\ loop.pc = "wait" /\ workers = {}
    /\ LET failed == loop.failed \/ it.err
       IN /\ resumeKey' = IF failed THEN finished ELSE {}
          /\ got' = [got EXCEPT !.saved = IF resumeKey' = {} THEN NoFiles
                                          ELSE [fetched |-> got.fetched, lost |-> got.lost]]
          /\ loop' = [LoopIdle EXCEPT !.result = IF failed THEN "error" ELSE "ok",
                                      !.runs = loop.runs]
    /\ it' = StartOfList /\ elems' = <<>> /\ finished' = {}
    /\ UNCHANGED <<workers, deleted>>

\* The user cancels.
CancelBatch ==
    /\ loop.pc # "idle" /\ ~loop.cancelled
    /\ loop' = [loop EXCEPT !.cancelled = TRUE]
    /\ UNCHANGED <<it, elems, finished, workers, resumeKey, deleted, got>>

\* The process is killed: what it knew is gone, the record is the old one.
KillBatch ==
    /\ loop.pc # "idle"
    /\ loop' = [LoopIdle EXCEPT !.runs = loop.runs]
    /\ it' = StartOfList /\ elems' = <<>> /\ finished' = {} /\ workers' = {}
    /\ got' = [NothingGot EXCEPT !.saved = got.saved]
    /\ UNCHANGED <<resumeKey, deleted>>

\* A message is deleted on the server; of an album the other messages stay.
DeleteMessage(m) ==
    /\ m \notin deleted /\ Cardinality(got.lost) + Cardinality(deleted) < MaxLost
    /\ deleted' = deleted \cup {m}
    /\ UNCHANGED <<it, elems, finished, loop, workers, resumeKey, got>>

\* Fairness: the loop and the workers go on; no failure is needed for it.
BatchProgress ==
    \/ NextElem \/ TakeElem \/ StartWorker \/ LeaveLoop \/ EndBatch
    \/ \E e \in workers : WorkerDone(e)

BatchNext ==
    \/ BatchProgress \/ ProcessFails \/ \E e \in workers : WorkerFails(e)
    \/ StartBatch \/ CancelBatch \/ KillBatch
    \/ \E m \in DOMAIN Album : DeleteMessage(m)

BatchSpec == BatchInit /\ [][BatchNext]_batchVars /\ WF_batchVars(BatchProgress)

-----------------------------------------------------------------------------
\* The messages listed, as far as the iteration comes, and the files wanted: of
\* these messages, unless they are deleted, and of their albums.
Iterated ==
    UNION {Range(Dialogs[d]) : d \in {e \in DOMAIN Dialogs : \A c \in 1 .. e : Dialogs[c] # <<>>}}
Wanted == Media \cap UNION {Range(GroupOf(m)) : m \in Iterated \ deleted}
AllGot == Wanted \subseteq got.fetched \cup got.lost \cup deleted

\* A position stands for another file once a message of an album is deleted.
PositionsShift == got.resumed /\ deleted \cap Albums # {}

\* A run that ends without an error fetched, itself or in the interrupted runs
\* it continues, the file of every listed message and of its whole album up to the
\* first dialog without messages, where the iteration ends, except those deleted
\* meanwhile and those whose file could not be closed or renamed.  Two things
\* excuse it: the loop was left on a cancellation by the user, or the run continues
\* another and a message of an album was deleted, which shifts the positions.  A
\* run from the start is complete whatever is deleted while it goes on.
SuccessIsComplete == loop.result = "ok" => got.left \/ PositionsShift \/ AllGot

\* The same without the excuse of a cancellation: the record of an interrupted run
\* is cleared only when everything is fetched.
ClearedIsFinished == loop.result = "ok" => PositionsShift \/ AllGot

\* The channel takes a whole album, so sending under the iterator's lock, which
\* Finish of every worker needs, never blocks.
SendNeverBlocks == Len(elems) <= Buffer

\* Every run ends, whether it succeeds, is cancelled or meets a failure: the
\* iterator never stays at a message and the loop never waits for a worker that
\* waits for the loop.
BatchEnds == []<>(loop.pc = "idle")
=============================================================================
