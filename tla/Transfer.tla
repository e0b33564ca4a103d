------------------------------ MODULE Transfer ------------------------------
(***************************************************************************)
(* The TransferManager of core/transfer: the daemon's downloads of several *)
(* files at once.  Each file is fetched by the worker goroutines of gotd's *)
(* parallel downloader, every request of which goes through the            *)
(* GatedInvoker: it takes one unit of the file's request budget, passes    *)
(* the DataGate shared by all files, and is sent.  Bytes reach the         *)
(* destination through the CountingWriterAt.                               *)
(*                                                                         *)
(* gotd is external: a worker takes the next offset, invokes, retries a    *)
(* request that failed or gives up, writes what it received, and stops at  *)
(* a short part or at the first error of a worker of its file.             *)
(***************************************************************************)
EXTENDS Gate, Ranges, FiniteSets

CONSTANTS
    Files,              \* the files being downloaded
    Size,               \* Size[f]: the expected size in bytes
    DcOf,               \* DcOf[f]: the data centre that serves f
    PartSize,           \* bytes per request
    MaxFileThreads,     \* workers per file
    MaxRetries          \* retries per part that the budget allows for

ASSUME TransferAssumption ==
    /\ Size \in [Files -> Nat \ {0}]
    /\ DcOf \in [Files -> DCs]
    /\ PartSize \in Nat \ {0}
    /\ MaxFileThreads \in Nat \ {0}
    /\ MaxRetries \in Nat \ {0}

VARIABLES
    file,               \* per file: the call of DownloadFileWithResult
    worker,             \* per file and thread: the worker goroutine
    intervals,          \* per file: the range tracker of its writer
    written             \* per file: the bytes of the destination that were written

transferVars == <<cooldown, permits, late, file, worker, intervals, written>>

ComputeChunkCount(size) == (size + PartSize - 1) \div PartSize

ComputeRequestBudget(size) == ComputeChunkCount(size) * (1 + MaxRetries)

ComputeFileThreads(size) == HigherOf(1, LowerOf(MaxFileThreads, ComputeChunkCount(size)))

Threads(f) == 1 .. ComputeFileThreads(Size[f])
Errors == {"none", "budget", "ctx", "expired", "network", "io"}
Classes == {"none", "ok", "network", "io", "canceled", "unavailable", "corrupt"}

TransferTypeOK ==
    /\ GateTypeOK
    /\ file \in [Files -> [state  : {"new", "running", "ended"},
                           next   : Nat,        \* the next offset to request
                           eof    : BOOLEAN,    \* a short part was received
                           count  : Nat,        \* RequestCount
                           ctx    : {"live", "cancelled"},
                           err    : Errors,     \* the first error of a worker
                           werr   : BOOLEAN,    \* the writer's first error is set
                           class  : Classes]]   \* what the call returned
    /\ \A f \in Files : worker[f] \in
            [Threads(f) -> [pc   : {"next", "gate", "sem", "held", "cleared", "rpc", "write",
                                    "done"},
                            off  : Nat,         \* offset of the request
                            wait : 0 .. MaxFloodWait,   \* the timer of Acquire
                            n    : 0 .. PartSize]]  \* bytes received
    /\ \A f \in Files : written[f] \subseteq 0 .. Size[f] - 1

\* A worker between two requests, or after its last.
Between(pc) == [pc |-> pc, off |-> 0, wait |-> 0, n |-> 0]

\* No file has been asked for.
TransferInit ==
    /\ GateInit
    /\ file = [f \in Files |->
            [state |-> "new", next |-> 0, eof |-> FALSE, count |-> 0,
             ctx |-> "live", err |-> "none", werr |-> FALSE, class |-> "none"]]
    /\ worker = [f \in Files |-> [t \in Threads(f) |-> Between("done")]]
    /\ intervals = [f \in Files |-> << >>]
    /\ written = [f \in Files |-> {}]

\* DownloadFileWithResult is called: its writer is fresh, and gotd starts the
\* workers.
StartFile(f) ==
    /\ file[f].state = "new"
    /\ file' = [file EXCEPT ![f].state = "running"]
    /\ worker' = [worker EXCEPT ![f] = [t \in Threads(f) |-> Between("next")]]
    /\ UNCHANGED <<gateVars, intervals, written>>

AtPc(f, t, pc) == file[f].state = "running" /\ worker[f][t].pc = pc
Goto(f, t, pc) == worker' = [worker EXCEPT ![f][t].pc = pc]

Leave(f, t, pc) == worker' = [worker EXCEPT ![f][t] = Between(pc)]

\* The context the workers of f see is done: f is cancelled, or a worker failed.
Stopped(f) == file[f].ctx = "cancelled" \/ file[f].err # "none"

\* The worker ends with an error; the group keeps the first one.
Fails(f, t, error) ==
    /\ Leave(f, t, "done")
    /\ file' = [file EXCEPT ![f].err = IF @ = "none" THEN error ELSE @]

\* Mutated form: the request is not counted.
Invoke_Uncounted(f, t, off, next) ==
    IF file[f].count < ComputeRequestBudget(Size[f])
    THEN /\ worker' = [worker EXCEPT ![f][t] = [Between("gate") EXCEPT !.off = off]]
         /\ file' = [file EXCEPT ![f].next = next]
    ELSE Fails(f, t, "budget")

\* Invoke, up to the gate: one request is taken from the budget of the file by
\* compare-and-swap, or the call fails with ErrRequestBudgetExhausted.  "next"
\* is the offset the next worker takes.
Invoke(f, t, off, next) ==
    IF file[f].count < ComputeRequestBudget(Size[f])
    THEN /\ worker' = [worker EXCEPT ![f][t] = [Between("gate") EXCEPT !.off = off]]
         /\ file' = [file EXCEPT ![f].count = @ + 1, ![f].next = next]
    ELSE Fails(f, t, "budget")

\* gotd: there is nothing left to request for f.
Exhausted(f) == Stopped(f) \/ file[f].eof \/ file[f].next > Size[f]

\* gotd: a worker takes the next offset.
RequestPart(f, t) ==
    /\ AtPc(f, t, "next")
    /\ ~Exhausted(f)
    /\ Invoke(f, t, file[f].next, file[f].next + PartSize)
    /\ UNCHANGED <<gateVars, intervals, written>>

\* Acquire, before the permit: wait out a cooldown without holding one, and
\* look again when the timer fires.
CheckCooldown(f, t) ==
    /\ AtPc(f, t, "gate")
    /\ worker[f][t].wait = 0
    /\ worker' = [worker EXCEPT ![f][t].pc = IF IsDCCooledDown(DcOf[f]) THEN "gate" ELSE "sem",
                                ![f][t].wait = cooldown[DcOf[f]]]
    /\ UNCHANGED <<gateVars, file, intervals, written>>

\* Acquire: the weighted semaphore grants a permit, in the order of arrival.
Acquire(f, t) ==
    /\ AtPc(f, t, "sem")
    /\ AcquirePermit
    /\ Goto(f, t, "held")
    /\ UNCHANGED <<cooldown, late, file, intervals, written>>

\* Mutated form: the permit is kept while the call waits again.
PostCheck_KeepsPermit(f, t) ==
    /\ AtPc(f, t, "held")
    /\ IF IsDCCooledDown(DcOf[f])
       THEN worker' = [worker EXCEPT ![f][t].pc = "gate", ![f][t].wait = cooldown[DcOf[f]]]
       ELSE Goto(f, t, "cleared")
    /\ UNCHANGED <<gateVars, file, intervals, written>>

\* Mutated form: the cooldown is not looked at again.
PostCheck_Trusting(f, t) ==
    /\ AtPc(f, t, "held")
    /\ Goto(f, t, "cleared")
    /\ UNCHANGED <<gateVars, file, intervals, written>>

\* Acquire, with the permit: was the data centre cooled down meanwhile?
PostCheck(f, t) ==
    /\ AtPc(f, t, "held")
    /\ IF IsDCCooledDown(DcOf[f])
       THEN /\ ReleasePermit
            /\ worker' = [worker EXCEPT ![f][t].pc = "gate",
                                        ![f][t].wait = cooldown[DcOf[f]]]
       ELSE /\ Goto(f, t, "cleared")
            /\ UNCHANGED permits
    /\ UNCHANGED <<cooldown, late, file, intervals, written>>

\* Invoke: the request is sent.  The gate's lock was let go of before, and a
\* FloodWait answered to another request since is not noticed.
Send(f, t) ==
    /\ AtPc(f, t, "cleared")
    /\ Goto(f, t, "rpc")
    /\ CountSent(DcOf[f])
    /\ UNCHANGED <<cooldown, permits, file, intervals, written>>

\* Acquire: the context is done while the call waits.
GateCancelled(f, t) ==
    /\ \/ AtPc(f, t, "gate") /\ worker[f][t].wait > 0
       \/ AtPc(f, t, "sem")
    /\ Stopped(f)
    /\ Fails(f, t, "ctx")
    /\ UNCHANGED <<gateVars, intervals, written>>

\* Invoke: the server answers with n bytes, and the permit is released.
Answer(f, t, n) ==
    /\ AtPc(f, t, "rpc")
    /\ n <= Size[f] - worker[f][t].off
    /\ ReleasePermit
    /\ worker' = [worker EXCEPT ![f][t].pc = "write", ![f][t].n = n]
    /\ UNCHANGED <<cooldown, late, file, intervals, written>>

\* Invoke: the request fails; a FloodWait of d starts a cooldown.  gotd tries
\* a request again unless the reference expired or the context is done.  On
\* an invoker the pool could not connect, every request fails this way.
RequestFails(f, t, error, d) ==
    /\ AtPc(f, t, "rpc")
    /\ error = "ctx" => Stopped(f)
    /\ ReleasePermit
    /\ IF d > 0 THEN TriggerFloodWait(DcOf[f], d) ELSE UNCHANGED cooldown
    /\ \/ /\ error = "network" /\ ~Stopped(f)
          /\ Invoke(f, t, worker[f][t].off, file[f].next)
       \/ Fails(f, t, error)
    /\ UNCHANGED <<late, intervals, written>>

\* CountingWriterAt.WriteAt: m of the n bytes received reach the destination,
\* and fewer than n only with an error.
WriteAt(f, t, m) ==
    LET off == worker[f][t].off
        n   == worker[f][t].n
    IN  /\ AtPc(f, t, "write")
        /\ m <= n
        /\ written' = [written EXCEPT ![f] = @ \cup (off .. off + m - 1)]
        /\ intervals' = [intervals EXCEPT ![f] = AddRange(@, off, off + m)]
        /\ IF m < n
           THEN /\ Leave(f, t, "done")
                /\ file' = [file EXCEPT ![f].err = IF @ = "none" THEN "io" ELSE @,
                                        ![f].werr = TRUE]
           ELSE /\ Leave(f, t, "next")
                /\ file' = [file EXCEPT ![f].eof = @ \/ n < PartSize]
        /\ UNCHANGED gateVars

\* The class of the error DownloadFileWithResult returns, in the order of its tests.
Classify(f) ==
    CASE file[f].err = "budget"      -> "network"
      [] file[f].err # "none" /\ file[f].err # "budget" ->
            (CASE file[f].werr                -> "io"
               [] ~file[f].werr /\ file[f].ctx = "cancelled" -> "canceled"
               [] ~file[f].werr /\ file[f].ctx = "live" ->
                    IF file[f].err = "expired" THEN "unavailable" ELSE "network")
      [] file[f].err = "none" ->
            IF IsComplete(intervals[f], Size[f]) THEN "ok" ELSE "corrupt"

\* DownloadFileWithResult, after Parallel returned; what the call kept is gone.
Return(f) ==
    /\ file[f].state = "running"
    /\ \A t \in Threads(f) : \/ worker[f][t].pc = "done"
                             \/ (worker[f][t].pc = "next" /\ Exhausted(f))
    /\ file' = [file EXCEPT ![f].state = "ended", ![f].class = Classify(f),
                            ![f].count = 0, ![f].next = 0, ![f].eof = FALSE]
    /\ worker' = [worker EXCEPT ![f] = [t \in Threads(f) |-> Between("done")]]
    /\ UNCHANGED <<gateVars, intervals, written>>

\* The caller cancels the context of f.
CancelFile(f) ==
    /\ file[f].state = "running"
    /\ file[f].ctx = "live"
    /\ file' = [file EXCEPT ![f].ctx = "cancelled"]
    /\ UNCHANGED <<gateVars, worker, intervals, written>>

\* Time passes for the cooldowns and for the timers of the waiting calls.
Tick ==
    /\ \/ \E dc \in DCs : cooldown[dc] > 0
       \/ \E f \in Files : \E t \in Threads(f) : worker[f][t].wait > 0
    /\ CooldownTick
    /\ worker' = [f \in Files |-> [t \in Threads(f) |->
            [worker[f][t] EXCEPT !.wait = IF @ > 0 THEN @ - 1 ELSE 0]]]
    /\ UNCHANGED <<permits, file, intervals, written>>

WorkerStep(f, t) ==
    \/ RequestPart(f, t)
    \/ CheckCooldown(f, t)
    \/ PostCheck(f, t)
    \/ Send(f, t)
    \/ GateCancelled(f, t)
    \/ \E n \in 0 .. PartSize : Answer(f, t, n)
    \/ \E d \in 0 .. MaxFloodWait : RequestFails(f, t, "network", d)
    \/ RequestFails(f, t, "expired", 0)
    \/ RequestFails(f, t, "ctx", 0)
    \/ \E m \in 0 .. PartSize : WriteAt(f, t, m)

\* What happens without the caller's doing.
Progress ==
    \/ \E f \in Files :
        \/ \E t \in Threads(f) : WorkerStep(f, t) \/ Acquire(f, t)
        \/ Return(f)
    \/ Tick

TransferNext == Progress \/ \E f \in Files : StartFile(f) \/ CancelFile(f)

(***************************************************************************)
(* Fairness: as long as some goroutine can run, some timer can fire or     *)
(* some request can be answered or fail, one of these happens.  Nothing is *)
(* assumed of which one.                                                   *)
(***************************************************************************)
TransferFairness == WF_transferVars(Progress)

TransferSpec == TransferInit /\ [][TransferNext]_transferVars /\ TransferFairness

-----------------------------------------------------------------------------
\* The workers that hold a permit.
Holders ==
    {ft \in {<<f, t>> : f \in Files, t \in 1 .. MaxFileThreads} :
        /\ ft[2] \in Threads(ft[1])
        /\ \E pc \in {"held", "cleared", "rpc"} : AtPc(ft[1], ft[2], pc)}

\* Every path out of Acquire and Invoke gives the permit back, so permits are
\* neither lost nor handed out twice, across cancellations, flood waits met after
\* the permit was granted and failures.
PermitsConserved == permits + Cardinality(Holders) = MaxDataInFlight

\* A cooldown stops the requests to its data centre but for those that had passed
\* the gate before it began.  The one that met the FloodWait holds its permit when
\* the cooldown begins, so these are fewer than there are permits, in a cooldown
\* that further FloodWaits prolong too; with one permit there are none.
LateRequestsBounded == \A dc \in DCs : late[dc] < MaxDataInFlight

\* Every download ends: however often requests fail or are told to wait, the
\* request budget bounds them, and a cancelled wait returns.  A file is asked
\* for once, so this is that no download runs for ever.
TransferEnds == []<>(\A f \in Files : file[f].state # "running")

\* The result of DownloadFileWithResult is what happened to the bytes: it is no
\* error only when every byte of the file was written, although gotd reports
\* success for a file cut short, and a write error is never taken for a network
\* error, which would be tried again against the same disk, whatever the other
\* workers report first, except behind an exhausted budget.
ResultIsTrue ==
    \A f \in Files :
        /\ file[f].class = "ok" => written[f] = 0 .. Size[f] - 1
        /\ file[f].state = "ended" /\ file[f].werr /\ file[f].err # "budget"
              => file[f].class = "io"
=============================================================================
