-------------------------------- MODULE Pool --------------------------------
(***************************************************************************)
(* The pool of core/dcpool: one pooled connection per data centre, opened  *)
(* by the first caller that needs it, and at most one takeout session.     *)
(* Callers run concurrently; a connection attempt happens under the lock   *)
(* of its data centre, and a takeout session is requested under the lock   *)
(* of the pool.  Close may run while callers are still in the pool.        *)
(***************************************************************************)
EXTENDS Integers, FiniteSets

CONSTANTS
    Callers,            \* goroutines that ask for an invoker
    PoolDCs,            \* data centres
    HomeDC,             \* the data centre of the session
    MaxDials,           \* attempts of one call to reach a foreign data centre
    FailureCooldown,    \* the 5 seconds in which a failure is not tried again
    MaxCalls            \* bound: calls per caller

ASSUME PoolAssumption ==
    /\ HomeDC \in PoolDCs
    /\ "free" \notin Callers
    /\ {MaxDials, FailureCooldown, MaxCalls} \subseteq Nat \ {0}

VARIABLES
    invokers,           \* data centres with an entry in invokers and closes
    opened,             \* history: connections opened per data centre
    failedFor,          \* what remains of the cooldown in dcFailures
    dcLock,             \* holder of the lock of a data centre, or "free"
    mu,                 \* the pool's lock is held across the takeout request
    takeout,            \* the takeout session exists
    sessions,           \* history: takeout sessions started
    call,               \* the call each caller is in
    calls               \* history: calls each caller made

poolVars == <<invokers, opened, failedFor, dcLock, mu, takeout, sessions, call, calls>>

Outside == [pc |-> "out", dc |-> HomeDC, dials |-> 0, closing |-> FALSE, closes |-> {}]

PoolTypeOK ==
    /\ invokers \subseteq PoolDCs
    /\ opened \in [PoolDCs -> Nat]
    /\ failedFor \in [PoolDCs -> 0 .. FailureCooldown]
    /\ dcLock \in [PoolDCs -> Callers \cup {"free"}]
    /\ mu \in BOOLEAN /\ takeout \in BOOLEAN /\ sessions \in Nat
    /\ call \in [Callers -> [pc : {"out", "takeout", "session", "fast", "lock", "recheck",
                                   "dial", "record", "fail", "close"},
                             dc : PoolDCs, dials : 0 .. MaxDials,
                             closing : BOOLEAN,             \* within Close
                             closes  : SUBSET PoolDCs]]     \* the closers it collected
    /\ calls \in [Callers -> 0 .. MaxCalls]

PoolInit ==
    /\ invokers = {}
    /\ opened = [dc \in PoolDCs |-> 0]
    /\ failedFor = [dc \in PoolDCs |-> 0]
    /\ dcLock = [dc \in PoolDCs |-> "free"]
    /\ mu = FALSE /\ takeout = FALSE /\ sessions = 0
    /\ call = [c \in Callers |-> Outside]
    /\ calls = [c \in Callers |-> 0]

InCall(c, pc) == call[c].pc = pc
CallGoto(c, pc) == call' = [call EXCEPT ![c].pc = pc]

\* The caller has its invoker, or one that fails every request; Close goes on.
GotInvoker(c) ==
    call' = [call EXCEPT ![c] = IF @.closing THEN [@ EXCEPT !.pc = "close", !.dials = 0]
                                ELSE Outside]

Unlock(dc) == dcLock' = [dcLock EXCEPT ![dc] = "free"]

\* A caller enters invoker or TakeoutInvoker.
CallInvoker(c, dc, asTakeout) ==
    /\ InCall(c, "out") /\ calls[c] < MaxCalls
    /\ calls' = [calls EXCEPT ![c] = @ + 1]
    /\ call' = [call EXCEPT ![c] = [Outside EXCEPT !.pc = IF asTakeout THEN "takeout" ELSE "fast",
                                                   !.dc = dc]]
    /\ UNCHANGED <<invokers, opened, failedFor, dcLock, mu, takeout, sessions>>

\* Close collects the closers under the lock; a takeout session is ended
\* through an invoker of the home data centre first.
CallClose(c) ==
    /\ InCall(c, "out") /\ calls[c] < MaxCalls /\ ~mu
    /\ calls' = [calls EXCEPT ![c] = @ + 1]
    /\ call' = [call EXCEPT ![c] = [Outside EXCEPT !.pc = IF takeout THEN "takeout" ELSE "close",
                                                   !.closing = TRUE, !.closes = invokers]]
    /\ UNCHANGED <<invokers, opened, failedFor, dcLock, mu, takeout, sessions>>

\* Mutated form: the lock is given up before the session is requested.
TakeoutLock_Early(c) ==
    /\ InCall(c, "takeout") /\ ~mu
    /\ CallGoto(c, IF takeout THEN "fast" ELSE "session")
    /\ UNCHANGED <<invokers, opened, failedFor, dcLock, mu, takeout, sessions, calls>>

\* TakeoutInvoker: the pool's lock is kept while a session is requested.
TakeoutLock(c) ==
    /\ InCall(c, "takeout") /\ ~mu
    /\ IF takeout THEN CallGoto(c, "fast") /\ UNCHANGED mu
       ELSE CallGoto(c, "session") /\ mu' = TRUE
    /\ UNCHANGED <<invokers, opened, failedFor, dcLock, takeout, sessions, calls>>

\* The session is granted, or the call goes on without one.
TakeoutAnswer(c, granted) ==
    /\ InCall(c, "session")
    /\ takeout' = granted
    /\ sessions' = IF granted THEN sessions + 1 ELSE sessions
    /\ mu' = FALSE
    /\ CallGoto(c, "fast")
    /\ UNCHANGED <<invokers, opened, failedFor, dcLock, calls>>

Known(dc) == dc \in invokers
InCooldown(dc) == failedFor[dc] > 0

\* invoker: an invoker or a recent failure answers at once.
FastPath(c) ==
    /\ InCall(c, "fast") /\ ~mu
    /\ IF Known(call[c].dc) \/ InCooldown(call[c].dc) THEN GotInvoker(c) ELSE CallGoto(c, "lock")
    /\ UNCHANGED <<invokers, opened, failedFor, dcLock, mu, takeout, sessions, calls>>

LockDC(c) ==
    /\ InCall(c, "lock")
    /\ dcLock[call[c].dc] = "free"
    /\ dcLock' = [dcLock EXCEPT ![call[c].dc] = c]
    /\ CallGoto(c, "recheck")
    /\ UNCHANGED <<invokers, opened, failedFor, mu, takeout, sessions, calls>>

\* Mutated form: with the lock only the failures are looked up again.
Recheck_FailureOnly(c) ==
    /\ InCall(c, "recheck") /\ ~mu
    /\ IF InCooldown(call[c].dc)
       THEN GotInvoker(c) /\ Unlock(call[c].dc)
       ELSE CallGoto(c, "dial") /\ UNCHANGED dcLock
    /\ UNCHANGED <<invokers, opened, failedFor, mu, takeout, sessions, calls>>

\* Mutated form: with the lock only the invokers are looked up again.
Recheck_InvokerOnly(c) ==
    /\ InCall(c, "recheck") /\ ~mu
    /\ IF Known(call[c].dc)
       THEN GotInvoker(c) /\ Unlock(call[c].dc)
       ELSE CallGoto(c, "dial") /\ UNCHANGED dcLock
    /\ UNCHANGED <<invokers, opened, failedFor, mu, takeout, sessions, calls>>

\* With the lock both are looked up again.
Recheck(c) ==
    /\ InCall(c, "recheck") /\ ~mu
    /\ IF Known(call[c].dc) \/ InCooldown(call[c].dc)
       THEN GotInvoker(c) /\ Unlock(call[c].dc)
       ELSE CallGoto(c, "dial") /\ UNCHANGED dcLock
    /\ UNCHANGED <<invokers, opened, failedFor, mu, takeout, sessions, calls>>

\* An attempt succeeds.
DialSucceeds(c) ==
    /\ InCall(c, "dial")
    /\ opened' = [opened EXCEPT ![call[c].dc] = @ + 1]
    /\ CallGoto(c, "record")
    /\ UNCHANGED <<invokers, failedFor, dcLock, mu, takeout, sessions, calls>>

\* An attempt fails: the home data centre is tried once, a foreign one again
\* after a pause.
DialFails(c) ==
    LET dials == call[c].dials + 1
    IN  /\ InCall(c, "dial")
        /\ call' = [call EXCEPT ![c].dials = dials,
                                ![c].pc = IF call[c].dc = HomeDC \/ dials = MaxDials THEN "fail"
                                          ELSE "dial"]
        /\ UNCHANGED <<invokers, opened, failedFor, dcLock, mu, takeout, sessions, calls>>

\* The caller's context is done: no failure is recorded.  Close has none.
DialCancelled(c) ==
    /\ InCall(c, "dial") /\ call[c].dc # HomeDC /\ ~call[c].closing
    /\ GotInvoker(c)
    /\ Unlock(call[c].dc)
    /\ UNCHANGED <<invokers, opened, failedFor, mu, takeout, sessions, calls>>

RecordInvoker(c) ==
    /\ InCall(c, "record") /\ ~mu
    /\ invokers' = invokers \cup {call[c].dc}
    /\ failedFor' = [failedFor EXCEPT ![call[c].dc] = 0]
    /\ GotInvoker(c)
    /\ Unlock(call[c].dc)
    /\ UNCHANGED <<opened, mu, takeout, sessions, calls>>

\* Mutated form: the lock of the data centre is kept.
RecordFailure_KeepsLock(c) ==
    /\ InCall(c, "fail") /\ ~mu
    /\ failedFor' = [failedFor EXCEPT ![call[c].dc] = FailureCooldown]
    /\ GotInvoker(c)
    /\ UNCHANGED <<invokers, opened, dcLock, mu, takeout, sessions, calls>>

RecordFailure(c) ==
    /\ InCall(c, "fail") /\ ~mu
    /\ failedFor' = [failedFor EXCEPT ![call[c].dc] = FailureCooldown]
    /\ GotInvoker(c)
    /\ Unlock(call[c].dc)
    /\ UNCHANGED <<invokers, opened, mu, takeout, sessions, calls>>

\* Close calls the closers it collected.  It forgets neither them nor the
\* session: the pool is not used again.
CloseAll(c) ==
    /\ InCall(c, "close")
    /\ call' = [call EXCEPT ![c] = Outside]
    /\ UNCHANGED <<invokers, opened, failedFor, dcLock, mu, takeout, sessions, calls>>

\* Time passes.
CooldownPasses ==
    /\ \E dc \in PoolDCs : failedFor[dc] > 0
    /\ failedFor' = [dc \in PoolDCs |-> IF failedFor[dc] > 0 THEN failedFor[dc] - 1 ELSE 0]
    /\ UNCHANGED <<invokers, opened, dcLock, mu, takeout, sessions, call, calls>>

InPool(c) ==
    \/ TakeoutLock(c) \/ FastPath(c) \/ LockDC(c) \/ Recheck(c)
    \/ TakeoutAnswer(c, TRUE) \/ TakeoutAnswer(c, FALSE)
    \/ DialSucceeds(c) \/ DialFails(c) \/ DialCancelled(c)
    \/ RecordInvoker(c) \/ RecordFailure(c) \/ CloseAll(c)

PoolNext ==
    \/ \E c \in Callers :
        \/ InPool(c)
        \/ \E dc \in PoolDCs : CallInvoker(c, dc, TRUE) \/ CallInvoker(c, dc, FALSE)
        \/ CallClose(c)
    \/ CooldownPasses

\* Fairness: while some caller in the pool can go on, one of them does.
PoolProgress == \E c \in Callers : InPool(c)

PoolSpec == PoolInit /\ [][PoolNext]_poolVars /\ WF_poolVars(PoolProgress)

-----------------------------------------------------------------------------
\* However many callers need a data centre at once, one connection to it is
\* opened: a second one would be lost to Close, which closes what it knows.
OneConnection == \A dc \in PoolDCs : opened[dc] <= 1 /\ (Known(dc) => opened[dc] = 1)

\* Concurrent callers share one takeout session.
OneTakeout == sessions <= 1

\* A data centre that failed is not dialled again before its cooldown is over,
\* also by a caller that checked before the failure was recorded.
FailureRespected ==
    [][\A c \in Callers : (InCall(c, "dial") /\ opened' # opened /\ call'[c].pc = "record")
            => ~InCooldown(call[c].dc)]_poolVars

\* Every call returns: callers waiting for the lock of a data centre, and for
\* the pool's lock behind a takeout request, are let go in the end.  The calls
\* are bounded, so this is that none stays in the pool for ever.
CallsReturn == []<>(\A c \in Callers : InCall(c, "out"))
=============================================================================
