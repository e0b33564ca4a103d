--------------------------- MODULE DownloadProofs ---------------------------
(***************************************************************************)
(* Proofs about the command-line downloader and what carries the           *)
(* transfers: the batch of listed messages, the pool of connections and    *)
(* the watchdog that fails over to another node; for any list, any number  *)
(* of workers, callers, data centres and nodes, and any failures.  The     *)
(* three parts are independent of each other.                              *)
(***************************************************************************)
EXTENDS Batch, Pool, FailoverWatchdog, FiniteSetTheorems, WellFoundedInduction, TLAPS

\* A set of natural numbers has a smallest one.
LEMMA Smallest ==
    ASSUME NEW S \in SUBSET Nat, S # {}
    PROVE  \E k \in S : \A j \in S : k <= j
<1>1. PICK k \in S : \A j \in S : ~(<<j, k>> \in OpToRel(<, Nat))
  BY Zenon, NatLessThanWellFounded, WFMin
<1>2. \A j \in S : ~(j < k)
  BY Zenon, <1>1 DEF OpToRel
<1> QED
  BY <1>2

-----------------------------------------------------------------------------
(***************************************************************************)
(* Pool: one connection, one takeout session, and cooldowns are kept.      *)
(***************************************************************************)

\* Where a caller may be, and what it keeps.
CallPlaces == {"out", "takeout", "session", "fast", "lock", "recheck", "dial", "record",
           "fail", "close"}
CallType == [pc : CallPlaces, dc : PoolDCs, dials : Nat, closing : BOOLEAN,
             closes : SUBSET PoolDCs]

\* The domains of the functions, and the types the steps need.
PoolShape ==
    /\ opened \in [PoolDCs -> Nat]
    /\ failedFor \in [PoolDCs -> Nat]
    /\ DOMAIN dcLock = PoolDCs
    /\ mu \in BOOLEAN /\ takeout \in BOOLEAN /\ sessions \in Nat
    /\ invokers \subseteq PoolDCs
    /\ call \in [Callers -> CallType]

\* From the second look at the maps to the recording of the outcome a caller
\* owns the lock of its data centre.
Owner ==
    \A c \in Callers : call[c].pc \in {"recheck", "dial", "record", "fail"}
                           => dcLock[call[c].dc] = c

\* Who dials finds nothing in the maps, and nobody has opened a connection; who
\* records has opened the only one.
DialIsFirst ==
    \A c \in Callers :
        /\ InCall(c, "dial") => /\ ~Known(call[c].dc) /\ opened[call[c].dc] = 0
                                /\ failedFor[call[c].dc] = 0
        /\ InCall(c, "record") => opened[call[c].dc] = 1

\* A connection is recorded, or its owner is about to record it.
Accounted ==
    \A dc \in PoolDCs :
        /\ opened[dc] <= 1
        /\ Known(dc) => opened[dc] = 1
        /\ opened[dc] = 1 /\ ~Known(dc)
               => \E c \in Callers : InCall(c, "record") /\ call[c].dc = dc

\* A session is requested under the pool's lock, by one caller at a time.
SessionOwned ==
    /\ sessions = IF takeout THEN 1 ELSE 0
    /\ \A c \in Callers : InCall(c, "session") => mu /\ ~takeout
    /\ \A c, d \in Callers : InCall(c, "session") /\ InCall(d, "session") => c = d

PoolInv == PoolShape /\ Owner /\ DialIsFirst /\ Accounted /\ SessionOwned

\* A step moves one caller to one of several places.
MovesTo(c, S) ==
    /\ call' \in [Callers -> CallType]
    /\ call'[c].pc \in S
    /\ \A d \in Callers \ {c} : call'[d] = call[d]

\* What the steps of a caller do to the pool, named for their effect.
maps == <<invokers, opened, failedFor>>
session == <<mu, takeout, sessions>>

CallPasses(c) ==            \* between places without a lock
    /\ MovesTo(c, {"out", "takeout", "fast", "lock", "close"})
    /\ call[c].pc \notin {"session", "recheck", "dial", "record", "fail"}
    /\ UNCHANGED <<maps, dcLock, session>>
Requests(c) ==          \* takes the pool's lock for a session
    /\ MovesTo(c, {"session"}) /\ InCall(c, "takeout")
    /\ ~mu /\ ~takeout /\ mu' = TRUE
    /\ UNCHANGED <<maps, dcLock, takeout, sessions>>
Answered(c) ==
    /\ MovesTo(c, {"fast"}) /\ InCall(c, "session")
    /\ mu' = FALSE /\ takeout' \in BOOLEAN
    /\ sessions' = IF takeout' THEN sessions + 1 ELSE sessions
    /\ UNCHANGED <<maps, dcLock>>
Locks(c) ==
    /\ MovesTo(c, {"recheck"}) /\ call'[c].dc = call[c].dc /\ InCall(c, "lock")
    /\ dcLock[call[c].dc] = "free" /\ dcLock' = [dcLock EXCEPT ![call[c].dc] = c]
    /\ UNCHANGED <<maps, session>>
Dials(c) ==
    /\ MovesTo(c, {"dial"}) /\ call'[c].dc = call[c].dc /\ InCall(c, "recheck")
    /\ ~Known(call[c].dc) /\ failedFor[call[c].dc] = 0
    /\ UNCHANGED <<maps, dcLock, session>>
Redials(c) ==
    /\ MovesTo(c, {"dial", "fail"}) /\ call'[c].dc = call[c].dc /\ InCall(c, "dial")
    /\ UNCHANGED <<maps, dcLock, session>>
Opens(c) ==
    /\ MovesTo(c, {"record"}) /\ call'[c].dc = call[c].dc /\ InCall(c, "dial")
    /\ opened' = [opened EXCEPT ![call[c].dc] = @ + 1]
    /\ UNCHANGED <<invokers, failedFor, dcLock, session>>
Unlocks(c) ==
    /\ MovesTo(c, {"out", "close"})
    /\ dcLock' = [dcLock EXCEPT ![call[c].dc] = "free"]
    /\ UNCHANGED <<opened, session>>
    /\ \/ call[c].pc \in {"recheck", "dial"} /\ UNCHANGED <<invokers, failedFor>>
       \/ /\ InCall(c, "record") /\ invokers' = invokers \cup {call[c].dc}
          /\ failedFor' = [failedFor EXCEPT ![call[c].dc] = 0]
       \/ /\ InCall(c, "fail") /\ UNCHANGED invokers
          /\ failedFor' = [failedFor EXCEPT ![call[c].dc] = FailureCooldown]

CallEffect(c) ==
    \/ CallPasses(c) \/ Requests(c) \/ Answered(c) \/ Locks(c)
    \/ Dials(c) \/ Redials(c) \/ Opens(c) \/ Unlocks(c)

\* A step of one caller.
CallerStep(c) ==
    \/ InPool(c)
    \/ \E dc \in PoolDCs : CallInvoker(c, dc, TRUE) \/ CallInvoker(c, dc, FALSE)
    \/ CallClose(c)

\* The pool starts without calls, connections and sessions.
LEMMA PoolInvInit == PoolInit => PoolInv
<1> SUFFICES ASSUME PoolInit PROVE PoolInv
  OBVIOUS
<1> USE PoolAssumption DEF PoolInit, Outside, InCall, Known
<1>1. PoolShape
  BY Zenon DEF PoolShape, CallType, CallPlaces
<1>2. Owner /\ DialIsFirst
  BY DEF Owner, DialIsFirst
<1>3. Accounted
  BY DEF Accounted
<1>4. SessionOwned
  BY DEF SessionOwned
<1> QED
  BY <1>1, <1>2, <1>3, <1>4 DEF PoolInv

\* CallGoto moves one caller to another place and changes nothing else of it.
LEMMA GoesTo ==
    ASSUME PoolShape, NEW c \in Callers, NEW pc \in CallPlaces, CallGoto(c, pc)
    PROVE  MovesTo(c, {pc}) /\ call'[c].dc = call[c].dc
<1>1. [call[c] EXCEPT !.pc = pc] \in CallType
  BY DEF PoolShape, CallType
<1>2. call' = [call EXCEPT ![c] = [call[c] EXCEPT !.pc = pc]]
  BY DEF CallGoto
<1>3. call'[c] = [call[c] EXCEPT !.pc = pc]
  BY <1>2 DEF PoolShape
<1>4. call'[c].pc = pc /\ call'[c].dc = call[c].dc
  BY <1>3 DEF PoolShape, CallType
<1> QED
  BY <1>1, <1>2, <1>4 DEF PoolShape, MovesTo

\* With its invoker a caller is outside, or in the rest of Close.
LEMMA GetsInvoker ==
    ASSUME PoolShape, NEW c \in Callers, GotInvoker(c)
    PROVE  MovesTo(c, {"out", "close"})
<1> DEFINE r == IF call[c].closing THEN [call[c] EXCEPT !.pc = "close", !.dials = 0]
                ELSE Outside
<1>1. r \in CallType /\ r.pc \in {"out", "close"}
  <2>1. CASE call[c].closing
    BY ZenonT(30), <2>1 DEF PoolShape, CallType, CallPlaces
  <2>2. CASE ~call[c].closing
    BY <2>2, PoolAssumption DEF CallType, CallPlaces, Outside
  <2> QED
    BY <2>1, <2>2
<1>2. call' = [call EXCEPT ![c] = r]
  BY DEF GotInvoker
<1> HIDE DEF r
<1> QED
  BY <1>1, <1>2 DEF PoolShape, MovesTo

\* A caller enters the pool for an invoker or to close it.
LEMMA Enters ==
    ASSUME PoolShape, NEW c \in Callers,
           CallClose(c) \/ \E dc \in PoolDCs : CallInvoker(c, dc, TRUE) \/ CallInvoker(c, dc, FALSE)
    PROVE  /\ MovesTo(c, {"takeout", "fast", "close"})
           /\ UNCHANGED <<invokers, opened, failedFor, dcLock, mu, takeout, sessions>>
<1>1. PICK r \in CallType : /\ r.pc \in {"takeout", "fast", "close"}
                            /\ call' = [call EXCEPT ![c] = r]
  <2>1. CASE CallClose(c)
    <3> DEFINE r == [Outside EXCEPT !.pc = IF takeout THEN "takeout" ELSE "close",
                                    !.closing = TRUE, !.closes = invokers]
    <3>1. r \in CallType /\ r.pc \in {"takeout", "fast", "close"}
      BY Zenon, PoolAssumption DEF PoolShape, Outside, CallType, CallPlaces
    <3> QED
      BY Zenon, <2>1, <3>1 DEF CallClose
  <2>2. ASSUME NEW dc \in PoolDCs, NEW t \in BOOLEAN, CallInvoker(c, dc, t)
        PROVE  \E r \in CallType : /\ r.pc \in {"takeout", "fast", "close"}
                                   /\ call' = [call EXCEPT ![c] = r]
    <3> DEFINE r == [Outside EXCEPT !.pc = IF t THEN "takeout" ELSE "fast", !.dc = dc]
    <3>1. r \in CallType /\ r.pc \in {"takeout", "fast", "close"}
      BY Zenon, PoolAssumption DEF Outside, CallType, CallPlaces
    <3> QED
      BY Zenon, <2>2, <3>1 DEF CallInvoker
  <2> QED
    BY Zenon, <2>1, <2>2
<1> QED
  BY Zenon, <1>1 DEF PoolShape, CallClose, CallInvoker, MovesTo

\* A failed attempt leaves the caller dialling or about to record the failure.
LEMMA DialsAgain ==
    ASSUME PoolShape, NEW c \in Callers, DialFails(c)
    PROVE  MovesTo(c, {"dial", "fail"}) /\ call'[c].dc = call[c].dc
<1> DEFINE next == IF call[c].dc = HomeDC \/ call[c].dials + 1 = MaxDials THEN "fail" ELSE "dial"
           dials == call[c].dials + 1
           r == [call[c] EXCEPT !.dials = dials, !.pc = next]
<1>1. call[c] \in CallType
  BY DEF PoolShape
<1>2. next \in CallPlaces /\ next \in {"dial", "fail"} /\ dials \in Nat
  BY <1>1 DEF CallPlaces, CallType
<1>3. call' = [call EXCEPT ![c] = r]
  BY Zenon, <1>1 DEF DialFails, PoolShape, CallType
<1> HIDE DEF next, dials
<1>4. r \in CallType /\ r.pc = next /\ r.dc = call[c].dc
  BY Zenon, <1>1, <1>2 DEF CallType
<1> HIDE DEF r
<1> QED
  BY <1>2, <1>3, <1>4 DEF PoolShape, MovesTo

\* Every step of a caller has one of the effects.
LEMMA StepEffect ==
    ASSUME PoolShape, NEW c \in Callers, CallerStep(c)
    PROVE  CallEffect(c)
<1> USE DEF CallEffect, InCall, CallPlaces, maps, session
<1>1. CASE \E dc \in PoolDCs : CallInvoker(c, dc, TRUE) \/ CallInvoker(c, dc, FALSE)
  <2>1. /\ MovesTo(c, {"takeout", "fast", "close"})
        /\ UNCHANGED <<invokers, opened, failedFor, dcLock, mu, takeout, sessions>>
    BY Zenon, <1>1, Enters
  <2> QED
    BY <1>1, <2>1 DEF CallInvoker, CallPasses, MovesTo
<1>2. CASE CallClose(c)
  <2>1. /\ MovesTo(c, {"takeout", "fast", "close"})
        /\ UNCHANGED <<invokers, opened, failedFor, dcLock, mu, takeout, sessions>>
    BY Zenon, <1>2, Enters
  <2> QED
    BY <1>2, <2>1 DEF CallClose, CallPasses, MovesTo
<1>3. CASE TakeoutLock(c)
  <2>1. CASE takeout
    <3>1. MovesTo(c, {"fast"})
      BY <1>3, <2>1, GoesTo DEF TakeoutLock
    <3> QED
      BY <1>3, <2>1, <3>1 DEF TakeoutLock, CallPasses, MovesTo
  <2>2. CASE ~(takeout)
    <3>1. MovesTo(c, {"session"})
      BY <1>3, <2>2, GoesTo DEF TakeoutLock
    <3> QED
      BY <1>3, <2>2, <3>1 DEF TakeoutLock, Requests
  <2> QED
    BY Zenon, <2>1, <2>2
<1>4. CASE TakeoutAnswer(c, TRUE) \/ TakeoutAnswer(c, FALSE)
  <2>1. MovesTo(c, {"fast"})
    BY <1>4, GoesTo DEF TakeoutAnswer
  <2> QED
    BY Zenon, <1>4, <2>1 DEF TakeoutAnswer, Answered
<1>5. CASE FastPath(c)
  <2>1. CASE Known(call[c].dc) \/ InCooldown(call[c].dc)
    <3>1. MovesTo(c, {"out", "close"})
      BY SMTT(30), <1>5, <2>1, GetsInvoker DEF FastPath
    <3> QED
      BY Zenon, <1>5, <2>1, <3>1 DEF FastPath, CallPasses, MovesTo
  <2>2. CASE ~(Known(call[c].dc) \/ InCooldown(call[c].dc))
    <3>1. MovesTo(c, {"lock"})
      BY Zenon, <1>5, <2>2, GoesTo DEF FastPath
    <3> QED
      BY Zenon, <1>5, <2>2, <3>1 DEF FastPath, CallPasses, MovesTo
  <2> QED
    BY Zenon, <2>1, <2>2
<1>6. CASE LockDC(c)
  <2>1. MovesTo(c, {"recheck"}) /\ call'[c].dc = call[c].dc
    BY SMTT(30), <1>6, GoesTo DEF LockDC
  <2> QED
    BY <1>6, <2>1 DEF LockDC, Locks
<1>7. CASE Recheck(c)
  <2>1. CASE Known(call[c].dc) \/ InCooldown(call[c].dc)
    <3>1. MovesTo(c, {"out", "close"})
      BY Zenon, <1>7, <2>1, GetsInvoker DEF Recheck
    <3> QED
      BY Zenon, <1>7, <2>1, <3>1 DEF Recheck, Unlocks, Unlock
  <2>2. CASE ~(Known(call[c].dc) \/ InCooldown(call[c].dc))
    <3>1. MovesTo(c, {"dial"}) /\ call'[c].dc = call[c].dc
      BY Zenon, <1>7, <2>2, GoesTo DEF Recheck
    <3>2. failedFor[call[c].dc] \in Nat
      BY Zenon DEF PoolShape, CallType
    <3>3. \A n \in Nat : n > 0 \/ n = 0
      OBVIOUS
    <3>4. failedFor[call[c].dc] = 0
      BY Zenon, <2>2, <3>2, <3>3 DEF InCooldown
    <3> QED
      BY <1>7, <2>2, <3>1, <3>4 DEF Recheck, Dials
  <2> QED
    BY <2>1, <2>2
<1>8. CASE DialSucceeds(c)
  <2>1. MovesTo(c, {"record"}) /\ call'[c].dc = call[c].dc
    BY <1>8, GoesTo DEF DialSucceeds
  <2> QED
    BY Zenon, <1>8, <2>1 DEF DialSucceeds, Opens
<1>9. CASE DialFails(c)
  <2>1. MovesTo(c, {"dial", "fail"}) /\ call'[c].dc = call[c].dc
    BY Zenon, <1>9, DialsAgain DEF DialFails
  <2> QED
    BY <1>9, <2>1 DEF DialFails, Redials
<1>10. CASE DialCancelled(c)
  <2>1. MovesTo(c, {"out", "close"})
    BY Zenon, <1>10, GetsInvoker DEF DialCancelled
  <2> QED
    BY Zenon, <1>10, <2>1 DEF DialCancelled, Unlocks, Unlock
<1>11. CASE RecordInvoker(c)
  <2>1. MovesTo(c, {"out", "close"})
    BY Zenon, <1>11, GetsInvoker DEF RecordInvoker
  <2> QED
    BY <1>11, <2>1 DEF RecordInvoker, Unlocks, Unlock
<1>12. CASE RecordFailure(c)
  <2>1. MovesTo(c, {"out", "close"})
    BY <1>12, GetsInvoker DEF RecordFailure
  <2> QED
    BY Zenon, <1>12, <2>1 DEF RecordFailure, Unlocks, Unlock
<1>13. CASE CloseAll(c)
  <2>1. Outside \in CallType /\ Outside.pc = "out"
    BY PoolAssumption DEF Outside, CallType
  <2>2. MovesTo(c, {"out"})
    BY SMTT(30), <1>13, <2>1 DEF CloseAll, MovesTo, PoolShape
  <2> QED
    BY <1>13, <2>2 DEF CloseAll, CallPasses, MovesTo
<1> QED
  BY Zenon, <1>1, <1>2, <1>3, <1>4, <1>5, <1>6, <1>7, <1>8, <1>9, <1>10, <1>11, <1>12, <1>13
     DEF CallerStep, InPool

\* The domains and types.
LEMMA PoolShapeStep ==
    ASSUME PoolShape, NEW c \in Callers, CallEffect(c)
    PROVE  PoolShape'
<1> USE PoolAssumption DEF PoolShape, MovesTo, InCall, maps, session
<1>1. CASE CallPasses(c)
  BY <1>1 DEF CallPasses
<1>2. CASE Requests(c)
  BY <1>2 DEF Requests
<1>3. CASE Answered(c)
  <2>1. sessions' \in Nat
    <3>1. CASE takeout'
      BY <1>3, <3>1 DEF Answered
    <3>2. CASE ~takeout'
      BY <1>3, <3>2 DEF Answered
    <3> QED
      BY <3>1, <3>2
  <2> QED
    BY Zenon, <1>3, <2>1 DEF Answered
<1>4. CASE Locks(c)
  BY <1>4 DEF Locks
<1>5. CASE Dials(c)
  BY <1>5 DEF Dials
<1>6. CASE Redials(c)
  BY <1>6 DEF Redials
<1>7. CASE Opens(c)
  <2>1. call[c].dc \in PoolDCs
    BY DEF CallType
  <2> QED
    BY <1>7, <2>1 DEF Opens
<1>8. CASE Unlocks(c)
  <2>1. call[c].dc \in PoolDCs /\ FailureCooldown \in Nat
    BY DEF CallType
  <2>2. failedFor' \in [PoolDCs -> Nat] /\ invokers' \subseteq PoolDCs
    BY SMTT(30), <1>8, <2>1 DEF Unlocks
  <2> QED
    BY Zenon, <1>8, <2>2 DEF Unlocks
<1> QED
  BY ZenonT(60), <1>1, <1>2, <1>3, <1>4, <1>5, <1>6, <1>7, <1>8 DEF CallEffect

\* The lock of a data centre is free when it is taken, and given up only by its owner.
LEMMA OwnerStep ==
    ASSUME PoolShape, Owner, NEW c \in Callers, CallEffect(c)
    PROVE  Owner'
<1> USE PoolAssumption DEF PoolShape, CallType, Owner, MovesTo, InCall, maps, session
<1>1. CASE CallPasses(c)
  BY <1>1 DEF CallPasses
<1>2. CASE Requests(c)
  BY <1>2 DEF Requests
<1>3. CASE Answered(c)
  BY <1>3 DEF Answered
<1>4. CASE Locks(c)
  BY <1>4 DEF Locks
<1>5. CASE Dials(c)
  BY <1>5 DEF Dials
<1>6. CASE Redials(c)
  BY <1>6 DEF Redials
<1>7. CASE Opens(c)
  BY <1>7 DEF Opens
<1>8. CASE Unlocks(c)
  BY SMTT(30), <1>8 DEF Unlocks
<1> QED
  BY ZenonT(60), <1>1, <1>2, <1>3, <1>4, <1>5, <1>6, <1>7, <1>8 DEF CallEffect

\* Dialling begins under the lock when nothing is found, and whoever could change
\* that would have to own the lock.
LEMMA DialIsFirstStep ==
    ASSUME PoolShape, Owner, DialIsFirst, Accounted, NEW c \in Callers, CallEffect(c)
    PROVE  DialIsFirst'
<1> USE PoolAssumption DEF PoolShape, CallType, Owner, DialIsFirst, Accounted, Known, MovesTo,
    InCall, maps, session
<1>1. CASE CallPasses(c)
  BY <1>1 DEF CallPasses
<1>2. CASE Requests(c)
  BY <1>2 DEF Requests
<1>3. CASE Answered(c)
  BY SMTT(30), <1>3 DEF Answered
<1>4. CASE Locks(c)
  BY SMTT(30), <1>4 DEF Locks
<1>5. CASE Dials(c)
  <2>1. opened[call[c].dc] = 0
    <3>a. call[c].dc \in PoolDCs
      OBVIOUS
    <3>b. opened[call[c].dc] \in Nat /\ opened[call[c].dc] <= 1
      BY Zenon, <3>a
    <3>1. ASSUME opened[call[c].dc] = 1 PROVE FALSE
      <4>1. PICK d \in Callers : InCall(d, "record") /\ call[d].dc = call[c].dc
        BY Zenon, <1>5, <3>a, <3>1 DEF Dials
      <4>2. d = c
        BY SMTT(30), <1>5, <4>1 DEF Dials
      <4> QED
        BY Zenon, <1>5, <4>1, <4>2 DEF Dials
    <3> HIDE DEF PoolShape, CallType, Owner, DialIsFirst, Accounted, Known, MovesTo, InCall
    <3> QED
      BY <3>b, <3>1
  <2> QED
    BY <1>5, <2>1 DEF Dials
<1>6. CASE Redials(c)
  BY SMTT(30), <1>6 DEF Redials
<1>7. CASE Opens(c)
  BY SMTT(30), <1>7 DEF Opens
<1>8. CASE Unlocks(c)
  BY SMTT(30), <1>8 DEF Unlocks
<1> QED
  BY ZenonT(60), <1>1, <1>2, <1>3, <1>4, <1>5, <1>6, <1>7, <1>8 DEF CallEffect

\* A connection is opened by the owner of the lock, who records it before it lets the lock go.
LEMMA AccountedStep ==
    ASSUME PoolShape, Owner, DialIsFirst, Accounted, NEW c \in Callers, CallEffect(c)
    PROVE  Accounted'
<1> USE PoolAssumption DEF PoolShape, CallType, Owner, DialIsFirst, Accounted, Known, MovesTo,
    InCall, maps, session
<1>1. CASE CallPasses(c)
  BY <1>1 DEF CallPasses
<1>2. CASE Requests(c)
  BY SMTT(30), <1>2 DEF Requests
<1>3. CASE Answered(c)
  BY SMTT(30), <1>3 DEF Answered
<1>4. CASE Locks(c)
  BY <1>4 DEF Locks
<1>5. CASE Dials(c)
  BY <1>5 DEF Dials
<1>6. CASE Redials(c)
  BY <1>6 DEF Redials
<1>7. CASE Opens(c)
  BY SMTT(30), <1>7 DEF Opens
<1>8. CASE Unlocks(c)
  <2> SUFFICES ASSUME NEW dc \in PoolDCs
               PROVE  /\ opened'[dc] <= 1
                      /\ Known(dc)' => opened'[dc] = 1
                      /\ opened'[dc] = 1 /\ ~Known(dc)'
                             => \E d \in Callers : call'[d].pc = "record" /\ call'[d].dc = dc
    OBVIOUS
  <2>1. opened' = opened /\ (Known(dc) => Known(dc)')
    BY <1>8 DEF Unlocks
  <2>2. Known(dc)' => opened[dc] = 1
    <3>1. CASE InCall(c, "record") /\ dc = call[c].dc
      BY Zenon, <3>1
    <3>2. CASE ~(InCall(c, "record") /\ dc = call[c].dc)
      BY SMTT(30), <1>8, <3>2 DEF Unlocks
    <3> QED
      BY Zenon, <3>1, <3>2
  <2> QED
    BY SMTT(30), <1>8, <2>1, <2>2 DEF Unlocks
<1> QED
  BY ZenonT(60), <1>1, <1>2, <1>3, <1>4, <1>5, <1>6, <1>7, <1>8 DEF CallEffect

\* Only the caller that holds the pool's lock requests a session.
LEMMA SessionOwnedStep ==
    ASSUME PoolShape, SessionOwned, NEW c \in Callers, CallEffect(c)
    PROVE  SessionOwned'
<1> USE PoolAssumption DEF SessionOwned, PoolShape, MovesTo, InCall, maps, session
<1>1. CASE CallPasses(c)
  BY <1>1 DEF CallPasses
<1>2. CASE Requests(c)
  BY <1>2 DEF Requests
<1>3. CASE Answered(c)
  BY <1>3 DEF Answered
<1>4. CASE Locks(c)
  BY <1>4 DEF Locks
<1>5. CASE Dials(c)
  BY <1>5 DEF Dials
<1>6. CASE Redials(c)
  BY <1>6 DEF Redials
<1>7. CASE Opens(c)
  BY Zenon, <1>7 DEF Opens
<1>8. CASE Unlocks(c)
  BY <1>8 DEF Unlocks
<1> QED
  BY ZenonT(60), <1>1, <1>2, <1>3, <1>4, <1>5, <1>6, <1>7, <1>8 DEF CallEffect

\* Time passing and stuttering change no lock, no call and no connection.
LEMMA OtherStep ==
    ASSUME PoolInv, CooldownPasses \/ UNCHANGED poolVars
    PROVE  PoolInv'
<1>1. CASE UNCHANGED poolVars
  BY <1>1 DEF PoolInv, PoolShape, Owner, DialIsFirst, Accounted, SessionOwned, poolVars,
     InCall, Known
<1>2. CASE CooldownPasses
  <2> USE DEF PoolInv, CooldownPasses
  <2>1. /\ failedFor' \in [PoolDCs -> Nat]
        /\ \A dc \in PoolDCs : failedFor[dc] = 0 => failedFor'[dc] = 0
    BY SMTT(30), <1>2 DEF PoolShape
  <2>2. PoolShape' /\ Owner' /\ Accounted' /\ SessionOwned'
    BY ZenonT(60), <1>2, <2>1 DEF PoolShape, Owner, Accounted, SessionOwned, InCall, Known
  <2>3. DialIsFirst'
    BY <1>2, <2>1 DEF DialIsFirst, PoolShape, CallType, InCall, Known
  <2> QED
    BY <2>2, <2>3
<1> QED
  BY Zenon, <1>1, <1>2

\* The invariant is inductive.
LEMMA PoolInvStep == PoolInv /\ [PoolNext]_poolVars => PoolInv'
<1> SUFFICES ASSUME PoolInv, [PoolNext]_poolVars PROVE PoolInv'
  OBVIOUS
<1>1. ASSUME NEW c \in Callers, CallerStep(c) PROVE PoolInv'
  <2>1. CallEffect(c)
    BY <1>1, StepEffect DEF PoolInv
  <2>2. PoolShape' /\ Owner'
    BY <2>1, PoolShapeStep, OwnerStep DEF PoolInv
  <2>3. DialIsFirst' /\ Accounted'
    BY <2>1, DialIsFirstStep, AccountedStep DEF PoolInv
  <2>4. SessionOwned'
    BY <2>1, SessionOwnedStep DEF PoolInv
  <2> QED
    BY <2>2, <2>3, <2>4 DEF PoolInv
<1>2. CASE CooldownPasses \/ UNCHANGED poolVars
  BY <1>2, OtherStep
<1> QED
  BY Zenon, <1>1, <1>2 DEF PoolNext, CallerStep

\* The ownership of the locks holds in every state of the pool.
LEMMA PoolInvariant == PoolSpec => []PoolInv
BY PoolInvInit, PoolInvStep, PTL DEF PoolSpec

-----------------------------------------------------------------------------
\* However many callers and data centres there are, invoker opens at most one
\* connection to a data centre, and every invoker handed out is the open one.
THEOREM ConnectedOnce == PoolSpec => []OneConnection
<1>1. PoolInv => OneConnection
  BY DEF PoolInv, Accounted, OneConnection
<1> QED
  BY <1>1, PoolInvariant, PTL

\* However many callers need a takeout session, TakeoutInvoker starts at most one.
THEOREM TakeoutOnce == PoolSpec => []OneTakeout
<1>1. PoolInv => OneTakeout
  BY DEF PoolInv, PoolShape, SessionOwned, OneTakeout
<1> QED
  BY <1>1, PoolInvariant, PTL

\* A caller that waited for the lock of a data centre while another failed to
\* reach it does not dial before the cooldown of that failure is over.
THEOREM CooldownKept == PoolSpec => FailureRespected
<1>1. PoolInv /\ [PoolNext]_poolVars =>
        [\A c \in Callers : (InCall(c, "dial") /\ opened' # opened /\ call'[c].pc = "record")
            => ~InCooldown(call[c].dc)]_poolVars
  BY DEF PoolInv, DialIsFirst, InCooldown
<1> QED
  BY <1>1, PoolInvariant, PTL DEF PoolSpec, FailureRespected

-----------------------------------------------------------------------------
(***************************************************************************)
(* FailoverWatchdog: the provider belongs to the current node.             *)
(***************************************************************************)
Node == 1 .. NumNodes

\* One more failure, as far as FailCount is followed.
Bumped(f) == IF f < Unhealthy THEN f + 1 ELSE f

\* The failures node n will have at the end of the round, at most.
ByRoundEnd(n) ==
    IF probe.pc = "probe" /\ probe.node <= n THEN Bumped(health[n].fails) ELSE health[n].fails

FailoverShape ==
    /\ health \in [Node -> [ok : BOOLEAN, fails : 0 .. Unhealthy]]
    /\ currentIndex \in Node
    /\ probe \in [pc : {"wait", "probe", "stopped"}, node : Nat, stop : BOOLEAN]
    /\ probe.pc = "probe" => probe.node \in 1 .. NumNodes + 1
    /\ Malformed \cap reachable = {}
    /\ \A n \in Node : health[n].ok <=> health[n].fails < Unhealthy

\* No node has failed more often in a row than a malformed one, which fails
\* every time, once each round counts the nodes it has yet to probe.
MalformedFailMost ==
    \A n \in Node, m \in Malformed : ByRoundEnd(n) <= ByRoundEnd(m)

FailoverInv == FailoverShape /\ MalformedFailMost /\ ProviderIsCurrent

\* The node a failover moves to is healthy, unless no node is.
LEMMA NextIsHealthy ==
    ASSUME FailoverShape
    PROVE  LET i == NextHealthy(currentIndex)
           IN  i = currentIndex \/ (i \in Node /\ health[i].ok)
<1> DEFINE steps == {k \in 1 .. NumNodes : health[After(currentIndex, k)].ok}
           first == CHOOSE k \in steps : \A j \in steps : k <= j
<1>1. CASE steps = {}
  BY <1>1 DEF NextHealthy
<1>2. CASE steps # {}
  <2>1. steps \subseteq Nat
    OBVIOUS
  <2>2. first \in steps
    BY Zenon, <1>2, <2>1, Smallest
  <2>3. After(currentIndex, first) \in Node
    <3>1. currentIndex - 1 + first \in Int
      BY <2>1, <2>2, FailoverAssumption DEF FailoverShape, Node
    <3> HIDE DEF first
    <3>2. (currentIndex - 1 + first) % NumNodes \in 0 .. NumNodes - 1
      BY <3>1, FailoverAssumption
    <3> QED
      BY <3>2, FailoverAssumption DEF After, Node
  <2>4. NextHealthy(currentIndex) = After(currentIndex, first)
    BY <1>2 DEF NextHealthy
  <2> QED
    BY <2>2, <2>3, <2>4
<1> QED
  BY <1>1, <1>2

\* All nodes start healthy, and the first one is current.
LEMMA FailoverInvInit == FailoverInit => FailoverInv
<1> SUFFICES ASSUME FailoverInit PROVE FailoverInv
  OBVIOUS
<1>1. FailoverShape /\ MalformedFailMost
  BY FailoverAssumption DEF FailoverInit, FailoverShape, MalformedFailMost, ByRoundEnd, Bumped,
     Node, Unhealthy
<1>2. ProviderIsCurrent
  BY DEF FailoverInit, ProviderIsCurrent
<1> QED
  BY <1>1, <1>2 DEF FailoverInv

\* A probe of a malformed node brings the failure the round counted already, and
\* a probe of another node at most that.
LEMMA ProbeNodeStep == FailoverInv /\ ProbeNode => FailoverInv'
<1> SUFFICES ASSUME FailoverInv, ProbeNode PROVE FailoverInv'
  OBVIOUS
<1> DEFINE p == probe.node
<1> USE FailoverAssumption DEF FailoverInv, ProbeNode, Node, Unhealthy
<1>1. /\ p \in Node /\ probe.pc = "probe"
      /\ probe'.pc = "probe" /\ probe'.node = p + 1
      /\ probe' \in [pc : {"wait", "probe", "stopped"}, node : Nat, stop : BOOLEAN]
  <2>1. /\ probe \in [pc : {"wait", "probe", "stopped"}, node : Nat, stop : BOOLEAN]
        /\ probe.pc = "probe" /\ probe' = [probe EXCEPT !.node = @ + 1]
        /\ probe.node \in 1 .. NumNodes + 1 /\ probe.node <= NumNodes
    BY Zenon DEF FailoverShape
  <2> HIDE DEF FailoverInv, ProbeNode
  <2> QED
    BY <2>1
<1>2. health[p] \in [ok : BOOLEAN, fails : 0 .. Unhealthy]
  BY <1>1 DEF FailoverShape
<1> DEFINE h == RecordResult(health[p], p \in reachable)
<1>3. /\ h \in [ok : BOOLEAN, fails : 0 .. Unhealthy]
      /\ h.ok <=> h.fails < Unhealthy
      /\ h.fails <= Bumped(health[p].fails)
      /\ p \in Malformed => h.fails = Bumped(health[p].fails)
  <2>1. CASE p \in reachable
    <3>1. h = [ok |-> TRUE, fails |-> 0]
      BY <2>1 DEF RecordResult
    <3>2. p \notin Malformed /\ 0 <= Bumped(health[p].fails)
      BY <1>2, <2>1 DEF FailoverShape, Bumped
    <3> HIDE DEF h
    <3> QED
      BY <3>1, <3>2
  <2>2. CASE p \notin reachable
    <3> DEFINE f == Bumped(health[p].fails)
    <3>1. f \in 0 .. Unhealthy
      BY <1>2 DEF Bumped
    <3>2. h = [ok |-> health[p].ok /\ f < Unhealthy, fails |-> f]
      BY <2>2 DEF RecordResult, Bumped
    <3>3. (health[p].ok /\ f < Unhealthy) <=> f < Unhealthy
      BY <1>1, <1>2, <3>1 DEF FailoverShape, Bumped
    <3> HIDE DEF f, h
    <3>4. h \in [ok : BOOLEAN, fails : 0 .. Unhealthy] /\ h.fails = f
      BY <3>1, <3>2
    <3>5. h.ok <=> f < Unhealthy
      BY Zenon, <3>2, <3>3
    <3> QED
      BY <3>1, <3>4, <3>5 DEF f
  <2> QED
    BY <2>1, <2>2
<1>3a. health' = [health EXCEPT ![p] = h]
  OBVIOUS
<1> HIDE DEF h
<1>4. FailoverShape'
  BY <1>1, <1>3, <1>3a DEF FailoverShape
<1>5. \A n \in Node : /\ ByRoundEnd(n)' <= ByRoundEnd(n)
                      /\ n \in Malformed => ByRoundEnd(n)' = ByRoundEnd(n)
  <2> TAKE n \in Node
  <2>1. CASE n = p
    BY <1>1, <1>2, <1>3, <1>3a, <2>1 DEF ByRoundEnd, Bumped, FailoverShape
  <2>2. CASE n # p
    <3>1. health'[n] = health[n] /\ health[n].fails \in 0 .. Unhealthy
      BY <1>3a, <2>2 DEF FailoverShape
    <3>2. (probe'.node <= n) <=> (probe.node <= n)
      BY <1>1, <2>2
    <3>3. ByRoundEnd(n)' = ByRoundEnd(n) /\ ByRoundEnd(n) \in Nat
      BY <1>1, <3>1, <3>2 DEF ByRoundEnd, Bumped
    <3> QED
      BY <3>3
  <2> QED
    BY <2>1, <2>2
<1>6. \A n \in Node : ByRoundEnd(n) \in Nat /\ ByRoundEnd(n)' \in Nat
  BY SMTT(30), <1>4 DEF FailoverShape, ByRoundEnd, Bumped
<1>7. MalformedFailMost'
  <2> HIDE DEF ProbeNode
  <2> SUFFICES ASSUME NEW n \in Node, NEW m \in Malformed
               PROVE  ByRoundEnd(n)' <= ByRoundEnd(m)'
    BY DEF MalformedFailMost
  <2>1. ByRoundEnd(n) <= ByRoundEnd(m)
    BY DEF MalformedFailMost
  <2>2. m \in Node
    OBVIOUS
  <2>3. ByRoundEnd(n)' <= ByRoundEnd(n) /\ ByRoundEnd(m)' = ByRoundEnd(m)
    BY <1>5, <2>2
  <2>4. ByRoundEnd(n) \in Nat /\ ByRoundEnd(n)' \in Nat /\ ByRoundEnd(m) \in Nat
    BY <1>6, <2>2
  <2> QED
    BY <2>1, <2>3, <2>4
<1> QED
  BY <1>4, <1>7 DEF ProviderIsCurrent

\* A round begins: every node gets one more failure to come, in equal measure.
LEMMA ProbeTickStep == FailoverInv /\ ProbeTick => FailoverInv'
<1> SUFFICES ASSUME FailoverInv, ProbeTick PROVE FailoverInv'
  OBVIOUS
<1> USE FailoverAssumption DEF FailoverInv, ProbeTick, Node, Unhealthy
<1>1. /\ probe' \in [pc : {"wait", "probe", "stopped"}, node : Nat, stop : BOOLEAN]
      /\ probe'.pc = "probe" /\ probe'.node = 1
  BY Zenon DEF FailoverShape
<1>1a. FailoverShape'
  BY <1>1 DEF FailoverShape
<1>2. \A n \in Node : /\ health[n].fails \in 0 .. 2
                      /\ ByRoundEnd(n) = health[n].fails
                      /\ ByRoundEnd(n)' = Bumped(health[n].fails)
  BY <1>1 DEF ByRoundEnd, Bumped, FailoverShape
<1>3. MalformedFailMost'
  BY <1>2 DEF MalformedFailMost, Bumped
<1> QED
  BY <1>1a, <1>3 DEF ProviderIsCurrent

\* The current node is left when it failed often enough; every malformed node has
\* then failed as often and is unhealthy, so the next healthy one parses.
LEMMA FailoverStep == FailoverInv /\ Failover => FailoverInv'
<1> SUFFICES ASSUME FailoverInv, Failover PROVE FailoverInv'
  OBVIOUS
<1> USE FailoverAssumption DEF FailoverInv, Node, Unhealthy
<1>1. \A n \in Node : ByRoundEnd(n) = health[n].fails /\ health[n].fails \in 0 .. 2
  BY DEF ByRoundEnd, Failover, FailoverShape
<1>2. currentIndex' \in Node /\ ProviderIsCurrent'
  <2>1. CASE UNCHANGED <<currentIndex, provider>>
    BY <2>1 DEF FailoverShape, ProviderIsCurrent
  <2>2. CASE ~health[currentIndex].ok
    <3> DEFINE next == NextHealthy(currentIndex)
    <3>1. next = currentIndex \/ (next \in Node /\ health[next].ok)
      BY NextIsHealthy
    <3>2. \A m \in Malformed : ~health[m].ok
      <4>1. currentIndex \in Node /\ health[currentIndex].fails = 2
        BY <1>1, <2>2 DEF FailoverShape
      <4>2. \A m \in Malformed : m \in Node /\ 2 <= health[m].fails
        BY <1>1, <4>1 DEF MalformedFailMost
      <4> QED
        BY <4>2 DEF FailoverShape
    <3>3. \/ UNCHANGED <<currentIndex, provider>>
          \/ currentIndex' = next /\ provider' = (IF next \in Malformed THEN provider ELSE next)
      BY DEF Failover
    <3> HIDE DEF next
    <3> QED
      BY <2>1, <3>1, <3>2, <3>3 DEF FailoverShape, ProviderIsCurrent
  <2> QED
    BY <2>1, <2>2 DEF Failover
<1>4. FailoverShape'
  BY Zenon, <1>2 DEF FailoverShape, Failover
<1>5. \A n \in Node : ByRoundEnd(n)' = health[n].fails
  BY DEF ByRoundEnd, Failover, FailoverShape
<1>6. MalformedFailMost'
  BY <1>1, <1>5 DEF MalformedFailMost
<1> QED
  BY <1>2, <1>4, <1>6

\* Stopping, and nodes that go down or come back, change no health record.
LEMMA OtherFailoverStep ==
    ASSUME FailoverInv,
           \/ ProbeLoopEnds \/ StopWatchdog
           \/ \E n \in 1 .. NumNodes : Outage(n)
           \/ UNCHANGED failoverVars
    PROVE  FailoverInv'
<1> USE FailoverAssumption DEF FailoverInv, Node
<1>1. FailoverShape'
  <2>1. CASE ProbeLoopEnds \/ StopWatchdog
    BY Zenon, <2>1 DEF FailoverShape, ProbeLoopEnds, StopWatchdog
  <2>2. CASE (\E n \in 1 .. NumNodes : Outage(n)) \/ UNCHANGED failoverVars
    <3>1. Malformed \cap reachable' = {}
      BY <2>2 DEF FailoverShape, Outage, failoverVars
    <3>2. UNCHANGED <<health, currentIndex, probe>>
      BY <2>2 DEF Outage, failoverVars
    <3> QED
      BY <3>1, <3>2 DEF FailoverShape
  <2> QED
    BY <2>1, <2>2
<1>2. \A n \in Node : ByRoundEnd(n)' = ByRoundEnd(n)
  BY DEF FailoverShape, ByRoundEnd, ProbeLoopEnds, StopWatchdog, Outage, failoverVars
<1>3. MalformedFailMost' /\ ProviderIsCurrent'
  BY <1>2 DEF MalformedFailMost, ProviderIsCurrent, ProbeLoopEnds, StopWatchdog, Outage,
     failoverVars
<1> QED
  BY <1>1, <1>3

\* Whatever nodes the list has, the first one included, and whenever they fail, the
\* provider the watchdog hands out is that of its current node, or none as long as
\* the first node is current and does not parse: runProbe, which moves the index
\* before it builds the provider, never moves to an address that does not parse.
THEOREM ProviderFollows == FailoverSpec => []ProviderIsCurrent
<1>1. FailoverInv /\ [FailoverNext]_failoverVars => FailoverInv'
  BY ProbeNodeStep, ProbeTickStep, FailoverStep, OtherFailoverStep DEF FailoverNext, ProbeLoop
<1>2. FailoverInv => ProviderIsCurrent
  BY DEF FailoverInv
<1> QED
  BY <1>1, <1>2, FailoverInvInit, PTL DEF FailoverSpec

-----------------------------------------------------------------------------
(***************************************************************************)
(* Batch: sending an element never blocks, and a run that succeeds has     *)
(* fetched every file it should.                                           *)
(***************************************************************************)
\* A round of processGrouped, from what was sent and the position before it, and
\* f, what it has come to after each of n rounds.
SendRound(r, group, k) ==
    IF group[k] \in deleted THEN r
    ELSE [elems |-> IF r.pos \notin finished /\ group[k] \in Media
                    THEN Append(r.elems, <<group[k], r.pos>>) ELSE r.elems,
          pos |-> r.pos + 1]

SendRounds(f, group, pos, n) ==
    f = [k \in 0 .. n |-> IF k = 0 THEN [elems |-> << >>, pos |-> pos]
                          ELSE SendRound(f[k - 1], group, k)]

\* The loop runs any number of rounds.
LEMMA SendRoundsExist ==
    ASSUME NEW group, NEW pos, NEW n \in Nat
    PROVE  \E f : SendRounds(f, group, pos, n)
<1> DEFINE Bad == {k \in Nat : ~\E f : SendRounds(f, group, pos, k)}
<1> SUFFICES ASSUME Bad # {} PROVE FALSE
  OBVIOUS
<1>1. PICK k \in Bad : \A j \in Bad : k <= j
  BY Zenon, Smallest
<1>2. k # 0
  <2> DEFINE f0 == [i \in 0 .. 0 |-> [elems |-> << >>, pos |-> pos]]
  <2>1. SendRounds(f0, group, pos, 0)
    BY DEF SendRounds
  <2> QED
    BY <2>1, <1>1
<1>3. k - 1 \in Nat /\ k - 1 \notin Bad
  BY <1>1, <1>2
<1>4. PICK f : SendRounds(f, group, pos, k - 1)
  BY <1>3
<1> DEFINE g == [i \in 0 .. k |-> IF i < k THEN f[i] ELSE SendRound(f[k - 1], group, k)]
<1>5. SendRounds(g, group, pos, k)
  <2> SUFFICES ASSUME NEW i \in 0 .. k
               PROVE g[i] = IF i = 0 THEN [elems |-> << >>, pos |-> pos]
                            ELSE SendRound(g[i - 1], group, i)
    BY Zenon DEF SendRounds
  <2>1. CASE i = k
    <3>1. g[k - 1] = f[k - 1]
      BY <1>1, <1>3
    <3> QED
      BY <2>1, <1>2, <3>1
  <2>2. CASE i < k
    <3>1. i \in 0 .. k - 1 /\ g[i] = f[i] /\ (i # 0 => g[i - 1] = f[i - 1])
      BY <2>2, <1>1
    <3> HIDE DEF g
    <3> QED
      BY Zenon, <3>1, <1>4 DEF SendRounds
  <2> QED
    BY <2>1, <2>2, <1>1
<1> QED
  BY <1>5, <1>1

\* Of a group no message is deleted.
Whole(group) == \A k \in DOMAIN group : group[k] \notin deleted

\* A wanted message of the group has a position, its own in a whole group, and its
\* element is sent unless that position is finished.
Offered(q, group, pos, k) ==
    \E p \in Nat : /\ p >= pos /\ (Whole(group) => p = pos + k - 1)
                   /\ p \notin finished => \E i \in DOMAIN q : q[i] = <<group[k], p>>

\* An element is of a message of the group, at its own position in a whole group.
OfGroup(e, group, pos, k) == e[1] = group[k] /\ (Whole(group) => e = <<group[k], pos + k - 1>>)

\* What n rounds have come to.
Sent(r, group, pos, n) ==
    /\ r.elems \in Seq(Elements) /\ Len(r.elems) <= n
    /\ r.pos \in Nat /\ r.pos >= pos /\ (Whole(group) => r.pos = pos + n)
    /\ \A k \in 1 .. n : group[k] \in Media \ deleted => Offered(r.elems, group, pos, k)
    /\ \A i \in DOMAIN r.elems :
            r.elems[i][2] < r.pos /\ \E k \in 1 .. n : OfGroup(r.elems[i], group, pos, k)

\* One round more.
LEMMA SendRoundSent ==
    ASSUME NEW group \in Seq(DOMAIN Album), NEW pos \in Nat, NEW n \in Nat, n + 1 \in DOMAIN group,
           NEW r, Sent(r, group, pos, n)
    PROVE  Sent(SendRound(r, group, n + 1), group, pos, n + 1)
<1> DEFINE q == r.elems
<1> DEFINE m == group[n + 1]
<1> DEFINE t == SendRound(r, group, n + 1)
<1>1. /\ q \in Seq(Elements) /\ Len(q) \in Nat /\ Len(q) <= n /\ DOMAIN q = 1 .. Len(q)
      /\ r.pos \in Nat /\ r.pos >= pos /\ (Whole(group) => r.pos = pos + n)
  <2>1. q \in Seq(Elements) /\ Len(q) <= n
    BY Zenon DEF Sent
  <2>2. Len(q) \in Nat /\ DOMAIN q = 1 .. Len(q)
    BY <2>1
  <2> QED
    BY Zenon, <2>1, <2>2 DEF Sent
<1>2. /\ \A k \in 1 .. n : group[k] \in Media \ deleted => Offered(q, group, pos, k)
      /\ \A i \in DOMAIN q : q[i][2] < r.pos /\ \E k \in 1 .. n : OfGroup(q[i], group, pos, k)
  BY Zenon DEF Sent
<1>3. \A k \in 1 .. n + 1 : k \in 1 .. n \/ k = n + 1
  OBVIOUS
<1>4. \A k \in 1 .. n : k \in 1 .. n + 1
  OBVIOUS
<1>5. n + 1 \in 1 .. n + 1 /\ Len(q) <= n + 1
  BY <1>1
<1>6. CASE m \in deleted
  <2>1. t = r
    BY Zenon, <1>6 DEF SendRound
  <2>2. ~Whole(group)
    BY Zenon, <1>6 DEF Whole
  <2> QED
    BY Zenon, <2>1, <2>2, <1>1, <1>2, <1>3, <1>4, <1>5, <1>6 DEF Sent
<1>7. CASE m \notin deleted
  <2> DEFINE e == <<m, r.pos>>
  <2> DEFINE v == IF r.pos \notin finished /\ m \in Media THEN Append(q, e) ELSE q
  <2>1. t = [elems |-> v, pos |-> r.pos + 1]
    BY Zenon, <1>7 DEF SendRound
  <2>2. t.elems = v /\ t.pos = r.pos + 1
    <3> HIDE DEF v, t
    <3> QED
      BY <2>1
  <2>3. e \in Elements /\ e[1] = m /\ e[2] = r.pos
    <3>1. m \in DOMAIN Album
      OBVIOUS
    <3> HIDE DEF m
    <3> QED
      BY <3>1, <1>1 DEF Elements
  <2>4. /\ t.pos \in Nat /\ t.pos >= pos /\ (Whole(group) => t.pos = pos + (n + 1))
        /\ r.pos < t.pos /\ (Whole(group) => r.pos = pos + (n + 1) - 1)
        /\ \A i \in DOMAIN q : q[i][2] < t.pos
    <3>1. \A i \in DOMAIN q : q[i] \in Elements /\ q[i][2] \in Nat
      BY <1>1 DEF Elements
    <3>2. r.pos \in Nat /\ r.pos >= pos /\ (Whole(group) => r.pos = pos + n) /\ t.pos = r.pos + 1
      BY Zenon, <2>2, <1>1
    <3>3. \A i \in DOMAIN q : q[i][2] < r.pos
      BY Zenon, <1>2
    <3> HIDE DEF t, q
    <3>4. t.pos \in Nat /\ t.pos >= pos /\ r.pos < t.pos
      BY <3>2
    <3>5. Whole(group) => t.pos = pos + (n + 1) /\ r.pos = pos + (n + 1) - 1
      BY <3>2
    <3>6. \A i \in DOMAIN q : q[i][2] < t.pos
      BY <3>1, <3>2, <3>3
    <3> QED
      BY Zenon, <3>4, <3>5, <3>6
  <2>5. /\ v \in Seq(Elements) /\ Len(v) <= n + 1
        /\ \A i \in DOMAIN q : i \in DOMAIN v /\ v[i] = q[i]
        /\ \A i \in DOMAIN v : i \in DOMAIN q \/ v[i] = e
        /\ r.pos \notin finished /\ m \in Media => \E i \in DOMAIN v : v[i] = e
    <3>1. CASE r.pos \notin finished /\ m \in Media
      <4>1. v = Append(q, e)
        BY Zenon, <3>1
      <4> HIDE DEF v, q, e
      <4>2. /\ v \in Seq(Elements) /\ Len(v) <= n + 1 /\ Len(q) + 1 \in DOMAIN v /\ v[Len(q) + 1] = e
            /\ \A i \in DOMAIN q : i \in DOMAIN v /\ v[i] = q[i]
            /\ \A i \in DOMAIN v : i \in DOMAIN q \/ i = Len(q) + 1
        BY <4>1, <2>3, <1>1
      <4> QED
        BY Zenon, <4>2
    <3>2. CASE ~(r.pos \notin finished /\ m \in Media)
      <4>1. v = q
        BY Zenon, <3>2
      <4> HIDE DEF v, q, e
      <4> QED
        BY Zenon, <4>1, <3>2, <1>1, <1>5
    <3> QED
      BY Zenon, <3>1, <3>2
  <2> HIDE DEF v
  <2>6. ASSUME NEW k \in 1 .. n + 1, group[k] \in Media \ deleted PROVE Offered(v, group, pos, k)
    <3>1. CASE k \in 1 .. n
      <4>1. Offered(q, group, pos, k)
        BY Zenon, <3>1, <2>6, <1>2
      <4> QED
        BY Zenon, <4>1, <2>5 DEF Offered
    <3>2. CASE k = n + 1
      BY Zenon, <3>2, <2>4, <2>5, <2>6, <1>1 DEF Offered
    <3> QED
      BY Zenon, <3>1, <3>2, <1>3
  <2>7. ASSUME NEW i \in DOMAIN v
        PROVE  v[i][2] < t.pos /\ \E k \in 1 .. n + 1 : OfGroup(v[i], group, pos, k)
    <3>1. CASE i \in DOMAIN q
      BY Zenon, <3>1, <2>4, <2>5, <1>2, <1>4
    <3>2. CASE v[i] = e
      <4>1. OfGroup(e, group, pos, n + 1)
        BY Zenon, <2>3, <2>4 DEF OfGroup
      <4> QED
        BY Zenon, <4>1, <3>2, <2>3, <2>4, <1>5
    <3> QED
      BY Zenon, <3>1, <3>2, <2>5
  <2> HIDE DEF t
  <2>8. Sent(t, group, pos, n + 1)
    BY Zenon, <2>2, <2>4, <2>5, <2>6, <2>7 DEF Sent
  <2> QED
    BY Zenon, <2>8 DEF t
<1> QED
  BY Zenon, <1>6, <1>7

\* What processGrouped sends of a group.
LEMMA GroupSent ==
    ASSUME NEW group \in Seq(DOMAIN Album), NEW pos \in Nat
    PROVE  Sent(ProcessGroup(group, pos), group, pos, Len(group))
<1> DEFINE f == CHOOSE h : SendRounds(h, group, pos, Len(group))
<1> DEFINE Bad == {k \in 0 .. Len(group) : ~Sent(f[k], group, pos, k)}
<1>1. Len(group) \in Nat /\ DOMAIN group = 1 .. Len(group)
  OBVIOUS
<1>2. SendRounds(f, group, pos, Len(group))
  BY Zenon, <1>1, SendRoundsExist
<1>3. ProcessGroup(group, pos) = f[Len(group)]
  BY Zenon DEF ProcessGroup, SendRounds, SendRound
<1> HIDE DEF f
<1>4. /\ f[0] = [elems |-> << >>, pos |-> pos]
      /\ \A k \in 0 .. Len(group) : k # 0 => f[k] = SendRound(f[k - 1], group, k)
  BY <1>1, <1>2 DEF SendRounds
<1>5. Sent(f[0], group, pos, 0)
  BY <1>4 DEF Sent
<1>6. Bad = {}
  <2> SUFFICES ASSUME Bad # {} PROVE FALSE
    OBVIOUS
  <2>1. PICK k \in Bad : \A j \in Bad : k <= j
    <3>1. Bad \in SUBSET Nat
      BY <1>1
    <3> HIDE DEF Bad
    <3> QED
      BY <3>1, Smallest
  <2>2. k \in 0 .. Len(group) /\ k # 0
    BY <2>1, <1>5
  <2>3. k - 1 \in Nat /\ k - 1 \in 0 .. Len(group) /\ (k - 1) + 1 = k /\ k \in DOMAIN group
    BY <2>2, <1>1
  <2>4. Sent(f[k - 1], group, pos, k - 1)
    BY <2>1, <2>3
  <2>5. Sent(SendRound(f[k - 1], group, (k - 1) + 1), group, pos, (k - 1) + 1)
    <3> HIDE DEF Bad
    <3> QED
      BY <2>3, <2>4, SendRoundSent
  <2>6. Sent(f[k], group, pos, k)
    BY Zenon, <2>5, <2>3, <2>2, <1>4
  <2> QED
    BY Zenon, <2>6, <2>1
<1> QED
  BY <1>1, <1>3, <1>6
-----------------------------------------------------------------------------
\* A slot is a file's place in the list: dialog, listed message, place in its
\* album.  Message is the message there, and At its position: the number of
\* the slots before it.
Listed(d, k) == d \in DOMAIN Dialogs /\ k \in DOMAIN Dialogs[d]
Group(d, k) == GroupOf(Dialogs[d][k])
Slots ==
    {s \in Nat \X Nat \X Nat : Listed(s[1], s[2]) /\ s[3] \in DOMAIN Group(s[1], s[2])}
Before(d, k) == {s \in Slots : s[1] < d \/ (s[1] = d /\ s[2] < k)}
PosOf(d, k) == Cardinality(Before(d, k))
Message(s) == Group(s[1], s[2])[s[3]]
At(s) == PosOf(s[1], s[2]) + s[3] - 1
ElemOf(s) == <<Message(s), At(s)>>

\* A group is not empty and the channel takes it.
LEMMA GroupType ==
    ASSUME NEW d, NEW k, Listed(d, k)
    PROVE  /\ d \in 1 .. Len(Dialogs) /\ Dialogs[d] \in Seq(DOMAIN Album) /\ k \in 1 .. Len(Dialogs[d])
           /\ Dialogs[d][k] \in DOMAIN Album
           /\ Group(d, k) \in Seq(DOMAIN Album) /\ DOMAIN Group(d, k) = 1 .. Len(Group(d, k))
           /\ Len(Group(d, k)) \in 1 .. Buffer
<1>1. d \in 1 .. Len(Dialogs) /\ Dialogs[d] \in Seq(DOMAIN Album)
  BY BatchAssumption DEF Listed
<1>2. k \in 1 .. Len(Dialogs[d]) /\ Dialogs[d][k] \in DOMAIN Album
  BY <1>1 DEF Listed
<1> DEFINE m == Dialogs[d][k]
<1>3. Album[m] \in Seq(DOMAIN Album) /\ Len(Album[m]) <= Buffer /\ Buffer \in Nat \ {0}
  BY <1>2, BatchAssumption
<1> HIDE DEF m
<1>4. GroupOf(m) \in Seq(DOMAIN Album) /\ Len(GroupOf(m)) \in 1 .. Buffer
  <2>1. CASE Album[m] = << >>
    <3>1. GroupOf(m) = <<m>>
      BY <2>1 DEF GroupOf
    <3> QED
      BY <3>1, <1>2, <1>3 DEF m
  <2>2. CASE Album[m] # << >>
    <3>1. GroupOf(m) = Album[m]
      BY <2>2 DEF GroupOf
    <3> QED
      BY <3>1, <1>3, <2>2
  <2> QED
    BY <2>1, <2>2
<1>5. Group(d, k) = GroupOf(m)
  BY DEF Group, m
<1> QED
  BY <1>1, <1>2, <1>4, <1>5

\* The numbers in a slot.
LEMMA SlotType ==
    ASSUME NEW s \in Slots
    PROVE  /\ s = <<s[1], s[2], s[3]>> /\ Listed(s[1], s[2])
           /\ s[1] \in 1 .. Len(Dialogs) /\ s[2] \in 1 .. Len(Dialogs[s[1]])
           /\ s[3] \in 1 .. Len(Group(s[1], s[2])) /\ s[3] \in 1 .. Buffer
           /\ Message(s) \in DOMAIN Album
<1>1. s \in Nat \X Nat \X Nat /\ Listed(s[1], s[2]) /\ s[3] \in DOMAIN Group(s[1], s[2])
  BY DEF Slots
<1>2. s = <<s[1], s[2], s[3]>>
  BY <1>1
<1>3. /\ s[1] \in 1 .. Len(Dialogs) /\ s[2] \in 1 .. Len(Dialogs[s[1]])
      /\ Group(s[1], s[2]) \in Seq(DOMAIN Album)
      /\ DOMAIN Group(s[1], s[2]) = 1 .. Len(Group(s[1], s[2]))
      /\ Len(Group(s[1], s[2])) \in 1 .. Buffer
  BY <1>1, GroupType
<1>4. s[3] \in 1 .. Len(Group(s[1], s[2])) /\ s[3] \in 1 .. Buffer
  BY <1>1, <1>3, BatchAssumption
<1>5. Message(s) \in DOMAIN Album
  BY <1>3, <1>4 DEF Message
<1> QED
  BY Zenon, <1>1, <1>2, <1>3, <1>4, <1>5

\* For the library's theorem on intervals.
LEMMA OneIsInt == 1 \in Int
  OBVIOUS

\* The list is finite.
LEMMA SlotsFinite == IsFiniteSet(Slots)
<1> DEFINE D == DOMAIN Dialogs
<1> DEFINE f == [d \in D |-> DOMAIN Dialogs[d]]
<1> DEFINE T == {f[d] : d \in D}
<1>1. IsFiniteSet(D)
  <2>1. Len(Dialogs) \in Int /\ D = 1 .. Len(Dialogs)
    BY BatchAssumption
  <2> HIDE DEF D
  <2> QED
    BY Zenon, <2>1, FS_Interval, OneIsInt
<1>2. IsFiniteSet(T)
  <2>1. f \in Surjection(D, T)
    BY DEF Surjection
  <2> HIDE DEF f, T, D
  <2> QED
    BY <2>1, <1>1, FS_Surjection
<1>3. \A t \in T : IsFiniteSet(t)
  <2> SUFFICES ASSUME NEW d \in D PROVE IsFiniteSet(DOMAIN Dialogs[d])
    OBVIOUS
  <2>1. Len(Dialogs[d]) \in Int /\ DOMAIN Dialogs[d] = 1 .. Len(Dialogs[d])
    BY BatchAssumption
  <2> QED
    BY Zenon, <2>1, FS_Interval, OneIsInt
<1> DEFINE K == UNION T
<1>4. IsFiniteSet(K)
  <2> HIDE DEF T
  <2> QED
    BY Zenon, <1>2, <1>3, FS_UNION
<1> DEFINE J == 1 .. Buffer
<1>5. IsFiniteSet(J)
  <2>1. Buffer \in Int
    BY BatchAssumption
  <2> QED
    BY Zenon, <2>1, FS_Interval, OneIsInt
<1>6. IsFiniteSet(K \X J)
  <2> HIDE DEF K, J
  <2> QED
    BY Zenon, <1>4, <1>5, FS_Product
<1> DEFINE P == D \X (K \X J)
<1>7. IsFiniteSet(P)
  <2> HIDE DEF K, J, D
  <2> QED
    BY Zenon, <1>1, <1>6, FS_Product
<1> DEFINE g == [s \in Slots |-> <<s[1], <<s[2], s[3]>>>>]
<1>8. \A s \in Slots : g[s] \in P
  <2> SUFFICES ASSUME NEW s \in Slots PROVE g[s] \in P
    BY Zenon
  <2>1. s[1] \in D /\ s[2] \in DOMAIN Dialogs[s[1]] /\ s[3] \in J
    BY Zenon, SlotType DEF Listed
  <2>2. s[2] \in K
    BY Zenon, <2>1
  <2> HIDE DEF K, D, J
  <2> QED
    BY <2>1, <2>2
<1>9. g \in Injection(Slots, P)
  <2>1. g \in [Slots -> P]
    BY <1>8
  <2>2. ASSUME NEW a \in Slots, NEW b \in Slots, g[a] = g[b] PROVE a = b
    <3>1. a = <<a[1], a[2], a[3]>> /\ b = <<b[1], b[2], b[3]>>
      BY Zenon, SlotType
    <3>2. a[1] = b[1] /\ a[2] = b[2] /\ a[3] = b[3]
      BY <2>2
    <3> QED
      BY Zenon, <3>1, <3>2
  <2> HIDE DEF g, P
  <2> QED
    BY Zenon, <2>1, <2>2 DEF Injection, IsInjective
<1> HIDE DEF P, g
<1> QED
  BY <1>7, <1>9, FS_Injection
\* A position is a number.
LEMMA PosType ==
    ASSUME NEW d, NEW k
    PROVE  IsFiniteSet(Before(d, k)) /\ PosOf(d, k) \in Nat
<1>1. Before(d, k) \in SUBSET Slots
  BY DEF Before
<1>2. IsFiniteSet(Before(d, k))
  BY Zenon, <1>1, SlotsFinite, FS_Subset
<1> QED
  BY Zenon, <1>2, FS_CardinalityType DEF PosOf

\* The element sent of a slot.
LEMMA ElemType ==
    ASSUME NEW s \in Slots
    PROVE  ElemOf(s) \in Elements /\ ElemOf(s)[1] = Message(s) /\ ElemOf(s)[2] = At(s)
<1>1. Message(s) \in DOMAIN Album /\ s[3] \in 1 .. Buffer /\ PosOf(s[1], s[2]) \in Nat
  BY Zenon, SlotType, PosType
<1>2. At(s) \in Nat
  BY <1>1, BatchAssumption DEF At
<1> QED
  BY <1>1, <1>2 DEF ElemOf, Elements

\* The slots at a listed message.
Here(d, k) == {s \in Slots : s[1] = d /\ s[2] = k}

\* Each message of a group has its slot.
LEMMA SlotAt ==
    ASSUME NEW d, NEW k, Listed(d, k), NEW j \in DOMAIN Group(d, k)
    PROVE  /\ <<d, k, j>> \in Slots /\ <<d, k, j>> \in Here(d, k)
           /\ Message(<<d, k, j>>) = Group(d, k)[j]
           /\ ElemOf(<<d, k, j>>) = <<Group(d, k)[j], PosOf(d, k) + j - 1>>
<1>1. d \in Nat /\ k \in Nat /\ j \in Nat
  <2>1. d \in 1 .. Len(Dialogs) /\ k \in 1 .. Len(Dialogs[d]) /\ j \in 1 .. Len(Group(d, k))
    BY Zenon, GroupType
  <2> QED
    BY <2>1
<1>2. <<d, k, j>> \in Nat \X Nat \X Nat
  BY <1>1
<1>3. <<d, k, j>>[1] = d /\ <<d, k, j>>[2] = k /\ <<d, k, j>>[3] = j
  OBVIOUS
<1>4. <<d, k, j>> \in Slots
  BY Zenon, <1>2, <1>3 DEF Slots
<1> QED
  BY Zenon, <1>3, <1>4 DEF Here, Message, ElemOf, At

\* A listed message has as many slots as its group has messages.
LEMMA HereCount ==
    ASSUME NEW d, NEW k, Listed(d, k)
    PROVE  IsFiniteSet(Here(d, k)) /\ Cardinality(Here(d, k)) = Len(Group(d, k))
<1> DEFINE n == Len(Group(d, k))
<1> DEFINE J == 1 .. n
<1> DEFINE h == [j \in J |-> <<d, k, j>>]
<1>1. d \in Nat /\ k \in Nat /\ n \in Nat /\ n >= 1 /\ DOMAIN Group(d, k) = J
  BY GroupType, BatchAssumption
<1> HIDE DEF n
<1>2. IsFiniteSet(J) /\ Cardinality(J) = n
  <2>1. n \in Int
    BY <1>1
  <2>2. IsFiniteSet(J) /\ Cardinality(J) = IF 1 > n THEN 0 ELSE n - 1 + 1
    BY Zenon, <2>1, FS_Interval, OneIsInt
  <2> HIDE DEF J
  <2> QED
    BY <2>2, <1>1
<1>3. \A j \in J : h[j] \in Here(d, k)
  BY Zenon, <1>1, SlotAt
<1>4. \A s \in Here(d, k) : s[3] \in J /\ h[s[3]] = s
  <2> SUFFICES ASSUME NEW s \in Here(d, k) PROVE s[3] \in J /\ h[s[3]] = s
    OBVIOUS
  <2>1. s \in Slots /\ s[1] = d /\ s[2] = k
    BY Zenon DEF Here
  <2>2. s = <<s[1], s[2], s[3]>> /\ s[3] \in J
    BY Zenon, <2>1, SlotType DEF n
  <2> HIDE DEF J
  <2> QED
    BY Zenon, <2>1, <2>2
<1>5. h \in Bijection(J, Here(d, k))
  <2>1. h \in [J -> Here(d, k)]
    BY Zenon, <1>3
  <2>2. \A a, b \in J : h[a] = h[b] => a = b
    <3> HIDE DEF J
    <3> QED
      OBVIOUS
  <2>3. DOMAIN h = J
    BY Zenon
  <2> HIDE DEF h, J
  <2> QED
    BY Zenon, <2>1, <2>2, <2>3, <1>4 DEF Bijection, Injection, Surjection, IsInjective
<1>6. ExistsBijection(J, Here(d, k))
  <2> HIDE DEF h, J
  <2> QED
    BY Zenon, <1>5 DEF ExistsBijection
<1> HIDE DEF J
<1>7. IsFiniteSet(Here(d, k)) /\ Cardinality(Here(d, k)) = Cardinality(J)
  BY Zenon, <1>2, <1>6, FS_Bijection
<1> QED
  BY Zenon, <1>7, <1>2 DEF n

\* The position after a listed message's files.
LEMMA PosAfter ==
    ASSUME NEW d, NEW k, Listed(d, k), NEW S, S = Before(d, k) \cup Here(d, k)
    PROVE  IsFiniteSet(S) /\ Cardinality(S) = PosOf(d, k) + Len(Group(d, k))
<1>1. IsFiniteSet(Before(d, k)) /\ PosOf(d, k) \in Nat
  BY Zenon, PosType
<1>2. IsFiniteSet(Here(d, k)) /\ Cardinality(Here(d, k)) = Len(Group(d, k)) /\ Len(Group(d, k)) \in Nat
  BY HereCount, GroupType
<1>3. Before(d, k) \cap Here(d, k) = {}
  <2> SUFFICES ASSUME NEW s \in Before(d, k), s \in Here(d, k) PROVE FALSE
    OBVIOUS
  <2>1. s[1] \in Nat /\ s[2] \in Nat
    BY DEF Here, Slots
  <2> QED
    BY <2>1 DEF Before, Here
<1>4. /\ IsFiniteSet(S)
      /\ Cardinality(S) = Cardinality(Before(d, k)) + Cardinality(Here(d, k)) - Cardinality({})
  <2>1. /\ IsFiniteSet(Before(d, k) \cup Here(d, k))
        /\ Cardinality(Before(d, k) \cup Here(d, k))
              = Cardinality(Before(d, k)) + Cardinality(Here(d, k)) - Cardinality(Before(d, k) \cap Here(d, k))
    BY Zenon, <1>1, <1>2, FS_Union
  <2> QED
    BY Zenon, <2>1, <1>3
<1>5. Cardinality({}) = 0
  BY Zenon, FS_EmptySet
<1> QED
  BY <1>1, <1>2, <1>4, <1>5 DEF PosOf

\* A later slot has a later position.
LEMMA PosBefore ==
    ASSUME NEW s \in Slots, NEW t \in Slots, s[1] < t[1] \/ (s[1] = t[1] /\ s[2] < t[2])
    PROVE  At(s) < At(t)
<1> DEFINE S == Before(s[1], s[2]) \cup Here(s[1], s[2])
<1> DEFINE n == Len(Group(s[1], s[2]))
<1>1. /\ Listed(s[1], s[2]) /\ s[1] \in Nat /\ s[2] \in Nat /\ s[3] \in 1 .. n /\ n \in Nat
      /\ t[1] \in Nat /\ t[2] \in Nat /\ t[3] \in Nat /\ t[3] >= 1
  <2>1. Listed(s[1], s[2]) /\ s[3] \in 1 .. n /\ t[3] \in 1 .. Buffer
    BY Zenon, SlotType
  <2>2. n \in Nat
    BY <2>1, GroupType
  <2>3. s[1] \in Nat /\ s[2] \in Nat /\ t[1] \in Nat /\ t[2] \in Nat
    BY DEF Slots
  <2> HIDE DEF n
  <2> QED
    BY <2>1, <2>2, <2>3, BatchAssumption
<1>2. S \in SUBSET Before(t[1], t[2])
  <2> SUFFICES ASSUME NEW u \in S PROVE u \in Before(t[1], t[2])
    OBVIOUS
  <2>1. u \in Slots /\ (u[1] < s[1] \/ (u[1] = s[1] /\ (u[2] < s[2] \/ u[2] = s[2])))
    BY Zenon DEF Before, Here
  <2>2. u[1] \in Nat /\ u[2] \in Nat
    BY <2>1 DEF Slots
  <2>3. u[1] < t[1] \/ (u[1] = t[1] /\ u[2] < t[2])
    <3> HIDE DEF S
    <3> QED
      BY <2>1, <2>2, <1>1
  <2> QED
    BY Zenon, <2>1, <2>3 DEF Before
<1>3. Cardinality(S) = PosOf(s[1], s[2]) + n
  <2> HIDE DEF S
  <2>1. S = Before(s[1], s[2]) \cup Here(s[1], s[2])
    BY DEF S
  <2> QED
    BY Zenon, <2>1, <1>1, PosAfter
<1> HIDE DEF S, n
<1>4. Cardinality(S) <= PosOf(t[1], t[2])
  BY Zenon, <1>2, PosType, FS_Subset DEF PosOf
<1>5. PosOf(s[1], s[2]) \in Nat /\ PosOf(t[1], t[2]) \in Nat
  BY Zenon, PosType
<1> QED
  BY <1>1, <1>3, <1>4, <1>5 DEF At

\* Two slots have two positions, so a stored position stands for one file.
LEMMA PosDistinct ==
    ASSUME NEW s \in Slots, NEW t \in Slots, At(s) = At(t)
    PROVE  s = t
<1>1. At(s) \in Int
  <2>1. PosOf(s[1], s[2]) \in Nat /\ s[3] \in Nat
    BY PosType DEF Slots
  <2> QED
    BY <2>1 DEF At
<1>2. /\ s[1] \in Nat /\ s[2] \in Nat /\ t[1] \in Nat /\ t[2] \in Nat /\ s[3] \in Nat /\ t[3] \in Nat
      /\ s = <<s[1], s[2], s[3]>> /\ t = <<t[1], t[2], t[3]>>
  BY DEF Slots
<1>3. s[1] = t[1] /\ s[2] = t[2]
  <2>1. ~(At(s) < At(t)) /\ ~(At(t) < At(s))
    BY <1>1
  <2>2. ~(s[1] < t[1] \/ (s[1] = t[1] /\ s[2] < t[2])) /\ ~(t[1] < s[1] \/ (t[1] = s[1] /\ t[2] < s[2]))
    BY Zenon, <2>1, PosBefore
  <2> QED
    BY <2>2, <1>2
<1>4. s[3] = t[3]
  <2>1. PosOf(s[1], s[2]) \in Nat /\ PosOf(s[1], s[2]) = PosOf(t[1], t[2])
    BY Zenon, <1>3, PosType
  <2> QED
    BY <2>1, <1>2 DEF At
<1> QED
  BY Zenon, <1>2, <1>3, <1>4
-----------------------------------------------------------------------------
\* The types of the state.
Messages == DOMAIN Album
FilesType == [fetched : SUBSET Messages, lost : SUBSET Messages]
LoopPcs == {"idle", "next", "value", "sem", "wait"}
LoopResults == {"none", "ok", "error"}
LoopType ==
    [pc : LoopPcs, elem : Elements \cup {<< >>},
     cancelled : BOOLEAN, failed : BOOLEAN, result : LoopResults, runs : Nat]
IterType == [dialog : Nat, msg : Nat, pos : Nat, err : BOOLEAN]
GotType ==
    [fetched : SUBSET Messages, lost : SUBSET Messages, saved : FilesType,
     resumed : BOOLEAN, left : BOOLEAN]

BatchShape ==
    /\ it \in IterType /\ loop \in LoopType
    /\ elems \in Seq(Elements) /\ workers \subseteq Elements
    /\ got \in GotType
    /\ deleted \subseteq Messages /\ finished \subseteq Nat /\ resumeKey \subseteq Nat

\* A message of an album is deleted: its position is another's from now on.
AlbumLost == deleted \cap Albums # {}

\* The iterator is at a listed message or where the iteration ends, and counts the
\* files it has passed while no album has lost one.
Place(d, k) ==
    \/ Listed(d, k)
    \/ k = 1 /\ d \in 1 .. Len(Dialogs) + 1 /\ (d = Len(Dialogs) + 1 \/ Dialogs[d] = << >>)
IterPlaced ==
    /\ Place(it.dialog, it.msg)
    /\ ~it.err /\ ~AlbumLost => it.pos = PosOf(it.dialog, it.msg)

\* The elements in the channel, in the loop's hands and in the workers' have
\* positions the iterator has passed, and are of the list.
OnTheWay(e) ==
    \/ \E i \in DOMAIN elems : elems[i] = e
    \/ e \in workers
    \/ loop.pc = "sem" /\ e = loop.elem
OnTheWayListed ==
    \A e : OnTheWay(e)
            => e \in Elements /\ e[2] < it.pos /\ (AlbumLost \/ \E s \in Slots : e = ElemOf(s))

\* The positions passed over, and those of the stored record, are of files
\* fetched, or fetched and not placed, while no album has lost a message; a run
\* that continues none has them behind it.
FinishedHeld ==
    /\ AlbumLost \/ \A s \in Slots : At(s) \in finished => Message(s) \in got.fetched \cup got.lost
    /\ ~got.resumed => \A p \in finished : p < it.pos
RecordHeld ==
    AlbumLost \/ \A s \in Slots : At(s) \in resumeKey
                                    => Message(s) \in got.saved.fetched \cup got.saved.lost

\* While nothing excuses it, a file the iterator has passed is accounted for.
Excused == loop.failed \/ it.err \/ got.left \/ PositionsShift
Settled(s) ==
    Message(s) \in Media
        => \/ Message(s) \in got.fetched \cup got.lost \cup deleted
           \/ Dialogs[s[1]][s[2]] \in deleted
           \/ \E p : OnTheWay(<<Message(s), p>>)
PassedSettled ==
    loop.pc # "idle" /\ ~Excused => \A s \in Before(it.dialog, it.msg) : Settled(s)

\* Where the loop is, and what that says of the channel and of the result.
LoopPlaced ==
    /\ loop.pc = "idle" => workers = {}
    /\ loop.pc = "value" => elems # << >>
    /\ loop.pc = "wait" /\ ~Excused => AtEnd /\ elems = << >>
    /\ loop.result # "none" => loop.pc = "idle"

BatchInv ==
    /\ BatchShape /\ IterPlaced /\ OnTheWayListed /\ FinishedHeld /\ RecordHeld
    /\ PassedSettled /\ LoopPlaced /\ SendNeverBlocks /\ SuccessIsComplete

-----------------------------------------------------------------------------
\* The iterator's step: one listed message more is passed.
LEMMA AdvancePlaced ==
    ASSUME NEW i \in IterType, Listed(i.dialog, i.msg)
    PROVE  /\ Advance(i) \in IterType /\ Place(Advance(i).dialog, Advance(i).msg)
           /\ Advance(i).err = i.err /\ Advance(i).pos = i.pos
           /\ Before(Advance(i).dialog, Advance(i).msg)
                = Before(i.dialog, i.msg) \cup Here(i.dialog, i.msg)
<1> DEFINE d == i.dialog
<1> DEFINE k == i.msg
<1> DEFINE a == Advance(i)
<1>1. /\ d \in 1 .. Len(Dialogs) /\ k \in 1 .. Len(Dialogs[d]) /\ Len(Dialogs[d]) \in Nat
      /\ Len(Dialogs) \in Nat /\ DOMAIN Dialogs = 1 .. Len(Dialogs) /\ DOMAIN Dialogs[d] = 1 .. Len(Dialogs[d])
  <2>1. d \in 1 .. Len(Dialogs) /\ Dialogs[d] \in Seq(DOMAIN Album) /\ k \in 1 .. Len(Dialogs[d])
    BY GroupType
  <2>2. Dialogs \in Seq(Seq(DOMAIN Album))
    BY BatchAssumption
  <2> HIDE DEF d, k
  <2> QED
    BY <2>1, <2>2
<1>2. ASSUME NEW s \in Slots
      PROVE  /\ s[1] \in Nat /\ s[2] \in Nat
             /\ s[1] = d => s[2] <= Len(Dialogs[d])
             /\ s[2] >= 1
  <2>1. s[1] \in Nat /\ s[2] \in Nat
    BY DEF Slots
  <2>2. s[2] \in 1 .. Len(Dialogs[s[1]]) /\ Dialogs[s[1]] \in Seq(DOMAIN Album)
    BY SlotType, GroupType
  <2>3. Len(Dialogs[s[1]]) \in Nat
    BY <2>2
  <2> QED
    BY <2>1, <2>2, <2>3
<1>3. CASE k < Len(Dialogs[d])
  <2>1. a = [i EXCEPT !.msg = @ + 1]
    BY <1>3 DEF Advance
  <2>2. a \in IterType /\ a.dialog = d /\ a.msg = k + 1 /\ a.err = i.err /\ a.pos = i.pos
    BY <2>1 DEF IterType
  <2>3. Listed(d, k + 1)
    BY <1>1, <1>3 DEF Listed
  <2>4. Before(d, k + 1) = Before(d, k) \cup Here(d, k)
    <3> HIDE DEF d, k
    <3>1. \A s \in Slots : s[1] < d \/ (s[1] = d /\ s[2] < k + 1)
                <=> (s[1] < d \/ (s[1] = d /\ s[2] < k)) \/ (s[1] = d /\ s[2] = k)
      BY <1>1, <1>2
    <3> QED
      BY Zenon, <3>1 DEF Before, Here
  <2> HIDE DEF a
  <2>5. a \in IterType /\ Place(a.dialog, a.msg) /\ a.err = i.err /\ a.pos = i.pos
        /\ Before(a.dialog, a.msg) = Before(d, k) \cup Here(d, k)
    BY Zenon, <2>2, <2>3, <2>4 DEF Place
  <2> QED
    BY Zenon, <2>5 DEF a
<1>4. CASE ~(k < Len(Dialogs[d]))
  <2>1. a = [i EXCEPT !.dialog = @ + 1, !.msg = 1]
    BY <1>4 DEF Advance
  <2>2. a \in IterType /\ a.dialog = d + 1 /\ a.msg = 1 /\ a.err = i.err /\ a.pos = i.pos
    <3>1. /\ i.dialog \in Nat /\ i.msg \in Nat /\ i.pos \in Nat /\ i.err \in BOOLEAN
          /\ i = [dialog |-> i.dialog, msg |-> i.msg, pos |-> i.pos, err |-> i.err]
      BY DEF IterType
    <3>2. a = [dialog |-> i.dialog + 1, msg |-> 1, pos |-> i.pos, err |-> i.err]
      BY Zenon, <2>1, <3>1
    <3> HIDE DEF a
    <3> QED
      BY <3>1, <3>2 DEF IterType
  <2>3. Place(d + 1, 1)
    <3> HIDE DEF d, k
    <3>1. d + 1 \in 1 .. Len(Dialogs) + 1
      BY <1>1
    <3>2. CASE d = Len(Dialogs)
      BY Zenon, <3>1, <3>2 DEF Place
    <3>3. CASE d < Len(Dialogs)
      <4>1. d + 1 \in DOMAIN Dialogs
        BY <1>1, <3>3
      <4>2. Dialogs[d + 1] \in Seq(DOMAIN Album)
        BY <4>1, BatchAssumption
      <4>3. Dialogs[d + 1] # << >> => 1 \in DOMAIN Dialogs[d + 1]
        BY <4>2
      <4> QED
        BY Zenon, <3>1, <4>1, <4>3 DEF Place, Listed
    <3>4. d = Len(Dialogs) \/ d < Len(Dialogs)
      <4>1. Len(Dialogs) \in Nat /\ d \in 1 .. Len(Dialogs)
        BY Zenon, <1>1
      <4> DEFINE n == Len(Dialogs)
      <4>2. n \in Nat /\ d \in 1 .. n
        BY Zenon, <4>1
      <4> HIDE DEF n
      <4>3. d = n \/ d < n
        BY <4>2
      <4> QED
        BY Zenon, <4>3 DEF n
    <3> QED
      BY Zenon, <3>2, <3>3, <3>4
  <2>4. Before(d + 1, 1) = Before(d, k) \cup Here(d, k)
    <3> HIDE DEF d, k
    <3>1. \A s \in Slots : s[1] < d + 1 \/ (s[1] = d + 1 /\ s[2] < 1)
                <=> (s[1] < d \/ (s[1] = d /\ s[2] < k)) \/ (s[1] = d /\ s[2] = k)
      BY <1>1, <1>2, <1>4
    <3> QED
      BY Zenon, <3>1 DEF Before, Here
  <2> HIDE DEF a
  <2>5. a \in IterType /\ Place(a.dialog, a.msg) /\ a.err = i.err /\ a.pos = i.pos
        /\ Before(a.dialog, a.msg) = Before(d, k) \cup Here(d, k)
    BY Zenon, <2>2, <2>3, <2>4
  <2> QED
    BY Zenon, <2>5 DEF a
<1> QED
  BY Zenon, <1>3, <1>4
\* Before the end of the iteration the iterator is at a listed message.
LEMMA AtMessage ==
    ASSUME IterPlaced, it \in IterType
    PROVE  AtEnd \/ Listed(it.dialog, it.msg)
<1>1. it.dialog \in Nat /\ Len(Dialogs) \in Nat
  BY BatchAssumption DEF IterType
<1>2. CASE it.dialog = Len(Dialogs) + 1
  BY <1>1, <1>2 DEF AtEnd
<1>3. CASE it.msg = 1 /\ Dialogs[it.dialog] = << >>
  BY <1>3 DEF AtEnd
<1> QED
  BY Zenon, <1>2, <1>3 DEF IterPlaced, Place

\* The start of the list.
LEMMA StartPlaced ==
    /\ StartOfList \in IterType /\ Place(1, 1) /\ Before(1, 1) = {} /\ PosOf(1, 1) = 0
    /\ StartOfList.dialog = 1 /\ StartOfList.msg = 1 /\ StartOfList.pos = 0 /\ StartOfList.err = FALSE
<1>1. /\ StartOfList \in IterType
      /\ StartOfList.dialog = 1 /\ StartOfList.msg = 1 /\ StartOfList.pos = 0 /\ StartOfList.err = FALSE
  BY DEF StartOfList, IterType
<1>2. Place(1, 1)
  <2>1. 1 \in 1 .. Len(Dialogs) + 1
    BY BatchAssumption
  <2>2. CASE 1 \in DOMAIN Dialogs
    <3>1. Dialogs[1] \in Seq(DOMAIN Album)
      BY <2>2, BatchAssumption
    <3>2. Dialogs[1] # << >> => 1 \in DOMAIN Dialogs[1]
      BY <3>1
    <3> QED
      BY Zenon, <2>1, <2>2, <3>2 DEF Place, Listed
  <2>3. CASE 1 \notin DOMAIN Dialogs
    <3>1. 1 = Len(Dialogs) + 1
      BY <2>3, BatchAssumption
    <3> QED
      BY Zenon, <2>1, <3>1 DEF Place
  <2> QED
    BY Zenon, <2>2, <2>3
<1>3. Before(1, 1) = {}
  <2> SUFFICES ASSUME NEW s \in Before(1, 1) PROVE FALSE
    BY Zenon
  <2>1. s \in Slots /\ (s[1] < 1 \/ s[2] < 1)
    BY Zenon DEF Before
  <2>2. s[1] \in 1 .. Len(Dialogs) /\ s[2] \in 1 .. Len(Dialogs[s[1]])
    BY Zenon, <2>1, SlotType
  <2>3. s[1] \in Nat /\ s[2] \in Nat
    BY <2>1 DEF Slots
  <2>4. \A n : \A a \in 1 .. n : a >= 1
    OBVIOUS
  <2> QED
    BY <2>1, <2>2, <2>3, <2>4
<1>4. PosOf(1, 1) = 0
  BY Zenon, <1>3, FS_EmptySet DEF PosOf
<1> QED
  BY Zenon, <1>1, <1>2, <1>3, <1>4

\* The fields of the loop.
LEMMA LoopFields ==
    ASSUME NEW l \in LoopType
    PROVE  /\ l.pc \in LoopPcs /\ l.elem \in Elements \cup {<< >>}
           /\ l.cancelled \in BOOLEAN /\ l.failed \in BOOLEAN /\ l.result \in LoopResults
           /\ l.runs \in Nat
           /\ l = [pc |-> l.pc, elem |-> l.elem, cancelled |-> l.cancelled, failed |-> l.failed,
                   result |-> l.result, runs |-> l.runs]
  BY DEF LoopType

\* From l to m, at p with e in hand.
Goes(l, m, p, e) ==
    /\ m \in LoopType /\ m.pc = p /\ m.elem = e /\ m.cancelled = l.cancelled
    /\ m.failed = l.failed /\ m.result = l.result

\* The loop moves with the same element in hand.
LEMMA LoopGoes ==
    ASSUME NEW l \in LoopType, NEW p \in LoopPcs, NEW m, m = [l EXCEPT !.pc = p]
    PROVE  Goes(l, m, p, l.elem)
<1>1. m = [pc |-> p, elem |-> l.elem, cancelled |-> l.cancelled, failed |-> l.failed,
           result |-> l.result, runs |-> l.runs]
  <2>1. l = [pc |-> l.pc, elem |-> l.elem, cancelled |-> l.cancelled, failed |-> l.failed,
             result |-> l.result, runs |-> l.runs]
    BY Zenon, LoopFields
  <2> QED
    BY Zenon, <2>1
<1> QED
  BY <1>1, LoopFields DEF LoopType, Goes

\* The loop moves with another element in hand.
LEMMA LoopHolds ==
    ASSUME NEW l \in LoopType, NEW p \in LoopPcs, NEW e \in Elements \cup {<< >>},
           NEW m, m = [l EXCEPT !.pc = p, !.elem = e]
    PROVE  Goes(l, m, p, e)
<1>1. m = [pc |-> p, elem |-> e, cancelled |-> l.cancelled, failed |-> l.failed,
           result |-> l.result, runs |-> l.runs]
  <2>1. l = [pc |-> l.pc, elem |-> l.elem, cancelled |-> l.cancelled, failed |-> l.failed,
             result |-> l.result, runs |-> l.runs]
    BY Zenon, LoopFields
  <2> QED
    BY Zenon, <2>1
<1> QED
  BY <1>1, LoopFields DEF LoopType, Goes

\* The places of the loop.
LEMMA Pcs ==
    /\ "idle" \in LoopPcs /\ "next" \in LoopPcs /\ "value" \in LoopPcs
    /\ "sem" \in LoopPcs /\ "wait" \in LoopPcs
  BY DEF LoopPcs

\* A step that leaves the iterator's place, the positions and the record alone and
\* sends nothing.
LEMMA QuietStep ==
    ASSUME BatchInv,
           it'.dialog = it.dialog, it'.msg = it.msg, it'.pos = it.pos, it.err => it'.err,
           UNCHANGED <<finished, resumeKey>>, deleted \subseteq deleted',
           got'.fetched = got.fetched, got'.lost = got.lost, got'.saved = got.saved,
           got'.resumed = got.resumed, \A e : OnTheWay(e)' => OnTheWay(e)
    PROVE  /\ IterPlaced' /\ OnTheWayListed' /\ FinishedHeld' /\ RecordHeld'
           /\ ((loop'.pc # "idle" /\ ~Excused')
                  => loop.pc # "idle" /\ ~Excused /\ \A e : OnTheWay(e) => OnTheWay(e)')
                => PassedSettled'
<1>1. IterPlaced /\ OnTheWayListed /\ FinishedHeld /\ RecordHeld /\ PassedSettled
  BY Zenon DEF BatchInv
<1>0. AlbumLost => AlbumLost'
  BY DEF AlbumLost
<1>2. IterPlaced'
  BY Zenon, <1>0, <1>1 DEF IterPlaced
<1>3. OnTheWayListed'
  BY Zenon, <1>0, <1>1 DEF OnTheWayListed
<1>4. FinishedHeld' /\ RecordHeld'
  BY Zenon, <1>0, <1>1 DEF FinishedHeld, RecordHeld
<1>5. ASSUME loop.pc # "idle", ~Excused, \A e : OnTheWay(e) => OnTheWay(e)',
             NEW s \in Before(it.dialog, it.msg)
      PROVE  Settled(s)'
  <2>1. Settled(s)
    BY Zenon, <1>1, <1>5 DEF PassedSettled
  <2> QED
    BY Zenon, <2>1, <1>5 DEF Settled
<1> QED
  BY Zenon, <1>2, <1>3, <1>4, <1>5 DEF PassedSettled

\* A result stands: what it claims of the files only grows.
LEMMA ResultStands ==
    ASSUME SuccessIsComplete, loop'.result = "ok" => loop.result = "ok" /\ (got.left => got'.left),
           got.fetched \subseteq got'.fetched, got.lost \subseteq got'.lost, deleted \subseteq deleted',
           got'.resumed = got.resumed
    PROVE  SuccessIsComplete'
<1>1. PositionsShift => PositionsShift'
  BY DEF PositionsShift
<1>2. AllGot => AllGot'
  <2>1. Wanted' \subseteq Wanted
    BY DEF Wanted
  <2> QED
    BY <2>1 DEF AllGot
<1> QED
  BY Zenon, <1>1, <1>2 DEF SuccessIsComplete
\* The fields of the shape, one by one.
LEMMA ShapeFields ==
    ASSUME BatchShape
    PROVE  /\ it \in IterType /\ it.err \in BOOLEAN /\ loop \in LoopType /\ elems \in Seq(Elements)
           /\ workers \subseteq Elements /\ deleted \subseteq Messages
           /\ finished \subseteq Nat /\ resumeKey \subseteq Nat
           /\ got \in GotType
           /\ loop.cancelled \in BOOLEAN /\ loop.failed \in BOOLEAN /\ got.left \in BOOLEAN /\ got.resumed \in BOOLEAN
           /\ loop.elem \in Elements \cup {<< >>} /\ loop.runs \in Nat
  BY DEF BatchShape, IterType, LoopType, GotType

\* Steps of the loop between two places, and what they do to the rest.
LEMMA StepDone ==
    ASSUME BatchInv, loop.pc = "next", Done, it' = [it EXCEPT !.err = TRUE],
           loop' = [loop EXCEPT !.pc = "wait"],
           UNCHANGED <<elems, finished, workers, resumeKey, deleted, got>>
    PROVE  BatchInv'
<1>1. BatchShape /\ LoopPlaced /\ SendNeverBlocks /\ SuccessIsComplete
  BY Zenon DEF BatchInv
<1>2. /\ loop' \in LoopType /\ loop'.pc = "wait" /\ loop'.elem = loop.elem /\ loop'.failed = loop.failed
      /\ loop'.result = loop.result
  <2>1. loop \in LoopType
    BY Zenon, <1>1, ShapeFields
  <2>2. Goes(loop, loop', "wait", loop.elem)
    BY ZenonT(30), <2>1, Pcs, LoopGoes
  <2> QED
    BY Zenon, <2>2 DEF Goes
<1>3. /\ it' \in IterType /\ it'.dialog = it.dialog /\ it'.msg = it.msg /\ it'.pos = it.pos
      /\ it'.err = TRUE
  <2>1. it \in IterType
    BY Zenon, <1>1, ShapeFields
  <2> QED
    BY Zenon, <2>1 DEF IterType
<1>4. BatchShape'
  BY Zenon, <1>1, <1>2, <1>3 DEF BatchShape
<1>5. \A e : OnTheWay(e)' => OnTheWay(e)
  BY Zenon, <1>2 DEF OnTheWay
<1>6. Excused'
  BY Zenon, <1>3 DEF Excused, PositionsShift
<1>7. IterPlaced' /\ OnTheWayListed' /\ FinishedHeld' /\ RecordHeld' /\ PassedSettled'
  BY Zenon, <1>3, <1>5, <1>6, QuietStep
<1>8. LoopPlaced' /\ SendNeverBlocks'
  BY Zenon, <1>1, <1>2, <1>6 DEF LoopPlaced, AtEnd, SendNeverBlocks
<1>9. SuccessIsComplete'
  BY Zenon, <1>1, <1>2, ResultStands
<1> QED
  BY Zenon, <1>4, <1>7, <1>8, <1>9 DEF BatchInv

\* Next finds an element at hand, or the end of the list.
LEMMA StepAhead ==
    ASSUME BatchInv, loop.pc = "next",
           NEW p \in {"value", "wait"}, loop' = [loop EXCEPT !.pc = p],
           p = "value" => elems # << >>, p = "wait" => elems = << >> /\ AtEnd,
           UNCHANGED <<it, elems, finished, workers, resumeKey, deleted, got>>
    PROVE  BatchInv'
<1>1. BatchShape /\ LoopPlaced /\ SendNeverBlocks /\ SuccessIsComplete
  BY Zenon DEF BatchInv
<1>2. /\ loop' \in LoopType /\ loop'.pc = p /\ loop'.elem = loop.elem /\ loop'.failed = loop.failed
      /\ loop'.result = loop.result
  <2>1. loop \in LoopType
    BY Zenon, <1>1, ShapeFields
  <2>2. Goes(loop, loop', p, loop.elem)
    BY ZenonT(30), <2>1, Pcs, LoopGoes
  <2> QED
    BY Zenon, <2>2 DEF Goes
<1>3. BatchShape'
  BY Zenon, <1>1, <1>2 DEF BatchShape
<1>4. \A e : OnTheWay(e)' <=> OnTheWay(e)
  BY Zenon, <1>2 DEF OnTheWay
<1>5. Excused' <=> Excused
  BY Zenon, <1>2 DEF Excused, PositionsShift
<1>6. IterPlaced' /\ OnTheWayListed' /\ FinishedHeld' /\ RecordHeld' /\ PassedSettled'
  BY Zenon, <1>2, <1>4, <1>5, QuietStep
<1>7. LoopPlaced' /\ SendNeverBlocks'
  BY Zenon, <1>1, <1>2 DEF LoopPlaced, AtEnd, SendNeverBlocks
<1>8. SuccessIsComplete'
  BY Zenon, <1>1, <1>2, ResultStands
<1> QED
  BY Zenon, <1>3, <1>6, <1>7, <1>8 DEF BatchInv

\* The channel without its head.
LEMMA HeadTail ==
    ASSUME NEW S, NEW q \in Seq(S), q # << >>
    PROVE  /\ Tail(q) \in Seq(S) /\ Len(Tail(q)) <= Len(q) /\ Head(q) \in S
           /\ \A e : (\E i \in DOMAIN q : q[i] = e)
                        <=> e = Head(q) \/ \E i \in DOMAIN Tail(q) : Tail(q)[i] = e
<1>1. Len(q) \in Nat \ {0} /\ DOMAIN q = 1 .. Len(q)
  OBVIOUS
<1>2. /\ Tail(q) \in Seq(S) /\ Len(Tail(q)) = Len(q) - 1 /\ DOMAIN Tail(q) = 1 .. Len(q) - 1
      /\ Head(q) = q[1] /\ Head(q) \in S /\ \A i \in 1 .. Len(q) - 1 : Tail(q)[i] = q[i + 1]
  BY <1>1
<1>3. ASSUME NEW i \in DOMAIN q, i # 1 PROVE i - 1 \in DOMAIN Tail(q) /\ Tail(q)[i - 1] = q[i]
  BY <1>1, <1>2, <1>3
<1>4. \A i \in DOMAIN Tail(q) : i + 1 \in DOMAIN q /\ Tail(q)[i] = q[i + 1]
  BY <1>1, <1>2
<1>5. 1 \in DOMAIN q /\ Len(Tail(q)) <= Len(q)
  BY <1>1, <1>2
<1>6. ASSUME NEW i \in DOMAIN q PROVE q[i] = Head(q) \/ \E j \in DOMAIN Tail(q) : Tail(q)[j] = q[i]
  <2>1. CASE i = 1
    BY Zenon, <2>1, <1>2
  <2>2. CASE i # 1
    BY Zenon, <2>2, <1>3
  <2> QED
    BY Zenon, <2>1, <2>2
<1>7. ASSUME NEW i \in DOMAIN Tail(q) PROVE \E j \in DOMAIN q : q[j] = Tail(q)[i]
  BY Zenon, <1>4
<1> QED
  BY Zenon, <1>2, <1>5, <1>6, <1>7
\* Value hands the head of the channel to the loop.
LEMMA StepTakeElem == BatchInv /\ TakeElem => BatchInv'
<1> SUFFICES ASSUME BatchInv, TakeElem PROVE BatchInv'
  OBVIOUS
<1>1. BatchShape /\ LoopPlaced /\ SendNeverBlocks /\ SuccessIsComplete
  BY Zenon DEF BatchInv
<1>2. /\ loop.pc = "value" /\ loop' = [loop EXCEPT !.pc = "sem", !.elem = Head(elems)] /\ elems' = Tail(elems)
      /\ UNCHANGED <<it, finished, workers, resumeKey, deleted, got>>
  BY Zenon DEF TakeElem
<1>3. elems \in Seq(Elements) /\ elems # << >> /\ Len(elems) \in Nat /\ Len(elems') \in Nat
  <2>1. elems \in Seq(Elements) /\ elems # << >>
    BY Zenon, <1>1, <1>2, ShapeFields DEF LoopPlaced, AtEnd
  <2> QED
    BY <2>1, <1>2
<1>4. /\ elems' \in Seq(Elements) /\ Len(elems') <= Len(elems) /\ Head(elems) \in Elements
      /\ \A e : (\E i \in DOMAIN elems : elems[i] = e) <=> e = Head(elems) \/ \E i \in DOMAIN elems' : elems'[i] = e
  <2>1. /\ Tail(elems) \in Seq(Elements) /\ Len(Tail(elems)) <= Len(elems) /\ Head(elems) \in Elements
        /\ \A e : (\E i \in DOMAIN elems : elems[i] = e)
                     <=> e = Head(elems) \/ \E i \in DOMAIN Tail(elems) : Tail(elems)[i] = e
    BY Zenon, <1>3, HeadTail
  <2> QED
    BY Zenon, <2>1, <1>2
<1>5. Goes(loop, loop', "sem", Head(elems))
  <2>1. loop \in LoopType /\ Head(elems) \in Elements \cup {<< >>}
    BY Zenon, <1>1, <1>4, ShapeFields
  <2> QED
    BY ZenonT(30), <2>1, <1>2, Pcs, LoopHolds
<1>6. BatchShape'
  BY Zenon, <1>1, <1>2, <1>4, <1>5 DEF BatchShape, Goes
<1>7. \A e : OnTheWay(e)' <=> OnTheWay(e)
  BY Zenon, <1>2, <1>4, <1>5 DEF OnTheWay, Goes
<1>8. Excused' <=> Excused
  BY Zenon, <1>2, <1>5 DEF Excused, PositionsShift, Goes
<1>9. IterPlaced' /\ OnTheWayListed' /\ FinishedHeld' /\ RecordHeld' /\ PassedSettled'
  BY Zenon, <1>2, <1>7, <1>8, QuietStep
<1>10. LoopPlaced'
  BY Zenon, <1>1, <1>2, <1>5 DEF LoopPlaced, AtEnd, Goes
<1>11. SendNeverBlocks'
  BY <1>1, <1>3, <1>4, BatchAssumption DEF SendNeverBlocks
<1>12. SuccessIsComplete'
  BY Zenon, <1>1, <1>2, <1>5, ResultStands DEF Goes
<1> QED
  BY Zenon, <1>6, <1>9, <1>10, <1>11, <1>12 DEF BatchInv

\* The element in hand becomes a worker's.
LEMMA StepStartWorker == BatchInv /\ StartWorker => BatchInv'
<1> SUFFICES ASSUME BatchInv, StartWorker PROVE BatchInv'
  OBVIOUS
<1>1. BatchShape /\ LoopPlaced /\ SendNeverBlocks /\ SuccessIsComplete /\ OnTheWayListed
  BY Zenon DEF BatchInv
<1>2. /\ loop.pc = "sem" /\ loop' = [loop EXCEPT !.pc = "next", !.elem = << >>]
      /\ workers' = workers \cup {loop.elem}
      /\ UNCHANGED <<it, elems, finished, resumeKey, deleted, got>>
  BY Zenon DEF StartWorker
<1>3. Goes(loop, loop', "next", << >>)
  <2>1. loop \in LoopType /\ << >> \in Elements \cup {<< >>}
    BY Zenon, <1>1, ShapeFields
  <2> QED
    BY ZenonT(30), <2>1, <1>2, Pcs, LoopHolds
<1>4. workers' \subseteq Elements
  <2>1. loop.elem \in Elements
    BY Zenon, <1>1, <1>2 DEF OnTheWayListed, OnTheWay
  <2> QED
    BY Zenon, <2>1, <1>1, <1>2, ShapeFields
<1>5. BatchShape'
  BY Zenon, <1>1, <1>2, <1>3, <1>4 DEF BatchShape, Goes
<1>6. \A e : OnTheWay(e)' <=> OnTheWay(e)
  BY Zenon, <1>2, <1>3 DEF OnTheWay, Goes
<1>7. Excused' <=> Excused
  BY Zenon, <1>2, <1>3 DEF Excused, PositionsShift, Goes
<1>8. IterPlaced' /\ OnTheWayListed' /\ FinishedHeld' /\ RecordHeld' /\ PassedSettled'
  BY Zenon, <1>2, <1>6, <1>7, QuietStep
<1>9. LoopPlaced' /\ SendNeverBlocks'
  BY Zenon, <1>1, <1>2, <1>3 DEF LoopPlaced, AtEnd, Goes, SendNeverBlocks
<1>10. SuccessIsComplete'
  BY Zenon, <1>1, <1>2, <1>3, ResultStands DEF Goes
<1> QED
  BY Zenon, <1>5, <1>8, <1>9, <1>10 DEF BatchInv

\* The loop is left on a cancellation, of the user or of a worker that failed.
LEMMA StepLeaveLoop == BatchInv /\ LeaveLoop => BatchInv'
<1> SUFFICES ASSUME BatchInv, LeaveLoop PROVE BatchInv'
  OBVIOUS
<1>1. BatchShape /\ LoopPlaced /\ SendNeverBlocks /\ SuccessIsComplete
  BY Zenon DEF BatchInv
<1>2. /\ loop.pc = "sem" /\ Done /\ loop' = [loop EXCEPT !.pc = "wait", !.elem = << >>] /\ elems' = << >>
      /\ got' = [got EXCEPT !.left = loop.cancelled]
      /\ UNCHANGED <<it, finished, workers, resumeKey, deleted>>
  BY Zenon DEF LeaveLoop
<1>3. Goes(loop, loop', "wait", << >>)
  <2>1. loop \in LoopType /\ << >> \in Elements \cup {<< >>}
    BY Zenon, <1>1, ShapeFields
  <2> QED
    BY ZenonT(30), <2>1, <1>2, Pcs, LoopHolds
<1>4. /\ got' \in GotType
      /\ got'.fetched = got.fetched /\ got'.lost = got.lost /\ got'.saved = got.saved
      /\ got'.left = loop.cancelled /\ got'.resumed = got.resumed
  BY <1>1, <1>2, ShapeFields DEF GotType
<1>5. elems' \in Seq(Elements) /\ DOMAIN elems' = {} /\ Len(elems') <= Buffer
  BY <1>2, BatchAssumption
<1>6. BatchShape'
  BY Zenon, <1>1, <1>2, <1>3, <1>4, <1>5 DEF BatchShape, Goes
<1>7. \A e : OnTheWay(e)' => OnTheWay(e)
  BY Zenon, <1>2, <1>3, <1>5 DEF OnTheWay, Goes
<1>8. Excused'
  BY Zenon, <1>2, <1>3, <1>4 DEF Excused, PositionsShift, Goes, Done
<1>9. IterPlaced' /\ OnTheWayListed' /\ FinishedHeld' /\ RecordHeld' /\ PassedSettled'
  BY Zenon, <1>2, <1>4, <1>7, <1>8, QuietStep
<1>10. LoopPlaced' /\ SendNeverBlocks'
  BY Zenon, <1>1, <1>2, <1>3, <1>5, <1>8 DEF LoopPlaced, AtEnd, Goes, SendNeverBlocks
<1>11. SuccessIsComplete'
  BY Zenon, <1>1, <1>2, <1>3 DEF SuccessIsComplete, LoopPlaced, Goes
<1> QED
  BY Zenon, <1>6, <1>9, <1>10, <1>11 DEF BatchInv
\* A worker fails and excuses what is not fetched.
LEMMA StepWorkerFails == ASSUME NEW e \in workers PROVE BatchInv /\ WorkerFails(e) => BatchInv'
<1> SUFFICES ASSUME BatchInv, WorkerFails(e) PROVE BatchInv'
  OBVIOUS
<1>1. BatchShape /\ LoopPlaced /\ SendNeverBlocks /\ SuccessIsComplete
  BY Zenon DEF BatchInv
<1>2. /\ workers' = workers \ {e} /\ loop' = [loop EXCEPT !.failed = TRUE]
      /\ UNCHANGED <<it, elems, finished, resumeKey, deleted, got>>
  BY Zenon DEF WorkerFails
<1>3. /\ loop' \in LoopType /\ loop'.pc = loop.pc /\ loop'.elem = loop.elem /\ loop'.failed = TRUE
      /\ loop'.result = loop.result
  <2>1. loop \in LoopType
    BY Zenon, <1>1, ShapeFields
  <2> QED
    BY Zenon, <2>1, <1>2 DEF LoopType
<1>4. BatchShape'
  BY Zenon, <1>1, <1>2, <1>3 DEF BatchShape
<1>5. \A x : OnTheWay(x)' => OnTheWay(x)
  BY Zenon, <1>2, <1>3 DEF OnTheWay
<1>6. Excused'
  BY Zenon, <1>3 DEF Excused, PositionsShift
<1>7. IterPlaced' /\ OnTheWayListed' /\ FinishedHeld' /\ RecordHeld' /\ PassedSettled'
  BY Zenon, <1>2, <1>5, <1>6, QuietStep
<1>8. LoopPlaced' /\ SendNeverBlocks'
  BY Zenon, <1>1, <1>2, <1>3, <1>6 DEF LoopPlaced, AtEnd, SendNeverBlocks
<1>9. SuccessIsComplete'
  BY Zenon, <1>1, <1>2, <1>3, ResultStands
<1> QED
  BY Zenon, <1>4, <1>7, <1>8, <1>9 DEF BatchInv

\* The user cancels.
LEMMA StepCancelBatch == BatchInv /\ CancelBatch => BatchInv'
<1> SUFFICES ASSUME BatchInv, CancelBatch PROVE BatchInv'
  OBVIOUS
<1>1. BatchShape /\ LoopPlaced /\ SendNeverBlocks /\ SuccessIsComplete
  BY Zenon DEF BatchInv
<1>2. /\ loop' = [loop EXCEPT !.cancelled = TRUE]
      /\ UNCHANGED <<it, elems, finished, workers, resumeKey, deleted, got>>
  BY Zenon DEF CancelBatch
<1>3. /\ loop' \in LoopType /\ loop'.pc = loop.pc /\ loop'.elem = loop.elem /\ loop'.failed = loop.failed
      /\ loop'.result = loop.result
  <2>1. loop \in LoopType
    BY Zenon, <1>1, ShapeFields
  <2> QED
    BY Zenon, <2>1, <1>2 DEF LoopType
<1>4. BatchShape'
  BY Zenon, <1>1, <1>2, <1>3 DEF BatchShape
<1>5. \A x : OnTheWay(x)' <=> OnTheWay(x)
  BY Zenon, <1>2, <1>3 DEF OnTheWay
<1>6. Excused' <=> Excused
  BY Zenon, <1>2, <1>3 DEF Excused, PositionsShift
<1>7. IterPlaced' /\ OnTheWayListed' /\ FinishedHeld' /\ RecordHeld' /\ PassedSettled'
  BY Zenon, <1>2, <1>3, <1>5, <1>6, QuietStep
<1>8. LoopPlaced' /\ SendNeverBlocks'
  BY Zenon, <1>1, <1>2, <1>3, <1>6 DEF LoopPlaced, AtEnd, SendNeverBlocks
<1>9. SuccessIsComplete'
  BY Zenon, <1>1, <1>2, <1>3, ResultStands
<1> QED
  BY Zenon, <1>4, <1>7, <1>8, <1>9 DEF BatchInv

\* A message is deleted on the server.
LEMMA StepDeleteMessage == ASSUME NEW m \in Messages PROVE BatchInv /\ DeleteMessage(m) => BatchInv'
<1> SUFFICES ASSUME BatchInv, DeleteMessage(m) PROVE BatchInv'
  OBVIOUS
<1>1. BatchShape /\ LoopPlaced /\ SendNeverBlocks /\ SuccessIsComplete
  BY Zenon DEF BatchInv
<1>2. deleted' = deleted \cup {m} /\ UNCHANGED <<it, elems, finished, loop, workers, resumeKey, got>>
  BY Zenon DEF DeleteMessage
<1>3. BatchShape'
  BY Zenon, <1>1, <1>2 DEF BatchShape
<1>4. \A x : OnTheWay(x)' <=> OnTheWay(x)
  BY Zenon, <1>2 DEF OnTheWay
<1>5. Excused => Excused'
  <2>1. PositionsShift => PositionsShift'
    BY <1>2 DEF PositionsShift
  <2> QED
    BY Zenon, <1>2, <2>1 DEF Excused
<1>6. IterPlaced' /\ OnTheWayListed' /\ FinishedHeld' /\ RecordHeld' /\ PassedSettled'
  BY Zenon, <1>2, <1>4, <1>5, QuietStep
<1>7. LoopPlaced' /\ SendNeverBlocks'
  BY Zenon, <1>1, <1>2, <1>5 DEF LoopPlaced, AtEnd, SendNeverBlocks
<1>8. SuccessIsComplete'
  BY Zenon, <1>1, <1>2, ResultStands
<1> QED
  BY Zenon, <1>3, <1>6, <1>7, <1>8 DEF BatchInv

\* The list is left with an error of the iterator.
LEMMA StepProcessFails == BatchInv /\ ProcessFails => BatchInv'
<1> SUFFICES ASSUME BatchInv, ProcessFails PROVE BatchInv'
  OBVIOUS
<1>1. /\ BatchShape /\ LoopPlaced /\ SendNeverBlocks /\ SuccessIsComplete
      /\ IterPlaced /\ OnTheWayListed /\ FinishedHeld /\ RecordHeld
  BY Zenon DEF BatchInv
<1>2. /\ loop.pc = "next" /\ ~AtEnd /\ it' = [Advance(it) EXCEPT !.err = TRUE]
      /\ loop' = [loop EXCEPT !.pc = "wait"]
      /\ UNCHANGED <<elems, finished, workers, resumeKey, deleted, got>>
  BY Zenon DEF ProcessFails
<1>3. it \in IterType /\ Listed(it.dialog, it.msg)
  BY Zenon, <1>1, <1>2, ShapeFields, AtMessage
<1>4. Advance(it) \in IterType /\ Place(Advance(it).dialog, Advance(it).msg) /\ Advance(it).pos = it.pos
  BY Zenon, <1>3, AdvancePlaced
<1>5. it' \in IterType /\ it'.err = TRUE /\ Place(it'.dialog, it'.msg) /\ it'.pos = it.pos
  <2> DEFINE a == Advance(it)
  <2>1. it' = [a EXCEPT !.err = TRUE] /\ a \in IterType
    BY Zenon, <1>2, <1>4
  <2> HIDE DEF a
  <2>2. it' \in IterType /\ it'.err = TRUE /\ it'.dialog = a.dialog /\ it'.msg = a.msg /\ it'.pos = a.pos
    BY Zenon, <2>1 DEF IterType
  <2> QED
    BY Zenon, <2>2, <1>4 DEF a
<1>6. Goes(loop, loop', "wait", loop.elem)
  <2>1. loop \in LoopType
    BY Zenon, <1>1, ShapeFields
  <2> QED
    BY ZenonT(30), <2>1, <1>2, Pcs, LoopGoes
<1>7. BatchShape'
  BY Zenon, <1>1, <1>2, <1>5, <1>6 DEF BatchShape, Goes
<1>8. \A x : OnTheWay(x)' => OnTheWay(x)
  BY Zenon, <1>2, <1>6 DEF OnTheWay, Goes
<1>9. Excused'
  BY Zenon, <1>5 DEF Excused, PositionsShift
<1>10. IterPlaced' /\ OnTheWayListed' /\ FinishedHeld' /\ RecordHeld' /\ PassedSettled'
  BY Zenon, <1>1, <1>2, <1>5, <1>8, <1>9
  DEF IterPlaced, OnTheWayListed, FinishedHeld, RecordHeld, PassedSettled, AlbumLost
<1>11. LoopPlaced' /\ SendNeverBlocks'
  BY Zenon, <1>1, <1>2, <1>6, <1>9 DEF LoopPlaced, AtEnd, SendNeverBlocks, Goes
<1>12. SuccessIsComplete'
  BY Zenon, <1>1, <1>2, <1>6, ResultStands DEF Goes
<1> QED
  BY Zenon, <1>7, <1>10, <1>11, <1>12 DEF BatchInv
\* A worker is done: its file is held, and perhaps its position finished.
LEMMA StepWorkerDone == ASSUME NEW e \in workers PROVE BatchInv /\ WorkerDone(e) => BatchInv'
<1> SUFFICES ASSUME BatchInv, WorkerDone(e) PROVE BatchInv'
  OBVIOUS
<1>1. /\ BatchShape /\ LoopPlaced /\ SendNeverBlocks /\ SuccessIsComplete
      /\ IterPlaced /\ OnTheWayListed /\ FinishedHeld /\ RecordHeld /\ PassedSettled
  BY Zenon DEF BatchInv
<1>2. /\ workers' = workers \ {e} /\ UNCHANGED <<it, elems, loop, resumeKey, deleted>>
      /\ finished' = finished \/ finished' = finished \cup {e[2]}
      /\ \/ got' = [got EXCEPT !.fetched = @ \cup {e[1]}]
         \/ got' = [got EXCEPT !.lost = @ \cup {e[1]}]
  BY Zenon DEF WorkerDone
<1>3. e \in Elements /\ e[2] < it.pos /\ (AlbumLost \/ \E t \in Slots : e = ElemOf(t))
  BY Zenon, <1>1 DEF OnTheWayListed, OnTheWay
<1>4. e[1] \in Messages /\ e[2] \in Nat
  BY <1>3 DEF Elements, Messages
<1>5. /\ got' \in GotType
      /\ got.fetched \subseteq got'.fetched /\ got.lost \subseteq got'.lost /\ got'.saved = got.saved
      /\ got'.left = got.left /\ got'.resumed = got.resumed /\ e[1] \in got'.fetched \cup got'.lost
  <2>1. got \in GotType
    BY Zenon, <1>1, ShapeFields
  <2> DEFINE m == e[1]
  <2>2. /\ m \in Messages
        /\ \/ got' = [got EXCEPT !.fetched = @ \cup {m}]
           \/ got' = [got EXCEPT !.lost = @ \cup {m}]
    BY Zenon, <1>2, <1>4
  <2> HIDE DEF m
  <2>3. /\ got' \in GotType
        /\ got.fetched \subseteq got'.fetched /\ got.lost \subseteq got'.lost /\ got'.saved = got.saved
        /\ got'.left = got.left /\ got'.resumed = got.resumed /\ m \in got'.fetched \cup got'.lost
    BY <2>1, <2>2 DEF GotType
  <2> QED
    BY Zenon, <2>3 DEF m
<1>6. BatchShape'
  BY Zenon, <1>1, <1>2, <1>4, <1>5 DEF BatchShape
<1>7. \A x : OnTheWay(x)' => OnTheWay(x)
  BY Zenon, <1>2 DEF OnTheWay
<1>8. IterPlaced' /\ OnTheWayListed' /\ RecordHeld'
  BY Zenon, <1>1, <1>2, <1>5, <1>7 DEF IterPlaced, OnTheWayListed, RecordHeld, AlbumLost
<1>9. FinishedHeld'
  <2>1. ASSUME ~AlbumLost, NEW s \in Slots, At(s) \in finished'
        PROVE  Message(s) \in got'.fetched \cup got'.lost
    <3>1. CASE At(s) \in finished
      BY Zenon, <3>1, <2>1, <1>1, <1>5 DEF FinishedHeld
    <3>2. CASE At(s) = e[2]
      <4>1. PICK t \in Slots : e = ElemOf(t)
        BY Zenon, <2>1, <1>3
      <4>2. e[1] = Message(t) /\ e[2] = At(t)
        BY Zenon, <4>1, ElemType
      <4>3. s = t
        BY Zenon, <4>2, <3>2, PosDistinct
      <4> QED
        BY Zenon, <4>2, <4>3, <1>5
    <3> QED
      BY Zenon, <3>1, <3>2, <2>1, <1>2
  <2>2. ASSUME ~got.resumed, NEW p \in finished' PROVE p < it.pos
    BY Zenon, <2>2, <1>1, <1>2, <1>3 DEF FinishedHeld
  <2> QED
    BY Zenon, <2>1, <2>2, <1>2, <1>5 DEF FinishedHeld, AlbumLost
<1>10. PassedSettled'
  <2> SUFFICES ASSUME loop.pc # "idle", ~Excused, NEW s \in Before(it.dialog, it.msg) PROVE Settled(s)'
    BY Zenon, <1>2, <1>5 DEF PassedSettled, Excused, PositionsShift
  <2>1. Settled(s)
    BY Zenon, <1>1 DEF PassedSettled
  <2>2. ASSUME NEW p, OnTheWay(<<Message(s), p>>)
        PROVE  OnTheWay(<<Message(s), p>>)' \/ Message(s) \in got'.fetched \cup got'.lost
    <3>1. CASE <<Message(s), p>> = e
      <4>1. e[1] = Message(s)
        BY <3>1
      <4> QED
        BY Zenon, <4>1, <1>5
    <3>2. CASE <<Message(s), p>> # e
      BY Zenon, <3>2, <2>2, <1>2 DEF OnTheWay
    <3> QED
      BY Zenon, <3>1, <3>2
  <2> QED
    BY Zenon, <2>1, <2>2, <1>2, <1>5 DEF Settled
<1>11. LoopPlaced' /\ SendNeverBlocks'
  BY Zenon, <1>1, <1>2, <1>5 DEF LoopPlaced, AtEnd, SendNeverBlocks, Excused, PositionsShift
<1>12. SuccessIsComplete'
  BY Zenon, <1>1, <1>2, <1>5, ResultStands
<1> QED
  BY Zenon, <1>6, <1>8, <1>9, <1>10, <1>11, <1>12 DEF BatchInv

\* The loop of a new run.
LEMMA StartFields ==
    ASSUME NEW n \in Nat, NEW m, m = [LoopIdle EXCEPT !.pc = "next", !.runs = n]
    PROVE  m \in LoopType /\ m.pc = "next" /\ m.result = "none" /\ m.elem = << >> /\ m.failed = FALSE
  BY Zenon, Pcs DEF LoopIdle, LoopType, LoopResults

LoopEnded(res, n) == [LoopIdle EXCEPT !.result = res, !.runs = n]

\* The loop that has ended.
LEMMA EndFields ==
    ASSUME NEW n \in Nat, NEW res \in LoopResults
    PROVE  LoopEnded(res, n) \in LoopType /\ LoopEnded(res, n).pc = "idle" /\ LoopEnded(res, n).result = res
<1>1. ASSUME NEW m, m = [LoopIdle EXCEPT !.result = res, !.runs = n]
      PROVE  m \in LoopType /\ m.pc = "idle" /\ m.result = res
  BY Zenon, <1>1, Pcs DEF LoopIdle, LoopType
<1> QED
  BY Zenon, <1>1 DEF LoopEnded

\* The loop that was killed.
LEMMA KillFields ==
    ASSUME NEW n \in Nat, NEW m, m = [LoopIdle EXCEPT !.runs = n]
    PROVE  m \in LoopType /\ m.pc = "idle" /\ m.result = "none"
  BY Zenon, Pcs DEF LoopIdle, LoopType, LoopResults

\* A run that has nothing but the record.
LEMMA RecordOnly ==
    ASSUME NEW v \in FilesType, NEW g,
           g = [fetched |-> {}, lost |-> {}, saved |-> v, resumed |-> FALSE, left |-> FALSE]
    PROVE  g \in GotType /\ g.saved = v /\ g.resumed = FALSE
  BY DEF GotType

\* What a kill and --restart leave.
LEMMA NothingFields ==
    ASSUME NEW v \in FilesType, NEW g, g = [NothingGot EXCEPT !.saved = v]
    PROVE  g \in GotType /\ g.saved = v /\ g.resumed = FALSE
<1>1. g = [fetched |-> {}, lost |-> {}, saved |-> v, resumed |-> FALSE, left |-> FALSE]
  BY Zenon DEF NothingGot
<1> QED
  BY Zenon, <1>1, RecordOnly

\* After a kill only the record is left.
LEMMA StepKillBatch == BatchInv /\ KillBatch => BatchInv'
<1> SUFFICES ASSUME BatchInv, KillBatch PROVE BatchInv'
  OBVIOUS
<1>1. BatchShape /\ RecordHeld
  BY Zenon DEF BatchInv
<1>2. /\ loop' = [LoopIdle EXCEPT !.runs = loop.runs]
      /\ it' = StartOfList /\ elems' = << >> /\ finished' = {} /\ workers' = {}
      /\ got' = [NothingGot EXCEPT !.saved = got.saved] /\ UNCHANGED <<resumeKey, deleted>>
  BY Zenon DEF KillBatch
<1>3. loop' \in LoopType /\ loop'.pc = "idle" /\ loop'.result = "none"
  <2>1. loop.runs \in Nat
    BY Zenon, <1>1, ShapeFields
  <2> QED
    BY Zenon, <2>1, <1>2, KillFields
<1>4. elems' \in Seq(Elements) /\ DOMAIN elems' = {} /\ Len(elems') <= Buffer
  BY <1>2, BatchAssumption
<1>8. got' \in GotType /\ got'.saved = got.saved
  <2>1. got.saved \in FilesType
    BY <1>1, ShapeFields DEF GotType
  <2> QED
    BY Zenon, <2>1, <1>2, NothingFields
<1>5. BatchShape'
  BY Zenon, <1>1, <1>2, <1>3, <1>4, <1>8, StartPlaced DEF BatchShape
<1>6. IterPlaced' /\ OnTheWayListed' /\ FinishedHeld' /\ RecordHeld' /\ PassedSettled'
  BY Zenon, <1>1, <1>2, <1>3, <1>4, <1>8, StartPlaced
  DEF IterPlaced, OnTheWayListed, OnTheWay, FinishedHeld, RecordHeld, PassedSettled, AlbumLost
<1>7. LoopPlaced' /\ SendNeverBlocks' /\ SuccessIsComplete'
  BY Zenon, <1>2, <1>3, <1>4 DEF LoopPlaced, AtEnd, SendNeverBlocks, SuccessIsComplete
<1> QED
  BY Zenon, <1>5, <1>6, <1>7 DEF BatchInv
\* A wanted file has a slot, in a dialog the iteration comes to.
LEMMA WantedSlots ==
    ASSUME NEW m \in Wanted
    PROVE  /\ m \in Media
           /\ \E s \in Slots : /\ m = Message(s) /\ Dialogs[s[1]][s[2]] \notin deleted
                               /\ \A c \in 1 .. s[1] : Dialogs[c] # << >>
<1>1. m \in Media /\ \E l \in Iterated \ deleted : m \in Range(GroupOf(l))
  BY DEF Wanted
<1>2. PICK l \in Iterated \ deleted : m \in Range(GroupOf(l))
  BY Zenon, <1>1
<1>3. PICK d \in DOMAIN Dialogs : (\A c \in 1 .. d : Dialogs[c] # << >>) /\ l \in Range(Dialogs[d])
  BY <1>2 DEF Iterated
<1>4. PICK k \in DOMAIN Dialogs[d] : l = Dialogs[d][k]
  BY Zenon, <1>3 DEF Range
<1>5. PICK j \in DOMAIN Group(d, k) : m = Group(d, k)[j]
  BY Zenon, <1>2, <1>4 DEF Range, Group
<1>6. Listed(d, k)
  BY Zenon, <1>3, <1>4 DEF Listed
<1>7. <<d, k, j>> \in Slots /\ Message(<<d, k, j>>) = Group(d, k)[j]
  BY Zenon, <1>5, <1>6, SlotAt
<1>8. <<d, k, j>>[1] = d /\ <<d, k, j>>[2] = k
  OBVIOUS
<1> DEFINE s == <<d, k, j>>
<1>9. s \in Slots /\ m = Message(s) /\ s[1] = d /\ s[2] = k
  BY Zenon, <1>5, <1>7, <1>8
<1> HIDE DEF s
<1>10. Dialogs[s[1]][s[2]] \notin deleted /\ \A c \in 1 .. s[1] : Dialogs[c] # << >>
  BY Zenon, <1>9, <1>2, <1>3, <1>4
<1> QED
  BY Zenon, <1>1, <1>9, <1>10

\* At its end the iteration has passed the dialogs it comes to.
LEMMA EndPassed ==
    ASSUME BatchShape, IterPlaced, AtEnd, NEW s \in Slots, \A c \in 1 .. s[1] : Dialogs[c] # << >>
    PROVE  s \in Before(it.dialog, it.msg)
<1>1. it \in IterType /\ it.dialog \in Nat /\ it.msg \in Nat /\ Len(Dialogs) \in Nat
  <2>1. it \in IterType
    BY Zenon, ShapeFields
  <2> QED
    BY <2>1, BatchAssumption DEF IterType
<1>2. s[1] \in 1 .. Len(Dialogs) /\ s[1] \in Nat
  <2>1. s[1] \in 1 .. Len(Dialogs)
    BY Zenon, SlotType
  <2> QED
    BY <2>1
<1>3. s[1] < it.dialog
  <2>1. CASE Listed(it.dialog, it.msg)
    <3>1. it.dialog \in 1 .. Len(Dialogs) /\ it.msg \in 1 .. Len(Dialogs[it.dialog])
          /\ Dialogs[it.dialog] \in Seq(DOMAIN Album)
      BY Zenon, <2>1, GroupType
    <3>2. Len(Dialogs[it.dialog]) \in Nat
      BY <3>1
    <3> QED
      BY <3>1, <3>2, <1>1 DEF AtEnd
  <2>2. CASE it.dialog = Len(Dialogs) + 1
    BY <2>2, <1>1, <1>2
  <2>3. CASE it.dialog \in 1 .. Len(Dialogs) + 1 /\ Dialogs[it.dialog] = << >>
    <3>1. it.dialog \notin 1 .. s[1]
      BY Zenon, <2>3
    <3> QED
      BY <3>1, <2>3, <1>1, <1>2
  <2> QED
    BY Zenon, <2>1, <2>2, <2>3 DEF IterPlaced, Place
<1> QED
  BY Zenon, <1>3 DEF Before

\* The run ends.  With neither a failure nor an excuse the iterator has passed the
\* whole list and nothing is on the way, so every listed file is settled.
LEMMA StepEndBatch == BatchInv /\ EndBatch => BatchInv'
<1> SUFFICES ASSUME BatchInv, EndBatch PROVE BatchInv'
  OBVIOUS
<1> DEFINE failed == loop.failed \/ it.err
<1>1. BatchShape /\ RecordHeld /\ FinishedHeld /\ PassedSettled /\ LoopPlaced /\ IterPlaced
  BY Zenon DEF BatchInv
<1>2. /\ loop.pc = "wait" /\ workers = {}
      /\ resumeKey' = IF failed THEN finished ELSE {}
      /\ got' = [got EXCEPT !.saved = IF resumeKey' = {} THEN NoFiles
                                      ELSE [fetched |-> got.fetched, lost |-> got.lost]]
      /\ loop' = [LoopIdle EXCEPT !.result = IF failed THEN "error" ELSE "ok", !.runs = loop.runs]
      /\ it' = StartOfList /\ elems' = << >> /\ finished' = {} /\ UNCHANGED <<workers, deleted>>
  BY Zenon DEF EndBatch
<1>3. loop' \in LoopType /\ loop'.pc = "idle" /\ (loop'.result = "ok" => ~failed)
  <2> DEFINE res == IF failed THEN "error" ELSE "ok"
  <2>1. loop.runs \in Nat /\ res \in LoopResults /\ (res = "ok" => ~failed)
    BY Zenon, <1>1, ShapeFields DEF LoopResults
  <2>2. loop' = LoopEnded(res, loop.runs)
    BY Zenon, <1>2 DEF LoopEnded
  <2> HIDE DEF failed, res
  <2>3. loop' \in LoopType /\ loop'.pc = "idle" /\ loop'.result = res
    BY Zenon, <2>1, <2>2, EndFields
  <2> QED
    BY Zenon, <2>1, <2>3
<1>4. elems' \in Seq(Elements) /\ DOMAIN elems' = {} /\ Len(elems') <= Buffer
  BY <1>2, BatchAssumption
<1> DEFINE v == IF resumeKey' = {} THEN NoFiles ELSE [fetched |-> got.fetched, lost |-> got.lost]
<1>5. /\ got' \in GotType
      /\ got'.fetched = got.fetched /\ got'.lost = got.lost /\ got'.left = got.left
      /\ got'.resumed = got.resumed /\ got'.saved = v
  <2>1. got \in GotType
    BY Zenon, <1>1, ShapeFields
  <2>2. got.fetched \in SUBSET Messages /\ got.lost \in SUBSET Messages
    BY <2>1 DEF GotType
  <2>3. v \in FilesType
    <3>1. NoFiles \in FilesType
      BY DEF NoFiles, FilesType
    <3>2. [fetched |-> got.fetched, lost |-> got.lost] \in FilesType
      BY <2>2 DEF FilesType
    <3> QED
      BY Zenon, <3>1, <3>2
  <2>4. got' = [got EXCEPT !.saved = v]
    BY Zenon, <1>2
  <2> HIDE DEF v
  <2> QED
    BY <2>1, <2>3, <2>4 DEF GotType
<1>11. resumeKey' \subseteq Nat /\ finished' \subseteq Nat
  BY Zenon, <1>1, <1>2, ShapeFields
<1>6. BatchShape'
  BY Zenon, <1>11, <1>1, <1>2, <1>3, <1>4, <1>5, StartPlaced DEF BatchShape
<1>7. IterPlaced' /\ OnTheWayListed' /\ FinishedHeld' /\ PassedSettled'
  BY Zenon, <1>1, <1>2, <1>3, <1>4, StartPlaced
  DEF IterPlaced, OnTheWayListed, OnTheWay, FinishedHeld, PassedSettled
<1>8. RecordHeld'
  <2> SUFFICES ASSUME NEW s \in Slots, At(s) \in resumeKey'
               PROVE  AlbumLost \/ Message(s) \in got'.saved.fetched \cup got'.saved.lost
    BY Zenon, <1>2 DEF RecordHeld, AlbumLost
  <2>1. At(s) \in finished /\ resumeKey' # {}
    BY Zenon, <1>2
  <2>2. got'.saved = [fetched |-> got.fetched, lost |-> got.lost]
    BY Zenon, <2>1, <1>5
  <2>3. got'.saved.fetched = got.fetched /\ got'.saved.lost = got.lost
    BY <2>2
  <2> QED
    BY Zenon, <2>1, <2>3, <1>1 DEF FinishedHeld
<1>9. LoopPlaced' /\ SendNeverBlocks'
  BY Zenon, <1>2, <1>3, <1>4 DEF LoopPlaced, SendNeverBlocks
<1>10. SuccessIsComplete'
  <2> SUFFICES ASSUME ~failed, ~got.left, ~PositionsShift PROVE AllGot
    BY Zenon, <1>2, <1>3, <1>5 DEF SuccessIsComplete, PositionsShift, AllGot, Wanted, Iterated
  <2>1. ~Excused
    BY Zenon DEF Excused
  <2>2. AtEnd /\ elems = << >>
    BY Zenon, <2>1, <1>1, <1>2 DEF LoopPlaced
  <2>3. \A x : ~OnTheWay(x)
    <3>1. DOMAIN elems = {}
      BY <2>2
    <3> QED
      BY Zenon, <3>1, <1>2 DEF OnTheWay
  <2> SUFFICES ASSUME NEW m \in Wanted PROVE m \in got.fetched \cup got.lost \cup deleted
    BY Zenon DEF AllGot
  <2>4. m \in Media
    BY Zenon, WantedSlots
  <2>5. PICK s \in Slots : /\ m = Message(s) /\ Dialogs[s[1]][s[2]] \notin deleted
                           /\ \A c \in 1 .. s[1] : Dialogs[c] # << >>
    BY Zenon, WantedSlots
  <2>6. s \in Before(it.dialog, it.msg)
    BY Zenon, <2>2, <2>5, <1>1, EndPassed
  <2>7. Settled(s)
    BY Zenon, <2>1, <2>6, <1>1, <1>2 DEF PassedSettled
  <2> QED
    BY Zenon, <2>3, <2>4, <2>5, <2>7 DEF Settled
<1> QED
  BY Zenon, <1>6, <1>7, <1>8, <1>9, <1>10 DEF BatchInv
\* A run starts, with the files of the record it continues or with none.
LEMMA StepStartBatch == BatchInv /\ StartBatch => BatchInv'
<1> SUFFICES ASSUME BatchInv, StartBatch PROVE BatchInv'
  OBVIOUS
<1>1. BatchShape /\ RecordHeld /\ LoopPlaced
  BY Zenon DEF BatchInv
<1>2. /\ loop.pc = "idle" /\ loop' = [LoopIdle EXCEPT !.pc = "next", !.runs = loop.runs + 1]
      /\ it' = StartOfList /\ elems' = << >> /\ UNCHANGED <<workers, deleted>>
  BY Zenon DEF StartBatch
<1>3. loop' \in LoopType /\ loop'.pc = "next" /\ loop'.result = "none"
  <2>1. loop.runs \in Nat
    BY Zenon, <1>1, ShapeFields
  <2>2. loop.runs + 1 \in Nat
    BY <2>1
  <2> QED
    BY Zenon, <2>2, <1>2, StartFields
<1>4. elems' \in Seq(Elements) /\ DOMAIN elems' = {} /\ Len(elems') <= Buffer
  BY <1>2, BatchAssumption
<1>5. got \in GotType /\ got.saved.fetched \in SUBSET Messages /\ got.saved.lost \in SUBSET Messages
  <2>1. got \in GotType
    BY Zenon, <1>1, ShapeFields
  <2>2. got.saved \in FilesType
    BY <2>1 DEF GotType
  <2> QED
    BY <2>1, <2>2 DEF FilesType
<1>6. /\ got' \in GotType /\ FinishedHeld' /\ RecordHeld' /\ finished' \subseteq Nat /\ resumeKey' \subseteq Nat
  <2>0. resumeKey \subseteq Nat /\ got.saved \in FilesType /\ (AlbumLost' <=> AlbumLost)
    <3>1. got.saved \in FilesType
      BY <1>5 DEF GotType
    <3> QED
      BY Zenon, <3>1, <1>1, <1>2, ShapeFields DEF AlbumLost
  <2>1. CASE /\ finished' = resumeKey /\ UNCHANGED resumeKey
             /\ got' = [fetched |-> got.saved.fetched, lost |-> got.saved.lost, saved |-> got.saved,
                        resumed |-> resumeKey # {}, left |-> FALSE]
    <3> DEFINE f == got.saved.fetched
    <3> DEFINE l == got.saved.lost
    <3> DEFINE b == resumeKey # {}
    <3>1. got' = [fetched |-> f, lost |-> l, saved |-> got.saved, resumed |-> b, left |-> FALSE]
      BY Zenon, <2>1
    <3>2. f \in SUBSET Messages /\ l \in SUBSET Messages /\ b \in BOOLEAN
      BY Zenon, <1>5
    <3>3. b \/ resumeKey = {}
      OBVIOUS
    <3> HIDE DEF f, l, b
    <3>4. got' \in GotType /\ got'.fetched = f /\ got'.lost = l /\ got'.saved = got.saved /\ got'.resumed = b
      BY <2>0, <3>1, <3>2 DEF GotType
    <3> QED
      BY Zenon, <2>0, <2>1, <3>3, <3>4, <1>1 DEF FinishedHeld, RecordHeld, f, l
  <2>2. CASE finished' = {} /\ resumeKey' = {} /\ got' = NothingGot
    <3>1. got' \in GotType
      BY <2>2 DEF NothingGot, NoFiles, FilesType, GotType
    <3> QED
      BY Zenon, <3>1, <2>2 DEF FinishedHeld, RecordHeld
  <2>3. CASE finished' = {} /\ UNCHANGED resumeKey /\ got' = [NothingGot EXCEPT !.saved = got.saved]
    <3>1. got' \in GotType /\ got'.saved = got.saved
      BY Zenon, <2>0, <2>3, NothingFields
    <3> QED
      BY Zenon, <3>1, <2>0, <2>3, <1>1 DEF FinishedHeld, RecordHeld
  <2> QED
    BY Zenon, <2>1, <2>2, <2>3 DEF StartBatch
<1>7. BatchShape'
  BY Zenon, <1>1, <1>2, <1>3, <1>4, <1>6, StartPlaced DEF BatchShape
<1>8. IterPlaced' /\ OnTheWayListed' /\ PassedSettled'
  <2>1. workers' = {}
    BY Zenon, <1>1, <1>2 DEF LoopPlaced
  <2> QED
    BY Zenon, <2>1, <1>2, <1>3, <1>4, StartPlaced
    DEF IterPlaced, OnTheWayListed, OnTheWay, PassedSettled
<1>9. LoopPlaced' /\ SendNeverBlocks' /\ SuccessIsComplete'
  BY Zenon, <1>3, <1>4 DEF LoopPlaced, SendNeverBlocks, SuccessIsComplete
<1> QED
  BY Zenon, <1>6, <1>7, <1>8, <1>9 DEF BatchInv

\* The iterator passes the listed message it is at, and counts its files.
LEMMA PassesMessage ==
    ASSUME BatchShape, IterPlaced, ~AtEnd, NEW p \in Nat, it' = [Advance(it) EXCEPT !.pos = p]
    PROVE  /\ Listed(it.dialog, it.msg) /\ it' \in IterType /\ it'.err = it.err /\ it'.pos = p
           /\ Place(it'.dialog, it'.msg)
           /\ PosOf(it'.dialog, it'.msg) = PosOf(it.dialog, it.msg) + Len(Group(it.dialog, it.msg))
           /\ Before(it'.dialog, it'.msg) = Before(it.dialog, it.msg) \cup Here(it.dialog, it.msg)
<1> DEFINE a == Advance(it)
<1>1. it \in IterType /\ Listed(it.dialog, it.msg)
  BY Zenon, ShapeFields, AtMessage
<1>2. /\ a \in IterType /\ Place(a.dialog, a.msg) /\ a.err = it.err
      /\ Before(a.dialog, a.msg) = Before(it.dialog, it.msg) \cup Here(it.dialog, it.msg)
  BY Zenon, <1>1, AdvancePlaced
<1>3. it' = [a EXCEPT !.pos = p]
  BY Zenon
<1> HIDE DEF a
<1>4. it' \in IterType /\ it'.dialog = a.dialog /\ it'.msg = a.msg /\ it'.err = a.err /\ it'.pos = p
  BY Zenon, <1>2, <1>3 DEF IterType
<1>5. Cardinality(Before(a.dialog, a.msg)) = PosOf(it.dialog, it.msg) + Len(Group(it.dialog, it.msg))
  BY <1>1, <1>2, PosAfter
<1>6. PosOf(a.dialog, a.msg) = PosOf(it.dialog, it.msg) + Len(Group(it.dialog, it.msg))
  BY Zenon, <1>5 DEF PosOf
<1> QED
  BY Zenon, <1>1, <1>2, <1>4, <1>6

\* While no album has lost a message, a deleted message takes the one position of
\* its group, and the group of any other is whole.
LEMMA GroupKept ==
    ASSUME NEW d, NEW k, Listed(d, k), ~AlbumLost
    PROVE  IF Dialogs[d][k] \in deleted THEN Len(Group(d, k)) = 1 ELSE Whole(Group(d, k))
<1> DEFINE m == Dialogs[d][k]
<1>1. m \in DOMAIN Album
  BY Zenon, GroupType
<1>2. Group(d, k) = GroupOf(m)
  BY DEF Group
<1>3. \A x \in Range(Album[m]) : x \notin deleted
  <2> HIDE DEF m
  <2> QED
    BY <1>1 DEF AlbumLost, Albums
<1>4. Album[m] # << >> => m \in Range(Album[m])
  BY Zenon, <1>1, BatchAssumption
<1> HIDE DEF m
<1>5. CASE Album[m] = << >>
  <2>1. Group(d, k) = <<m>>
    BY Zenon, <1>2, <1>5 DEF GroupOf
  <2>2. Len(Group(d, k)) = 1 /\ DOMAIN Group(d, k) = {1} /\ Group(d, k)[1] = m
    BY <2>1
  <2> QED
    BY Zenon, <2>2 DEF Whole, m
<1>6. CASE Album[m] # << >>
  <2>1. Group(d, k) = Album[m]
    BY Zenon, <1>2, <1>6 DEF GroupOf
  <2> QED
    BY Zenon, <2>1, <1>3, <1>4, <1>6 DEF Whole, Range, m
<1> QED
  BY Zenon, <1>5, <1>6

\* Process: the files of the listed message are sent, or held, or not wanted.
LEMMA StepProcess ==
    ASSUME BatchInv, loop.pc = "next", elems = << >>, Process,
           UNCHANGED <<finished, workers, resumeKey, deleted, got>>
    PROVE  BatchInv'
<1> DEFINE d == it.dialog
<1> DEFINE k == it.msg
<1> DEFINE group == Group(d, k)
<1> DEFINE new == ProcessGroup(group, it.pos)
<1> DEFINE gone == Dialogs[d][k] \in deleted
<1> DEFINE next == IF gone THEN it.pos + 1 ELSE new.pos
<1>1. /\ BatchShape /\ LoopPlaced /\ SendNeverBlocks /\ SuccessIsComplete
      /\ IterPlaced /\ OnTheWayListed /\ FinishedHeld /\ RecordHeld /\ PassedSettled
  BY Zenon DEF BatchInv
<1>2. /\ ~AtEnd /\ ~it.err
      /\ \/ gone /\ Skip(it.pos + 1)
         \/ ~gone /\ new.elems = << >> /\ Skip(new.pos)
         \/ /\ ~gone /\ new.elems # << >>
            /\ it' = [Advance(it) EXCEPT !.pos = new.pos]
            /\ elems' = elems \o new.elems
            /\ loop' = [loop EXCEPT !.pc = "value"]
  BY Zenon DEF Process, Group
<1>3. /\ Listed(d, k) /\ it.pos \in Nat /\ it \in IterType
      /\ group \in Seq(DOMAIN Album) /\ DOMAIN group = 1 .. Len(group) /\ Len(group) \in Nat
      /\ Len(group) <= Buffer
  <2>1. it \in IterType /\ Listed(d, k)
    BY Zenon, <1>1, <1>2, ShapeFields, AtMessage
  <2>2. group \in Seq(DOMAIN Album) /\ DOMAIN group = 1 .. Len(group) /\ Len(group) \in 1 .. Buffer
    BY Zenon, <2>1, GroupType
  <2>3. it.pos \in Nat
    BY <2>1 DEF IterType
  <2> HIDE DEF group, d, k
  <2> QED
    BY <2>1, <2>2, <2>3, BatchAssumption
<1>4. ~AlbumLost => IF gone THEN Len(group) = 1 ELSE Whole(group)
  BY Zenon, <1>3, GroupKept
<1>5. Sent(new, group, it.pos, Len(group))
  BY Zenon, <1>3, GroupSent
<1>6. it' = [Advance(it) EXCEPT !.pos = next]
  BY Zenon, <1>2 DEF Skip
<1> HIDE DEF new, group, gone
<1>7. next \in Nat /\ it.pos <= next /\ (~AlbumLost => next = it.pos + Len(group))
  <2>1. new.pos \in Nat /\ new.pos >= it.pos /\ (Whole(group) => new.pos = it.pos + Len(group))
    BY Zenon, <1>5 DEF Sent
  <2>2. CASE gone
    <3>1. next = it.pos + 1
      BY Zenon, <2>2
    <3>2. ~AlbumLost => Len(group) = 1
      BY Zenon, <2>2, <1>4
    <3> HIDE DEF next
    <3> QED
      BY <3>1, <3>2, <1>3
  <2>3. CASE ~gone
    <3>1. next = new.pos
      BY Zenon, <2>3
    <3>2. it.pos <= new.pos
      BY <2>1, <1>3
    <3> HIDE DEF next
    <3> QED
      BY Zenon, <3>1, <3>2, <2>1, <2>3, <1>4
  <2> QED
    BY Zenon, <2>2, <2>3
<1> HIDE DEF next
<1>8. /\ it' \in IterType /\ it'.err = it.err /\ it'.pos = next
      /\ Place(it'.dialog, it'.msg) /\ PosOf(it'.dialog, it'.msg) = PosOf(d, k) + Len(group)
      /\ Before(it'.dialog, it'.msg) = Before(d, k) \cup Here(d, k)
  BY Zenon, <1>1, <1>2, <1>6, <1>7, PassesMessage DEF group
<1>9. \/ elems' = << >> /\ loop' = loop /\ (gone \/ new.elems = << >>)
      \/ /\ elems' = new.elems /\ new.elems # << >> /\ ~gone
         /\ Goes(loop, loop', "value", loop.elem)
  <2>1. CASE gone \/ new.elems = << >>
    BY Zenon, <2>1, <1>2 DEF Skip
  <2>2. CASE ~gone /\ new.elems # << >>
    <3>1. elems' = << >> \o new.elems /\ loop' = [loop EXCEPT !.pc = "value"]
      BY Zenon, <2>2, <1>2
    <3>2. << >> \o new.elems = new.elems
      BY <1>5 DEF Sent
    <3>3. loop \in LoopType
      BY Zenon, <1>1, ShapeFields
    <3>4. Goes(loop, loop', "value", loop.elem)
      BY ZenonT(30), <3>1, <3>3, Pcs, LoopGoes
    <3> QED
      BY Zenon, <2>2, <3>1, <3>2, <3>4
  <2> QED
    BY Zenon, <2>1, <2>2
<1>10. /\ loop' \in LoopType /\ loop'.pc \in {"next", "value"} /\ loop'.failed = loop.failed
       /\ loop'.result = loop.result /\ (loop'.pc = "value" => elems' # << >>)
       /\ elems' = << >> \/ (elems' = new.elems /\ ~gone)
  BY Zenon, <1>1, <1>9, ShapeFields DEF Goes
<1>11. elems' \in Seq(Elements) /\ Len(elems') <= Buffer
  <2>1. new.elems \in Seq(Elements) /\ Len(new.elems) <= Len(group)
    BY Zenon, <1>5 DEF Sent
  <2>2. Len(new.elems) \in Nat
    BY <2>1
  <2>3. Len(new.elems) <= Buffer
    BY <2>1, <2>2, <1>3, BatchAssumption
  <2>4. << >> \in Seq(Elements) /\ Len(<< >>) <= Buffer
    BY BatchAssumption
  <2> QED
    BY Zenon, <2>1, <2>3, <2>4, <1>10
<1>12. BatchShape'
  BY Zenon, <1>1, <1>8, <1>10, <1>11 DEF BatchShape
<1>13. AlbumLost' <=> AlbumLost
  BY Zenon DEF AlbumLost
<1>14. IterPlaced' /\ RecordHeld'
  BY Zenon, <1>1, <1>2, <1>7, <1>8, <1>13 DEF IterPlaced, RecordHeld
<1>15. FinishedHeld'
  <2>1. ASSUME NEW p \in finished, p < it.pos PROVE p < next
    <3>1. p \in Nat
      BY Zenon, <1>1, ShapeFields
    <3> QED
      BY <3>1, <2>1, <1>3, <1>7
  <2> QED
    BY Zenon, <2>1, <1>1, <1>8, <1>13 DEF FinishedHeld
<1>16. DOMAIN << >> = {}
  OBVIOUS
<1>17. OnTheWayListed'
  <2> SUFFICES ASSUME NEW e, OnTheWay(e)'
               PROVE  e \in Elements /\ e[2] < next /\ (AlbumLost \/ \E s \in Slots : e = ElemOf(s))
    BY Zenon, <1>8, <1>13 DEF OnTheWayListed
  <2>1. CASE e \in workers
    <3>1. e \in Elements /\ e[2] < it.pos /\ (AlbumLost \/ \E s \in Slots : e = ElemOf(s))
      BY Zenon, <2>1, <1>1 DEF OnTheWayListed, OnTheWay
    <3>2. e[2] \in Nat
      BY <3>1 DEF Elements
    <3>3. e[2] < next
      BY <3>1, <3>2, <1>3, <1>7
    <3> QED
      BY Zenon, <3>1, <3>3
  <2>2. CASE elems' = new.elems /\ ~gone /\ \E i \in DOMAIN elems' : elems'[i] = e
    <3>1. PICK i \in DOMAIN new.elems : new.elems[i] = e
      BY Zenon, <2>2
    <3>2. e[2] < new.pos /\ new.elems \in Seq(Elements)
      BY Zenon, <3>1, <1>5 DEF Sent
    <3>3. e \in Elements
      BY <3>1, <3>2
    <3>4. e[2] < next
      BY Zenon, <3>2, <2>2 DEF next
    <3>5. ASSUME ~AlbumLost PROVE \E s \in Slots : e = ElemOf(s)
      <4>1. Whole(group) /\ it.pos = PosOf(d, k)
        BY Zenon, <3>5, <2>2, <1>1, <1>2, <1>4 DEF IterPlaced
      <4>2. PICK j \in 1 .. Len(group) : e = <<group[j], it.pos + j - 1>>
        BY Zenon, <3>1, <4>1, <1>5 DEF Sent, OfGroup
      <4>3. j \in DOMAIN Group(d, k) /\ e = <<Group(d, k)[j], PosOf(d, k) + j - 1>>
        BY Zenon, <4>1, <4>2, <1>3 DEF group
      <4>4. Listed(d, k)
        BY Zenon, <1>3
      <4> HIDE DEF d, k
      <4>5. <<d, k, j>> \in Slots /\ ElemOf(<<d, k, j>>) = <<Group(d, k)[j], PosOf(d, k) + j - 1>>
        BY <4>3, <4>4, SlotAt
      <4> QED
        BY Zenon, <4>3, <4>5
    <3> QED
      BY Zenon, <3>3, <3>4, <3>5
  <2> QED
    BY Zenon, <2>1, <2>2, <1>10, <1>16 DEF OnTheWay
<1>18. ASSUME NEW s \in Here(d, k), ~Excused PROVE Settled(s)'
  <2> DEFINE j == s[3]
  <2> DEFINE m == Message(s)
  <2>1. s \in Slots /\ s[1] = d /\ s[2] = k
    BY Zenon DEF Here
  <2>2. j \in 1 .. Len(group) /\ m = group[j] /\ At(s) = PosOf(d, k) + j - 1
    BY Zenon, <2>1, SlotType DEF Message, At, group
  <2> HIDE DEF j
  <2>3. CASE gone \/ m \notin Media \/ m \in deleted
    BY Zenon, <2>3, <2>1 DEF Settled, gone
  <2>4. CASE ~gone /\ m \in Media \ deleted
    <3>1. Offered(new.elems, group, it.pos, j)
      BY Zenon, <2>2, <2>4, <1>5 DEF Sent
    <3>2. PICK p \in Nat : /\ p >= it.pos /\ (Whole(group) => p = it.pos + j - 1)
                           /\ p \notin finished => \E i \in DOMAIN new.elems : new.elems[i] = <<group[j], p>>
      BY Zenon, <3>1 DEF Offered
    <3>3. CASE p \in finished
      <4>1. got.resumed
        <5>1. ~(p < it.pos)
          BY <3>2, <1>3
        <5> QED
          BY Zenon, <5>1, <3>3, <1>1 DEF FinishedHeld
      <4>2. ~AlbumLost
        BY Zenon, <4>1, <1>18 DEF Excused, PositionsShift, AlbumLost
      <4>3. At(s) = p
        BY Zenon, <4>2, <3>2, <2>2, <2>4, <1>1, <1>2, <1>4 DEF IterPlaced
      <4>4. m \in got.fetched \cup got.lost
        BY Zenon, <4>2, <4>3, <3>3, <2>1, <1>1 DEF FinishedHeld
      <4> QED
        BY Zenon, <4>4 DEF Settled
    <3>4. CASE p \notin finished
      <4>1. PICK i \in DOMAIN new.elems : new.elems[i] = <<m, p>>
        BY Zenon, <3>2, <3>4, <2>2
      <4>2. elems' = new.elems
        BY Zenon, <4>1, <2>4, <1>9, <1>16
      <4>3. OnTheWay(<<m, p>>)'
        BY Zenon, <4>1, <4>2 DEF OnTheWay
      <4> QED
        BY Zenon, <4>3 DEF Settled
    <3> QED
      BY Zenon, <3>3, <3>4
  <2> QED
    BY Zenon, <2>3, <2>4
<1>19. PassedSettled'
  <2> SUFFICES ASSUME ~Excused', NEW s \in Before(it'.dialog, it'.msg) PROVE Settled(s)'
    BY Zenon DEF PassedSettled
  <2>1. ~Excused
    BY Zenon, <1>8, <1>10 DEF Excused, PositionsShift
  <2>2. CASE s \in Before(d, k)
    <3>1. Settled(s)
      BY Zenon, <2>1, <2>2, <1>1 DEF PassedSettled
    <3>2. \A e : OnTheWay(e) => OnTheWay(e)'
      BY Zenon, <1>16 DEF OnTheWay
    <3> QED
      BY Zenon, <3>1, <3>2 DEF Settled
  <2>3. CASE s \in Here(d, k)
    BY Zenon, <2>1, <2>3, <1>18
  <2> QED
    BY Zenon, <2>2, <2>3, <1>8
<1>20. LoopPlaced' /\ SendNeverBlocks'
  BY Zenon, <1>1, <1>10, <1>11 DEF LoopPlaced, SendNeverBlocks
<1>21. SuccessIsComplete'
  BY Zenon, <1>1, <1>10, ResultStands
<1> QED
  BY Zenon, <1>12, <1>14, <1>15, <1>17, <1>19, <1>20, <1>21 DEF BatchInv

-----------------------------------------------------------------------------
\* Initially nothing has been sent or recorded.
LEMMA BatchInitInv == BatchInit => BatchInv
<1> SUFFICES ASSUME BatchInit PROVE BatchInv
  OBVIOUS
<1>1. /\ it = StartOfList /\ elems = << >> /\ finished = {} /\ loop = LoopIdle
      /\ workers = {} /\ resumeKey = {} /\ deleted = {}
      /\ got = NothingGot
  BY Zenon DEF BatchInit
<1>2. loop \in LoopType /\ loop.pc = "idle" /\ loop.result = "none"
  BY SMTT(30), <1>1 DEF LoopIdle, LoopType, LoopPcs, LoopResults
<1>3. got \in GotType
  BY <1>1 DEF NothingGot, NoFiles, FilesType, GotType
<1>4. elems \in Seq(Elements) /\ DOMAIN elems = {} /\ Len(elems) <= Buffer
  BY <1>1, BatchAssumption
<1>5. BatchShape
  BY Zenon, <1>1, <1>2, <1>3, <1>4, StartPlaced DEF BatchShape
<1>6. IterPlaced /\ OnTheWayListed /\ FinishedHeld /\ RecordHeld /\ PassedSettled
  BY Zenon, <1>1, <1>2, <1>4, StartPlaced
  DEF IterPlaced, OnTheWayListed, OnTheWay, FinishedHeld, RecordHeld, PassedSettled
<1>7. LoopPlaced /\ SendNeverBlocks /\ SuccessIsComplete
  BY Zenon, <1>1, <1>2, <1>4 DEF LoopPlaced, AtEnd, SendNeverBlocks, SuccessIsComplete
<1> QED
  BY Zenon, <1>5, <1>6, <1>7 DEF BatchInv

\* The invariant is inductive.
LEMMA BatchNextInv == BatchInv /\ [BatchNext]_batchVars => BatchInv'
<1> SUFFICES ASSUME BatchInv, [BatchNext]_batchVars PROVE BatchInv'
  OBVIOUS
<1>1. CASE NextElem
  <2>1. loop.pc = "next" /\ UNCHANGED <<finished, workers, resumeKey, deleted, got>>
    BY Zenon, <1>1 DEF NextElem
  <2>2. CASE Done /\ it' = [it EXCEPT !.err = TRUE] /\ loop' = [loop EXCEPT !.pc = "wait"] /\ UNCHANGED elems
    BY Zenon, <2>1, <2>2, StepDone
  <2>3. CASE elems # << >> /\ loop' = [loop EXCEPT !.pc = "value"] /\ UNCHANGED <<it, elems>>
    BY Zenon, <2>1, <2>3, StepAhead
  <2>4. CASE elems = << >> /\ Process
    BY Zenon, <2>1, <2>4, StepProcess
  <2>5. CASE elems = << >> /\ AtEnd /\ loop' = [loop EXCEPT !.pc = "wait"]
             /\ UNCHANGED <<it, elems>>
    BY Zenon, <2>1, <2>5, StepAhead
  <2> QED
    BY Zenon, <1>1, <2>2, <2>3, <2>4, <2>5 DEF NextElem
<1>2. CASE TakeElem
  BY Zenon, <1>2, StepTakeElem
<1>3. CASE StartWorker
  BY Zenon, <1>3, StepStartWorker
<1>4. CASE LeaveLoop
  BY Zenon, <1>4, StepLeaveLoop
<1>5. CASE EndBatch
  BY Zenon, <1>5, StepEndBatch
<1>6. CASE \E e \in workers : WorkerDone(e)
  BY Zenon, <1>6, StepWorkerDone
<1>7. CASE ProcessFails
  BY Zenon, <1>7, StepProcessFails
<1>8. CASE \E e \in workers : WorkerFails(e)
  BY Zenon, <1>8, StepWorkerFails
<1>9. CASE StartBatch
  BY Zenon, <1>9, StepStartBatch
<1>10. CASE CancelBatch
  BY Zenon, <1>10, StepCancelBatch
<1>11. CASE KillBatch
  BY Zenon, <1>11, StepKillBatch
<1>12. CASE \E m \in Messages : DeleteMessage(m)
  BY Zenon, <1>12, StepDeleteMessage
<1>13. CASE UNCHANGED batchVars
  BY Zenon, <1>13
  DEF batchVars, BatchInv, BatchShape, IterPlaced, OnTheWayListed, OnTheWay, FinishedHeld, RecordHeld,
      PassedSettled, Excused, Settled, LoopPlaced, SendNeverBlocks, SuccessIsComplete, AlbumLost,
      PositionsShift, AtEnd, AllGot, Wanted, Iterated
<1> QED
  BY Zenon, <1>1, <1>2, <1>3, <1>4, <1>5, <1>6, <1>7, <1>8, <1>9, <1>10, <1>11, <1>12, <1>13
  DEF BatchNext, BatchProgress, Messages

\* It holds of every behaviour.
LEMMA BatchAlways == BatchSpec => []BatchInv
<1>1. BatchInit => BatchInv
  BY BatchInitInv
<1>2. BatchInv /\ [BatchNext]_batchVars => BatchInv'
  BY BatchNextInv
<1> QED
  BY <1>1, <1>2, PTL DEF BatchSpec

\* The channel of elements never holds more than its capacity, so sending under the
\* iterator's lock never blocks, whatever the list, its albums and the workers do.
THEOREM NeverBlocks == BatchSpec => []SendNeverBlocks
<1>1. BatchInv => SendNeverBlocks
  BY Zenon DEF BatchInv
<1> QED
  BY <1>1, BatchAlways, PTL

\* A run that ends without an error has fetched, itself or in the interrupted runs it
\* continues, every file it should: of the messages listed up to the first dialog
\* without messages and of their albums, those not deleted meanwhile and not lost on
\* closing.  It is excused when the user cancelled it, and when it continues another
\* and a message of an album was deleted.  Whatever the list, with empty dialogs, its
\* albums, the deletions, the order in which the workers end, and the failures, kills
\* and resumptions before.
THEOREM CompleteRun == BatchSpec => []SuccessIsComplete
<1>1. BatchInv => SuccessIsComplete
  BY Zenon DEF BatchInv
<1> QED
  BY <1>1, BatchAlways, PTL
=============================================================================
