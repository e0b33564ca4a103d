---------------------------- MODULE MessageCache ----------------------------
(***************************************************************************)
(* telegramMediaAccess: messages resolved one by one through singleflight, *)
(* or in batches, and the cache both fill.  The messages are of one peer,  *)
(* unknown until a synchronisation of the dialogs brings it.  singleflight *)
(* is external: callers of a key share one flight and its result.          *)
(***************************************************************************)
EXTENDS Integers, FiniteSets

CONSTANTS
    Messages,           \* message numbers, from 1
    Asked,              \* those that are resolved one by one too
    Resolvers,
    MaxEntries, Slack,  \* the cap of the cache, and what a trim leaves free
    MaxBatch,           \* messages of one batch
    Lifetime,           \* of an entry
    Pause,              \* the time that passes in one tick
    Attempts,           \* requests of one flight
    MaxTime, MaxSyncs   \* bounds: the time, and synchronisations begun

ASSUME CacheAssumption ==
    /\ {MaxEntries, Slack, MaxBatch, Lifetime, Pause, Attempts} \subseteq Nat \ {0}
    /\ Slack < MaxEntries
    /\ Messages \subseteq Nat \ {0} /\ IsFiniteSet(Messages) /\ Asked \subseteq Messages
    /\ {MaxTime, MaxSyncs} \subseteq Nat

NoEntry == -1
NoMessage == 0

VARIABLES
    cacheTime,
    msgCache,           \* the expiry of each entry
    resolver,           \* calls of Resolve
    flight,             \* of each message: requests made, 0 without one
    batch,              \* a call of ResolveBatch
    peers               \* the peer is known; a synchronisation runs; one is recent

cacheVars == <<cacheTime, msgCache, resolver, flight, batch, peers>>

NoCall == [pc |-> "idle", msg |-> NoMessage, cancelled |-> FALSE]
NoBatch == [pc |-> "idle", missing |-> {}, now |-> 0]

Cached == {m \in Messages : msgCache[m] # NoEntry}

CacheTypeOK ==
    /\ cacheTime \in 0 .. MaxTime
    /\ msgCache \in [Messages -> {NoEntry} \cup 0 .. MaxTime + Lifetime]
    /\ resolver \in [Resolvers -> [pc : {"idle", "peer", "sync", "wait", "ctx"},
                                   msg : Asked \cup {NoMessage}, cancelled : BOOLEAN]]
    /\ flight \in [Asked -> 0 .. Attempts]
    /\ batch \in [pc : {"idle", "peer", "sync", "fetch"}, missing : SUBSET Messages, now : 0 .. MaxTime]
    /\ peers \in [known : BOOLEAN, sync : BOOLEAN, recent : BOOLEAN, begun : 0 .. MaxSyncs]

CacheInit ==
    /\ cacheTime = 0
    /\ msgCache = [m \in Messages |-> NoEntry]
    /\ resolver = [r \in Resolvers |-> NoCall]
    /\ flight = [m \in Asked |-> 0]
    /\ batch = NoBatch
    /\ peers = [known |-> FALSE, sync |-> FALSE, recent |-> FALSE, begun |-> 0]

\* An entry is served before its expiry and removed behind it.
Served(m) == m \in Cached /\ cacheTime < msgCache[m]
Expired(now) == {m \in Cached : now > msgCache[m]}

\* Mutated form: a full cache is not trimmed yet.
Trimmed_Late(rest) ==
    IF Cardinality(rest) <= MaxEntries THEN {{}}
    ELSE {old \in SUBSET rest :
            /\ Cardinality(old) = Cardinality(rest) - (MaxEntries - Slack)
            /\ \A m \in old, n \in rest \ old : msgCache[m] <= msgCache[n]}

\* The oldest entries that a full cache gives up, ties in any order.
Trimmed(rest) ==
    IF Cardinality(rest) < MaxEntries THEN {{}}
    ELSE {old \in SUBSET rest :
            /\ Cardinality(old) = Cardinality(rest) - (MaxEntries - Slack)
            /\ \A m \in old, n \in rest \ old : msgCache[m] <= msgCache[n]}

\* cleanExpiredCacheLocked, then the new entries, under the lock.
Store(new, now) ==
    \E old \in Trimmed(Cached \ Expired(now)) :
        msgCache' = [m \in Messages |->
            IF m \in new THEN cacheTime + Lifetime
            ELSE IF m \in old \cup Expired(now) THEN NoEntry ELSE msgCache[m]]

\* Resolve: the cache answers at once, else the peer comes first.
CallResolve(r, m) ==
    /\ resolver[r].pc = "idle" /\ ~Served(m)
    /\ resolver' = [resolver EXCEPT ![r] = [NoCall EXCEPT !.pc = "peer", !.msg = m]]
    /\ UNCHANGED <<cacheTime, msgCache, flight, batch, peers>>

\* SyncPeers: the call starts a synchronisation or joins the running one.
JoinSync ==
    /\ peers.sync \/ peers.begun < MaxSyncs
    /\ peers' = [peers EXCEPT !.sync = TRUE, !.begun = IF peers.sync THEN @ ELSE @ + 1]

\* GetInputPeer, and SyncPeers when it fails; a recent synchronisation counts as
\* one that succeeded.
ResolvePeer(r) ==
    /\ resolver[r].pc = "peer"
    /\ IF peers.known
       THEN /\ resolver' = [resolver EXCEPT ![r].pc = "wait"]
            /\ flight' = [flight EXCEPT ![resolver[r].msg] = IF @ = 0 THEN 1 ELSE @]
            /\ UNCHANGED peers
       ELSE IF peers.recent
       THEN resolver' = [resolver EXCEPT ![r] = NoCall] /\ UNCHANGED <<flight, peers>>
       ELSE JoinSync /\ resolver' = [resolver EXCEPT ![r].pc = "sync"] /\ UNCHANGED flight
    /\ UNCHANGED <<cacheTime, msgCache, batch>>

Syncing == {r \in Resolvers : resolver[r].pc = "sync"}

\* The dialogs are read to the end, with the peer among them or not.
SyncDone ==
    /\ peers.sync
    /\ \E found \in BOOLEAN :
          peers' = [peers EXCEPT !.sync = FALSE, !.recent = TRUE, !.known = @ \/ found]
    /\ resolver' = [r \in Resolvers |->
          IF r \in Syncing THEN [resolver[r] EXCEPT !.pc = "peer"] ELSE resolver[r]]
    /\ batch' = IF batch.pc = "sync" THEN [batch EXCEPT !.pc = "peer"] ELSE batch
    /\ UNCHANGED <<cacheTime, msgCache, flight>>

\* A page, or applying it, fails: what came before stays applied, and the next
\* call synchronises again.
SyncFails ==
    /\ peers.sync
    /\ \E found \in BOOLEAN :
          peers' = [peers EXCEPT !.sync = FALSE, !.known = @ \/ found]
    /\ resolver' = [r \in Resolvers |->
          IF r \in Syncing THEN NoCall ELSE resolver[r]]
    /\ batch' = IF batch.pc = "sync" THEN NoBatch ELSE batch
    /\ UNCHANGED <<cacheTime, msgCache, flight>>

\* The result of a flight reaches every caller that waits for the message, and
\* the call returns.
Deliver(m) ==
    /\ flight' = [flight EXCEPT ![m] = 0]
    /\ resolver' = [r \in Resolvers |->
          IF resolver[r].pc = "wait" /\ resolver[r].msg = m THEN NoCall ELSE resolver[r]]

\* The message arrives.
FetchDone(m) ==
    /\ flight[m] > 0
    /\ Store({m}, cacheTime)
    /\ Deliver(m)
    /\ UNCHANGED <<cacheTime, batch, peers>>

\* A failed request, after a flood wait or a pause, is repeated up to Attempts
\* requests.  The flight's own deadline may end it sooner.  Its context is the
\* daemon's: no caller's cancellation reaches it.
FetchFails(m) ==
    /\ flight[m] > 0
    /\ \/ flight[m] < Attempts /\ flight' = [flight EXCEPT ![m] = @ + 1] /\ UNCHANGED resolver
       \/ Deliver(m)
    /\ UNCHANGED <<cacheTime, msgCache, batch, peers>>

\* Mutated form: the flight runs in the context of the caller that is cancelled.
CancelResolve_EndsFlight(r) ==
    /\ resolver[r].pc = "wait" /\ ~resolver[r].cancelled
    /\ flight' = [flight EXCEPT ![resolver[r].msg] = 0]
    /\ resolver' = [s \in Resolvers |->
          IF s = r THEN [resolver[s] EXCEPT !.cancelled = TRUE, !.pc = "ctx"]
          ELSE IF resolver[s].pc = "wait" /\ resolver[s].msg = resolver[r].msg
          THEN [resolver[s] EXCEPT !.pc = "ctx"] ELSE resolver[s]]
    /\ UNCHANGED <<cacheTime, msgCache, batch, peers>>

\* The caller's context ends, and the caller stops waiting; in a synchronisation
\* it reports the peer it did not find.
CancelResolve(r) ==
    /\ resolver[r].pc \in {"sync", "wait"} /\ ~resolver[r].cancelled
    /\ resolver' = [resolver EXCEPT ![r] =
          IF @.pc = "sync" THEN NoCall ELSE [@ EXCEPT !.cancelled = TRUE, !.pc = "ctx"]]
    /\ UNCHANGED <<cacheTime, msgCache, flight, batch, peers>>

\* ResolveBatch: the peer comes first too; then the messages the cache does not
\* serve are fetched together.
PeerThenFetch(asked) ==
    LET unserved == {m \in asked : ~Served(m)}
    IN  IF peers.known
        THEN /\ batch' = IF unserved = {} THEN NoBatch
                         ELSE [pc |-> "fetch", missing |-> unserved, now |-> cacheTime]
             /\ UNCHANGED peers
        ELSE IF peers.recent THEN batch' = NoBatch /\ UNCHANGED peers
        ELSE JoinSync /\ batch' = [pc |-> "sync", missing |-> asked, now |-> 0]

CallBatch(asked) ==
    /\ batch.pc = "idle"
    /\ PeerThenFetch(asked)
    /\ UNCHANGED <<cacheTime, msgCache, resolver, flight>>

\* The lookup again, behind the synchronisation.
BatchPeer ==
    /\ batch.pc = "peer"
    /\ PeerThenFetch(batch.missing)
    /\ UNCHANGED <<cacheTime, msgCache, resolver, flight>>

\* The batch arrives, deleted messages missing; the cache is cleaned with the
\* time from before the request.
BatchDone(found) ==
    /\ batch.pc = "fetch" /\ found \subseteq batch.missing
    /\ Store(found, batch.now)
    /\ batch' = NoBatch
    /\ UNCHANGED <<cacheTime, resolver, flight, peers>>

\* The request fails for good, or the caller's context ends.
BatchFails ==
    /\ batch.pc \in {"sync", "fetch"}
    /\ batch' = NoBatch
    /\ UNCHANGED <<cacheTime, msgCache, resolver, flight, peers>>

CacheTick ==
    /\ cacheTime + Pause <= MaxTime
    /\ cacheTime' = cacheTime + Pause
    /\ \E recent \in {FALSE, peers.recent} : peers' = [peers EXCEPT !.recent = recent]
    /\ UNCHANGED <<msgCache, resolver, flight, batch>>

CacheNext ==
    \/ SyncDone \/ SyncFails
    \/ \E m \in Asked : FetchDone(m) \/ FetchFails(m)
    \/ BatchPeer \/ BatchFails \/ CacheTick
    \/ \E r \in Resolvers : ResolvePeer(r) \/ CancelResolve(r) \/ \E m \in Asked : CallResolve(r, m)
    \/ \E S \in SUBSET Messages :
          \/ Cardinality(S) \in 1 .. MaxBatch /\ CallBatch(S)
          \/ BatchDone(S)

CacheSpec == CacheInit /\ [][CacheNext]_cacheVars

-----------------------------------------------------------------------------
\* The cache is bounded: a trim leaves room for a single message, and a batch
\* exceeds the cap by less than its own size.
CacheBounded == Cardinality(Cached) < MaxEntries + MaxBatch

\* One caller's cancellation neither fails nor strands another that shares its
\* request: a call ends with a context error only for its own context, and who
\* waits has a flight for the message, or the running synchronisation, to wait for.
CancellationIsOwn ==
    \A r \in Resolvers :
        /\ resolver[r].pc = "ctx" => resolver[r].cancelled
        /\ resolver[r].pc = "wait" => flight[resolver[r].msg] > 0
        /\ resolver[r].pc = "sync" \/ batch.pc = "sync" => peers.sync
=============================================================================
