-------------------------- MODULE FailoverWatchdog --------------------------
(***************************************************************************)
(* The Watchdog of pkg/proxy: a loop that probes every node and, when the  *)
(* current one is unhealthy, moves to the next healthy one.  A node whose  *)
(* address does not parse stays in the list and only ever fails.           *)
(***************************************************************************)
EXTENDS Integers

CONSTANTS
    NumNodes,           \* the nodes, in order
    Malformed,          \* those whose address does not parse
    MaxOutages          \* bound: nodes that go down or come back

ASSUME FailoverAssumption ==
    /\ NumNodes \in Nat \ {0}
    /\ Malformed \subseteq 1 .. NumNodes
    /\ MaxOutages \in Nat

Unhealthy == 2          \* failures in a row that make a node unhealthy
Direct == 0             \* no provider: CurrentProvider dials directly

VARIABLES
    reachable,          \* nodes through which the target answers
    health,             \* healthMap: IsHealthy and FailCount of each node
    currentIndex, provider,
    probe,              \* the loop: waiting, the next node to probe, or deciding
    outages             \* history: what of the bound is used up

failoverVars == <<reachable, health, currentIndex, provider, probe, outages>>

FailoverTypeOK ==
    /\ reachable \subseteq 1 .. NumNodes
    /\ health \in [1 .. NumNodes -> [ok : BOOLEAN, fails : 0 .. Unhealthy]]
    /\ currentIndex \in 1 .. NumNodes /\ provider \in 0 .. NumNodes
    /\ probe \in [pc : {"wait", "probe", "stopped"}, node : 0 .. NumNodes + 1,
                  stop : BOOLEAN]

\* NewWatchdog: a first address that does not parse leaves no provider.
FailoverInit ==
    /\ reachable = (1 .. NumNodes) \ Malformed
    /\ health = [n \in 1 .. NumNodes |-> [ok |-> TRUE, fails |-> 0]]
    /\ currentIndex = 1 /\ provider = IF 1 \in Malformed THEN Direct ELSE 1
    /\ probe = [pc |-> "wait", node |-> 0, stop |-> FALSE]
    /\ outages = 0

\* The ticker fires; with stopChan closed as well either case may be chosen.
ProbeTick ==
    /\ probe.pc = "wait"
    /\ probe' = [probe EXCEPT !.pc = "probe", !.node = 1]
    /\ UNCHANGED <<reachable, health, currentIndex, provider, outages>>

\* FailCount is compared with Unhealthy only and is not followed beyond it.
RecordResult(h, success) ==
    IF success THEN [ok |-> TRUE, fails |-> 0]
    ELSE LET f == IF h.fails < Unhealthy THEN h.fails + 1 ELSE h.fails
         IN [ok |-> h.ok /\ f < Unhealthy, fails |-> f]

\* One node is dialled and its result recorded.
ProbeNode ==
    /\ probe.pc = "probe" /\ probe.node <= NumNodes
    /\ health' = [health EXCEPT ![probe.node] = RecordResult(@, probe.node \in reachable)]
    /\ probe' = [probe EXCEPT !.node = @ + 1]
    /\ UNCHANGED <<reachable, currentIndex, provider, outages>>

After(i, k) == ((i - 1 + k) % NumNodes) + 1

\* Mutated form: only the nodes behind the current one in the list.
NextHealthy_NoWrap(i) ==
    LET later == {n \in i + 1 .. NumNodes : health[n].ok}
    IN  IF later = {} THEN i ELSE CHOOSE n \in later : \A m \in later : n <= m

\* Mutated form: the next node, whatever its health.
NextHealthy_Unchecked(i) == After(i, 1)

\* The first healthy node behind the current one, the current one last.
NextHealthy(i) ==
    LET steps == {k \in 1 .. NumNodes : health[After(i, k)].ok}
    IN IF steps = {} THEN i ELSE After(i, CHOOSE k \in steps : \A j \in steps : k <= j)

\* All nodes are probed: failover when the current one is unhealthy.  The
\* provider is replaced only when the new address parses.
Failover ==
    /\ probe.pc = "probe" /\ probe.node > NumNodes
    /\ IF health[currentIndex].ok \/ \A n \in 1 .. NumNodes : ~health[n].ok
       THEN UNCHANGED <<currentIndex, provider>>
       ELSE LET next == NextHealthy(currentIndex)
            IN  /\ currentIndex' = next
                /\ provider' = IF next \in Malformed THEN provider ELSE next
    /\ probe' = [probe EXCEPT !.pc = "wait", !.node = 0]
    /\ UNCHANGED <<reachable, health, outages>>

\* Stop closes stopChan and waits for the loop.
StopWatchdog ==
    /\ ~probe.stop
    /\ probe' = [probe EXCEPT !.stop = TRUE]
    /\ UNCHANGED <<reachable, health, currentIndex, provider, outages>>

ProbeLoopEnds ==
    /\ probe.pc = "wait" /\ probe.stop
    /\ probe' = [probe EXCEPT !.pc = "stopped"]
    /\ UNCHANGED <<reachable, health, currentIndex, provider, outages>>

Outage(n) ==
    /\ outages < MaxOutages /\ n \notin Malformed
    /\ outages' = outages + 1
    /\ reachable' = IF n \in reachable THEN reachable \ {n} ELSE reachable \cup {n}
    /\ UNCHANGED <<health, currentIndex, provider, probe>>

ProbeLoop == ProbeTick \/ ProbeNode \/ Failover \/ ProbeLoopEnds

FailoverNext == ProbeLoop \/ StopWatchdog \/ \E n \in 1 .. NumNodes : Outage(n)

FailoverSpec == FailoverInit /\ [][FailoverNext]_failoverVars /\ WF_failoverVars(ProbeLoop)

-----------------------------------------------------------------------------
\* The provider handed out belongs to the current node.  A first node whose address
\* does not parse has none, and connections are direct until the first failover; no
\* failover chooses such a node: it is unhealthy by the time one could.
ProviderIsCurrent ==
    /\ currentIndex \in Malformed => currentIndex = 1
    /\ provider = IF currentIndex \in Malformed THEN Direct ELSE currentIndex

\* The loop has stopped, or connections go through a node that answers if one does.
OnReachable == probe.pc = "stopped" \/ provider \in reachable \/ reachable = {}
=============================================================================
