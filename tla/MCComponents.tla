---------------------------- MODULE MCComponents ----------------------------
(***************************************************************************)
(* The components beside the daemon's pipeline.  They share no state, so a *)
(* behaviour picks one of them, its focus, and only that one takes steps:  *)
(* the reachable states are the sum of the components' states, not their   *)
(* product, and each component has exactly the behaviours of its own       *)
(* specification.                                                          *)
(***************************************************************************)
EXTENDS Backoff, RangeTracker, SpoolMigrator, SpoolRows, Pool, Admission,
        AuthWizard, ProxyManager, FailoverWatchdog, MessageCache, Batch

CONSTANTS t1, t2, t3

VARIABLE focus

componentVars ==
    <<focus, backoffVars, trackerVars, migVars, spoolRowVars, poolVars,
      admissionVars, wizardVars, proxyVars, failoverVars, cacheVars, batchVars>>

MCExpectedSize == [t \in Tasks |-> IF t = t1 THEN 1 ELSE IF t = t2 THEN 2 ELSE 0]
MCNodes == <<"n1", "direct", "n2">>

\* A dialog with a message without a file and one of an album, one with a
\* message of its own, one without messages, and one behind it.
MCDialogs == <<<<1, 2>>, <<4>>, <<>>, <<1>>>>
MCAlbum == [m \in 1 .. 4 |-> IF m \in {2, 3} THEN <<2, 3>> ELSE <<>>]

Focuses ==
    {"backoff", "tracker", "migrator", "rows", "pool", "admission", "wizard",
     "proxy", "failover", "cache", "batch"}

\* One state is enough for a component whose initial states are many and that
\* is not the focus.
ComponentsInit ==
    /\ focus \in Focuses
    /\ BackoffInit /\ TrackerInit /\ MigratorInit /\ PoolInit
    /\ AdmissionInit /\ FailoverInit /\ CacheInit /\ BatchInit
    /\ SpoolRowsInit
    /\ focus # "rows" => /\ status = "absent"
                         /\ stored = [target |-> "none", archive |-> "none"]
                         /\ ~old.attempt /\ ~old.digest /\ ~old.sized
    /\ WizardInit /\ (focus # "wizard" => wizard.ns = CHOOSE n \in Namespaces : TRUE)
    /\ ProxyInit /\ (focus # "proxy" => selected = Nodes[1])

OthersStay(name) ==
    /\ UNCHANGED focus
    /\ name # "backoff" => UNCHANGED backoffVars
    /\ name # "tracker" => UNCHANGED trackerVars
    /\ name # "migrator" => UNCHANGED migVars
    /\ name # "rows" => UNCHANGED spoolRowVars
    /\ name # "pool" => UNCHANGED poolVars
    /\ name # "admission" => UNCHANGED admissionVars
    /\ name # "wizard" => UNCHANGED wizardVars
    /\ name # "proxy" => UNCHANGED proxyVars
    /\ name # "failover" => UNCHANGED failoverVars
    /\ name # "cache" => UNCHANGED cacheVars
    /\ name # "batch" => UNCHANGED batchVars

ComponentsNext ==
    \/ focus = "backoff" /\ BackoffNext /\ OthersStay("backoff")
    \/ focus = "tracker" /\ TrackerNext /\ OthersStay("tracker")
    \/ focus = "migrator" /\ MigratorNext /\ OthersStay("migrator")
    \/ focus = "rows" /\ SpoolRowsNext /\ OthersStay("rows")
    \/ focus = "pool" /\ PoolNext /\ OthersStay("pool")
    \/ focus = "admission" /\ AdmissionNext /\ OthersStay("admission")
    \/ focus = "wizard" /\ WizardNext /\ OthersStay("wizard")
    \/ focus = "proxy" /\ ProxyNext /\ OthersStay("proxy")
    \/ focus = "failover" /\ FailoverNext /\ OthersStay("failover")
    \/ focus = "cache" /\ CacheNext /\ OthersStay("cache")
    \/ focus = "batch" /\ BatchNext /\ OthersStay("batch")

\* The progress of the components whose fairness is assumed; the focus does not
\* change, so this is the fairness of the one in focus.
ComponentsProgress ==
    \/ focus = "pool" /\ PoolProgress /\ OthersStay("pool")
    \/ focus = "proxy" /\ Dog /\ OthersStay("proxy")
    \/ focus = "failover" /\ ProbeLoop /\ OthersStay("failover")
    \/ focus = "batch" /\ BatchProgress /\ OthersStay("batch")

ComponentsSpec ==
    ComponentsInit /\ [][ComponentsNext]_componentVars /\ WF_componentVars(ComponentsProgress)

\* The type invariants of the components: every field stays within the range
\* the code gives it, bounded ones (cooldowns, delays, retries) included.
ComponentsTypeOK ==
    CASE focus = "migrator"  -> MigratorTypeOK
      [] focus = "rows"      -> SpoolRowsTypeOK
      [] focus = "pool"      -> PoolTypeOK
      [] focus = "admission" -> AdmissionTypeOK
      [] focus = "wizard"    -> WizardTypeOK
      [] focus = "proxy"     -> ProxyTypeOK
      [] focus = "failover"  -> FailoverTypeOK
      [] focus = "cache"     -> CacheTypeOK
      [] focus = "batch"     -> BatchTypeOK
      [] OTHER               -> TRUE

\* Once nodes stop going down and coming back, a running failover watchdog ends on
\* a reachable node if there is one, also when it moved to one that had just died
\* and when its first node never had a provider.
FailoverRecovers == []<>(focus = "failover" => OnReachable)
=============================================================================
