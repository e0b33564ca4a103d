-------------------------------- MODULE Gate --------------------------------
(***************************************************************************)
(* The DataGate of core/transfer: a counting semaphore over the data RPCs  *)
(* in flight, and per data centre the time until which a FloodWait of the  *)
(* server forbids new requests.  A cooldown is the time that remains of    *)
(* it, so an expired one, which Acquire deletes, is 0.                     *)
(***************************************************************************)
EXTENDS Integers

CONSTANTS
    DCs,                \* data centres
    MaxDataInFlight,    \* permits of the semaphore
    MaxFloodWait        \* bound: the longest wait the server asks for

ASSUME GateAssumption ==
    /\ MaxDataInFlight \in Nat \ {0}
    /\ MaxFloodWait \in Nat \ {0}

VARIABLES
    cooldown,           \* dcCooldowns
    permits,            \* free permits of sem
    late                \* history: requests sent in the cooldown a data centre is in

gateVars == <<cooldown, permits, late>>

GateTypeOK ==
    /\ cooldown \in [DCs -> 0 .. MaxFloodWait]
    /\ permits \in 0 .. MaxDataInFlight
    /\ late \in [DCs -> Nat]

GateInit ==
    /\ cooldown = [dc \in DCs |-> 0]
    /\ permits = MaxDataInFlight
    /\ late = [dc \in DCs |-> 0]

IsDCCooledDown(dc) == cooldown[dc] > 0

\* TriggerFloodWait: the later of the two deadlines stands.
TriggerFloodWait(dc, d) ==
    cooldown' = [cooldown EXCEPT ![dc] = IF d > @ THEN d ELSE @]

AcquirePermit == permits > 0 /\ permits' = permits - 1
ReleasePermit == permits' = permits + 1

\* A request is sent to dc.
CountSent(dc) ==
    late' = [late EXCEPT ![dc] = IF IsDCCooledDown(dc) THEN @ + 1 ELSE @]

\* One unit of time passes for every cooldown.
CooldownTick ==
    /\ cooldown' = [dc \in DCs |-> IF cooldown[dc] > 0 THEN cooldown[dc] - 1 ELSE 0]
    /\ late' = [dc \in DCs |-> IF cooldown[dc] > 1 THEN late[dc] ELSE 0]
=============================================================================
