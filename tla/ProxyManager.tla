---------------------------- MODULE ProxyManager ----------------------------
(***************************************************************************)
(* The ProxyManager of app/daemon: the watchdog that tests the active node *)
(* of sing-box and switches to the next live one, and the switches and     *)
(* listings of the web server that run beside it.  sing-box is external:   *)
(* it has one selector, named proxy, and tells the delay of a node.        *)
(* A switch is a request to sing-box and then an assignment.               *)
(***************************************************************************)
EXTENDS Integers, Sequences

CONSTANTS
    Nodes,              \* the entries of the selector, in order
    Groups,             \* entries that are selectors, fallbacks or direct
    MaxRetests,         \* retries before a node counts as dead
    MaxFlaps,           \* bounds: nodes that go down or come back,
    MaxUserCalls,       \* calls of the web server,
    MaxApiErrors        \* and failing requests to sing-box

ASSUME ProxyAssumption ==
    /\ Nodes \in Seq(STRING) /\ Len(Nodes) > 0
    /\ Groups \subseteq {Nodes[i] : i \in 1 .. Len(Nodes)}
    /\ {MaxRetests, MaxFlaps, MaxUserCalls, MaxApiErrors} \subseteq Nat

VARIABLES
    alive,              \* entries sing-box reaches
    selected,           \* what the selector of sing-box uses
    activeTag,          \* what the manager believes it uses; "" at first
    dog,                \* the watchdog
    user,               \* a call of the web server
    spent,              \* history: what of the bounds is used up
    crossed             \* history: a call of the web server overlapped a switch,
                        \* or a switch took effect and its answer was lost

proxyVars == <<alive, selected, activeTag, dog, user, spent, crossed>>

Entries == {Nodes[i] : i \in 1 .. Len(Nodes)}

DogIdle == [pc |-> "idle", watched |-> "", tries |-> 0, node |-> "", step |-> 0,
            moved |-> FALSE]        \* moved: history, a web switch in this round
UserIdle == [pc |-> "idle", node |-> ""]

ProxyTypeOK ==
    /\ alive \subseteq Entries
    /\ selected \in Entries /\ activeTag \in Entries \cup {""}
    /\ dog \in [pc : {"idle", "note", "ping", "list", "search", "put", "set"},
                watched : Entries \cup {""}, tries : 0 .. MaxRetests,
                node : Entries \cup {""}, step : 0 .. Len(Nodes), moved : BOOLEAN]
    /\ user \in [pc : {"idle", "switch", "listed"}, node : Entries \cup {""}]
    /\ crossed \in BOOLEAN

ProxyInit ==
    /\ alive = Entries
    /\ selected \in Entries /\ activeTag = ""
    /\ dog = DogIdle /\ user = UserIdle
    /\ spent = [flaps |-> 0, calls |-> 0, errors |-> 0]
    /\ crossed = FALSE

\* A request to sing-box fails.
ApiFails == spent.errors < MaxApiErrors /\ spent' = [spent EXCEPT !.errors = @ + 1]

IndexOf(node) == CHOOSE i \in 1 .. Len(Nodes) : Nodes[i] = node

\* PingProxy: a positive delay.
Ping(node) == node \in alive

\* The timer fires: the node to watch is the active one, else the one sing-box
\* lists; without one the watchdog waits for the next timer.
DogTimer ==
    /\ dog.pc = "idle"
    /\ \/ /\ activeTag # ""
          /\ dog' = [DogIdle EXCEPT !.pc = "ping", !.watched = activeTag,
                                 !.moved = user.pc = "switch"]
          /\ UNCHANGED spent
       \/ /\ activeTag = ""
          /\ dog' = [DogIdle EXCEPT !.pc = "note", !.node = selected,
                                 !.moved = user.pc = "switch"]
          /\ UNCHANGED spent
       \/ activeTag = "" /\ ApiFails /\ UNCHANGED dog
    /\ UNCHANGED <<alive, selected, activeTag, user, crossed>>

\* GetProxyList, behind the answer: the listed node becomes the active one.
DogNote ==
    /\ dog.pc = "note"
    /\ activeTag' = dog.node
    /\ dog' = IF dog.watched = "" THEN [dog EXCEPT !.pc = "ping", !.watched = dog.node]
              ELSE [dog EXCEPT !.pc = "search", !.step = 1]
    /\ UNCHANGED <<alive, selected, user, spent, crossed>>

\* Mutated form: the first failing ping is the last.
DogPing_Once ==
    /\ dog.pc = "ping"
    /\ dog' = IF Ping(dog.watched) THEN DogIdle ELSE [dog EXCEPT !.pc = "list"]
    /\ UNCHANGED <<alive, selected, activeTag, user, spent, crossed>>

\* The first ping and the retries, all of the node read when the timer fired.
DogPing ==
    /\ dog.pc = "ping"
    /\ dog' = IF Ping(dog.watched) THEN DogIdle
              ELSE IF dog.tries < MaxRetests THEN [dog EXCEPT !.tries = @ + 1]
              ELSE [dog EXCEPT !.pc = "list"]
    /\ UNCHANGED <<alive, selected, activeTag, user, spent, crossed>>

\* The node is dead: the search starts behind the one sing-box uses now.
DogList ==
    /\ dog.pc = "list"
    /\ \/ dog' = [dog EXCEPT !.pc = "note", !.node = selected] /\ UNCHANGED spent
       \/ ApiFails /\ dog' = DogIdle
    /\ UNCHANGED <<alive, selected, activeTag, user, crossed>>

\* Mutated form: the search ends at the end of the list.
Candidate_NoWrap ==
    LET i == IndexOf(dog.node) + dog.step
    IN  Nodes[IF i < Len(Nodes) THEN i ELSE Len(Nodes)]

Candidate == Nodes[((IndexOf(dog.node) - 1 + dog.step) % Len(Nodes)) + 1]

\* The next candidate, around the end of the list; groups are passed over.
DogSearch ==
    /\ dog.pc = "search"
    /\ dog' = IF Candidate \notin Groups /\ Ping(Candidate)
              THEN [dog EXCEPT !.pc = "put", !.node = Candidate, !.step = 0]
              ELSE IF dog.step < Len(Nodes) THEN [dog EXCEPT !.step = @ + 1]
              ELSE DogIdle
    /\ UNCHANGED <<alive, selected, activeTag, user, spent, crossed>>

\* SwitchProxy: the request.  A status other than 2xx is tried once more with
\* the group GLOBAL, which is no selector of sing-box, and ends the call; so
\* does an error, before or behind the switch.
DogPut ==
    /\ dog.pc = "put"
    /\ \/ /\ selected' = dog.node /\ dog' = [dog EXCEPT !.pc = "set"]
          /\ crossed' = (crossed \/ user.pc # "idle")
          /\ UNCHANGED spent
       \/ ApiFails /\ dog' = DogIdle /\ UNCHANGED <<selected, crossed>>
       \/ ApiFails /\ dog' = DogIdle /\ selected' = dog.node /\ crossed' = TRUE
    /\ UNCHANGED <<alive, activeTag, user>>

\* SwitchProxy: the assignment after a 2xx.
DogSet ==
    /\ dog.pc = "set"
    /\ activeTag' = dog.node
    /\ dog' = DogIdle
    /\ UNCHANGED <<alive, selected, user, spent, crossed>>

\* The web server switches: the request, whose answer may be lost.
UserPut(node) ==
    /\ user.pc = "idle" /\ spent.calls < MaxUserCalls
    /\ selected' = node
    /\ \/ /\ spent' = [spent EXCEPT !.calls = @ + 1]
          /\ user' = [pc |-> "switch", node |-> node]
          /\ crossed' = (crossed \/ dog.pc \in {"note", "set"})
       \/ /\ spent.errors < MaxApiErrors
          /\ spent' = [spent EXCEPT !.calls = @ + 1, !.errors = @ + 1]
          /\ crossed' = TRUE
          /\ UNCHANGED user
    /\ dog' = [dog EXCEPT !.moved = dog.pc # "idle"]
    /\ UNCHANGED <<alive, activeTag>>

\* The web server lists: the answer of sing-box.
UserList ==
    /\ user.pc = "idle" /\ spent.calls < MaxUserCalls
    /\ spent' = [spent EXCEPT !.calls = @ + 1]
    /\ user' = [pc |-> "listed", node |-> selected]
    /\ crossed' = (crossed \/ dog.pc = "set")
    /\ UNCHANGED <<alive, selected, activeTag, dog>>

\* The assignment that ends either call.
UserSet ==
    /\ user.pc # "idle"
    /\ activeTag' = user.node
    /\ user' = UserIdle
    /\ UNCHANGED <<alive, selected, dog, spent, crossed>>

\* A node goes down or comes back.
Flap(node) ==
    /\ spent.flaps < MaxFlaps
    /\ spent' = [spent EXCEPT !.flaps = @ + 1]
    /\ alive' = IF node \in alive THEN alive \ {node} ELSE alive \cup {node}
    /\ UNCHANGED <<selected, activeTag, dog, user, crossed>>

Dog == DogTimer \/ DogNote \/ DogPing \/ DogList \/ DogSearch \/ DogPut \/ DogSet

ProxyNext ==
    \/ Dog \/ UserList \/ UserSet
    \/ \E node \in Entries : UserPut(node) \/ Flap(node)

ProxySpec == ProxyInit /\ [][ProxyNext]_proxyVars /\ WF_proxyVars(Dog)

-----------------------------------------------------------------------------
\* The watchdog leaves a node only after the first ping and every retry of that
\* very node failed, unless the web server switched since the timer fired, or a
\* switch before was crossed by another call or lost its answer.
LeavesOnlyDead ==
    [][(dog.pc = "put" /\ selected' # selected /\ UNCHANGED user)
        => (dog.moved \/ crossed \/ (dog.watched = selected /\ dog.tries = MaxRetests))]_proxyVars

\* A dead node is left in the end for a live one, through flapping nodes and
\* failing requests: the traffic does not stay on a node that is down while
\* another is up, unless the manager believes another node to be in use.
WatchdogRecovers ==
    []<>(\/ activeTag \notin {"", selected} \/ user.pc # "idle"
         \/ selected \in alive \/ alive \subseteq Groups)
=============================================================================
