------------------------------ MODULE Registry ------------------------------
(***************************************************************************)
(* The in-memory task registry (app/daemon/registry.go).  A task id is a   *)
(* record (chat_id:message_id).  Every admission allocates a new attempt,  *)
(* a *taskState of the code; att is the heap of attempts of the running    *)
(* process, tasks the map from id to its current attempt, queue the FIFO   *)
(* of attempts waiting for dispatch, and terminalOrder the ids in the      *)
(* order they finished.  An old attempt stays alive while a worker holds   *)
(* it, which is why attempts are objects and not fields of a task.         *)
(*                                                                         *)
(* Every method holds the registry mutex: an operator below is one method  *)
(* and gives the next value of every registry variable.                    *)
(***************************************************************************)
EXTENDS Database, Sequences

CONSTANTS
    MaxAttempts,    \* bound on the attempts one process allocates
    QueueCapacity,
    TerminalLimit

ASSUME RegistryAssumption ==
    /\ MaxAttempts \in Nat \ {0}
    /\ QueueCapacity \in Nat \ {0}
    /\ TerminalLimit \in Nat \ {0}

VARIABLES
    att,            \* attempt -> taskState
    made,           \* attempts allocated by this process
    tasks,          \* record -> current attempt, or 0
    queue,          \* attempts waiting for dispatch
    terminalOrder,  \* ids in finishing order
    stamp,          \* last generation handed out (UnixNano never repeats)
    paused          \* Next hands out nothing

regVars == <<att, made, tasks, queue, terminalOrder, stamp, paused>>

Attempts == 1 .. MaxAttempts

Terminal == {"success", "failed", "unavailable"}

TaskStates == {"unused", "queued", "resolving", "downloading", "publishing"} \cup Terminal

(***************************************************************************)
(* The part of a TaskRequest that can differ between two submissions of    *)
(* the same message, which Submit compares as a whole.  origin stands for  *)
(* Date and TargetTitle: the scanner passes created_at, the update stream  *)
(* the date of the message, conflict resolution neither, and the web UI    *)
(* what its client sent.  asRetry is the Retry flag, which Submit clears   *)
(* and RetryTaskWithDecider stores.                                        *)
(***************************************************************************)
Origins == {"scan", "stream", "web", "resolve"}

Requests == [named : BOOLEAN, planned : BOOLEAN, size : Sizes,
             origin : Origins, asRetry : BOOLEAN]

Request(named, planned, size, origin) ==
    [named |-> named, planned |-> planned, size |-> size,
     origin |-> origin, asRetry |-> FALSE]

TaskState == [state : TaskStates, rec : Records, gen : Gens,
              req : Requests, cancelled : BOOLEAN]

IsTerminal(a) == att[a].state \in Terminal

\* An attempt object is allocated for id r and queued under generation gen.
Admit(r, req, gen) ==
    /\ made < MaxAttempts
    /\ made' = made + 1
    /\ att' = [att EXCEPT ![made + 1] =
                [state |-> "queued", rec |-> r, gen |-> gen,
                 req |-> req, cancelled |-> FALSE]]
    /\ tasks' = [tasks EXCEPT ![r] = made + 1]
    /\ queue' = Append(queue, made + 1)
    /\ UNCHANGED paused

\* removeTerminalLocked: the first occurrence of the id is cut out.
RemoveTerminal(r) ==
    LET at == {i \in DOMAIN terminalOrder : terminalOrder[i] = r}
        first == CHOOSE i \in at : \A j \in at : i <= j
    IN  IF at = {} THEN terminalOrder
        ELSE SubSeq(terminalOrder, 1, first - 1)
               \o SubSeq(terminalOrder, first + 1, Len(terminalOrder))

\* Mutated form: the id of a retried task stays among the finished ones.
AdmitRetry_StillFinished(r, req) ==
    /\ stamp < MaxStamp
    /\ stamp' = stamp + 1
    /\ Admit(r, req, stamp + 1)
    /\ UNCHANGED terminalOrder

\* A retry: a new generation, and the id leaves the finished ones.
AdmitRetry(r, req) ==
    /\ stamp < MaxStamp
    /\ stamp' = stamp + 1
    /\ Admit(r, req, stamp + 1)
    /\ terminalOrder' = RemoveTerminal(r)

(***************************************************************************)
(* Submit.  An id that exists with a different request is an ErrIDConflict *)
(* and one that exists with the same request is returned unchanged, unless *)
(* this is a retry of a failed or unavailable task.                        *)
(***************************************************************************)
\* Mutated form: an active task can be retried.
Retriable_Active(r, req, retry) == att[tasks[r]].req = req /\ retry

Retriable(r, req, retry) ==
    /\ att[tasks[r]].req = req
    /\ retry
    /\ att[tasks[r]].state \in {"failed", "unavailable"}

Submit(r, req, retry) ==
    IF Len(queue) >= QueueCapacity THEN UNCHANGED regVars
    ELSE IF tasks[r] = 0
    THEN Admit(r, req, FirstGen) /\ UNCHANGED <<terminalOrder, stamp>>
    ELSE IF Retriable(r, req, retry) THEN AdmitRetry(r, req)
    ELSE UNCHANGED regVars

(***************************************************************************)
(* RetryTaskWithDecider when the decider accepts: the existing request is  *)
(* kept; without one the fallback is stored, Retry flag included.          *)
(***************************************************************************)
RetryAllowed(r) ==
    /\ Len(queue) < QueueCapacity
    /\ tasks[r] # 0 => IsTerminal(tasks[r])

RetryTaskWithDecider(r, fallback) ==
    /\ RetryAllowed(r)
    /\ AdmitRetry(r, IF tasks[r] # 0 THEN att[tasks[r]].req
                     ELSE [fallback EXCEPT !.asRetry = TRUE])

\* Next: the head of the queue becomes resolving, whatever its state was.
Next_ ==
    /\ ~paused
    /\ queue # << >>
    /\ queue' = Tail(queue)
    /\ att' = [att EXCEPT ![Head(queue)].state = "resolving"]
    /\ UNCHANGED <<made, tasks, terminalOrder, stamp, paused>>

Requeue(a) ==
    IF IsTerminal(a) THEN UNCHANGED regVars
    ELSE /\ att' = [att EXCEPT ![a].state = "queued"]
         /\ queue' = Append(queue, a)
         /\ UNCHANGED <<made, tasks, terminalOrder, stamp, paused>>

\* Task.update: a terminal attempt ignores it.  planned: SetFinalPath.
Update(a, state, planned) ==
    /\ att' = IF IsTerminal(a) THEN att
              ELSE [att EXCEPT ![a].state = state, ![a].req.planned = @ \/ planned]
    /\ UNCHANGED <<made, tasks, queue, terminalOrder, stamp, paused>>

(***************************************************************************)
(* finishWithGen: the first terminal state of an attempt wins, its context *)
(* is cancelled, and the oldest finished id is pruned beyond the limit;    *)
(* pruning deletes the id without looking at the state of its task.        *)
(***************************************************************************)
Finish(a, state, planned) ==
    IF IsTerminal(a) THEN UNCHANGED regVars
    ELSE LET order == Append(terminalOrder, att[a].rec)
             full  == Len(order) > TerminalLimit
         IN  /\ att' = [att EXCEPT ![a].state = state, ![a].cancelled = TRUE,
                                   ![a].req.planned = @ \/ planned]
             /\ terminalOrder' = IF full THEN Tail(order) ELSE order
             /\ tasks' = IF full THEN [tasks EXCEPT ![Head(order)] = 0] ELSE tasks
             /\ UNCHANGED <<made, queue, stamp, paused>>

\* FinishTaskByMessage: only the current attempt of r, only generation gen.
FinishTaskByMessage(r, gen, state) ==
    IF tasks[r] # 0 /\ att[tasks[r]].gen = gen
    THEN Finish(tasks[r], state, TRUE)
    ELSE UNCHANGED regVars

\* What is left of sequence s, in its order, when the members of Q leave.
Without(s, Q) ==
    LET left == {i \in DOMAIN s : s[i] \notin Q}
        place(i) == Cardinality({j \in left : j <= i})
    IN  [k \in 1 .. Cardinality(left) |-> s[CHOOSE i \in left : place(i) = k]]

(***************************************************************************)
(* CancelTasksByChatIDWithDecider: first the queue, then the tasks that    *)
(* are still not terminal.  The decider (CancelDownload) runs per attempt; *)
(* Q and T are the attempts it accepts in the two loops.  A cancelled      *)
(* attempt is not appended to terminalOrder.                               *)
(***************************************************************************)
CancelTasks(Q, T) ==
    /\ queue' = Without(queue, Q)
    /\ att' = [a \in Attempts |->
                 IF a \in Q \cup T
                 THEN [att[a] EXCEPT !.state = "failed", !.cancelled = TRUE]
                 ELSE att[a]]
    /\ UNCHANGED <<made, tasks, terminalOrder, stamp, paused>>

SetPaused(p) == paused' = p /\ UNCHANGED <<att, made, tasks, queue, terminalOrder, stamp>>

RegistryTypeOK ==
    /\ att \in [Attempts -> TaskState]
    /\ made \in 0 .. MaxAttempts
    /\ tasks \in [Records -> 0 .. MaxAttempts]
    /\ queue \in Seq(Attempts)
    /\ terminalOrder \in Seq(Records)
    /\ Len(terminalOrder) <= TerminalLimit
    /\ stamp \in Gens \ {NoGen}
    /\ paused \in BOOLEAN

UnusedTask(r) == [state |-> "unused", rec |-> r, gen |-> NoGen,
                  req |-> Request(FALSE, FALSE, 0, "scan"), cancelled |-> FALSE]

\* The registry of a new process; only the clock survives a restart.
EmptyRegistry(p) ==
    /\ att' = [a \in Attempts |-> UnusedTask(CHOOSE r \in Records : TRUE)]
    /\ made' = 0
    /\ tasks' = [r \in Records |-> 0]
    /\ queue' = << >>
    /\ terminalOrder' = << >>
    /\ paused' = p

RegistryInit(p) ==
    /\ att = [a \in Attempts |-> UnusedTask(CHOOSE r \in Records : TRUE)]
    /\ made = 0
    /\ tasks = [r \in Records |-> 0]
    /\ queue = << >>
    /\ terminalOrder = << >>
    /\ stamp = FirstGen
    /\ paused = p
=============================================================================
