---------------------------- MODULE WorkerProofs ----------------------------
(***************************************************************************)
(* The daemon on its registry and on its disks, for all values of the      *)
(* constants.  First, the methods of the registry keep its representation, *)
(* for any number of records and attempts: every attempt stays with its    *)
(* record, every queued and every current attempt is allocated, and only   *)
(* Finish makes an attempt a success.  Then, the disks, the archive worker *)
(* and the environment are typed: what a worker writes to a .part is what  *)
(* Telegram resolved to, so the invariant includes the content each worker *)
(* holds.  Last, a worker runs an attempt of its record, and an attempt    *)
(* waits once.                                                             *)
(***************************************************************************)
EXTENDS Properties, FiniteSetTheorems, WellFoundedInduction, TLAPS

\* The lengths 0 and SizeOf[c] are numbers.
LEMMA SizesAreNat == Sizes \subseteq Nat /\ 0 \in Sizes
BY SizeAssumption DEF Sizes

\* The generations every process hands out.
LEMMA GensTyped == NoGen \in Gens /\ FirstGen \in Gens /\ Gens \subseteq Nat
BY StampAssumption DEF NoGen, FirstGen, Gens

\* New metadata for a row.
LEMMA DescribedTyped ==
    ASSUME NEW d \in Rows, NEW named \in BOOLEAN, NEW planned \in BOOLEAN, NEW size \in Sizes
    PROVE  Described(d, named, planned, size) \in Rows
<1>1. Known(size, d.size) \in Sizes
  BY DEF Known, Rows
<1>2. (d.planned \/ planned) \in BOOLEAN
  OBVIOUS
<1> QED
  BY Zenon, <1>1, <1>2 DEF Described, Rows

\* The new states of a row.
LEMMA StatusTyped ==
    ASSUME NEW d \in Rows, NEW s \in Statuses
    PROVE  [d EXCEPT !.status = s] \in Rows
BY Zenon DEF Rows

\* What ingest writes for a message is a row.
LEMMA IngestedTyped ==
    ASSUME NEW d \in Rows, NEW size \in Sizes PROVE Ingested(d, size) \in Rows
BY Zenon DEF Ingested, Rows, Statuses

\* What a worker writes to make sure that the row exists is a row.
LEMMA EnsuredTyped ==
    ASSUME NEW d \in Rows, NEW planned \in BOOLEAN, NEW size \in Sizes
    PROVE  Ensured(d, planned, size) \in Rows
BY Zenon DEF Ensured, Rows, Statuses

\* What the begin of a download writes is a row.
LEMMA BegunTyped ==
    ASSUME NEW d \in Rows, NEW gen \in Gens, NEW named \in BOOLEAN, NEW planned \in BOOLEAN,
           NEW size \in Sizes
    PROVE  Begun(d, gen, named, planned, size) \in Rows
<1>1. Described(d, named, planned, size) \in Rows
  BY DescribedTyped
<1> QED
  BY Zenon, <1>1 DEF Begun, Rows, Statuses

\* The commit fact and the success written after it are rows.
LEMMA PreparedTyped ==
    ASSUME NEW d \in Rows, NEW size \in Sizes, NEW sha \in Contents \cup {None}
    PROVE  Prepared(d, size, sha) \in Rows /\ Completed(d, size, sha) \in Rows
BY Zenon DEF Prepared, Completed, Rows, Statuses

\* A row put into conflict is a row.
LEMMA ConflictedTyped ==
    ASSUME NEW d \in Rows, NEW gen \in Gens, NEW named \in BOOLEAN, NEW planned \in BOOLEAN,
           NEW size \in Sizes
    PROVE  Conflicted(d, gen, named, planned, size) \in Rows
<1>1. Described(d, named, planned, size) \in Rows
  BY DescribedTyped
<1> DEFINE e == Described(d, named, planned, size)
<1>2. /\ (IF d.status = "absent" THEN gen ELSE e.gen) \in Gens
      /\ (e.tried \/ d.status = "absent") \in BOOLEAN
  BY Zenon, <1>1 DEF Rows
<1> HIDE DEF e
<1>3. e \in Rows => [e EXCEPT !.status = "conflict", !.due = TRUE,
            !.gen = IF d.status = "absent" THEN gen ELSE @,
            !.tried = @ \/ d.status = "absent"] \in Rows
  BY Zenon, <1>2 DEF Rows, Statuses
<1> QED
  BY Zenon, <1>1, <1>3 DEF Conflicted, e

\* A row that a failure of any kind was recorded in is a row.
LEMMA FailedTyped ==
    ASSUME NEW d \in Rows, NEW kind \in FailKinds, NEW gen \in Gens, NEW named \in BOOLEAN,
           NEW planned \in BOOLEAN, NEW size \in Sizes
    PROVE  Failed(d, kind, gen, named, planned, size) \in Rows
<1>1. Described(d, named, planned, size) \in Rows
  BY DescribedTyped
<1> DEFINE e == Described(d, named, planned, size)
           s1 == IF kind = "unavailable" THEN kind ELSE "failed"
           s2 == CASE kind = "error" -> "failed"
                   [] kind = "ctx" -> "pending"
                   [] kind = "unavailable" -> "unavailable"
<1>2. s1 \in Statuses /\ s2 \in Statuses
  BY DEF FailKinds, Statuses
<1>3. ((e.tried \/ kind = "error") \in BOOLEAN) /\ ((kind = "ctx") \in BOOLEAN)
  OBVIOUS
<1> HIDE DEF e, s1, s2
<1>4. e \in Rows => [e EXCEPT !.status = s1, !.gen = gen, !.tried = TRUE, !.due = FALSE] \in Rows
  BY Zenon, <1>2 DEF Rows
<1>5. e \in Rows => [e EXCEPT !.status = s2, !.tried = @ \/ kind = "error", !.due = (kind = "ctx")] \in Rows
  BY Zenon, <1>2, <1>3 DEF Rows
<1> QED
  BY Zenon, <1>1, <1>4, <1>5 DEF Failed, e, s1, s2

\* A row reset for a retry, and a cancelled one, are rows.
LEMMA ResetTyped ==
    ASSUME NEW d \in Rows, NEW s \in Rows
    PROVE  Reset(d, s) \in Rows /\ Cancelled(d) \in Rows
<1>1. Described(d, s.named, s.planned, s.size) \in Rows
  BY DescribedTyped DEF Rows
<1> QED
  BY Zenon, <1>1 DEF Reset, Cancelled, Rows, Statuses

\* A resolved conflict, and a row that has come due, are rows.
LEMMA ResolvedTyped ==
    ASSUME NEW d \in Rows, NEW gen \in Gens
    PROVE  ConflictResolved(d, gen) \in Rows /\ [d EXCEPT !.due = TRUE] \in Rows
BY Zenon DEF ConflictResolved, Rows, Statuses

\* The row of a message that was never ingested is a row.
LEMMA AbsentTyped == AbsentRow \in Rows
BY SizesAreNat, GensTyped DEF AbsentRow, Rows, Statuses

\* The archive job written with a success is a job.
LEMMA EnqueuedTyped ==
    ASSUME NEW j \in Jobs, NEW size \in Sizes, NEW sha \in Contents \cup {None}
    PROVE  Enqueued(j, size, sha) \in Jobs
BY Zenon DEF Enqueued, Jobs, JobStates

\* Every transition of an archive job writes a job.
LEMMA JobTyped ==
    ASSUME NEW j \in Jobs, NEW claim \in Claims
    PROVE  /\ ClaimArchiveJob(j, claim) \in Jobs
           /\ ArchiveCompleted(j) \in Jobs
           /\ FailArchiveJob(j, claim) \in Jobs
           /\ SetArchiveJobConflict(j, claim) \in Jobs
           /\ RecoverStaleArchiveJob(j) \in Jobs
           /\ [j EXCEPT !.due = TRUE] \in Jobs
<1>1. 0 \in Claims
  BY BudgetAssumption DEF Claims
<1> QED
  BY Zenon, <1>1 DEF ClaimArchiveJob, ArchiveCompleted, FailArchiveJob, SetArchiveJobConflict,
     RecoverStaleArchiveJob, Jobs, JobStates
-----------------------------------------------------------------------------
(* The registry *)

\* Among the members of a set of positions, one is the k-th.
LEMMA NthExists ==
    ASSUME NEW n \in Nat, NEW K \in SUBSET (1 .. n), NEW k \in 1 .. Cardinality(K)
    PROVE  \E i \in K : Cardinality({j \in K : j <= i}) = k
<1> DEFINE Upto(i) == {j \in K : j <= i}
           Count(i) == Cardinality(Upto(i))
<1>0. \A j \in K : j \in Nat /\ 1 <= j /\ j <= n
  OBVIOUS
<1>1. IsFiniteSet(K)
  <2>1. K \in SUBSET Nat
    BY <1>0
  <2> QED
    BY <1>0, <2>1, FS_BoundedSetOfNaturals
<1>2. ASSUME NEW i PROVE IsFiniteSet(Upto(i)) /\ Count(i) \in Nat
  <2>1. Upto(i) \in SUBSET K
    OBVIOUS
  <2>2. IsFiniteSet(Upto(i))
    BY <1>1, <2>1, FS_Subset
  <2> QED
    BY <2>2, FS_CardinalityType
<1>3. Count(0) = 0 /\ Count(n) = Cardinality(K)
  <2>1. \A j \in K : ~(j <= 0) /\ j <= n
    BY <1>0
  <2>2. Upto(0) = {} /\ Upto(n) = K
    BY Zenon, <2>1
  <2> QED
    BY Zenon, <2>2, FS_EmptySet
<1>4. ASSUME NEW i \in 1 .. n
      PROVE  Count(i) = IF i \in K THEN Count(i - 1) + 1 ELSE Count(i - 1)
  <2>1. \A j \in K : (j <= i <=> j <= i - 1 \/ j = i)
    BY <1>0
  <2>2. ~(i <= i - 1)
    OBVIOUS
  <2>3. Upto(i) = IF i \in K THEN Upto(i - 1) \cup {i} ELSE Upto(i - 1)
    BY Zenon, <2>1
  <2>4. i \notin Upto(i - 1) /\ IsFiniteSet(Upto(i - 1))
    BY Zenon, <1>2, <2>2
  <2>5. Cardinality(Upto(i - 1) \cup {i}) = Cardinality(Upto(i - 1)) + 1
    BY Zenon, <2>4, FS_AddElement
  <2> QED
    BY Zenon, <2>3, <2>5
<1> HIDE DEF Count
<1> DEFINE Reached == {i \in 0 .. n : Count(i) >= k}
<1>5. n \in Reached /\ Reached \subseteq Nat
  BY <1>2, <1>3
<1> HIDE DEF Reached
<1>6. PICK m \in Reached : \A i \in Reached : ~(<<i, m>> \in OpToRel(<, Nat))
  BY Zenon, <1>5, WFMin, NatLessThanWellFounded
<1>7. m \in 0 .. n /\ Count(m) >= k /\ k \in Nat /\ k >= 1
  <2>1. m \in Reached
    BY Zenon, <1>6
  <2>2. Cardinality(K) \in Nat
    BY Zenon, <1>1, FS_CardinalityType
  <2> QED
    BY <2>1, <2>2 DEF Reached
<1>8. m \in 1 .. n
  BY <1>3, <1>7
<1>9. Count(m - 1) < k
  <2>1. m - 1 \in 0 .. n /\ m - 1 \in Nat /\ m \in Nat /\ m - 1 < m
    BY <1>8
  <2>2. <<m - 1, m>> \in OpToRel(<, Nat)
    BY <2>1 DEF OpToRel
  <2>3. m - 1 \notin Reached
    BY Zenon, <1>6, <2>2
  <2>4. Count(m - 1) \in Nat
    BY Zenon, <1>2
  <2> QED
    BY <2>1, <2>3, <2>4, <1>7 DEF Reached
<1>10. m \in K /\ Count(m) = k
  <2>1. Count(m) \in Nat /\ Count(m - 1) \in Nat
    BY Zenon, <1>2
  <2> QED
    BY <1>4, <1>7, <1>8, <1>9, <2>1
<1> QED
  BY <1>10 DEF Count

\* What is left of a sequence comes from distinct places of it.
LEMMA WithoutFrom ==
    ASSUME NEW S, NEW s \in Seq(S), NEW Q
    PROVE  /\ Without(s, Q) \in Seq(S)
           /\ \A k \in DOMAIN Without(s, Q) : \E i \in DOMAIN s : Without(s, Q)[k] = s[i]
           /\ (\A i, j \in DOMAIN s : s[i] = s[j] => i = j) =>
                 \A k, l \in DOMAIN Without(s, Q) :
                    Without(s, Q)[k] = Without(s, Q)[l] => k = l
<1> DEFINE left == {i \in DOMAIN s : s[i] \notin Q}
           place(i) == Cardinality({j \in left : j <= i})
           pick(k) == CHOOSE i \in left : place(i) = k
<1>1. DOMAIN s = 1 .. Len(s) /\ Len(s) \in Nat /\ left \in SUBSET (1 .. Len(s))
  OBVIOUS
<1>2. Cardinality(left) \in Nat
  <2>1. left \in SUBSET Nat /\ \A i \in left : i <= Len(s)
    BY <1>1
  <2>2. IsFiniteSet(left)
    BY Zenon, <1>1, <2>1, FS_BoundedSetOfNaturals
  <2> QED
    BY <2>2, FS_CardinalityType
<1>3. ASSUME NEW k \in 1 .. Cardinality(left) PROVE pick(k) \in left /\ place(pick(k)) = k
  <2>1. \E i \in left : place(i) = k
    BY Zenon, <1>1, NthExists
  <2> QED
    BY Zenon, <2>1
<1> HIDE DEF place, left, pick
<1>4. Without(s, Q) = [k \in 1 .. Cardinality(left) |-> s[pick(k)]]
  BY Zenon DEF Without, left, place, pick
<1>5. \A k \in 1 .. Cardinality(left) : pick(k) \in DOMAIN s
  BY Zenon, <1>3 DEF left
<1>6. DOMAIN Without(s, Q) = 1 .. Cardinality(left)
  BY <1>4
<1>7. \A k \in 1 .. Cardinality(left) : Without(s, Q)[k] = s[pick(k)]
  BY <1>4
<1>8. Without(s, Q) \in Seq(S)
  <2>1. \A k \in 1 .. Cardinality(left) : s[pick(k)] \in S
    BY <1>5
  <2> QED
    BY <1>2, <1>4, <2>1
<1>9. ASSUME \A i, j \in DOMAIN s : s[i] = s[j] => i = j,
             NEW k \in 1 .. Cardinality(left), NEW l \in 1 .. Cardinality(left),
             Without(s, Q)[k] = Without(s, Q)[l]
      PROVE  k = l
  <2>1. pick(k) = pick(l)
    BY <1>5, <1>7, <1>9, Zenon
  <2> QED
    BY <1>3, <2>1, Zenon
<1> QED
  BY Zenon, <1>5, <1>6, <1>7, <1>8, <1>9

\* The current attempts and the waiting ones are allocated, and a current
\* attempt belongs to its id.
RegOK ==
    /\ RegistryTypeOK
    /\ \A r \in Records : tasks[r] <= made /\ (tasks[r] # 0 => att[tasks[r]].rec = r)
    /\ \A i \in DOMAIN queue : queue[i] <= made

\* An attempt keeps its record, and becomes success only if it is in S.
AttemptsMove(S) ==
    /\ made <= made'
    /\ \A a \in 1 .. made : att'[a].rec = att[a].rec
    /\ \A a \in Attempts : att'[a].state = "success" =>
          att'[a].rec = att[a].rec /\ (att[a].state = "success" \/ att[a].rec \in S)

\* Only a new attempt enters the queue, and at its end.
QueueGrows == queue' = queue \/ (made' = made + 1 /\ queue' = Append(queue, made + 1))

\* A call that changes nothing.
LEMMA RegistrySame ==
    ASSUME RegOK, UNCHANGED regVars PROVE RegOK' /\ AttemptsMove({}) /\ QueueGrows
<1>1. /\ att' = att /\ made' = made /\ tasks' = tasks /\ queue' = queue
      /\ terminalOrder' = terminalOrder /\ stamp' = stamp /\ paused' = paused
  BY DEF regVars
<1>2. RegOK'
  BY Zenon, <1>1 DEF RegOK, RegistryTypeOK
<1>3. made \in Nat
  BY DEF RegOK, RegistryTypeOK
<1> QED
  BY <1>1, <1>2, <1>3 DEF AttemptsMove, QueueGrows

\* An attempt object as Admit allocates it.
LEMMA NewTask ==
    ASSUME NEW r \in Records, NEW req \in Requests, NEW gen \in Gens
    PROVE  [state |-> "queued", rec |-> r, gen |-> gen, req |-> req, cancelled |-> FALSE] \in TaskState
BY DEF TaskState, TaskStates

\* The admission of an attempt, whatever happens to the finished ids.
LEMMA AdmitOK ==
    ASSUME RegOK, NEW r \in Records, NEW req \in Requests, NEW gen \in Gens,
           Admit(r, req, gen), terminalOrder' \in Seq(Records),
           Len(terminalOrder') <= TerminalLimit, stamp' \in Gens \ {NoGen}
    PROVE  RegOK' /\ AttemptsMove({}) /\ QueueGrows
<1> DEFINE new == [state |-> "queued", rec |-> r, gen |-> gen, req |-> req, cancelled |-> FALSE]
<1>1. /\ made < MaxAttempts /\ made' = made + 1
      /\ att' = [att EXCEPT ![made + 1] = new]
      /\ tasks' = [tasks EXCEPT ![r] = made + 1]
      /\ queue' = Append(queue, made + 1) /\ paused' = paused
  BY DEF Admit
<1>2. new \in TaskState /\ new.rec = r /\ new.state = "queued"
  BY NewTask
<1> HIDE DEF new
<1>3. /\ att \in [Attempts -> TaskState] /\ made \in 0 .. MaxAttempts /\ MaxAttempts \in Nat
      /\ tasks \in [Records -> 0 .. MaxAttempts] /\ queue \in Seq(Attempts) /\ paused \in BOOLEAN
      /\ made + 1 \in Attempts /\ made' \in 0 .. MaxAttempts
  BY <1>1, RegistryAssumption DEF RegOK, RegistryTypeOK, Attempts
<1>4. /\ att' \in [Attempts -> TaskState] /\ tasks' \in [Records -> 0 .. MaxAttempts]
      /\ queue' \in Seq(Attempts) /\ paused' \in BOOLEAN
  <2>1. att' \in [Attempts -> TaskState]
    BY Zenon, <1>1, <1>2, <1>3
  <2>2. tasks' \in [Records -> 0 .. MaxAttempts]
    BY <1>1, <1>3
  <2>3. queue' \in Seq(Attempts)
    BY <1>1, <1>3
  <2> QED
    BY <1>1, <1>3, <2>1, <2>2, <2>3
<1>5. RegistryTypeOK'
  BY Zenon, <1>3, <1>4 DEF RegistryTypeOK
<1>6. /\ \A a \in Attempts : a # made + 1 => att'[a] = att[a]
      /\ att'[made + 1] = new
  BY Zenon, <1>1, <1>3
<1>7. ASSUME NEW s \in Records
      PROVE  tasks'[s] <= made' /\ (tasks'[s] # 0 => att'[tasks'[s]].rec = s)
  <2>1. CASE s = r
    BY <1>1, <1>2, <1>3, <1>6, <2>1
  <2>2. CASE s # r
    <3>1. tasks'[s] = tasks[s] /\ tasks[s] <= made /\ tasks[s] \in 0 .. MaxAttempts
      BY <1>1, <1>3, <2>2 DEF RegOK
    <3>2. tasks[s] # 0 => tasks[s] \in Attempts /\ tasks[s] # made + 1
      BY <1>3, <3>1 DEF Attempts
    <3>3. tasks[s] # 0 => att[tasks[s]].rec = s
      BY DEF RegOK
    <3>4. tasks'[s] # 0 => att'[tasks'[s]].rec = s
      BY <1>6, <3>1, <3>2, <3>3
    <3> QED
      BY <1>1, <1>3, <3>1, <3>4
  <2> QED
    BY <2>1, <2>2
<1>8. \A i \in DOMAIN queue' : queue'[i] <= made'
  BY <1>1, <1>3 DEF RegOK, Attempts
<1>9. AttemptsMove({})
  <2>1. \A a \in 1 .. made : a \in Attempts /\ a # made + 1
    BY <1>3 DEF Attempts
  <2>2. made <= made'
    BY <1>1, <1>3
  <2>3. \A a \in Attempts : att'[a].state = "success" => a # made + 1
    BY <1>2, <1>6
  <2> QED
    BY Zenon, <1>6, <2>1, <2>2, <2>3 DEF AttemptsMove
<1> QED
  BY <1>1, <1>5, <1>7, <1>8, <1>9 DEF RegOK, QueueGrows

\* Cutting an id out of the finished ones.
LEMMA RemoveTyped ==
    ASSUME RegOK, NEW r
    PROVE  RemoveTerminal(r) \in Seq(Records) /\ Len(RemoveTerminal(r)) <= TerminalLimit
<1> DEFINE at == {i \in DOMAIN terminalOrder : terminalOrder[i] = r}
           first == CHOOSE i \in at : \A j \in at : i <= j
<1>1. /\ terminalOrder \in Seq(Records) /\ Len(terminalOrder) <= TerminalLimit
      /\ TerminalLimit \in Nat /\ at \subseteq Nat
  BY RegistryAssumption DEF RegOK, RegistryTypeOK
<1>2. CASE at = {}
  BY <1>1, <1>2 DEF RemoveTerminal
<1>3. CASE at # {}
  <2>1. \E i \in at : \A j \in at : ~(<<j, i>> \in OpToRel(<, Nat))
    BY Zenon, <1>1, <1>3, WFMin, NatLessThanWellFounded
  <2>2. \E i \in at : \A j \in at : ~(j < i)
    BY Zenon, <1>1, <2>1 DEF OpToRel
  <2>3. \E i \in at : \A j \in at : i <= j
    BY <1>1, <2>2
  <2>4. first \in at
    BY Zenon, <2>3
  <2> HIDE DEF first
  <2>5. first \in 1 .. Len(terminalOrder)
    BY <1>1, <2>4
  <2>6. RemoveTerminal(r) = SubSeq(terminalOrder, 1, first - 1)
               \o SubSeq(terminalOrder, first + 1, Len(terminalOrder))
    BY Zenon, <1>3 DEF RemoveTerminal, first
  <2>7. /\ SubSeq(terminalOrder, 1, first - 1) \in Seq(Records)
        /\ Len(SubSeq(terminalOrder, 1, first - 1)) = first - 1
    BY <1>1, <2>5
  <2>8. /\ SubSeq(terminalOrder, first + 1, Len(terminalOrder)) \in Seq(Records)
        /\ Len(SubSeq(terminalOrder, first + 1, Len(terminalOrder))) = Len(terminalOrder) - first
    BY <1>1, <2>5
  <2>9. \A p, q \in Seq(Records) : p \o q \in Seq(Records) /\ Len(p \o q) = Len(p) + Len(q)
    OBVIOUS
  <2>10. /\ RemoveTerminal(r) \in Seq(Records)
         /\ Len(RemoveTerminal(r)) = (first - 1) + (Len(terminalOrder) - first)
    BY Zenon, <2>6, <2>7, <2>8, <2>9
  <2>11. (first - 1) + (Len(terminalOrder) - first) <= TerminalLimit
    BY <1>1, <2>5
  <2> QED
    BY Zenon, <2>10, <2>11
<1> QED
  BY <1>2, <1>3

\* An admission under a new generation.
LEMMA AdmitRetryOK ==
    ASSUME RegOK, NEW r \in Records, NEW req \in Requests, AdmitRetry(r, req)
    PROVE  RegOK' /\ AttemptsMove({}) /\ QueueGrows /\ stamp' \in Gens
<1>1. /\ stamp < MaxStamp /\ stamp' = stamp + 1 /\ Admit(r, req, stamp + 1)
      /\ terminalOrder' = RemoveTerminal(r)
  BY DEF AdmitRetry
<1>2. stamp + 1 \in Gens /\ stamp' \in Gens \ {NoGen}
  BY <1>1, StampAssumption DEF RegOK, RegistryTypeOK, Gens, NoGen
<1> QED
  BY Zenon, <1>1, <1>2, RemoveTyped, AdmitOK

\* Submit, in each of its outcomes.
LEMMA SubmitOK ==
    ASSUME RegOK, NEW r \in Records, NEW req \in Requests, NEW retry, Submit(r, req, retry)
    PROVE  RegOK' /\ AttemptsMove({}) /\ QueueGrows
<1>1. CASE Admit(r, req, FirstGen) /\ UNCHANGED <<terminalOrder, stamp>>
  <2>1. /\ terminalOrder' \in Seq(Records) /\ Len(terminalOrder') <= TerminalLimit
        /\ stamp' \in Gens \ {NoGen}
    BY <1>1 DEF RegOK, RegistryTypeOK
  <2> QED
    BY Zenon, <1>1, <2>1, AdmitOK, GensTyped
<1>2. CASE AdmitRetry(r, req)
  BY Zenon, <1>2, AdmitRetryOK
<1>3. CASE UNCHANGED regVars
  BY Zenon, <1>3, RegistrySame
<1> QED
  BY Zenon, <1>1, <1>2, <1>3 DEF Submit

\* RetryTaskWithDecider, when the decider accepts.
LEMMA RetryOK ==
    ASSUME RegOK, NEW r \in Records, NEW fallback \in Requests, RetryTaskWithDecider(r, fallback)
    PROVE  RegOK' /\ AttemptsMove({}) /\ QueueGrows /\ stamp' \in Gens
<1> DEFINE req == IF tasks[r] # 0 THEN att[tasks[r]].req ELSE [fallback EXCEPT !.asRetry = TRUE]
<1>1. AdmitRetry(r, req)
  BY Zenon DEF RetryTaskWithDecider
<1>2. tasks[r] # 0 => tasks[r] \in Attempts
  BY DEF RegOK, RegistryTypeOK, Attempts
<1>3. tasks[r] # 0 => att[tasks[r]].req \in Requests
  BY Zenon, <1>2 DEF RegOK, RegistryTypeOK, TaskState
<1>4. [fallback EXCEPT !.asRetry = TRUE] \in Requests
  BY Zenon DEF Requests
<1> QED
  BY Zenon, <1>1, <1>3, <1>4, AdmitRetryOK

\* A new record of attempt a, whose rec stays.
LEMMA AttUpdate ==
    ASSUME RegOK, NEW a \in Attempts, NEW t \in TaskState, t.rec = att[a].rec,
           att' = [att EXCEPT ![a] = t], UNCHANGED <<made, tasks>>
    PROVE  /\ att' \in [Attempts -> TaskState]
           /\ \A b \in Attempts : att'[b].rec = att[b].rec
           /\ \A r \in Records : tasks'[r] <= made' /\ (tasks'[r] # 0 => att'[tasks'[r]].rec = r)
           /\ AttemptsMove(IF t.state = "success" THEN {att[a].rec} ELSE {})
<1>1. att \in [Attempts -> TaskState] /\ made \in 0 .. MaxAttempts /\ tasks \in [Records -> 0 .. MaxAttempts]
  BY DEF RegOK, RegistryTypeOK
<1>2. att' \in [Attempts -> TaskState]
  BY Zenon, <1>1
<1>3. \A b \in Attempts : b # a => att'[b] = att[b]
  BY Zenon, <1>1
<1>4. att'[a] = t
  BY Zenon, <1>1
<1>5. \A b \in Attempts : att'[b].rec = att[b].rec
  BY Zenon, <1>3, <1>4
<1>6. ASSUME NEW r \in Records
      PROVE  tasks'[r] <= made' /\ (tasks'[r] # 0 => att'[tasks'[r]].rec = r)
  <2>1. tasks[r] # 0 => tasks[r] \in Attempts
    BY <1>1 DEF Attempts
  <2> QED
    BY Zenon, <1>5, <2>1 DEF RegOK
<1>7. AttemptsMove(IF t.state = "success" THEN {att[a].rec} ELSE {})
  <2>1. made <= made' /\ \A b \in 1 .. made : b \in Attempts
    BY RegistryAssumption, <1>1 DEF Attempts
  <2>2. \A b \in Attempts : att'[b].state = "success" =>
          att[b].state = "success" \/ att[b].rec \in (IF t.state = "success" THEN {att[a].rec} ELSE {})
    BY Zenon, <1>3, <1>4
  <2> QED
    BY Zenon, <1>5, <2>1, <2>2 DEF AttemptsMove
<1> QED
  BY Zenon, <1>2, <1>5, <1>6, <1>7

\* Next hands out the head of the queue.
LEMMA NextOK ==
    ASSUME RegOK, Next_
    PROVE  RegOK' /\ AttemptsMove({}) /\ Head(queue) \in Attempts /\ Head(queue) <= made
<1>1. /\ queue # << >> /\ queue' = Tail(queue)
      /\ att' = [att EXCEPT ![Head(queue)].state = "resolving"]
      /\ UNCHANGED <<made, tasks, terminalOrder, stamp, paused>>
  BY DEF Next_
<1>2. queue \in Seq(Attempts) /\ att \in [Attempts -> TaskState]
  BY DEF RegOK, RegistryTypeOK
<1>3. Head(queue) \in Attempts /\ Head(queue) = queue[1] /\ 1 \in DOMAIN queue
  BY <1>1, <1>2
<1>4. Head(queue) <= made
  BY Zenon, <1>3 DEF RegOK
<1>5. /\ Tail(queue) \in Seq(Attempts)
      /\ \A i \in DOMAIN Tail(queue) : i + 1 \in DOMAIN queue /\ Tail(queue)[i] = queue[i + 1]
  BY <1>1, <1>2
<1> DEFINE a == Head(queue)
           t == [att[a] EXCEPT !.state = "resolving"]
<1>6. t \in TaskState /\ t.rec = att[a].rec /\ t.state = "resolving"
  <2>1. att[a] \in TaskState
    BY Zenon, <1>2, <1>3
  <2> QED
    BY Zenon, <2>1 DEF TaskState, TaskStates
<1>7. att' = [att EXCEPT ![a] = t]
  BY Zenon, <1>1
<1> HIDE DEF a, t
<1>8. a \in Attempts
  BY <1>3 DEF a
<1>9. /\ att' \in [Attempts -> TaskState]
      /\ \A r \in Records : tasks'[r] <= made' /\ (tasks'[r] # 0 => att'[tasks'[r]].rec = r)
      /\ AttemptsMove(IF t.state = "success" THEN {att[a].rec} ELSE {})
  BY Zenon, <1>1, <1>6, <1>7, <1>8, AttUpdate
<1>10. AttemptsMove({})
  <2>1. (IF t.state = "success" THEN {att[a].rec} ELSE {}) = {}
    BY <1>6
  <2> QED
    BY Zenon, <1>9, <2>1
<1>11. RegistryTypeOK'
  BY Zenon, <1>1, <1>5, <1>9 DEF RegOK, RegistryTypeOK
<1>12. \A i \in DOMAIN queue' : queue'[i] <= made'
  BY Zenon, <1>1, <1>5 DEF RegOK
<1> QED
  BY Zenon, <1>3, <1>4, <1>9, <1>10, <1>11, <1>12 DEF RegOK

\* Requeue, for an attempt a worker runs.
LEMMA RequeueOK ==
    ASSUME RegOK, NEW a \in Attempts, a <= made, Requeue(a)
    PROVE  /\ RegOK' /\ AttemptsMove({})
           /\ queue' = queue \/ queue' = Append(queue, a)
<1>1. CASE UNCHANGED regVars
  <2>1. queue' = queue
    BY <1>1 DEF regVars
  <2> QED
    BY Zenon, <1>1, <2>1, RegistrySame
<1>2. CASE /\ att' = [att EXCEPT ![a].state = "queued"]
           /\ queue' = Append(queue, a)
           /\ UNCHANGED <<made, tasks, terminalOrder, stamp, paused>>
  <2> DEFINE t == [att[a] EXCEPT !.state = "queued"]
  <2>1. queue \in Seq(Attempts) /\ att \in [Attempts -> TaskState]
    BY DEF RegOK, RegistryTypeOK
  <2>2. t \in TaskState /\ t.rec = att[a].rec /\ t.state = "queued"
    <3>1. att[a] \in TaskState
      BY Zenon, <2>1
    <3> QED
      BY Zenon, <3>1 DEF TaskState, TaskStates
  <2>3. att' = [att EXCEPT ![a] = t]
    BY Zenon, <1>2
  <2> HIDE DEF t
  <2>4. /\ att' \in [Attempts -> TaskState]
        /\ \A r \in Records : tasks'[r] <= made' /\ (tasks'[r] # 0 => att'[tasks'[r]].rec = r)
        /\ AttemptsMove(IF t.state = "success" THEN {att[a].rec} ELSE {})
    BY Zenon, <1>2, <2>2, <2>3, AttUpdate
  <2>5. (IF t.state = "success" THEN {att[a].rec} ELSE {}) = {}
    BY <2>2
  <2>6. queue' \in Seq(Attempts)
    BY <1>2, <2>1
  <2>7. \A i \in DOMAIN queue' : queue'[i] = a \/ (i \in DOMAIN queue /\ queue'[i] = queue[i])
    BY <1>2, <2>1
  <2>8. RegistryTypeOK'
    BY Zenon, <1>2, <2>4, <2>6 DEF RegOK, RegistryTypeOK
  <2>9. \A i \in DOMAIN queue' : queue'[i] <= made'
    BY Zenon, <1>2, <2>7 DEF RegOK
  <2> QED
    BY Zenon, <1>2, <2>4, <2>5, <2>8, <2>9 DEF RegOK
<1> QED
  BY Zenon, <1>1, <1>2 DEF Requeue

\* Task.update.
LEMMA UpdateOK ==
    ASSUME RegOK, NEW a \in Attempts, NEW state \in TaskStates, NEW planned \in BOOLEAN,
           Update(a, state, planned), ~IsTerminal(a) => state # "success"
    PROVE  RegOK' /\ AttemptsMove({}) /\ QueueGrows
<1>1. UNCHANGED <<made, tasks, queue, terminalOrder, stamp, paused>>
  BY DEF Update
<1>2. CASE IsTerminal(a)
  <2>1. UNCHANGED regVars
    BY <1>1, <1>2 DEF Update, regVars
  <2> QED
    BY Zenon, <2>1, RegistrySame
<1>3. CASE ~IsTerminal(a)
  <2> DEFINE t == [att[a] EXCEPT !.state = state, !.req.planned = @ \/ planned]
  <2>1. att[a] \in TaskState
    BY DEF RegOK, RegistryTypeOK
  <2>2. att[a].req \in Requests /\ (att[a].req.planned \/ planned) \in BOOLEAN
    BY Zenon, <2>1 DEF TaskState
  <2>3. [att[a].req EXCEPT !.planned = @ \/ planned] \in Requests
    BY Zenon, <2>2 DEF Requests
  <2>4. t \in TaskState /\ t.rec = att[a].rec /\ t.state = state
    BY Zenon, <2>1, <2>3 DEF TaskState
  <2>5. att' = [att EXCEPT ![a] = t]
    BY Zenon, <1>3 DEF Update
  <2> HIDE DEF t
  <2>6. /\ att' \in [Attempts -> TaskState]
        /\ \A r \in Records : tasks'[r] <= made' /\ (tasks'[r] # 0 => att'[tasks'[r]].rec = r)
        /\ AttemptsMove(IF t.state = "success" THEN {att[a].rec} ELSE {})
    BY Zenon, <1>1, <2>4, <2>5, AttUpdate
  <2>7. (IF t.state = "success" THEN {att[a].rec} ELSE {}) = {}
    BY Zenon, <1>3, <2>4
  <2>8. RegistryTypeOK'
    BY Zenon, <1>1, <2>6 DEF RegOK, RegistryTypeOK
  <2>9. \A i \in DOMAIN queue' : queue'[i] <= made'
    BY Zenon, <1>1 DEF RegOK
  <2> QED
    BY Zenon, <1>1, <2>6, <2>7, <2>8, <2>9 DEF RegOK, QueueGrows
<1> QED
  BY <1>2, <1>3

\* finishWithGen, with the pruning of the oldest finished id.
LEMMA FinishOK ==
    ASSUME RegOK, NEW a \in Attempts, NEW state \in TaskStates, NEW planned \in BOOLEAN,
           Finish(a, state, planned)
    PROVE  RegOK' /\ AttemptsMove(IF state = "success" THEN {att[a].rec} ELSE {}) /\ QueueGrows
<1> DEFINE S == IF state = "success" THEN {att[a].rec} ELSE {}
<1>1. CASE UNCHANGED regVars
  <2>1. RegOK' /\ AttemptsMove({}) /\ QueueGrows
    BY Zenon, <1>1, RegistrySame
  <2> QED
    BY Zenon, <2>1 DEF AttemptsMove
<1>2. CASE ~IsTerminal(a)
  <2> DEFINE order == Append(terminalOrder, att[a].rec)
             full == Len(order) > TerminalLimit
             t == [att[a] EXCEPT !.state = state, !.cancelled = TRUE, !.req.planned = @ \/ planned]
  <2>1. /\ att' = [att EXCEPT ![a] = t]
        /\ terminalOrder' = IF full THEN Tail(order) ELSE order
        /\ tasks' = IF full THEN [tasks EXCEPT ![Head(order)] = 0] ELSE tasks
        /\ UNCHANGED <<made, queue, stamp, paused>>
    BY Zenon, <1>2 DEF Finish
  <2>2. att[a] \in TaskState
    BY DEF RegOK, RegistryTypeOK
  <2>3. att[a].req \in Requests /\ att[a].rec \in Records /\ (att[a].req.planned \/ planned) \in BOOLEAN
    BY Zenon, <2>2 DEF TaskState
  <2>4. [att[a].req EXCEPT !.planned = @ \/ planned] \in Requests
    BY Zenon, <2>3 DEF Requests
  <2>5. t \in TaskState /\ t.rec = att[a].rec /\ t.state = state
    BY Zenon, <2>2, <2>4 DEF TaskState
  <2> HIDE DEF t
  <2>6. /\ terminalOrder \in Seq(Records) /\ Len(terminalOrder) <= TerminalLimit
        /\ TerminalLimit \in Nat /\ TerminalLimit > 0
        /\ att \in [Attempts -> TaskState] /\ made \in 0 .. MaxAttempts
        /\ tasks \in [Records -> 0 .. MaxAttempts] /\ 0 \in 0 .. MaxAttempts
    BY RegistryAssumption DEF RegOK, RegistryTypeOK
  <2>7. order \in Seq(Records) /\ Len(order) = Len(terminalOrder) + 1 /\ order # << >>
    BY <2>3, <2>6
  <2> HIDE DEF order
  <2>8. Tail(order) \in Seq(Records) /\ Len(Tail(order)) = Len(terminalOrder) /\ Head(order) \in Records
    BY <2>6, <2>7
  <2>9. terminalOrder' \in Seq(Records) /\ Len(terminalOrder') <= TerminalLimit
    BY <2>1, <2>6, <2>7, <2>8
  <2>10. tasks' \in [Records -> 0 .. MaxAttempts] /\ \A r \in Records : tasks'[r] \in {0, tasks[r]}
    BY Zenon, <2>1, <2>6, <2>8
  <2>11. /\ att' \in [Attempts -> TaskState]
         /\ \A b \in Attempts : b # a => att'[b] = att[b]
         /\ att'[a] = t
    BY Zenon, <2>1, <2>5, <2>6
  <2>12. \A b \in Attempts : att'[b].rec = att[b].rec
    BY Zenon, <2>5, <2>11
  <2>13. ASSUME NEW r \in Records
         PROVE  tasks'[r] <= made' /\ (tasks'[r] # 0 => att'[tasks'[r]].rec = r)
    <3>1. 0 <= made /\ (tasks[r] # 0 => tasks[r] \in Attempts) /\ made' = made
      BY <2>1, <2>6 DEF Attempts
    <3>2. tasks[r] <= made /\ (tasks[r] # 0 => att[tasks[r]].rec = r)
      BY DEF RegOK
    <3> QED
      BY Zenon, <2>10, <2>12, <3>1, <3>2
  <2>14. AttemptsMove(S)
    <3>1. made <= made' /\ \A b \in 1 .. made : b \in Attempts
      BY RegistryAssumption, <2>1, <2>6 DEF Attempts
    <3>2. \A b \in Attempts : att'[b].state = "success" => att[b].state = "success" \/ att[b].rec \in S
      BY Zenon, <2>5, <2>11
    <3> QED
      BY Zenon, <2>12, <3>1, <3>2 DEF AttemptsMove
  <2>15. RegistryTypeOK'
    BY Zenon, <2>1, <2>9, <2>10, <2>11 DEF RegOK, RegistryTypeOK
  <2>16. \A i \in DOMAIN queue' : queue'[i] <= made'
    BY Zenon, <2>1 DEF RegOK
  <2> QED
    BY Zenon, <2>1, <2>13, <2>14, <2>15, <2>16 DEF RegOK, QueueGrows
<1> QED
  BY Zenon, <1>1, <1>2 DEF Finish

\* FinishTaskByMessage reports on no other record.
LEMMA FinishByMessageOK ==
    ASSUME RegOK, NEW r \in Records, NEW gen, NEW state \in TaskStates,
           FinishTaskByMessage(r, gen, state)
    PROVE  RegOK' /\ AttemptsMove(IF state = "success" THEN {r} ELSE {}) /\ QueueGrows
<1>1. CASE UNCHANGED regVars
  <2>1. RegOK' /\ AttemptsMove({}) /\ QueueGrows
    BY Zenon, <1>1, RegistrySame
  <2> QED
    BY Zenon, <2>1 DEF AttemptsMove
<1>2. CASE tasks[r] # 0 /\ Finish(tasks[r], state, TRUE)
  <2>1. tasks[r] \in Attempts
    BY <1>2, RegistryAssumption DEF RegOK, RegistryTypeOK, Attempts
  <2>2. att[tasks[r]].rec = r
    BY Zenon, <1>2 DEF RegOK
  <2>3. RegOK' /\ QueueGrows /\ AttemptsMove(IF state = "success" THEN {att[tasks[r]].rec} ELSE {})
    BY Zenon, <1>2, <2>1, FinishOK
  <2> QED
    BY Zenon, <2>2, <2>3
<1> QED
  BY Zenon, <1>1, <1>2 DEF FinishTaskByMessage

\* CancelTasksByChatIDWithDecider thins the queue and fails attempts.
LEMMA CancelTasksOK ==
    ASSUME RegOK, NEW Q, NEW T, CancelTasks(Q, T)
    PROVE  /\ RegOK' /\ AttemptsMove({})
           /\ \A k \in DOMAIN queue' : \E i \in DOMAIN queue : queue'[k] = queue[i]
           /\ (\A i, j \in DOMAIN queue : queue[i] = queue[j] => i = j) =>
                 \A k, l \in DOMAIN queue' : queue'[k] = queue'[l] => k = l
<1>1. /\ queue \in Seq(Attempts) /\ att \in [Attempts -> TaskState]
      /\ made \in 0 .. MaxAttempts /\ tasks \in [Records -> 0 .. MaxAttempts]
  BY Zenon DEF RegOK, RegistryTypeOK
<1>2. /\ queue' = Without(queue, Q)
      /\ att' = [a \in Attempts |->
                   IF a \in Q \cup T
                   THEN [att[a] EXCEPT !.state = "failed", !.cancelled = TRUE] ELSE att[a]]
      /\ UNCHANGED <<made, tasks, terminalOrder, stamp, paused>>
  BY Zenon DEF CancelTasks
<1>3. /\ queue' \in Seq(Attempts)
      /\ \A k \in DOMAIN queue' : \E i \in DOMAIN queue : queue'[k] = queue[i]
      /\ (\A i, j \in DOMAIN queue : queue[i] = queue[j] => i = j) =>
            \A k, l \in DOMAIN queue' : queue'[k] = queue'[l] => k = l
  <2> DEFINE s == Without(queue, Q)
  <2>1. /\ s \in Seq(Attempts)
        /\ \A k \in DOMAIN s : \E i \in DOMAIN queue : s[k] = queue[i]
        /\ (\A i, j \in DOMAIN queue : queue[i] = queue[j] => i = j) =>
              \A k, l \in DOMAIN s : s[k] = s[l] => k = l
    BY <1>1, WithoutFrom
  <2>2. queue' = s
    BY Zenon, <1>2
  <2> HIDE DEF s
  <2> QED
    BY Zenon, <2>1, <2>2
<1>4. ASSUME NEW a \in Attempts
      PROVE  /\ att'[a] \in TaskState /\ att'[a].rec = att[a].rec
             /\ att'[a].state = "success" => att[a].state = "success"
  <2>1. att[a] \in TaskState
    BY <1>1
  <2>2. att'[a] = IF a \in Q \cup T
                  THEN [att[a] EXCEPT !.state = "failed", !.cancelled = TRUE] ELSE att[a]
    BY Zenon, <1>2
  <2>3. CASE a \in Q \cup T
    <3>1. att'[a] = [att[a] EXCEPT !.state = "failed", !.cancelled = TRUE]
      BY Zenon, <2>2, <2>3
    <3>2. att'[a] \in TaskState
      BY Zenon, <2>1, <3>1 DEF TaskState, TaskStates, Terminal
    <3>3. att'[a].rec = att[a].rec /\ att'[a].state = "failed"
      BY <2>1, <3>1 DEF TaskState
    <3> QED
      BY <3>2, <3>3
  <2>4. CASE a \notin Q \cup T
    BY Zenon, <2>1, <2>2, <2>4
  <2> QED
    BY <2>3, <2>4
<1>5. att' \in [Attempts -> TaskState]
  BY Zenon, <1>2, <1>4
<1>6. AttemptsMove({})
  <2>1. made' = made
    BY Zenon, <1>2
  <2>2. made <= made' /\ \A b \in 1 .. made : b \in Attempts
    BY <1>1, <2>1, RegistryAssumption DEF Attempts
  <2> QED
    BY Zenon, <1>4, <2>2 DEF AttemptsMove
<1>7. ASSUME NEW r \in Records
      PROVE  tasks'[r] <= made' /\ (tasks'[r] # 0 => att'[tasks'[r]].rec = r)
  <2>1. tasks[r] # 0 => tasks[r] \in Attempts
    BY <1>1, RegistryAssumption DEF Attempts
  <2> QED
    BY Zenon, <1>2, <1>4, <2>1 DEF RegOK
<1>8. RegistryTypeOK'
  BY Zenon, <1>2, <1>3, <1>5 DEF RegOK, RegistryTypeOK
<1>9. \A i \in DOMAIN queue' : queue'[i] <= made'
  BY Zenon, <1>2, <1>3 DEF RegOK
<1> QED
  BY Zenon, <1>3, <1>6, <1>7, <1>8, <1>9 DEF RegOK

\* A task object nobody has allocated.
LEMMA UnusedTyped == [a \in Attempts |-> UnusedTask(CHOOSE r \in Records : TRUE)] \in [Attempts -> TaskState]
<1>1. (CHOOSE r \in Records : TRUE) \in Records
  BY Zenon, RecordsAssumption
<1>2. Request(FALSE, FALSE, 0, "scan") \in Requests
  BY Zenon, SizesAreNat DEF Request, Requests, Origins
<1>3. UnusedTask(CHOOSE r \in Records : TRUE) \in TaskState
  BY Zenon, <1>1, <1>2, GensTyped DEF UnusedTask, TaskState, TaskStates
<1> QED
  BY Zenon, <1>3

\* The registry of a new process knows no attempt.
LEMMA EmptyRegistryOK ==
    ASSUME RegOK, NEW p \in BOOLEAN, EmptyRegistry(p), UNCHANGED stamp
    PROVE  /\ RegOK' /\ queue' = << >>
           /\ \A a \in Attempts : att'[a].state # "success"
<1>1. /\ att' = [a \in Attempts |-> UnusedTask(CHOOSE r \in Records : TRUE)]
      /\ made' = 0 /\ tasks' = [r \in Records |-> 0] /\ queue' = << >>
      /\ terminalOrder' = << >> /\ paused' = p /\ stamp' = stamp
  BY DEF EmptyRegistry
<1>2. \A a \in Attempts : att'[a].state # "success"
  BY <1>1 DEF UnusedTask
<1>3. att' \in [Attempts -> TaskState]
  BY Zenon, <1>1, UnusedTyped
<1>4. 0 \in 0 .. MaxAttempts /\ 0 <= TerminalLimit /\ 0 <= 0
  BY RegistryAssumption
<1>5. /\ << >> \in Seq(Attempts) /\ << >> \in Seq(Records)
      /\ Len(<< >>) = 0 /\ DOMAIN << >> = {}
  OBVIOUS
<1>6. tasks' \in [Records -> 0 .. MaxAttempts] /\ \A r \in Records : tasks'[r] = 0
  BY <1>1, <1>4
<1>7. RegistryTypeOK'
  BY Zenon, <1>1, <1>3, <1>4, <1>5, <1>6 DEF RegOK, RegistryTypeOK
<1>8. \A i \in DOMAIN queue' : queue'[i] <= made'
  BY Zenon, <1>1, <1>5
<1> QED
  BY Zenon, <1>1, <1>2, <1>4, <1>6, <1>7, <1>8 DEF RegOK

\* Pausing and resuming.
LEMMA SetPausedOK ==
    ASSUME RegOK, NEW p \in BOOLEAN, SetPaused(p)
    PROVE  RegOK' /\ AttemptsMove({}) /\ QueueGrows
<1>1. /\ paused' = p /\ att' = att /\ made' = made /\ tasks' = tasks /\ queue' = queue
      /\ terminalOrder' = terminalOrder /\ stamp' = stamp
  BY DEF SetPaused
<1>2. RegOK'
  BY Zenon, <1>1 DEF RegOK, RegistryTypeOK
<1>3. made <= made'
  BY <1>1 DEF RegOK, RegistryTypeOK
<1> QED
  BY Zenon, <1>1, <1>2, <1>3 DEF AttemptsMove, QueueGrows

-----------------------------------------------------------------------------
(* The daemon on its disks *)

MediaOK == media \in [Records -> Contents \cup {None}]

WorkersOK ==
    /\ DOMAIN w = Records
    /\ \A r \in Records :
         /\ {"pc", "a", "got", "kind"} \subseteq DOMAIN w[r]
         /\ w[r].got \in Contents \cup {None}

DiskInv ==
    ProcessTypeOK /\ DiskTypeOK /\ ArchiveWorkerTypeOK /\ MediaOK /\ WorkersOK

\* A call fails within the budget, or does not fail.
LEMMA FaultTyped ==
    ASSUME ProcessTypeOK, Fault \/ NoFault PROVE ProcessTypeOK'
BY BudgetAssumption DEF ProcessTypeOK, Fault, NoFault, processVars

\* The program counter moves, and the content a worker holds stays.
LEMMA GotoTyped ==
    ASSUME WorkersOK, NEW r, NEW pc, NEW kind,
           Goto(r, pc) \/ Fail(r, pc, kind) \/ Return(r)
    PROVE  WorkersOK' /\ UNCHANGED media
<1>1. UNCHANGED media
    BY DEF Goto, Fail, Return
<1>2. WorkersOK'
  <2>1. CASE Goto(r, pc)
      BY <2>1 DEF Goto, WorkersOK
  <2>2. CASE Fail(r, pc, kind)
      BY Zenon, <2>2 DEF Fail, WorkersOK
  <2>3. CASE Return(r)
      BY <2>3 DEF Return, WorkersOK, Idle
  <2> QED
      BY <2>1, <2>2, <2>3
<1> QED
    BY <1>1, <1>2

\* Writing a file to one path of a record.
LEMMA WriteTyped ==
    ASSUME NEW f \in [Records -> Files], NEW r, NEW v, r \in Records => v \in Files
    PROVE  [f EXCEPT ![r] = v] \in [Records -> Files]
<1>1. CASE r \in Records
    BY <1>1
<1>2. CASE r \notin Records
    BY <1>2, Zenon
<1> QED
    BY <1>1, <1>2

\* Every step of downloadOne.
LEMMA WorkerTyped ==
    ASSUME DiskInv, NEW r \in Records, Worker(r), UNCHANGED aw PROVE DiskInv'
<1> USE DEF DiskInv
<1>1. ArchiveWorkerTypeOK'
    BY Zenon DEF ArchiveWorkerTypeOK
<1>2. (Fault \/ NoFault) /\ UNCHANGED media /\ WorkersOK'
  <2> USE GotoTyped
  <2>1. CASE Begin(r) \/ Begin2(r)
      BY <2>1, Zenon DEF Begin, Begin2, BeginDownload
  <2>2. CASE Resolve(r)
    <3>1. CASE w' = [w EXCEPT ![r].pc = "check", ![r].got = media[r]]
        BY <2>2, <3>1, Zenon DEF Resolve, MediaOK, WorkersOK
    <3> QED
        BY <2>2, <3>1, Zenon DEF Resolve
  <2>3. CASE CheckFinal(r)
      BY <2>3 DEF CheckFinal
  <2>4. CASE RequeueTask(r) \/ SucceedResult(r) \/ EndFailed(r) \/ FailTask(r)
      BY <2>4, Zenon DEF RequeueTask, SucceedResult, EndFailed, EndTask, FailTask, NoFault
  <2>5. CASE OpenPart(r) \/ Transfer(r) \/ Seal(r)
      BY <2>5 DEF OpenPart, Transfer, Seal, Refused
  <2>6. CASE Gate(r)
    <3>1. CASE w' = [w EXCEPT ![r].pc = "prepare"] /\ UNCHANGED media
        BY <2>6, <3>1 DEF Gate, WorkersOK, NoFault
    <3> QED
        BY <2>6, <3>1 DEF Gate, NoFault
  <2>7. CASE Prepare(r) \/ Complete(r)
      BY <2>7, Zenon DEF Prepare, Complete, Refused
  <2>8. CASE Publish(r)
    <3>1. \A failure :
            Decision(part[r], final[r], GotSize(r), w[r].got, failure)
              \in {"success", "conflict", "io"}
        BY DEF Decision, CommitError
    <3>2. Fault \/ NoFault
        BY <2>8, Zenon DEF Publish, CommitFailure, CommitFailures
    <3>3. \/ Goto(r, "complete")
          \/ Fail(r, "commitRow", "conflict") \/ Fail(r, "commitRow", "error")
        BY <2>8, <3>1, Zenon DEF Publish
    <3> QED
        BY <3>2, <3>3
  <2>9. CASE FailRow(r) \/ CancelRow(r) \/ CommitRow(r)
      BY <2>9 DEF FailRow, CancelRow, CommitRow, Refused
  <2> QED
      BY Zenon, <2>1, <2>2, <2>3, <2>4, <2>5, <2>6, <2>7, <2>8, <2>9 DEF Worker
<1>3. MediaOK'
    BY <1>2 DEF MediaOK
<1>4. DiskTypeOK'
  <2>1. CASE OpenPart(r) \/ Seal(r) \/ Gate(r) \/ Prepare(r)
      BY <2>1, Zenon DEF OpenPart, Seal, Gate, Prepare, DiskTypeOK, Files
  <2>2. CASE Transfer(r)
      BY Zenon, <2>2 DEF Transfer, DiskTypeOK, Files, WorkersOK
  <2>3. CASE Publish(r)
      BY <2>3 DEF Publish, DiskTypeOK, Files, PublishedFile, RemainingPart
  <2>4. CASE ~OpenPart(r) /\ ~Seal(r) /\ ~Gate(r) /\ ~Prepare(r) /\ ~Transfer(r) /\ ~Publish(r)
      BY <2>4, Zenon DEF Worker, Begin, BeginDownload, Resolve, CheckFinal, RequeueTask, Begin2,
                  Complete, SucceedResult, EndFailed, EndTask, FailTask, FailRow,
                  CancelRow, CommitRow, DiskTypeOK, diskVars
  <2> QED
      BY <2>1, <2>2, <2>3, <2>4
<1> QED
    BY <1>1, <1>2, <1>3, <1>4, FaultTyped

\* Every step of a finalizer visit.
LEMMA FinTyped ==
    ASSUME DiskInv, NEW online, FinStep(online), UNCHANGED aw PROVE DiskInv'
<1> USE DEF DiskInv
<1>1. UNCHANGED <<w, media>> /\ (Fault \/ NoFault)
  <2> USE DEF orcVars
  <2>1. CASE (\E r \in Records : FinPick(r)) \/ FinTell(online)
      BY <2>1, Zenon DEF FinPick, FinTell, NoFault
  <2>2. CASE FinInspect
      BY <2>2 DEF FinInspect
  <2>3. CASE FinCommit
      BY <2>3, Zenon DEF FinCommit, CommitFailure, CommitFailures
  <2>4. CASE FinComplete \/ FinConflict \/ FinReset
      BY <2>4 DEF FinComplete, FinConflict, FinReset, Refused
  <2> QED
      BY Zenon, <2>1, <2>2, <2>3, <2>4 DEF FinStep
<1>2. DiskTypeOK'
  <2>1. CASE FinInspect
      BY <2>1, Zenon DEF FinInspect, DiskTypeOK, Files
  <2>2. CASE FinCommit
    <3>1. ASSUME NEW failure
          PROVE  fin.r \in Records =>
                   /\ PublishedFile(part[fin.r], final[fin.r], failure) \in Files
                   /\ RemainingPart(part[fin.r], final[fin.r], Snap.size, Snap.sha, failure) \in Files
        BY DEF DiskTypeOK, Files, PublishedFile, RemainingPart
    <3> QED
        BY <2>2, <3>1, WriteTyped DEF FinCommit, DiskTypeOK
  <2>3. CASE ~FinInspect /\ ~FinCommit
      BY <2>3, Zenon DEF FinStep, FinPick, FinComplete, FinConflict, FinReset, FinTell,
                  DiskTypeOK, diskVars
  <2> QED
      BY <2>1, <2>2, <2>3
<1> QED
    BY <1>1, <1>2, FaultTyped DEF ArchiveWorkerTypeOK, MediaOK, WorkersOK

\* Every step of the archive worker.
LEMMA ArchiveTyped ==
    ASSUME DiskInv, AwStep, UNCHANGED <<w, media>> PROVE DiskInv'
<1> USE DEF DiskInv
<1>1. MediaOK' /\ WorkersOK'
    BY Zenon DEF MediaOK, WorkersOK
<1>2. aw.r \in Records /\ AwIdle \in ArchiveWorkers
    BY RecordsAssumption DEF ArchiveWorkerTypeOK, ArchiveWorkers, AwIdle, AwPcs
<1> DEFINE Typed == (Fault \/ NoFault) /\ ArchiveWorkerTypeOK' /\ DiskTypeOK'
<1> SUFFICES Typed
    BY Zenon, <1>1, FaultTyped
<1> USE <1>2 DEF ArchiveWorkerTypeOK, ArchiveWorkers, AwPcs, AwGoto, DiskTypeOK, Files
<1>3. ASSUME NEW r \in Records, AwClaim(r) PROVE Typed
    BY <1>3 DEF AwClaim, diskVars, NoFault
<1>4. CASE AwProbe
  <2>1. SourceVerdicts(aw.r) \subseteq AwPcs /\ TargetVerdict(aw.r) \in AwPcs
      BY DEF SourceVerdicts, TargetVerdict
  <2> QED
      BY Zenon, <1>4, <2>1 DEF AwProbe, diskVars
<1>5. CASE AwOpen
    BY <1>5 DEF AwOpen
<1>6. CASE AwCopy
    BY <1>6 DEF AwCopy
<1>7. CASE AwCommit
  <2>1. ASSUME NEW failure PROVE CommitError(moving[aw.r], hdd[aw.r], failure) \in {"none", "exists", "io"}
      BY DEF CommitError
  <2>2. Fault \/ NoFault
      BY <1>7, Zenon DEF AwCommit, CommitFailure, CommitFailures
  <2>3. ArchiveWorkerTypeOK'
      BY <1>7, <2>1 DEF AwCommit
  <2>4. DiskTypeOK'
      BY <1>7 DEF AwCommit, PublishedFile
  <2> QED
      BY <2>2, <2>3, <2>4
<1>8. CASE AwComplete \/ AwEnd
    BY <1>8 DEF AwComplete, AwEnd, diskVars
<1>9. CASE AwRemove
    BY <1>9 DEF AwRemove
<1> HIDE DEF Typed
<1> QED
    BY <1>3, <1>4, <1>5, <1>6, <1>7, <1>8, <1>9, Zenon DEF AwStep

\* Startup recovery.
LEMMA StartupTyped ==
    ASSUME DiskInv, Startup PROVE DiskInv'
<1>1. CASE BootReconcile
  <2>1. FinStep(FALSE) /\ UNCHANGED aw
      BY <1>1, Zenon DEF BootReconcile
  <2> QED
      BY <2>1, FinTyped, Zenon
<1>2. CASE ~BootReconcile
  <2>1. UNCHANGED <<w, media, aw>>
      BY <1>2, ZenonT(40) DEF Startup, BootCommitting, FinList, BootDownloading, BootArchive, StartUp,
                  RecoverDownloading, RecoverCopying, RecoverSource, orcVars
  <2>2. Fault \/ NoFault
      BY <1>2, ZenonT(40) DEF Startup, BootCommitting, BootDownloading, BootArchive, StartUp,
                  RecoverDownloading, RecoverCopying, RecoverSource, NoFault
  <2>3. DiskTypeOK'
      BY <1>2, Zenon DEF DiskInv, Startup, BootCommitting, FinList, BootDownloading, BootArchive, StartUp,
                  RecoverDownloading, RecoverCopying, RecoverSource, DiskTypeOK, Files, diskVars
  <2> QED
      BY Zenon, <2>1, <2>2, <2>3, FaultTyped DEF DiskInv, ArchiveWorkerTypeOK, MediaOK, WorkersOK
<1> QED
    BY <1>1, <1>2

\* A crash, a shutdown, and whatever happens around the daemon.
LEMMA OutsideTyped ==
    ASSUME DiskInv, Crash \/ Shutdown \/ Environment \/ UNCHANGED vars PROVE DiskInv'
<1> USE DEF DiskInv
<1>1. CASE Crash
  <2>1. WorkersOK' /\ MediaOK' /\ DiskTypeOK'
      BY Zenon, <1>1 DEF Crash, WorkersOK, Idle, MediaOK, DiskTypeOK, diskVars
  <2>2. ProcessTypeOK'
    <3>1. crashes < MaxCrashes /\ crashes' = crashes + 1 /\ UNCHANGED faults
      BY Zenon, <1>1 DEF Crash
    <3> QED
      BY <3>1, BudgetAssumption DEF ProcessTypeOK
  <2>3. ArchiveWorkerTypeOK'
      BY Zenon, <1>1, RecordsAssumption DEF Crash, ArchiveWorkerTypeOK, ArchiveWorkers, AwIdle, AwPcs
  <2> QED
      BY Zenon, <2>1, <2>2, <2>3
<1>2. ASSUME NEW r \in Records, Edit(r) PROVE DiskInv'
  <2>1. MediaOK'
      BY Zenon, <1>2 DEF Edit, MediaOK
  <2> QED
      BY Zenon, <1>2, <2>1 DEF Edit, orcVars, diskVars, processVars, ArchiveWorkerTypeOK, DiskTypeOK,
                        ProcessTypeOK, WorkersOK
<1>3. CASE CancelTarget
  <2>1. UNCHANGED <<w, media, aw, diskVars>> /\ (Fault \/ NoFault)
      BY Zenon, <1>3 DEF CancelTarget, orcVars
  <2> QED
      BY Zenon, <2>1, FaultTyped DEF diskVars, ArchiveWorkerTypeOK, DiskTypeOK, MediaOK, WorkersOK
<1>4. CASE \/ Shutdown \/ UNCHANGED vars
           \/ \E r \in Records : StreamUpdate(r) \/ WebSubmit(r) \/ ResolveTargetConflict(r)
           \/ PauseResume \/ SwitchTarget \/ RefreshTargetCache \/ Tick
  <2>1. UNCHANGED <<w, media, aw, diskVars, processVars>>
      BY <1>4, Zenon DEF Shutdown, vars, StreamUpdate, WebSubmit, ResolveTargetConflict, PauseResume,
                  SwitchTarget, RefreshTargetCache, Tick, orcVars
  <2> QED
      BY <2>1, SMTT(30) DEF diskVars, processVars, ArchiveWorkerTypeOK, DiskTypeOK, ProcessTypeOK,
                  MediaOK, WorkersOK
<1> QED
    BY Zenon, <1>1, <1>2, <1>3, <1>4 DEF Environment

\* Every step.
LEMMA TypeStep == DiskInv /\ [Next]_vars => DiskInv'
<1> SUFFICES ASSUME DiskInv, [Next]_vars PROVE DiskInv'
    OBVIOUS
<1>1. CASE Startup
    BY <1>1, StartupTyped
<1>2. CASE Crash \/ Shutdown \/ Environment \/ UNCHANGED vars
    BY Zenon, <1>2, OutsideTyped
<1>3. CASE Scanner \/ Dispatcher \/ FinalizerPass
  <2>1. UNCHANGED <<media, aw, diskVars, processVars>>
      BY <1>3, SMTT(30) DEF Scanner, ScanList, ScanSubmit, Dispatcher, Dispatch, FinalizerPass, FinList
  <2>2. WorkersOK'
      BY <1>3, Zenon DEF Scanner, ScanList, ScanSubmit, Dispatcher, Dispatch, FinalizerPass, FinList,
                  DiskInv, WorkersOK, Idle, orcVars
  <2> QED
      BY Zenon, <2>1, <2>2 DEF DiskInv, diskVars, processVars, ArchiveWorkerTypeOK, DiskTypeOK,
                        ProcessTypeOK, MediaOK
<1>4. CASE Reconcile
  <2>1. FinStep(TRUE) /\ UNCHANGED aw
      BY <1>4, Zenon DEF Reconcile
  <2> QED
      BY <2>1, FinTyped, Zenon
<1>5. CASE Archive
  <2>1. AwStep /\ UNCHANGED <<w, media>>
      BY <1>5 DEF Archive, orcVars
  <2> QED
      BY <2>1, ArchiveTyped
<1>6. ASSUME NEW r \in Records, Download(r) PROVE DiskInv'
  <2>1. Worker(r) /\ UNCHANGED aw
      BY <1>6 DEF Download
  <2> QED
      BY <2>1, WorkerTyped, Zenon
<1> QED
    BY <1>1, <1>2, <1>3, <1>4, <1>5, <1>6, Zenon DEF Next

\* The disks start empty.
LEMMA DiskStarts == Init => DiskInv
<1> SUFFICES ASSUME Init PROVE DiskInv
    OBVIOUS
<1>1. DiskTypeOK /\ ProcessTypeOK
    BY BudgetAssumption DEF Init, DiskInit, DiskTypeOK, Files, ProcessTypeOK
<1>2. ArchiveWorkerTypeOK
    BY Zenon, RecordsAssumption DEF Init, ArchiveWorkerTypeOK, ArchiveWorkers, AwIdle, AwPcs
<1>3. MediaOK /\ WorkersOK
    BY DEF Init, OrchestratorInit, MediaOK, WorkersOK, Idle
<1> QED
    BY <1>1, <1>2, <1>3 DEF DiskInv

(***************************************************************************)
(* The four files of every record are absent, partial or complete, the     *)
(* archive worker works on a record, and Telegram and every worker hold    *)
(* complete contents, whatever fails, crashes or is edited on the way.     *)
(***************************************************************************)
THEOREM DiskTyped == Spec => []DiskInv
<1> QED
    BY DiskStarts, TypeStep, PTL DEF Spec

-----------------------------------------------------------------------------
(* The workers *)

\* The steps of downloadOne behind Resolve, up to the publication.
Resolved == {"check", "requeue", "begin2", "open", "transfer", "seal", "gate",
             "prepare", "publish", "complete"}

\* x is a worker of record r: it runs an attempt of r, or none.
Runs(x, r) ==
    /\ x \in Workers
    /\ IF x.pc = "idle" THEN x.a = 0
       ELSE x.a \in Attempts /\ x.a <= made /\ att[x.a].rec = r
    /\ x.pc \in Resolved => x.got \in Contents

WorkersRun == w \in [Records -> Workers] /\ \A r \in Records : Runs(w[r], r)

\* The worker of r takes a step, or returns.
WorkerMoved(r) ==
    \E x \in Workers : Runs(x, r) /\ x.a \in {0, w[r].a} /\ w' = [w EXCEPT ![r] = x]

\* Attempts are never given to another record.
LEMMA RunsOn ==
    ASSUME RegOK, RegOK', NEW S, AttemptsMove(S), NEW x, NEW r, Runs(x, r) PROVE Runs(x, r)'
<1>1. CASE x.pc = "idle"
  BY Zenon, <1>1 DEF Runs
<1>2. CASE x.pc # "idle"
  <2>1. x.a \in Attempts /\ x.a <= made /\ att[x.a].rec = r
    BY Zenon, <1>2 DEF Runs
  <2>2. made \in Nat
    BY RegistryAssumption DEF RegOK, RegistryTypeOK
  <2>3. x.a \in 1 .. made
    BY <2>1, <2>2 DEF Attempts
  <2>4. att'[x.a].rec = r
    BY Zenon, <2>1, <2>3 DEF AttemptsMove
  <2>5. made' \in Nat
    BY RegistryAssumption DEF RegOK, RegistryTypeOK
  <2>6. x.a <= made'
    BY <2>1, <2>2, <2>5 DEF AttemptsMove, Attempts
  <2> QED
    BY Zenon, <1>2, <2>1, <2>4, <2>6 DEF Runs
<1> QED
  BY <1>1, <1>2

\* What a worker that is not idle holds.
LEMMA RunTyped ==
    ASSUME RegOK, WorkersRun, NEW r \in Records, ~At(r, "idle")
    PROVE  /\ w[r] \in Workers /\ w[r].a \in Attempts /\ w[r].a <= made /\ w[r].a # 0
           /\ Task(r) \in TaskState /\ Task(r).rec = r /\ Task(r).gen \in Gens
           /\ Task(r).state \in TaskStates
           /\ Task(r).req \in Requests /\ Task(r).req.named \in BOOLEAN
           /\ Task(r).req.planned \in BOOLEAN /\ Task(r).req.size \in Sizes
           /\ w[r].kind \in FailKinds \cup {"conflict"}
           /\ w[r].got \in Contents \cup {None}
<1>1. Runs(w[r], r) /\ w[r].pc # "idle"
  BY Zenon DEF WorkersRun, At
<1>2. w[r] \in Workers /\ w[r].a \in Attempts /\ w[r].a <= made /\ att[w[r].a].rec = r
  BY Zenon, <1>1 DEF Runs
<1>3. w[r].kind \in FailKinds \cup {"conflict"} /\ w[r].got \in Contents \cup {None}
  BY Zenon, <1>2 DEF Workers
<1>4. w[r].a # 0
  BY <1>2 DEF Attempts
<1>5. Task(r) \in TaskState
  BY Zenon, <1>2 DEF RegOK, RegistryTypeOK, Task
<1>6. Task(r).gen \in Gens /\ Task(r).req \in Requests /\ Task(r).state \in TaskStates
  BY Zenon, <1>5 DEF TaskState
<1>7. Task(r).req.named \in BOOLEAN /\ Task(r).req.planned \in BOOLEAN /\ Task(r).req.size \in Sizes
  BY Zenon, <1>6 DEF Requests
<1> QED
  BY Zenon, <1>2, <1>3, <1>4, <1>5, <1>6, <1>7 DEF Task

\* The worker of r goes on, for the same attempt.
LEMMA GoneOn ==
    ASSUME RegOK, WorkersRun, NEW r \in Records, ~At(r, "idle"), NEW x \in Workers,
           x.pc # "idle", x.a = w[r].a, x.pc \in Resolved => x.got \in Contents,
           w' = [w EXCEPT ![r] = x]
    PROVE  WorkerMoved(r)
<1>1. w[r].a \in Attempts /\ w[r].a <= made /\ att[w[r].a].rec = r
  BY Zenon, RunTyped DEF Task
<1>2. Runs(x, r)
  BY Zenon, <1>1 DEF Runs
<1> QED
  BY Zenon, <1>2 DEF WorkerMoved

\* Goto and Fail.
LEMMA GotoMoved ==
    ASSUME RegOK, WorkersRun, NEW r \in Records, ~At(r, "idle"), NEW pc \in Pcs, pc # "idle",
           pc \in Resolved => w[r].got \in Contents,
           \/ w' = [w EXCEPT ![r].pc = pc]
           \/ \E kind \in FailKinds \cup {"conflict"} : w' = [w EXCEPT ![r].pc = pc, ![r].kind = kind]
    PROVE  WorkerMoved(r)
<1>1. w[r] \in Workers
  BY Zenon, RunTyped
<1>2. CASE w' = [w EXCEPT ![r].pc = pc]
  <2> DEFINE x == [w[r] EXCEPT !.pc = pc]
  <2>1. x \in Workers
    BY Zenon, <1>1 DEF Workers
  <2>2. x.pc = pc /\ x.a = w[r].a /\ x.got = w[r].got
    BY <1>1 DEF Workers
  <2>3. w' = [w EXCEPT ![r] = x]
    BY Zenon, <1>2
  <2> HIDE DEF x
  <2> QED
    BY Zenon, <2>1, <2>2, <2>3, GoneOn
<1>3. ASSUME NEW kind \in FailKinds \cup {"conflict"}, w' = [w EXCEPT ![r].pc = pc, ![r].kind = kind]
      PROVE  WorkerMoved(r)
  <2> DEFINE x == [w[r] EXCEPT !.pc = pc, !.kind = kind]
  <2>1. x \in Workers
    BY Zenon, <1>1 DEF Workers
  <2>2. x.pc = pc /\ x.a = w[r].a /\ x.got = w[r].got
    BY <1>1 DEF Workers
  <2>3. w' = [w EXCEPT ![r] = x]
    BY Zenon, <1>3
  <2> HIDE DEF x
  <2> QED
    BY Zenon, <2>1, <2>2, <2>3, GoneOn
<1> QED
  BY Zenon, <1>2, <1>3

\* An idle worker.
LEMMA IdleRuns == ASSUME NEW r PROVE Idle \in Workers /\ Runs(Idle, r) /\ Idle.a = 0
<1>1. 0 \in 0 .. MaxAttempts
  BY RegistryAssumption
<1>2. Idle \in Workers
  BY Zenon, <1>1 DEF Idle, Workers, Pcs, FailKinds
<1>3. Idle.pc = "idle" /\ Idle.a = 0
  BY DEF Idle
<1>4. "idle" \notin Resolved
  BY DEF Resolved
<1> QED
  BY Zenon, <1>2, <1>3, <1>4 DEF Runs

\* Return.
LEMMA ReturnMoved ==
    ASSUME NEW r, Return(r) PROVE WorkerMoved(r)
BY Zenon, IdleRuns DEF Return, WorkerMoved

\* One worker moves.
LEMMA MovedRuns ==
    ASSUME RegOK, RegOK', WorkersRun, NEW S, AttemptsMove(S), NEW r \in Records, WorkerMoved(r)
    PROVE  WorkersRun' /\ \A q \in Records : w'[q].a \in {0, w[q].a}
<1>1. PICK x \in Workers : Runs(x, r) /\ x.a \in {0, w[r].a} /\ w' = [w EXCEPT ![r] = x]
  BY Zenon DEF WorkerMoved
<1>2. w \in [Records -> Workers] /\ \A q \in Records : Runs(w[q], q)
  BY DEF WorkersRun
<1>3. w' \in [Records -> Workers] /\ w'[r] = x /\ \A q \in Records : q # r => w'[q] = w[q]
  BY Zenon, <1>1, <1>2
<1> DEFINE After(y, q) ==
             /\ y \in Workers
             /\ IF y.pc = "idle" THEN y.a = 0
                ELSE y.a \in Attempts /\ y.a <= made' /\ att'[y.a].rec = q
             /\ y.pc \in Resolved => y.got \in Contents
<1>4. \A y, q : Runs(y, q) => After(y, q)
  BY Zenon, RunsOn DEF Runs
<1> HIDE DEF After
<1>5. \A q \in Records : After(w'[q], q) /\ w'[q].a \in {0, w[q].a}
  BY Zenon, <1>1, <1>2, <1>3, <1>4
<1> QED
  BY Zenon, <1>3, <1>5 DEF WorkersRun, Runs, After

\* No worker moves.
LEMMA SameRuns ==
    ASSUME RegOK, RegOK', WorkersRun, NEW S, AttemptsMove(S), UNCHANGED w
    PROVE  WorkersRun' /\ \A q \in Records : w'[q].a \in {0, w[q].a}
<1>1. w \in [Records -> Workers] /\ \A q \in Records : Runs(w[q], q)
  BY DEF WorkersRun
<1>2. \A y, q : Runs(y, q) => Runs(y, q)'
  BY Zenon, RunsOn
<1>3. ASSUME NEW q \in Records PROVE Runs(w[q], q)'
  BY Zenon, <1>1, <1>2 DEF Runs
<1> QED
  BY Zenon, <1>1, <1>3 DEF WorkersRun

\* A call that only appends a new attempt to the queue.
LEMMA WaitsKept ==
    ASSUME RegOK, RegOK', WorkersRun, WaitsOnce, NEW S, AttemptsMove(S), QueueGrows,
           \A q \in Records : w'[q].a \in {0, w[q].a}
    PROVE  WaitsOnce'
<1>1. /\ queue \in Seq(Attempts) /\ made \in Nat
      /\ \A i \in DOMAIN queue : queue[i] \in Attempts /\ queue[i] \in 1 .. made
  BY RegistryAssumption DEF RegOK, RegistryTypeOK, Attempts
<1>2. ASSUME NEW i \in DOMAIN queue
      PROVE  /\ att[queue[i]].rec \in Records /\ att'[queue[i]].rec = att[queue[i]].rec
             /\ w'[att'[queue[i]].rec].a # queue[i]
  <2>1. att[queue[i]] \in TaskState
    BY Zenon, <1>1 DEF RegOK, RegistryTypeOK
  <2>2. att[queue[i]].rec \in Records
    BY Zenon, <2>1 DEF TaskState
  <2>3. att'[queue[i]].rec = att[queue[i]].rec
    BY Zenon, <1>1 DEF AttemptsMove
  <2>4. queue[i] # 0
    BY <1>1
  <2>5. w[att[queue[i]].rec].a # queue[i]
    BY Zenon DEF WaitsOnce
  <2> QED
    BY Zenon, <2>2, <2>3, <2>4, <2>5
<1>3. CASE queue' = queue
  BY Zenon, <1>2, <1>3 DEF WaitsOnce
<1>4. CASE made' = made + 1 /\ queue' = Append(queue, made + 1)
  <2>1. /\ DOMAIN queue' = DOMAIN queue \cup {Len(queue) + 1}
        /\ \A i \in DOMAIN queue : queue'[i] = queue[i]
        /\ queue'[Len(queue) + 1] = made + 1 /\ Len(queue) + 1 \notin DOMAIN queue
    BY <1>1, <1>4
  <2>2. \A i \in DOMAIN queue : queue[i] # made + 1
    BY <1>1
  <2>3. w'[att'[made + 1].rec].a # made + 1
    <3>1. made + 1 \in Attempts
      BY <1>4, RegistryAssumption DEF RegOK, RegistryTypeOK, Attempts
    <3>2. att'[made + 1] \in TaskState
      BY Zenon, <3>1 DEF RegOK, RegistryTypeOK
    <3>3. att'[made + 1].rec \in Records
      BY Zenon, <3>2 DEF TaskState
    <3>4. \A q \in Records : w[q].a = 0 \/ (w[q].a \in Attempts /\ w[q].a <= made)
      BY Zenon DEF WorkersRun, Runs
    <3>5. \A q \in Records : w[q].a # made + 1
      BY <1>1, <3>4 DEF Attempts
    <3>6. 0 # made + 1
      BY <1>1
    <3> QED
      BY Zenon, <3>3, <3>5, <3>6
  <2>4. ASSUME NEW i \in DOMAIN queue'
        PROVE  /\ w'[att'[queue'[i]].rec].a # queue'[i]
               /\ \A j \in DOMAIN queue' : queue'[j] = queue'[i] => j = i
    <3>1. CASE i \in DOMAIN queue
      <4>1. queue'[i] = queue[i] /\ queue[i] # made + 1
        BY Zenon, <2>1, <2>2, <3>1
      <4>2. \A j \in DOMAIN queue : queue[j] = queue[i] => j = i
        BY Zenon, <3>1 DEF WaitsOnce
      <4>3. \A j \in DOMAIN queue' : queue'[j] = queue'[i] => j = i
        BY Zenon, <2>1, <4>1, <4>2
      <4> QED
        BY Zenon, <1>2, <3>1, <4>1, <4>3
    <3>2. CASE i = Len(queue) + 1
      BY Zenon, <2>1, <2>2, <2>3, <3>2
    <3> QED
      BY Zenon, <2>1, <3>1, <3>2
  <2> QED
    BY Zenon, <2>4 DEF WaitsOnce
<1> QED
  BY Zenon, <1>3, <1>4 DEF QueueGrows

\* What Goto, Fail and Return do to the workers.
LEMMA StepMoved ==
    ASSUME RegOK, WorkersRun, NEW r \in Records, ~At(r, "idle"), NEW pc \in Pcs, pc # "idle",
           pc \in Resolved => w[r].pc \in Resolved,
           NEW kind \in FailKinds \cup {"conflict"}, Goto(r, pc) \/ Fail(r, pc, kind)
    PROVE  WorkerMoved(r)
<1>1. pc \in Resolved => w[r].got \in Contents
  BY Zenon DEF WorkersRun, Runs
<1> QED
  BY Zenon, <1>1, GotoMoved DEF Goto, Fail

\* What moves no attempt moves at most those of any set.
LEMMA MoveMore ==
    ASSUME AttemptsMove({}), NEW S PROVE AttemptsMove(S)
BY Zenon DEF AttemptsMove

\* The two calls of BeginDownload.
LEMMA BeginMoves ==
    ASSUME RegOK, WorkersRun, NEW r \in Records, ~At(r, "idle"), NEW named, NEW planned \in BOOLEAN,
           NEW size, NEW state \in TaskStates, IsTerminal(w[r].a) \/ state # "success",
           NEW next \in {"resolve", "open"}, next = "open" => w[r].pc \in Resolved,
           BeginDownload(r, named, planned, size, state, next)
    PROVE  RegOK' /\ AttemptsMove({}) /\ QueueGrows /\ WorkerMoved(r)
<1>1. w[r].a \in Attempts
  BY Zenon, RunTyped
<1>2. \/ Update(w[r].a, state, planned) /\ Goto(r, next)
      \/ UNCHANGED regVars /\ (Goto(r, "finish") \/ Goto(r, "reject"))
  BY Zenon DEF BeginDownload
<1>3. RegOK' /\ AttemptsMove({}) /\ QueueGrows
  BY Zenon, <1>1, <1>2, UpdateOK, RegistrySame
<1>4. /\ next \in Pcs /\ next # "idle" /\ (next \in Resolved => w[r].pc \in Resolved)
      /\ \A p \in {"finish", "reject"} : p \in Pcs /\ p # "idle" /\ p \notin Resolved
      /\ "error" \in FailKinds
  BY DEF Pcs, Resolved, FailKinds
<1>5. WorkerMoved(r)
  BY Zenon, <1>2, <1>4, StepMoved
<1> QED
  BY Zenon, <1>3, <1>5

\* Begin, Begin2 and Resolve.
LEMMA EarlyMoves ==
    ASSUME RegOK, WorkersRun, MediaOK, NEW r \in Records, Begin(r) \/ Begin2(r) \/ Resolve(r)
    PROVE  RegOK' /\ AttemptsMove({}) /\ QueueGrows /\ WorkerMoved(r) /\ ~At(r, "finish")
<1>1. w[r].pc \in {"begin", "begin2", "resolve"}
  BY Zenon DEF Begin, Begin2, Resolve, At
<1>2. ~At(r, "idle") /\ ~At(r, "finish")
  BY <1>1 DEF At
<1>3. /\ w[r] \in Workers /\ w[r].a \in Attempts /\ Task(r).state \in TaskStates
      /\ Task(r).req.planned \in BOOLEAN
  BY Zenon, <1>2, RunTyped
<1>4. IsTerminal(w[r].a) \/ Task(r).state # "success"
  BY Zenon DEF IsTerminal, Terminal, Task
<1>5. CASE Begin(r)
  <2>1. BeginDownload(r, Task(r).req.named, Task(r).req.planned, Task(r).req.size,
                      Task(r).state, "resolve")
    BY Zenon, <1>5 DEF Begin
  <2> QED
    BY Zenon, <1>2, <1>3, <1>4, <2>1, BeginMoves
<1>6. CASE Begin2(r)
  <2>1. /\ BeginDownload(r, NameChanges, TRUE, GotSize(r), "downloading", "open")
        /\ w[r].pc \in Resolved
    BY Zenon, <1>6 DEF Begin2, At, Resolved
  <2>2. "downloading" \in TaskStates /\ "downloading" # "success"
    BY DEF TaskStates
  <2> QED
    BY Zenon, <1>2, <2>1, <2>2, BeginMoves
<1>7. CASE Resolve(r)
  <2>1. \/ /\ media[r] # None /\ Update(w[r].a, Task(r).state, TRUE)
           /\ w' = [w EXCEPT ![r].pc = "check", ![r].got = media[r]]
        \/ UNCHANGED regVars /\ \E kind \in FailKinds : Fail(r, "failTask", kind)
    BY Zenon, <1>7 DEF Resolve, FailKinds
  <2>2. RegOK' /\ AttemptsMove({}) /\ QueueGrows
    BY Zenon, <1>3, <1>4, <2>1, UpdateOK, RegistrySame
  <2>3. ASSUME media[r] # None, w' = [w EXCEPT ![r].pc = "check", ![r].got = media[r]]
        PROVE  WorkerMoved(r)
    <3> DEFINE x == [w[r] EXCEPT !.pc = "check", !.got = media[r]]
    <3>1. media[r] \in Contents
      BY Zenon, <2>3 DEF MediaOK
    <3>2. x \in Workers
      BY Zenon, <1>3, <3>1 DEF Workers, Pcs
    <3>3. x.pc = "check" /\ x.a = w[r].a /\ x.got = media[r] /\ "check" # "idle"
      BY <1>3 DEF Workers
    <3>4. w' = [w EXCEPT ![r] = x]
      BY Zenon, <2>3
    <3> HIDE DEF x
    <3> QED
      BY Zenon, <1>2, <3>1, <3>2, <3>3, <3>4, GoneOn
  <2>4. "failTask" \in Pcs /\ "failTask" # "idle" /\ "failTask" \notin Resolved
    BY DEF Pcs, Resolved
  <2>5. WorkerMoved(r)
    BY Zenon, <1>2, <2>1, <2>3, <2>4, StepMoved
  <2> QED
    BY Zenon, <1>2, <2>2, <2>5
<1> QED
  BY <1>5, <1>6, <1>7

\* The steps of downloadOne that do not call the registry.
LEMMA QuietMoves ==
    ASSUME RegOK, WorkersRun, NEW r \in Records,
           \/ CheckFinal(r) \/ OpenPart(r) \/ Transfer(r) \/ Seal(r) \/ Gate(r) \/ Publish(r)
           \/ Complete(r) \/ FailRow(r) \/ CancelRow(r) \/ CommitRow(r)
    PROVE  UNCHANGED regVars /\ WorkerMoved(r) /\ ~At(r, "finish")
<1>1. UNCHANGED regVars
  BY ZenonT(30) DEF CheckFinal, OpenPart, Transfer, Seal, Gate, Publish, Complete, FailRow, CancelRow, CommitRow
<1>2. w[r].pc \in {"check", "open", "transfer", "seal", "gate", "publish", "complete",
                   "failRow", "cancelRow", "commitRow"}
  BY ZenonT(30) DEF CheckFinal, OpenPart, Transfer, Seal, Gate, Publish, Complete, FailRow, CancelRow,
              CommitRow, At
<1>3. ~At(r, "idle") /\ ~At(r, "finish")
  BY Zenon, <1>2 DEF At
<1> DEFINE Out == {"finish", "reject", "failTask", "cancelRow", "commitRow", "cancelTask", "commitTask"}
           On == {"begin2", "requeue", "transfer", "seal", "gate", "complete", "prepare"}
<1>4. /\ \A pc \in Out \cup On : pc \in Pcs /\ pc # "idle"
      /\ \A pc \in Out : pc \notin Resolved
      /\ w[r].pc \in {"check", "open", "transfer", "seal", "gate", "publish", "complete"}
           => w[r].pc \in Resolved
  BY DEF Pcs, Resolved
<1>5. \/ Return(r)
      \/ \E pc \in Out, kind \in FailKinds \cup {"conflict"} : Goto(r, pc) \/ Fail(r, pc, kind)
      \/ w[r].pc \in Resolved /\ \E pc \in On : w' = [w EXCEPT ![r].pc = pc]
  <2>1. CASE CheckFinal(r)
    BY Zenon, <2>1 DEF CheckFinal, Goto, At, Resolved, FailKinds
  <2>2. CASE OpenPart(r) \/ Seal(r)
    BY Zenon, <2>2 DEF OpenPart, Seal, Goto, At, Resolved, FailKinds
  <2>3. CASE Transfer(r)
    BY Zenon, <2>3 DEF Transfer, Goto, At, Resolved, FailKinds
  <2>4. CASE Gate(r)
    BY Zenon, <2>4 DEF Gate, Goto, At, Resolved, FailKinds
  <2>5. CASE Publish(r)
    <3>1. \A failure :
            Decision(part[r], final[r], GotSize(r), w[r].got, failure)
              \in {"success", "conflict", "io"}
      BY DEF Decision, CommitError
    <3>2. \/ Goto(r, "complete")
          \/ Fail(r, "commitRow", "conflict") \/ Fail(r, "commitRow", "error")
      BY <2>5, <3>1, Zenon DEF Publish
    <3>3. w[r].pc \in Resolved
      BY Zenon, <2>5 DEF Publish, At, Resolved
    <3> QED
      BY Zenon, <3>2, <3>3 DEF Goto, FailKinds
  <2>6. CASE Complete(r)
    BY Zenon, <2>6 DEF Complete, Goto, At, Resolved, FailKinds
  <2>7. CASE FailRow(r) \/ CancelRow(r) \/ CommitRow(r)
    BY Zenon, <2>7 DEF FailRow, CancelRow, CommitRow, FailKinds
  <2> QED
    BY Zenon, <2>1, <2>2, <2>3, <2>4, <2>5, <2>6, <2>7
<1> HIDE DEF Out, On
<1>6. ASSUME NEW pc \in Out, NEW kind \in FailKinds \cup {"conflict"}, Goto(r, pc) \/ Fail(r, pc, kind)
      PROVE  WorkerMoved(r)
  BY Zenon, <1>3, <1>4, <1>6, StepMoved
<1>7. ASSUME NEW pc \in On, w[r].pc \in Resolved, w' = [w EXCEPT ![r].pc = pc]
      PROVE  WorkerMoved(r)
  <2>1. w[r].got \in Contents
    BY Zenon, <1>7 DEF WorkersRun, Runs
  <2> QED
    BY Zenon, <1>3, <1>4, <1>7, <2>1, GotoMoved
<1>8. WorkerMoved(r)
  BY Zenon, <1>5, <1>6, <1>7, ReturnMoved
<1> QED
  BY Zenon, <1>1, <1>3, <1>8

\* PrepareDownloadCommit, and the last calls into the registry.
LEMMA LateMoves ==
    ASSUME RegOK, WorkersRun, NEW r \in Records,
           Prepare(r) \/ SucceedResult(r) \/ EndFailed(r) \/ FailTask(r)
    PROVE  /\ RegOK' /\ AttemptsMove(IF At(r, "finish") THEN {r} ELSE {})
           /\ QueueGrows /\ WorkerMoved(r)
<1>1. w[r].pc \in {"prepare", "finish", "reject", "cancelTask", "commitTask", "failTask"}
  BY Zenon DEF Prepare, SucceedResult, EndFailed, EndTask, FailTask, At
<1>2. ~At(r, "idle")
  BY <1>1 DEF At
<1>3. w[r].a \in Attempts /\ Task(r).rec = r
  BY Zenon, <1>2, RunTyped
<1>4. /\ {"success", "failed", "unavailable", "publishing"} \subseteq TaskStates
      /\ "publishing" # "success" /\ "failed" # "success" /\ "unavailable" # "success"
      /\ \A pc \in {"publish", "reject", "failRow"} : pc \in Pcs /\ pc # "idle"
      /\ "reject" \notin Resolved /\ "failRow" \notin Resolved /\ "prepare" \in Resolved
      /\ "error" \in FailKinds
  BY DEF TaskStates, Terminal, Pcs, Resolved, FailKinds
<1>5. CASE Prepare(r)
  <2>1. /\ At(r, "prepare")
        /\ \/ Update(w[r].a, "publishing", FALSE) /\ Goto(r, "publish")
           \/ UNCHANGED regVars /\ Goto(r, "reject")
    BY Zenon, <1>5 DEF Prepare
  <2>2. RegOK' /\ AttemptsMove({}) /\ QueueGrows
    BY Zenon, <1>3, <1>4, <2>1, UpdateOK, RegistrySame
  <2>3. WorkerMoved(r)
    BY Zenon, <1>2, <1>4, <2>1, StepMoved DEF At
  <2> QED
    BY Zenon, <2>2, <2>3, MoveMore
<1>6. CASE SucceedResult(r)
  <2>1. At(r, "finish") /\ Finish(w[r].a, "success", TRUE) /\ Return(r)
    BY Zenon, <1>6 DEF SucceedResult, EndTask
  <2>2. RegOK' /\ QueueGrows /\ AttemptsMove({att[w[r].a].rec})
    BY Zenon, <1>3, <1>4, <2>1, FinishOK
  <2> QED
    BY Zenon, <1>3, <2>1, <2>2, ReturnMoved DEF Task
<1>7. CASE EndFailed(r) \/ FailTask(r)
  <2>1. PICK state \in {"failed", "unavailable"} : Finish(w[r].a, state, FALSE)
    BY Zenon, <1>7 DEF EndFailed, EndTask, FailTask
  <2>2. RegOK' /\ QueueGrows /\ AttemptsMove({})
    BY Zenon, <1>3, <1>4, <2>1, FinishOK
  <2>3. Return(r) \/ Goto(r, "failRow")
    BY Zenon, <1>7 DEF EndFailed, EndTask, FailTask
  <2>4. WorkerMoved(r)
    BY Zenon, <1>2, <1>4, <2>3, StepMoved, ReturnMoved
  <2> QED
    BY Zenon, <2>2, <2>4, MoveMore
<1> QED
  BY <1>5, <1>6, <1>7

-----------------------------------------------------------------------------
(* Every step of the daemon, on the registry and the workers *)

RunInv == RegOK /\ WorkersRun /\ WaitsOnce

\* The records whose attempts may be told success in this step.
Reportable == {r \in Records : At(r, "finish") \/ (FinAt("tellSuccess") /\ fin.r = r)}

\* A step of this process, or a new process that has reported nothing.
Reports == AttemptsMove(Reportable) \/ \A a \in Attempts : att'[a].state # "success"

\* An attempt leaves its worker and waits again.
LEMMA RequeueMoves ==
    ASSUME RunInv, NEW r \in Records, RequeueTask(r) PROVE RunInv' /\ AttemptsMove({})
<1> USE DEF RunInv
<1>1. Requeue(w[r].a) /\ Return(r) /\ ~At(r, "idle")
  BY DEF RequeueTask, At
<1>2. w[r].a \in Attempts /\ w[r].a <= made /\ w[r].a # 0 /\ Task(r).rec = r
  BY Zenon, <1>1, RunTyped
<1>3. /\ RegOK' /\ AttemptsMove({})
      /\ queue' = queue \/ queue' = Append(queue, w[r].a)
  BY Zenon, <1>1, <1>2, RequeueOK
<1>4. WorkersRun' /\ \A q \in Records : w'[q].a \in {0, w[q].a}
  BY Zenon, <1>1, <1>3, ReturnMoved, MovedRuns
<1>5. CASE queue' = queue
  BY Zenon, <1>3, <1>4, <1>5, WaitsKept DEF QueueGrows
<1>6. CASE queue' = Append(queue, w[r].a)
  <2>1. /\ queue \in Seq(Attempts) /\ made \in Nat
        /\ \A i \in DOMAIN queue : queue[i] \in Attempts /\ queue[i] \in 1 .. made
    BY RegistryAssumption DEF RegOK, RegistryTypeOK, Attempts
  <2>2. /\ DOMAIN queue' = DOMAIN queue \cup {Len(queue) + 1}
        /\ \A i \in DOMAIN queue : queue'[i] = queue[i]
        /\ queue'[Len(queue) + 1] = w[r].a
    BY <1>2, <1>6, <2>1
  <2>3. \A i \in DOMAIN queue : queue[i] # w[r].a
    BY Zenon, <1>2 DEF WaitsOnce, Task
  <2>4. att'[w[r].a].rec = r /\ w'[r].a = 0
    <3>1. w[r].a \in 1 .. made
      BY <1>2, <2>1 DEF Attempts
    <3>2. w'[r] = Idle
      BY Zenon, <1>1 DEF Return, WorkersRun
    <3> QED
      BY Zenon, <1>2, <1>3, <3>1, <3>2, IdleRuns DEF AttemptsMove, Task
  <2>5. ASSUME NEW i \in DOMAIN queue
        PROVE  w'[att'[queue[i]].rec].a # queue[i] /\ \A j \in DOMAIN queue : queue[j] = queue[i] => j = i
    <3>1. w[att[queue[i]].rec].a # queue[i] /\ \A j \in DOMAIN queue : queue[j] = queue[i] => j = i
      BY Zenon DEF WaitsOnce
    <3>2. att'[queue[i]].rec = att[queue[i]].rec
      BY Zenon, <1>3, <2>1 DEF AttemptsMove
    <3>3. att[queue[i]] \in TaskState
      BY Zenon, <2>1 DEF RegOK, RegistryTypeOK
    <3>4. att[queue[i]].rec \in Records
      BY Zenon, <3>3 DEF TaskState
    <3>5. queue[i] # 0
      BY <2>1
    <3> QED
      BY Zenon, <1>4, <3>1, <3>2, <3>4, <3>5
  <2>6. ASSUME NEW i \in DOMAIN queue'
        PROVE  /\ w'[att'[queue'[i]].rec].a # queue'[i]
               /\ \A j \in DOMAIN queue' : queue'[j] = queue'[i] => j = i
    <3>1. CASE i \in DOMAIN queue
      <4>1. queue'[i] = queue[i] /\ queue[i] # w[r].a
        BY Zenon, <2>2, <2>3, <3>1
      <4>2. \A j \in DOMAIN queue' : queue'[j] = queue'[i] => j = i
        BY Zenon, <2>2, <2>5, <3>1, <4>1
      <4> QED
        BY Zenon, <2>5, <3>1, <4>1, <4>2
    <3>2. CASE i = Len(queue) + 1
      BY Zenon, <1>2, <2>2, <2>3, <2>4, <3>2
    <3> QED
      BY Zenon, <2>2, <3>1, <3>2
  <2>7. WaitsOnce'
    BY Zenon, <2>6 DEF WaitsOnce
  <2> QED
    BY Zenon, <1>3, <1>4, <2>7
<1> QED
  BY Zenon, <1>3, <1>5, <1>6, <1>4

\* The head of the queue is given to the worker of its record, or dropped.
LEMMA DispatchMoves ==
    ASSUME RunInv, Dispatch PROVE RunInv' /\ AttemptsMove({})
<1> USE DEF RunInv
<1> DEFINE a == Head(queue)
           r == att[a].rec
           x == [Idle EXCEPT !.pc = "begin", !.a = a]
<1>1. Next_ /\ w' = (IF At(r, "idle") THEN [w EXCEPT ![r] = x] ELSE w)
  BY Zenon DEF Dispatch
<1>2. RegOK' /\ AttemptsMove({}) /\ a \in Attempts /\ a <= made
  BY Zenon, <1>1, NextOK
<1>3. att[a] \in TaskState
  BY Zenon, <1>2 DEF RegOK, RegistryTypeOK
<1>4. r \in Records
  BY Zenon, <1>3 DEF TaskState
<1>5. queue \in Seq(Attempts) /\ queue # << >> /\ queue' = Tail(queue) /\ made \in Nat
  BY <1>1, RegistryAssumption DEF Next_, RegOK, RegistryTypeOK
<1>6. /\ 1 \in DOMAIN queue /\ a = queue[1] /\ a # 0
      /\ \A i \in DOMAIN queue : queue[i] \in Attempts /\ queue[i] # 0
      /\ \A i \in DOMAIN queue' : i + 1 \in DOMAIN queue /\ queue'[i] = queue[i + 1] /\ i + 1 # 1
      /\ \A i, j \in DOMAIN queue' : i + 1 = j + 1 => i = j
  <2>1. 1 \in DOMAIN queue /\ a = queue[1]
    BY <1>5
  <2>2. \A i \in DOMAIN queue : queue[i] \in Attempts
    BY <1>5
  <2>3. \A b \in Attempts : b # 0
    BY DEF Attempts
  <2>4. \A i \in DOMAIN queue' : i + 1 \in DOMAIN queue /\ queue'[i] = queue[i + 1] /\ i + 1 # 1
    BY <1>5
  <2>5. \A i, j \in DOMAIN queue' : i + 1 = j + 1 => i = j
    BY <1>5
  <2> QED
    BY Zenon, <2>1, <2>2, <2>3, <2>4, <2>5
<1>7. x \in Workers /\ x.pc = "begin" /\ x.a = a /\ Runs(x, r)
  <2>1. a \in 0 .. MaxAttempts
    BY <1>2, RegistryAssumption DEF Attempts
  <2>2. x \in Workers
    BY Zenon, <2>1, IdleRuns DEF Workers, Pcs
  <2>3. x.pc = "begin" /\ x.a = a
    BY DEF Idle
  <2>4. "begin" # "idle" /\ "begin" \notin Resolved
    BY DEF Resolved
  <2> HIDE DEF x
  <2> QED
    BY Zenon, <1>2, <2>2, <2>3, <2>4 DEF Runs
<1> HIDE DEF x
<1>8. w \in [Records -> Workers] /\ \A q \in Records : Runs(w[q], q)
  BY DEF WorkersRun
<1>9. w' \in [Records -> Workers] /\ \A q \in Records : w'[q] = w[q] \/ (q = r /\ w'[q] = x)
  BY Zenon, <1>1, <1>4, <1>7, <1>8
<1> DEFINE After(y, q) ==
             /\ y \in Workers
             /\ IF y.pc = "idle" THEN y.a = 0
                ELSE y.a \in Attempts /\ y.a <= made' /\ att'[y.a].rec = q
             /\ y.pc \in Resolved => y.got \in Contents
<1>10. \A y, q : Runs(y, q) => After(y, q)
  BY Zenon, <1>2, RunsOn DEF Runs
<1> HIDE DEF After
<1>11. \A q \in Records : After(w'[q], q)
  BY ZenonT(30), <1>7, <1>8, <1>9, <1>10
<1>12. WorkersRun'
  BY Zenon, <1>9, <1>11 DEF WorkersRun, Runs, After
<1>13. \A i \in DOMAIN queue : /\ w[att[queue[i]].rec].a # queue[i]
                               /\ \A j \in DOMAIN queue : queue[j] = queue[i] => j = i
  BY Zenon DEF WaitsOnce
<1>14. ASSUME NEW i \in DOMAIN queue'
       PROVE  /\ w'[att'[queue'[i]].rec].a # queue'[i]
              /\ \A j \in DOMAIN queue' : queue'[j] = queue'[i] => j = i
  <2>1. queue[i + 1] # a
    BY Zenon, <1>6, <1>13
  <2>2. i + 1 \in DOMAIN queue /\ queue'[i] = queue[i + 1]
    BY Zenon, <1>6
  <2>3. queue[i + 1] \in 1 .. made
    BY <1>5, <1>6, <2>2 DEF RegOK, Attempts
  <2>4. att'[queue[i + 1]].rec = att[queue[i + 1]].rec
    BY Zenon, <1>2, <2>3 DEF AttemptsMove
  <2>5. att[queue[i + 1]] \in TaskState
    BY Zenon, <1>6, <2>2 DEF RegOK, RegistryTypeOK
  <2>6. att[queue[i + 1]].rec \in Records
    BY Zenon, <2>5 DEF TaskState
  <2>7. w'[att[queue[i + 1]].rec].a # queue[i + 1]
    BY Zenon, <1>7, <1>9, <1>13, <2>1, <2>2, <2>6
  <2>8. \A j \in DOMAIN queue' : queue'[j] = queue'[i] => j = i
    BY ZenonT(30), <1>6, <1>13
  <2> QED
    BY Zenon, <2>2, <2>4, <2>7, <2>8
<1>15. WaitsOnce'
  BY Zenon, <1>14 DEF WaitsOnce
<1> QED
  BY Zenon, <1>2, <1>12, <1>15

\* Switching a target off takes attempts out of the queue.
LEMMA CancelMoves ==
    ASSUME RunInv, CancelTarget PROVE RunInv' /\ AttemptsMove({})
<1> USE DEF RunInv
<1>1. (\E Q, T : CancelTasks(Q, T)) /\ UNCHANGED w
  BY Zenon DEF CancelTarget, orcVars
<1>2. /\ RegOK' /\ AttemptsMove({})
      /\ \A k \in DOMAIN queue' : \E i \in DOMAIN queue : queue'[k] = queue[i]
      /\ (\A i, j \in DOMAIN queue : queue[i] = queue[j] => i = j) =>
            \A k, l \in DOMAIN queue' : queue'[k] = queue'[l] => k = l
  BY Zenon, <1>1, CancelTasksOK
<1>3. WorkersRun'
  BY Zenon, <1>1, <1>2, SameRuns
<1>4. \A i \in DOMAIN queue : /\ w[att[queue[i]].rec].a # queue[i]
                              /\ \A j \in DOMAIN queue : queue[j] = queue[i] => j = i
  BY Zenon DEF WaitsOnce
<1>5. \A i \in DOMAIN queue : queue[i] \in 1 .. made
  BY RegistryAssumption DEF RegOK, RegistryTypeOK, Attempts
<1>6. \A i \in DOMAIN queue : att'[queue[i]].rec = att[queue[i]].rec
  BY Zenon, <1>2, <1>5 DEF AttemptsMove
<1>7. \A k, l \in DOMAIN queue' : queue'[k] = queue'[l] => k = l
  BY Zenon, <1>2, <1>4
<1>8. ASSUME NEW k \in DOMAIN queue' PROVE w'[att'[queue'[k]].rec].a # queue'[k]
  <2>1. PICK i \in DOMAIN queue : queue'[k] = queue[i]
    BY Zenon, <1>2
  <2>2. att'[queue'[k]].rec = att[queue[i]].rec
    BY Zenon, <1>6, <2>1
  <2> QED
    BY Zenon, <1>1, <1>4, <2>1, <2>2
<1>9. WaitsOnce'
  BY Zenon, <1>7, <1>8 DEF WaitsOnce
<1> QED
  BY Zenon, <1>2, <1>3, <1>9

\* A new process.
LEMMA CrashMoves ==
    ASSUME RunInv, Crash PROVE RunInv' /\ \A a \in Attempts : att'[a].state # "success"
<1> USE DEF RunInv
<1>1. EmptyRegistry(StartPaused) /\ UNCHANGED stamp /\ w' = [r \in Records |-> Idle]
  BY DEF Crash
<1>2. RegOK' /\ queue' = << >> /\ \A a \in Attempts : att'[a].state # "success"
  BY Zenon, <1>1, EmptyRegistryOK, DaemonAssumption
<1>3. WaitsOnce'
  <2>1. DOMAIN queue' = {}
    BY <1>2
  <2> QED
    BY Zenon, <2>1 DEF WaitsOnce
<1>4. Idle \in Workers /\ Idle.a = 0 /\ Idle.pc = "idle" /\ "idle" \notin Resolved
  BY IdleRuns DEF Idle, Resolved
<1>5. w' \in [Records -> Workers] /\ \A q \in Records : w'[q] = Idle
  BY Zenon, <1>1, <1>4
<1>6. WorkersRun'
  BY ZenonT(30), <1>4, <1>5 DEF WorkersRun, Runs
<1> QED
  BY Zenon, <1>2, <1>3, <1>6

\* A call into the registry that moves no worker.
LEMMA CallMoves ==
    ASSUME RunInv, RegOK', NEW S, AttemptsMove(S), QueueGrows, UNCHANGED w PROVE RunInv'
<1> USE DEF RunInv
<1>1. WorkersRun' /\ \A q \in Records : w'[q].a \in {0, w[q].a}
  BY Zenon, SameRuns
<1>2. WaitsOnce'
  BY Zenon, <1>1, WaitsKept
<1> QED
  BY Zenon, <1>1, <1>2

\* No call into the registry.
LEMMA QuietRuns ==
    ASSUME RunInv, UNCHANGED <<regVars, w>> PROVE RunInv' /\ AttemptsMove({})
<1>1. RegOK' /\ AttemptsMove({}) /\ QueueGrows
  BY Zenon, RegistrySame DEF RunInv
<1> QED
  BY Zenon, <1>1, CallMoves

\* Every step of downloadOne.
LEMMA WorkerRuns ==
    ASSUME RunInv, MediaOK, NEW r \in Records, Worker(r)
    PROVE  RunInv' /\ AttemptsMove(IF At(r, "finish") THEN {r} ELSE {})
<1>1. CASE RequeueTask(r)
  BY Zenon, <1>1, RequeueMoves, MoveMore
<1>2. CASE ~RequeueTask(r)
  <2>1. /\ RegOK' /\ AttemptsMove(IF At(r, "finish") THEN {r} ELSE {})
        /\ QueueGrows /\ WorkerMoved(r)
    <3>1. CASE Begin(r) \/ Begin2(r) \/ Resolve(r)
      BY Zenon, <3>1, EarlyMoves, MoveMore DEF RunInv
    <3>2. CASE \/ CheckFinal(r) \/ OpenPart(r) \/ Transfer(r) \/ Seal(r) \/ Gate(r) \/ Publish(r)
               \/ Complete(r) \/ FailRow(r) \/ CancelRow(r) \/ CommitRow(r)
      BY Zenon, <3>2, QuietMoves, RegistrySame, MoveMore DEF RunInv
    <3>3. CASE Prepare(r) \/ SucceedResult(r) \/ EndFailed(r) \/ FailTask(r)
      BY Zenon, <3>3, LateMoves DEF RunInv
    <3> QED
      BY Zenon, <1>2, <3>1, <3>2, <3>3 DEF Worker
  <2>2. WorkersRun' /\ \A q \in Records : w'[q].a \in {0, w[q].a}
    BY Zenon, <2>1, MovedRuns DEF RunInv
  <2>3. WaitsOnce'
    BY Zenon, <2>1, <2>2, WaitsKept DEF RunInv
  <2> QED
    BY Zenon, <2>1, <2>2, <2>3 DEF RunInv
<1> QED
  BY <1>1, <1>2

\* What ingest, a retry and the web server ask the registry for is a request.
LEMMA RequestTyped ==
    ASSUME NEW named \in BOOLEAN, NEW planned \in BOOLEAN, NEW size \in Sizes, NEW origin \in Origins
    PROVE  Request(named, planned, size, origin) \in Requests
BY Zenon DEF Request, Requests

\* The fields of a row that a request is made from.
LEMMA RowTyped ==
    ASSUME NEW d \in Rows
    PROVE  d.named \in BOOLEAN /\ d.planned \in BOOLEAN /\ d.size \in Sizes /\ d.gen \in Gens
BY Zenon DEF Rows

\* The request a client of POST /api/tasks repeats, or its first one.
LEMMA RequestKnown ==
    ASSUME RegOK, NEW r \in Records
    PROVE  (IF tasks[r] = 0 THEN Request(FALSE, FALSE, 0, "web") ELSE att[tasks[r]].req) \in Requests
<1>1. CASE tasks[r] = 0
  BY Zenon, <1>1, SizesAreNat, RequestTyped DEF Origins
<1>2. CASE tasks[r] # 0
  <2>1. tasks[r] \in Attempts
    BY <1>2, RegistryAssumption DEF RegOK, RegistryTypeOK, Attempts
  <2>2. att[tasks[r]] \in TaskState
    BY Zenon, <2>1 DEF RegOK, RegistryTypeOK
  <2> QED
    BY Zenon, <1>2, <2>2 DEF TaskState
<1> QED
  BY Zenon, <1>1, <1>2

\* The scanner, the update stream, the web interface and the operator.
LEMMA SubmitRuns ==
    ASSUME RunInv, DatabaseTypeOK, MediaOK, scan \in [Records -> Rows], NEW r \in Records,
           ScanSubmit(r) \/ StreamUpdate(r) \/ WebSubmit(r) \/ ResolveTargetConflict(r)
    PROVE  RunInv' /\ AttemptsMove({})
<1>1. UNCHANGED w
  BY Zenon DEF ScanSubmit, StreamUpdate, WebSubmit, ResolveTargetConflict, orcVars
<1>2. {"scan", "stream", "web", "resolve"} = Origins
  BY DEF Origins
<1>3. RegOK' /\ AttemptsMove({}) /\ QueueGrows
  <2>1. CASE ScanSubmit(r)
    <3>1. Request(scan[r].named, scan[r].planned, scan[r].size, "scan") \in Requests
      BY Zenon, <1>2, RowTyped, RequestTyped
    <3> QED
      BY Zenon, <2>1, <3>1, SubmitOK, RegistrySame DEF ScanSubmit, RunInv
  <2>2. CASE StreamUpdate(r)
    <3>1. media[r] \in Contents
      BY Zenon, <2>2 DEF StreamUpdate, MediaOK
    <3>2. SizeOf[media[r]] \in Sizes
      BY Zenon, <3>1 DEF Sizes
    <3>3. Request(FALSE, FALSE, SizeOf[media[r]], "stream") \in Requests
      BY Zenon, <1>2, <3>2, RequestTyped
    <3> QED
      BY Zenon, <2>2, <3>3, SubmitOK, RegistrySame DEF StreamUpdate, RunInv
  <2>3. CASE WebSubmit(r)
    <3> DEFINE req == IF tasks[r] = 0 THEN Request(FALSE, FALSE, 0, "web") ELSE att[tasks[r]].req
    <3>1. Submit(r, [req EXCEPT !.asRetry = FALSE], TRUE)
      BY Zenon, <2>3 DEF WebSubmit
    <3>2. req \in Requests
      BY Zenon, RequestKnown DEF RunInv
    <3> HIDE DEF req
    <3>3. [req EXCEPT !.asRetry = FALSE] \in Requests
      BY Zenon, <3>2 DEF Requests
    <3> QED
      BY Zenon, <3>1, <3>3, SubmitOK DEF RunInv
  <2>4. CASE ResolveTargetConflict(r)
    <3>1. Request(row[r].named, row[r].planned, row[r].size, "resolve") \in Requests
      BY Zenon, <1>2, RowTyped, RequestTyped DEF DatabaseTypeOK
    <3> QED
      BY Zenon, <2>4, <3>1, RetryOK DEF ResolveTargetConflict, RunInv
  <2> QED
    BY Zenon, <2>1, <2>2, <2>3, <2>4
<1> QED
  BY Zenon, <1>1, <1>3, CallMoves

\* Every step of a finalizer visit.
LEMMA FinRuns ==
    ASSUME RunInv, fin.r \in Records, NEW online, FinStep(online)
    PROVE  RunInv' /\ AttemptsMove(IF FinAt("tellSuccess") THEN {fin.r} ELSE {})
<1>1. CASE FinTell(online)
  <2>1. UNCHANGED w
    BY Zenon, <1>1 DEF FinTell, orcVars
  <2> DEFINE state == IF FinAt("tellSuccess") THEN "success" ELSE "failed"
  <2>2. FinishTaskByMessage(fin.r, Snap.gen, state) \/ UNCHANGED regVars
    BY Zenon, <1>1 DEF FinTell
  <2>3. state \in TaskStates /\ (state = "success" <=> FinAt("tellSuccess"))
    BY Zenon DEF TaskStates, Terminal
  <2> HIDE DEF state
  <2>4. RegOK' /\ QueueGrows /\ AttemptsMove(IF FinAt("tellSuccess") THEN {fin.r} ELSE {})
    <3>1. CASE UNCHANGED regVars
      BY Zenon, <3>1, RegistrySame, MoveMore DEF RunInv
    <3>2. CASE FinishTaskByMessage(fin.r, Snap.gen, state)
      <4>1. RegOK' /\ QueueGrows /\ AttemptsMove(IF state = "success" THEN {fin.r} ELSE {})
        BY Zenon, <2>3, <3>2, FinishByMessageOK DEF RunInv
      <4>2. (IF state = "success" THEN {fin.r} ELSE {}) = (IF FinAt("tellSuccess") THEN {fin.r} ELSE {})
        BY Zenon, <2>3
      <4> QED
        BY Zenon, <4>1, <4>2
    <3> QED
      BY <2>2, <3>1, <3>2
  <2> QED
    BY Zenon, <2>1, <2>4, CallMoves
<1>2. CASE ~FinTell(online)
  <2>1. UNCHANGED <<regVars, w>>
    BY ZenonT(30), <1>2 DEF FinStep, FinPick, FinInspect, FinCommit, FinComplete, FinConflict, FinReset,
                orcVars
  <2> QED
    BY Zenon, <2>1, QuietRuns, MoveMore
<1> QED
  BY <1>1, <1>2

\* What moves attempts of a set moves attempts of a larger one.
LEMMA MoveWithin ==
    ASSUME NEW S, NEW T, AttemptsMove(S), S \subseteq T PROVE AttemptsMove(T)
BY Zenon DEF AttemptsMove

\* Startup recovery, and what happens around the daemon.
LEMMA OutsideRuns ==
    ASSUME RunInv, DatabaseTypeOK, MediaOK, scan \in [Records -> Rows], fin.r \in Records,
           (Startup /\ ~BootReconcile) \/ Shutdown \/ Environment \/ UNCHANGED vars
    PROVE  RunInv' /\ AttemptsMove({})
<1>1. CASE Startup /\ ~BootReconcile
  <2>1. UNCHANGED <<regVars, w>>
    BY ZenonT(30), <1>1 DEF Startup, BootCommitting, FinList, BootDownloading, BootArchive, StartUp,
                RecoverDownloading, RecoverCopying, RecoverSource, orcVars
  <2> QED
    BY Zenon, <2>1, QuietRuns
<1>2. CASE \/ Shutdown \/ UNCHANGED vars \/ (\E r \in Records : Edit(r))
           \/ SwitchTarget \/ RefreshTargetCache \/ Tick
  <2>1. UNCHANGED <<regVars, w>>
    BY ZenonT(30), <1>2 DEF Shutdown, vars, Edit, SwitchTarget, RefreshTargetCache, Tick, orcVars
  <2> QED
    BY Zenon, <2>1, QuietRuns
<1>3. ASSUME NEW r \in Records, StreamUpdate(r) \/ WebSubmit(r) \/ ResolveTargetConflict(r)
      PROVE  RunInv' /\ AttemptsMove({})
  BY Zenon, <1>3, SubmitRuns
<1>4. CASE CancelTarget
  BY Zenon, <1>4, CancelMoves
<1>5. CASE PauseResume
  <2>1. (\E p \in BOOLEAN : SetPaused(p)) /\ UNCHANGED w
    BY Zenon, <1>5 DEF PauseResume
  <2>2. RegOK' /\ AttemptsMove({}) /\ QueueGrows
    BY Zenon, <2>1, SetPausedOK DEF RunInv
  <2> QED
    BY Zenon, <2>1, <2>2, CallMoves
<1> QED
  BY Zenon, <1>1, <1>2, <1>3, <1>4, <1>5 DEF Environment

\* Every step.
LEMMA RunStep ==
    ASSUME RunInv, DatabaseTypeOK, MediaOK, scan \in [Records -> Rows], fin.r \in Records,
           [Next]_vars
    PROVE  RunInv' /\ Reports
<1> DEFINE Goal == RunInv' /\ Reports
<1>1. ASSUME RunInv', AttemptsMove({}) PROVE Goal
  BY Zenon, <1>1, MoveMore DEF Reports
<1>2. ASSUME NEW online, FinStep(online) PROVE Goal
  <2>1. (IF FinAt("tellSuccess") THEN {fin.r} ELSE {}) \subseteq Reportable
    BY Zenon DEF Reportable
  <2>2. RunInv' /\ AttemptsMove(IF FinAt("tellSuccess") THEN {fin.r} ELSE {})
    BY Zenon, <1>2, FinRuns
  <2> QED
    BY Zenon, <2>1, <2>2, MoveWithin DEF Reports
<1>3. ASSUME NEW r \in Records, Worker(r) PROVE Goal
  <2>1. (IF At(r, "finish") THEN {r} ELSE {}) \subseteq Reportable
    BY Zenon DEF Reportable
  <2>2. RunInv' /\ AttemptsMove(IF At(r, "finish") THEN {r} ELSE {})
    BY Zenon, <1>3, WorkerRuns
  <2> QED
    BY Zenon, <2>1, <2>2, MoveWithin DEF Reports
<1>4. CASE Crash
  BY Zenon, <1>4, CrashMoves DEF Reports
<1>5. CASE BootReconcile \/ Reconcile
  BY Zenon, <1>2, <1>5 DEF BootReconcile, Reconcile
<1>6. CASE Scanner \/ FinalizerPass \/ Archive
  <2>1. UNCHANGED <<regVars, w>> \/ \E r \in Records : ScanSubmit(r)
    BY Zenon, <1>6 DEF Scanner, ScanList, FinalizerPass, FinList, Archive, orcVars
  <2> QED
    BY Zenon, <1>1, <2>1, QuietRuns, SubmitRuns
<1>7. CASE Dispatcher
  BY Zenon, <1>1, <1>7, DispatchMoves DEF Dispatcher
<1>8. CASE \E r \in Records : Download(r)
  BY Zenon, <1>3, <1>8 DEF Download
<1>9. CASE (Startup /\ ~BootReconcile) \/ Shutdown \/ Environment \/ UNCHANGED vars
  BY Zenon, <1>1, <1>9, OutsideRuns
<1>10. CASE Startup
  BY Zenon, <1>5, <1>9, <1>10
<1> QED
  BY Zenon, <1>4, <1>5, <1>6, <1>7, <1>8, <1>9, <1>10 DEF Next
=============================================================================
