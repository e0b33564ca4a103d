-------------------------- MODULE ComponentProofs --------------------------
(***************************************************************************)
(* Proofs about components that run beside the daemon's core, one part for *)
(* each: for any number of users, callers, nodes, messages, tasks and      *)
(* bytes, and any sequence of faults.  No part uses another.               *)
(***************************************************************************)
EXTENDS Admission, MessageCache, AuthWizard, ProxyManager, SpoolRows,
        FiniteSetTheorems, WellFoundedInduction, TLAPS

-----------------------------------------------------------------------------
(***************************************************************************)
(* Admission: the bytes that simultaneous reservations admit.              *)
(***************************************************************************)

Asks == [pc : {"idle", "read", "writing", "stored"}, seen : Int, stale : BOOLEAN]

\* The sum kept beside the map is the sum of the map; a task holds a reservation
\* while it writes; and a reading of the free space that is not stale overstates
\* it by no more than was reserved and is yet to be written.
AdmissionInv ==
    /\ admission \in [Tasks -> Asks]
    /\ reservations \in [Tasks -> Nat] /\ onDisk \in [Tasks -> Nat]
    /\ totalReserved = ByteSum(reservations)
    /\ \A t \in Tasks :
          /\ reservations[t] = IF admission[t].pc = "writing" THEN RequestBytes(t) ELSE 0
          /\ reservations[t] > 0 => onDisk[t] <= reservations[t]
          /\ admission[t].pc = "read" /\ ~admission[t].stale =>
                admission[t].seen - totalReserved <= Free - ByteSum(YetToWrite)
    /\ overtaken \in BOOLEAN
    /\ AdmittedFits

\* The bytes of finitely many tasks are finitely many.
LEMMA BytesFinite ==
    ASSUME NEW f \in [Tasks -> Nat]
    PROVE  IsFiniteSet(BytesOf(f)) /\ ByteSum(f) \in Nat
<1> DEFINE F == [t \in Tasks |-> {t} \X (1 .. f[t])]
           S == {F[t] : t \in Tasks}
<1>1. F \in [Tasks -> S]
  OBVIOUS
<1>2. IsFiniteSet(S)
  <2>1. F \in Surjection(Tasks, S)
    BY Zenon, <1>1 DEF Surjection
  <2>2. IsFiniteSet(Tasks)
    BY AdmissionAssumption
  <2> HIDE DEF F, S
  <2> QED
    BY <2>1, <2>2, FS_Surjection
<1>3. \A T \in S : IsFiniteSet(T)
  <2> TAKE T \in S
  <2>1. PICK t \in Tasks : T = {t} \X (1 .. f[t])
    OBVIOUS
  <2>2. IsFiniteSet({t}) /\ IsFiniteSet(1 .. f[t])
    <3>1. 1 \in Int /\ f[t] \in Int
      OBVIOUS
    <3>2. IsFiniteSet(1 .. f[t])
      BY Zenon, <3>1, FS_Interval
    <3> QED
      BY Zenon, <3>2, FS_Singleton
  <2> QED
    BY <2>1, <2>2, FS_Product
<1>4. BytesOf(f) = UNION S
  BY DEF BytesOf
<1> QED
  BY Zenon, <1>2, <1>3, <1>4, FS_UNION, FS_CardinalityType DEF ByteSum

\* A sum changes by what one task's share changes.
LEMMA SumExcept ==
    ASSUME NEW f \in [Tasks -> Nat], NEW t \in Tasks, NEW n \in Nat
    PROVE  ByteSum([f EXCEPT ![t] = n]) = ByteSum(f) - f[t] + n
<1> DEFINE g == [f EXCEPT ![t] = n]
           Rest(h) == UNION {{s} \X (1 .. h[s]) : s \in Tasks \ {t}}
           One(h) == {t} \X (1 .. h[t])
<1>1. g \in [Tasks -> Nat] /\ g[t] = n /\ \A s \in Tasks \ {t} : g[s] = f[s]
  OBVIOUS
<1>2. Rest(g) = Rest(f)
  BY <1>1
<1>3. ASSUME NEW h \in [Tasks -> Nat]
      PROVE  ByteSum(h) = Cardinality(Rest(h)) + h[t] /\ Cardinality(Rest(h)) \in Nat
  <2>1. BytesOf(h) = Rest(h) \cup One(h) /\ Rest(h) \cap One(h) = {}
    BY DEF BytesOf
  <2>2. IsFiniteSet(Rest(h)) /\ IsFiniteSet(One(h))
    BY <2>1, BytesFinite, FS_Subset
  <2>3. h[t] \in Nat /\ 1 \in Int /\ h[t] \in Int
    OBVIOUS
  <2>4. IsFiniteSet(1 .. h[t]) /\ Cardinality(1 .. h[t]) = IF 1 > h[t] THEN 0 ELSE h[t] - 1 + 1
    BY Zenon, <2>3, FS_Interval
  <2>5. Cardinality(1 .. h[t]) = h[t]
    BY <2>3, <2>4
  <2>6. IsFiniteSet({t}) /\ Cardinality({t}) = 1
    BY Zenon, FS_Singleton
  <2>7. Cardinality(One(h)) = Cardinality({t}) * Cardinality(1 .. h[t])
    BY Zenon, <2>4, <2>6, FS_Product
  <2>8. Cardinality(One(h)) = h[t]
    BY <2>3, <2>5, <2>6, <2>7
  <2>9. Cardinality(Rest(h) \cup One(h))
          = Cardinality(Rest(h)) + Cardinality(One(h)) - Cardinality(Rest(h) \cap One(h))
    BY Zenon, <2>2, FS_Union
  <2> HIDE DEF Rest, One
  <2>10. Cardinality({}) = 0
    BY FS_EmptySet
  <2>11. Cardinality(Rest(h)) \in Nat
    BY <2>2, FS_CardinalityType
  <2> QED
    <3>1. Cardinality(BytesOf(h)) = Cardinality(Rest(h)) + h[t] - 0
      BY Zenon, <2>1, <2>8, <2>9, <2>10
    <3>2. Cardinality(BytesOf(h)) = Cardinality(Rest(h)) + h[t]
      BY <2>3, <2>11, <3>1
    <3> QED
      BY Zenon, <2>11, <3>2 DEF ByteSum
<1>4. f[t] \in Nat
  OBVIOUS
<1> HIDE DEF g, Rest
<1>5. ByteSum(g) = Cardinality(Rest(f)) + n /\ ByteSum(f) = Cardinality(Rest(f)) + f[t]
      /\ Cardinality(Rest(f)) \in Nat
  BY <1>1, <1>2, <1>3
<1>6. ByteSum(g) = ByteSum(f) - f[t] + n
  BY <1>4, <1>5
<1> QED
  BY <1>6 DEF g

\* A sum of smaller shares is smaller.
LEMMA SumMonotone ==
    ASSUME NEW f \in [Tasks -> Nat], NEW g \in [Tasks -> Nat], \A t \in Tasks : f[t] <= g[t]
    PROVE  ByteSum(f) <= ByteSum(g)
<1>1. BytesOf(f) \subseteq BytesOf(g)
  BY DEF BytesOf
<1>2. IsFiniteSet(BytesOf(g))
  BY BytesFinite
<1> QED
  BY <1>1, <1>2, FS_Subset DEF ByteSum

\* A request is a number of bytes, with or without a known size.
LEMMA RequestIsNat == \A t \in Tasks : RequestBytes(t) \in Nat
BY AdmissionAssumption DEF RequestBytes

\* A step leaves task t with r bytes reserved, n on disk and y yet to write, and
\* the other tasks with theirs.
Moves(t, r, n, y) ==
    /\ {r, n, y} \subseteq Nat /\ y = (IF r > 0 THEN r - n ELSE 0)
    /\ reservations' = [reservations EXCEPT ![t] = r] /\ onDisk' = [onDisk EXCEPT ![t] = n]

\* The three sums follow.
SumsFollow(t, r, n, y) ==
    /\ reservations' \in [Tasks -> Nat] /\ onDisk' \in [Tasks -> Nat]
    /\ ByteSum(reservations') = ByteSum(reservations) - reservations[t] + r
    /\ ByteSum(onDisk') = ByteSum(onDisk) - onDisk[t] + n
    /\ ByteSum(YetToWrite') = ByteSum(YetToWrite) - YetToWrite[t] + y

\* What the three sums over all tasks become when one task moves.
LEMMA AdmissionSums ==
    ASSUME AdmissionInv, NEW t \in Tasks, NEW r, NEW n, NEW y, Moves(t, r, n, y)
    PROVE  SumsFollow(t, r, n, y)
<1>0. /\ r \in Nat /\ n \in Nat /\ y \in Nat /\ y = (IF r > 0 THEN r - n ELSE 0)
      /\ reservations' = [reservations EXCEPT ![t] = r] /\ onDisk' = [onDisk EXCEPT ![t] = n]
  BY DEF Moves
<1>1. /\ reservations \in [Tasks -> Nat] /\ onDisk \in [Tasks -> Nat]
      /\ \A s \in Tasks : reservations[s] > 0 => onDisk[s] <= reservations[s]
  BY DEF AdmissionInv
<1>2. YetToWrite \in [Tasks -> Nat]
  BY <1>1 DEF YetToWrite
<1>3. YetToWrite' = [YetToWrite EXCEPT ![t] = y]
  BY Zenon, <1>0, <1>1 DEF YetToWrite
<1>4. ByteSum(YetToWrite') = ByteSum(YetToWrite) - YetToWrite[t] + y
  BY Zenon, <1>0, <1>2, <1>3, SumExcept
<1>5. ByteSum(reservations') = ByteSum(reservations) - reservations[t] + r
  BY Zenon, <1>0, <1>1, SumExcept
<1>6. ByteSum(onDisk') = ByteSum(onDisk) - onDisk[t] + n
  BY Zenon, <1>0, <1>1, SumExcept
<1> QED
  BY <1>0, <1>1, <1>4, <1>5, <1>6 DEF SumsFollow

\* Every step of every task preserves the invariant.
LEMMA AdmissionStep == AdmissionInv /\ [AdmissionNext]_admissionVars => AdmissionInv'
<1> SUFFICES ASSUME AdmissionInv, [AdmissionNext]_admissionVars PROVE AdmissionInv'
  OBVIOUS
<1> DEFINE Y == ByteSum(YetToWrite)
           D == ByteSum(onDisk)
<1>1. /\ admission \in [Tasks -> Asks]
      /\ reservations \in [Tasks -> Nat] /\ onDisk \in [Tasks -> Nat]
      /\ totalReserved = ByteSum(reservations) /\ overtaken \in BOOLEAN
  BY DEF AdmissionInv
<1>2. \A t \in Tasks :
          /\ reservations[t] = (IF admission[t].pc = "writing" THEN RequestBytes(t) ELSE 0)
          /\ reservations[t] > 0 => onDisk[t] <= reservations[t]
          /\ admission[t].pc = "read" /\ ~admission[t].stale =>
                admission[t].seen - totalReserved <= (DiskSize - D) - Y
  BY DEF AdmissionInv, Free
<1>3. ~overtaken => \/ Y <= (DiskSize - D) - MinFreeSpace
                    \/ \A t \in Tasks : reservations[t] = 0 /\ onDisk[t] = 0
  BY DEF AdmissionInv, AdmittedFits, Free
<1>4. YetToWrite \in [Tasks -> Nat] /\ \A t \in Tasks : YetToWrite[t] <= reservations[t]
  <2>1. \A t \in Tasks : reservations[t] > 0 => onDisk[t] <= reservations[t]
    BY DEF AdmissionInv
  <2> QED
    BY <1>1, <2>1 DEF YetToWrite
<1>5. Y \in Nat /\ D \in Nat /\ totalReserved \in Nat /\ Y <= totalReserved
  BY <1>1, <1>4, BytesFinite, SumMonotone
<1>6. DiskSize \in Nat /\ MinFreeSpace \in Nat
  BY AdmissionAssumption
<1>7. \A t \in Tasks : admission[t] \in Asks /\ admission[t].seen \in Int
  BY <1>1 DEF Asks
<1>8. \A t \in Tasks : YetToWrite[t] = (IF reservations[t] > 0 THEN reservations[t] - onDisk[t] ELSE 0)
  BY DEF YetToWrite
<1> HIDE DEF Y, D
<1>9. ASSUME NEW t \in Tasks, NEW v \in Asks, admission' = [admission EXCEPT ![t] = v],
             admission[t].pc # "writing", v.pc # "writing", v.pc = "read" => v.seen = DiskSize - D,
             UNCHANGED <<reservations, totalReserved, onDisk, overtaken>>
      PROVE  AdmissionInv'
  <2>1. admission' \in [Tasks -> Asks] /\ \A s \in Tasks : admission'[s] = IF s = t THEN v ELSE admission[s]
    BY <1>1, <1>9
  <2>2. YetToWrite' = YetToWrite /\ Free' = Free /\ Free = DiskSize - D
    BY <1>9 DEF YetToWrite, Free, ByteSum, BytesOf, D
  <2>3. ASSUME NEW s \in Tasks
        PROVE  /\ reservations[s] = IF admission'[s].pc = "writing" THEN RequestBytes(s) ELSE 0
               /\ admission'[s].pc = "read" /\ ~admission'[s].stale =>
                     admission'[s].seen - totalReserved <= (DiskSize - D) - Y
    BY <1>2, <1>5, <1>6, <1>9, <2>1
  <2>4. AdmittedFits'
    BY Zenon, <1>3, <1>9, <2>2 DEF AdmittedFits, Y
  <2> QED
    BY Zenon, <1>1, <1>2, <1>9, <2>1, <2>2, <2>3, <2>4 DEF AdmissionInv, Y
<1>15. Waiting \in Asks /\ Waiting.pc = "idle"
  BY DEF Waiting, Asks
<1>16. ASSUME NEW t \in Tasks, ReadFree(t) PROVE AdmissionInv'
  <2> DEFINE v == [pc |-> "read", seen |-> DiskSize - D, stale |-> FALSE]
  <2>1. /\ admission[t].pc = "idle" /\ UNCHANGED <<reservations, totalReserved, onDisk, overtaken>>
        /\ admission' = [admission EXCEPT ![t] = v]
    BY <1>16 DEF ReadFree, Free, D
  <2>2. v \in Asks /\ v.pc = "read" /\ v.seen = DiskSize - D
    BY <1>5, <1>6 DEF Asks
  <2> HIDE DEF v
  <2> QED
    BY Zenon, <1>9, <2>1, <2>2
<1>10. ASSUME NEW t \in Tasks, Reserve(t) PROVE AdmissionInv'
  <2>1. CASE admission[t].seen - MinFreeSpace - totalReserved >= RequestBytes(t)
    <3> DEFINE w == [Waiting EXCEPT !.pc = "writing"]
    <3>1. /\ admission[t].pc = "read" /\ reservations' = [reservations EXCEPT ![t] = RequestBytes(t)]
          /\ totalReserved' = totalReserved + RequestBytes(t)
          /\ admission' = [admission EXCEPT ![t] = w]
          /\ overtaken' = (overtaken \/ admission[t].stale)
          /\ onDisk' = [onDisk EXCEPT ![t] = 0]
      BY <1>10, <2>1 DEF Reserve
    <3>2. w \in Asks /\ w.pc = "writing"
      BY Zenon, <1>15 DEF Asks
    <3> HIDE DEF w
    <3>3. admission' \in [Tasks -> Asks] /\ \A s \in Tasks : admission'[s] = IF s = t THEN w ELSE admission[s]
      BY <1>1, <3>1, <3>2
    <3>4. RequestBytes(t) \in Nat /\ reservations[t] = 0 /\ onDisk[t] \in Nat
      BY <1>1, <1>2, <3>1, RequestIsNat
    <3>5. YetToWrite[t] = 0
      BY <1>8, <3>4
    <3>6. /\ reservations' \in [Tasks -> Nat] /\ onDisk' \in [Tasks -> Nat]
          /\ ByteSum(reservations') = ByteSum(reservations) - reservations[t] + RequestBytes(t)
          /\ ByteSum(onDisk') = ByteSum(onDisk) - onDisk[t] + 0
          /\ ByteSum(YetToWrite') = ByteSum(YetToWrite) - YetToWrite[t] + RequestBytes(t)
      <4>1. Moves(t, RequestBytes(t), 0, RequestBytes(t))
        BY <3>1, <3>4 DEF Moves
      <4>2. SumsFollow(t, RequestBytes(t), 0, RequestBytes(t))
        BY Zenon, <4>1, AdmissionSums
      <4> QED
        BY Zenon, <4>2 DEF SumsFollow
    <3>7. /\ totalReserved' = ByteSum(reservations')
          /\ ByteSum(onDisk') = D - onDisk[t] /\ ByteSum(YetToWrite') = Y + RequestBytes(t)
      BY <1>1, <1>5, <3>1, <3>4, <3>5, <3>6 DEF D, Y
    <3>8. Free' = (DiskSize - D) + onDisk[t]
      BY <1>5, <1>6, <3>4, <3>7 DEF Free
    <3>9. ASSUME NEW s \in Tasks
          PROVE  /\ reservations'[s] = IF admission'[s].pc = "writing" THEN RequestBytes(s) ELSE 0
                 /\ reservations'[s] > 0 => onDisk'[s] <= reservations'[s]
                 /\ admission'[s].pc = "read" /\ ~admission'[s].stale =>
                       admission'[s].seen - totalReserved' <= Free' - ByteSum(YetToWrite')
      <4>1. CASE s = t
        <5>1. reservations'[s] = RequestBytes(t) /\ onDisk'[s] = 0 /\ admission'[s].pc = "writing"
          BY <1>1, <3>1, <3>2, <3>3, <4>1
        <5> QED
          BY <3>4, <4>1, <5>1
      <4>2. CASE s # t
        <5>1. reservations'[s] = reservations[s] /\ onDisk'[s] = onDisk[s] /\ admission'[s] = admission[s]
          BY <1>1, <3>1, <3>3, <4>2
        <5>2. admission[s].seen - totalReserved <= (DiskSize - D) - Y =>
                 admission[s].seen - (totalReserved + RequestBytes(t))
                    <= ((DiskSize - D) + onDisk[t]) - (Y + RequestBytes(t))
          BY <1>5, <1>6, <1>7, <3>4
        <5> QED
          BY Zenon, <1>2, <3>1, <3>7, <3>8, <5>1, <5>2
      <4> QED
        BY Zenon, <4>1, <4>2
    <3>10. AdmittedFits'
      <4>1. SUFFICES ASSUME ~overtaken' PROVE ByteSum(YetToWrite') <= Free' - MinFreeSpace
        BY DEF AdmittedFits
      <4>2. admission[t].seen - totalReserved <= (DiskSize - D) - Y
        BY Zenon, <1>2, <3>1, <4>1
      <4>3. Y + RequestBytes(t) <= ((DiskSize - D) + onDisk[t]) - MinFreeSpace
        BY <1>5, <1>6, <1>7, <2>1, <3>4, <4>2
      <4> QED
        BY <3>7, <3>8, <4>3
    <3>11. overtaken' \in BOOLEAN
      BY <3>1
    <3> QED
      BY <3>3, <3>6, <3>7, <3>9, <3>10, <3>11 DEF AdmissionInv
  <2>2. CASE ~(admission[t].seen - MinFreeSpace - totalReserved >= RequestBytes(t))
    BY <1>9, <1>10, <1>15, <2>2 DEF Reserve
  <2> QED
    BY <2>1, <2>2
<1>11. ASSUME NEW t \in Tasks, NEW n \in Nat, onDisk' = [onDisk EXCEPT ![t] = n],
              admission[t].pc # "writing", n <= onDisk[t],
              admission' = [admission EXCEPT ![t] = Waiting],
              UNCHANGED <<reservations, totalReserved, overtaken>>
       PROVE  AdmissionInv'
  <2>1. reservations[t] = 0 /\ onDisk[t] \in Nat
    BY <1>1, <1>2, <1>11
  <2>2. Moves(t, 0, n, 0)
    BY <1>1, <1>11, <2>1 DEF Moves
  <2>3. /\ onDisk' \in [Tasks -> Nat]
        /\ ByteSum(onDisk') = ByteSum(onDisk) - onDisk[t] + n
        /\ ByteSum(YetToWrite') = ByteSum(YetToWrite) - YetToWrite[t] + 0
    <3>1. SumsFollow(t, 0, n, 0)
      BY Zenon, <2>2, AdmissionSums
    <3> QED
      BY Zenon, <3>1 DEF SumsFollow
  <2>4. YetToWrite[t] = 0
    BY <1>8, <2>1
  <2>5. ByteSum(onDisk') = D - onDisk[t] + n /\ ByteSum(YetToWrite') = Y
    BY <1>5, <2>3, <2>4 DEF D, Y
  <2>6. Free' \in Int /\ Free' >= DiskSize - D
    BY <1>5, <1>6, <1>11, <2>1, <2>5 DEF Free
  <2>7. admission' \in [Tasks -> Asks] /\ \A s \in Tasks : admission'[s] = IF s = t THEN Waiting ELSE admission[s]
    BY <1>1, <1>11, <1>15
  <2>8. ASSUME NEW s \in Tasks
        PROVE  /\ reservations[s] = IF admission'[s].pc = "writing" THEN RequestBytes(s) ELSE 0
               /\ reservations[s] > 0 => onDisk'[s] <= reservations[s]
               /\ admission'[s].pc = "read" /\ ~admission'[s].stale =>
                     admission'[s].seen - totalReserved <= Free' - Y
    <3>1. CASE s = t
      BY <1>15, <2>1, <2>7, <3>1
    <3>2. CASE s # t
      <4>1. onDisk'[s] = onDisk[s] /\ admission'[s] = admission[s]
        BY <1>1, <1>11, <2>7, <3>2
      <4>2. admission[s].seen - totalReserved <= (DiskSize - D) - Y =>
                 admission[s].seen - totalReserved <= Free' - Y
        BY <1>5, <1>6, <1>7, <2>6
      <4> QED
        BY <1>2, <4>1, <4>2
    <3> QED
      BY <3>1, <3>2
  <2>9. AdmittedFits'
    <3>1. ASSUME \A s \in Tasks : reservations[s] = 0 /\ onDisk[s] = 0
          PROVE  \A s \in Tasks : reservations'[s] = 0 /\ onDisk'[s] = 0
      <4>1. n = 0
        BY <1>11, <3>1
      <4> QED
        BY <1>1, <1>11, <3>1, <4>1
    <3>2. Y <= (DiskSize - D) - MinFreeSpace => ByteSum(YetToWrite') <= Free' - MinFreeSpace
      <4>1. DiskSize - D <= Free' /\ ByteSum(YetToWrite') = Y
        BY <1>5, <1>6, <2>5, <2>6
      <4>2. \A y, d, f \in Int : d <= f /\ y <= d - MinFreeSpace => y <= f - MinFreeSpace
        BY AdmissionAssumption
      <4>3. Y \in Int /\ DiskSize - D \in Int /\ Free' \in Int
        BY <1>5, <1>6, <2>6
      <4> QED
        BY Zenon, <4>1, <4>2, <4>3
    <3> QED
      BY <1>3, <1>11, <3>1, <3>2 DEF AdmittedFits
  <2> QED
    BY <1>1, <1>11, <2>3, <2>5, <2>7, <2>8, <2>9 DEF AdmissionInv
<1>12. ASSUME NEW t \in Tasks, Archived(t) PROVE AdmissionInv'
  <2>1. /\ admission[t].pc = "stored" /\ onDisk' = [onDisk EXCEPT ![t] = 0]
        /\ admission' = [admission EXCEPT ![t] = Waiting]
        /\ UNCHANGED <<reservations, totalReserved, overtaken>>
    BY <1>12 DEF Archived
  <2>2. 0 \in Nat /\ 0 <= onDisk[t]
    BY <1>1
  <2> QED
    BY Zenon, <1>11, <2>1, <2>2
<1>13. ASSUME NEW t \in Tasks, WriteByte(t) PROVE AdmissionInv'
  <2>1. /\ admission[t].pc = "writing" /\ onDisk[t] < RequestBytes(t)
        /\ onDisk' = [onDisk EXCEPT ![t] = onDisk[t] + 1]
        /\ UNCHANGED <<admission, reservations, totalReserved, overtaken>>
    BY <1>13 DEF WriteByte
  <2>2. onDisk[t] \in Nat /\ RequestBytes(t) \in Nat /\ reservations[t] = RequestBytes(t)
    BY <1>1, <1>2, <2>1, RequestIsNat
  <2> DEFINE y == reservations[t] - (onDisk[t] + 1)
  <2>3. /\ onDisk[t] + 1 \in Nat /\ reservations[t] \in Nat /\ onDisk[t] + 1 <= reservations[t]
        /\ reservations[t] > 0 /\ y \in Nat
    BY <2>1, <2>2
  <2>4. Moves(t, reservations[t], onDisk[t] + 1, y)
    BY <1>1, <2>1, <2>3 DEF Moves
  <2>5. /\ onDisk' \in [Tasks -> Nat]
        /\ ByteSum(onDisk') = ByteSum(onDisk) - onDisk[t] + (onDisk[t] + 1)
        /\ ByteSum(YetToWrite') = ByteSum(YetToWrite) - YetToWrite[t] + y
    <3>1. SumsFollow(t, reservations[t], onDisk[t] + 1, y)
      BY Zenon, <2>4, AdmissionSums
    <3> QED
      BY Zenon, <3>1 DEF SumsFollow
  <2>6. YetToWrite[t] = reservations[t] - onDisk[t]
    BY <1>8, <2>3
  <2>7. ByteSum(onDisk') = D + 1 /\ ByteSum(YetToWrite') = Y - 1
    BY <1>5, <2>2, <2>3, <2>5, <2>6 DEF D, Y
  <2>8. Free' - ByteSum(YetToWrite') = (DiskSize - D) - Y /\ Free' = (DiskSize - D) - 1
    BY <1>5, <1>6, <2>7 DEF Free
  <2>9. ASSUME NEW s \in Tasks PROVE reservations[s] > 0 => onDisk'[s] <= reservations[s]
    <3>1. onDisk'[s] = IF s = t THEN onDisk[t] + 1 ELSE onDisk[s]
      BY <1>1, <2>1
    <3> QED
      BY <1>2, <2>3, <3>1
  <2>10. AdmittedFits'
    <3>1. Y <= (DiskSize - D) - MinFreeSpace => ByteSum(YetToWrite') <= Free' - MinFreeSpace
      BY SMTT(30), <1>5, <1>6, <2>7, <2>8
    <3> QED
      BY <1>3, <2>1, <2>3, <3>1 DEF AdmittedFits
  <2> QED
    BY <1>1, <1>2, <2>1, <2>5, <2>8, <2>9, <2>10 DEF AdmissionInv
<1>14. ASSUME NEW t \in Tasks, NEW n \in Nat, n <= onDisk[t], onDisk' = [onDisk EXCEPT ![t] = n],
              NEW pc \in {"idle", "stored"}, Release(t, pc)
       PROVE  AdmissionInv'
  <2> DEFINE Ask(s) == IF s = t THEN [Waiting EXCEPT !.pc = pc]
                       ELSE [admission[s] EXCEPT !.stale = admission[s].stale \/ admission[s].pc = "read"]
  <2>1. /\ admission[t].pc = "writing" /\ reservations' = [reservations EXCEPT ![t] = 0]
        /\ totalReserved' = totalReserved - reservations[t]
        /\ admission' = [s \in Tasks |-> Ask(s)] /\ UNCHANGED overtaken
    BY <1>14 DEF Release
  <2>2. ASSUME NEW s \in Tasks
        PROVE  /\ Ask(s) \in Asks /\ (Ask(s).pc = "writing" <=> s # t /\ admission[s].pc = "writing")
               /\ Ask(s).pc = "read" => Ask(s).stale
    <3>1. CASE s = t
      <4>1. Ask(s) = [Waiting EXCEPT !.pc = pc]
        BY <3>1
      <4>2. Ask(s) \in Asks /\ Ask(s).pc = pc
        BY Zenon, <1>15, <4>1 DEF Asks
      <4> QED
        BY <3>1, <4>2
    <3>2. CASE s # t
      <4>1. Ask(s) = [admission[s] EXCEPT !.stale = admission[s].stale \/ admission[s].pc = "read"]
        BY <3>2
      <4>2. (admission[s].stale \/ admission[s].pc = "read") \in BOOLEAN
        OBVIOUS
      <4>3. Ask(s) \in Asks /\ Ask(s).pc = admission[s].pc
            /\ Ask(s).stale = (admission[s].stale \/ admission[s].pc = "read")
        BY Zenon, <1>7, <4>1, <4>2 DEF Asks
      <4> QED
        BY Zenon, <3>2, <4>3
    <3> QED
      BY <3>1, <3>2
  <2> HIDE DEF Ask
  <2>3. onDisk[t] \in Nat /\ reservations[t] \in Nat /\ (reservations[t] > 0 => onDisk[t] <= reservations[t])
    BY <1>1, <1>2
  <2>4. Moves(t, 0, n, 0)
    BY <1>14, <2>1 DEF Moves
  <2>5. /\ reservations' \in [Tasks -> Nat] /\ onDisk' \in [Tasks -> Nat]
        /\ ByteSum(reservations') = ByteSum(reservations) - reservations[t] + 0
        /\ ByteSum(onDisk') = ByteSum(onDisk) - onDisk[t] + n
        /\ ByteSum(YetToWrite') = ByteSum(YetToWrite) - YetToWrite[t] + 0
    <3>1. SumsFollow(t, 0, n, 0)
      BY Zenon, <2>4, AdmissionSums
    <3> QED
      BY Zenon, <3>1 DEF SumsFollow
  <2>6. YetToWrite[t] \in Nat
    BY <1>4
  <2>7. /\ ByteSum(onDisk') = D - onDisk[t] + n /\ ByteSum(YetToWrite') = Y - YetToWrite[t]
        /\ totalReserved' = ByteSum(reservations')
    BY SMTT(30), <1>1, <1>5, <2>1, <2>3, <2>5, <2>6 DEF D, Y
  <2>8. AdmittedFits'
    <3>1. Free' \in Int /\ Free' >= DiskSize - D
      BY SMTT(30), <1>5, <1>6, <1>14, <2>3, <2>7 DEF Free
    <3>2. Y <= (DiskSize - D) - MinFreeSpace => ByteSum(YetToWrite') <= Free' - MinFreeSpace
      BY <1>5, <1>6, <2>6, <2>7, <3>1
    <3>3. ASSUME \A s \in Tasks : reservations[s] = 0 /\ onDisk[s] = 0
          PROVE  \A s \in Tasks : reservations'[s] = 0 /\ onDisk'[s] = 0
      BY SMTT(30), <1>1, <1>14, <2>1, <3>3
    <3> QED
      BY <1>3, <2>1, <3>2, <3>3 DEF AdmittedFits
  <2>9. ASSUME NEW s \in Tasks
        PROVE  /\ reservations'[s] = IF admission'[s].pc = "writing" THEN RequestBytes(s) ELSE 0
               /\ reservations'[s] > 0 => onDisk'[s] <= reservations'[s]
               /\ admission'[s].pc = "read" => admission'[s].stale
    <3>1. admission'[s] = Ask(s)
      BY <2>1
    <3>2. CASE s = t
      <4>1. reservations'[s] = 0
        BY Zenon, <1>1, <2>1, <3>2
      <4> QED
        BY <2>2, <3>1, <3>2, <4>1
    <3>3. CASE s # t
      <4>1. reservations'[s] = reservations[s] /\ onDisk'[s] = onDisk[s]
        BY <1>1, <1>14, <2>1, <3>3
      <4> QED
        BY <1>2, <2>2, <3>1, <3>3, <4>1
    <3> QED
      BY <3>2, <3>3
  <2>10. admission' \in [Tasks -> Asks]
    BY <2>1, <2>2
  <2> QED
    BY <1>1, <2>1, <2>5, <2>7, <2>8, <2>9, <2>10 DEF AdmissionInv
<1>17. ASSUME NEW t \in Tasks, Complete(t) \/ FailOrCancel(t) PROVE AdmissionInv'
  <2>1. PICK pc \in {"idle", "stored"} : Release(t, pc)
    BY <1>17 DEF Complete, FailOrCancel
  <2>2. onDisk[t] \in Nat /\ onDisk[t] <= onDisk[t] /\ 0 \in Nat /\ 0 <= onDisk[t]
    BY <1>1
  <2>3. onDisk' = [onDisk EXCEPT ![t] = onDisk[t]] \/ onDisk' = [onDisk EXCEPT ![t] = 0]
    BY SMTT(30), <1>1, <1>17 DEF Complete, FailOrCancel
  <2> QED
    BY <1>14, <2>1, <2>2, <2>3
<1>18. CASE UNCHANGED admissionVars
  BY Zenon, <1>18 DEF admissionVars, AdmissionInv, Free, YetToWrite, AdmittedFits, ByteSum, BytesOf
<1> QED
  BY <1>10, <1>12, <1>13, <1>16, <1>17, <1>18 DEF AdmissionNext

\* For any number of tasks, any sizes and any disk: what the admitted tasks have yet
\* to write fits above the minimum free space, although Statfs is read before the
\* lock is taken, until a release comes between the two.
THEOREM WhatIsAdmittedFits == AdmissionSpec => []AdmittedFits
<1>1. AdmissionInit => AdmissionInv
  <2> SUFFICES ASSUME AdmissionInit PROVE AdmissionInv
    OBVIOUS
  <2>1. BytesOf(reservations) = {}
    BY DEF AdmissionInit, BytesOf
  <2>2. totalReserved = ByteSum(reservations)
    BY <2>1, FS_EmptySet DEF AdmissionInit, ByteSum
  <2>3. admission \in [Tasks -> Asks] /\ \A t \in Tasks : admission[t].pc = "idle"
    BY DEF AdmissionInit, Waiting, Asks
  <2> QED
    <3>1. /\ reservations \in [Tasks -> Nat] /\ onDisk \in [Tasks -> Nat] /\ overtaken = FALSE
          /\ \A t \in Tasks : reservations[t] = 0 /\ onDisk[t] = 0
      BY DEF AdmissionInit
    <3>2. AdmittedFits
      BY <3>1 DEF AdmittedFits
    <3>3. ASSUME NEW t \in Tasks
          PROVE  /\ reservations[t] = IF admission[t].pc = "writing" THEN RequestBytes(t) ELSE 0
                 /\ reservations[t] > 0 => onDisk[t] <= reservations[t]
                 /\ admission[t].pc # "read"
      BY <2>3, <3>1
    <3> QED
      BY Zenon, <2>2, <2>3, <3>1, <3>2, <3>3 DEF AdmissionInv
<1>2. AdmissionInv => AdmittedFits
  BY DEF AdmissionInv
<1> QED
  BY <1>1, <1>2, AdmissionStep, PTL DEF AdmissionSpec

-----------------------------------------------------------------------------
(***************************************************************************)
(* MessageCache: the cap of the cache, and whom a cancellation reaches.    *)
(***************************************************************************)

Calls == [pc : {"idle", "peer", "sync", "wait", "ctx"}, msg : Asked \cup {NoMessage},
          cancelled : BOOLEAN]
Batches == [pc : {"idle", "peer", "sync", "fetch"}, missing : SUBSET Messages, now : Nat]
Peers == [known : BOOLEAN, sync : BOOLEAN, recent : BOOLEAN, begun : Nat]

\* The types, the call a pc stands for, the bound of a batch, and the two
\* invariants themselves.
CacheInv ==
    /\ cacheTime \in Nat /\ msgCache \in [Messages -> Int]
    /\ resolver \in [Resolvers -> Calls] /\ flight \in [Asked -> Nat]
    /\ batch \in Batches /\ peers \in Peers
    /\ \A r \in Resolvers : resolver[r].pc \in {"peer", "sync", "wait"} => resolver[r].msg \in Asked
    /\ Cardinality(batch.missing) <= MaxBatch
    /\ CacheBounded
    /\ CancellationIsOwn

\* The cached entries after a cleaning and the insertion of new entries are the
\* new ones and what the trim left.
LEMMA StoreBound ==
    ASSUME CacheInv, NEW new \in SUBSET Messages, Cardinality(new) <= MaxBatch, NEW now,
           Store(new, now)
    PROVE  msgCache' \in [Messages -> Int] /\ CacheBounded'
<1> DEFINE rest == Cached \ Expired(now)
<1>1. IsFiniteSet(rest) /\ IsFiniteSet(new) /\ rest \subseteq Messages
  BY Zenon, FS_Subset, CacheAssumption DEF Cached
<1>2. PICK drop \in Trimmed(rest) :
        msgCache' = [m \in Messages |->
            IF m \in new THEN cacheTime + Lifetime
            ELSE IF m \in drop \cup Expired(now) THEN NoEntry ELSE msgCache[m]]
  BY DEF Store
<1>3. msgCache' \in [Messages -> Int]
  BY <1>2, CacheAssumption DEF CacheInv, NoEntry
<1>4. Cached' \subseteq (rest \ drop) \cup new
  BY <1>2 DEF Cached, NoEntry
<1>5. drop \in SUBSET rest
  BY <1>2 DEF Trimmed
<1>6. Cardinality(rest) \in Nat /\ Cardinality(drop) \in Nat /\ Cardinality(new) \in Nat
  BY <1>1, <1>5, FS_Subset, FS_CardinalityType
<1>7. Cardinality(rest \ drop) = Cardinality(rest) - Cardinality(drop) /\ IsFiniteSet(rest \ drop)
  <2>1. rest \cap drop = drop
    BY <1>5
  <2> QED
    BY ZenonT(30), <1>1, <2>1, FS_Difference
<1>8. Cardinality(rest \ drop) < MaxEntries
  <2>1. CASE Cardinality(rest) < MaxEntries
    <3>1. drop = {}
      BY <1>2, <2>1 DEF Trimmed
    <3> QED
      BY <2>1, <3>1
  <2>2. CASE ~(Cardinality(rest) < MaxEntries)
    <3>1. Cardinality(drop) = Cardinality(rest) - (MaxEntries - Slack)
      BY <1>2, <2>2 DEF Trimmed
    <3>2. MaxEntries \in Nat /\ Slack \in Nat /\ Slack > 0
      BY CacheAssumption
    <3> QED
      BY <1>6, <1>7, <3>1, <3>2
  <2> QED
    BY <2>1, <2>2
<1>9. /\ IsFiniteSet((rest \ drop) \cup new)
      /\ Cardinality((rest \ drop) \cup new)
            = Cardinality(rest \ drop) + Cardinality(new) - Cardinality((rest \ drop) \cap new)
  BY <1>1, <1>7, FS_Union
<1>10. Cardinality((rest \ drop) \cap new) \in Nat /\ Cardinality(rest \ drop) \in Nat
  BY Zenon, <1>1, <1>7, FS_Intersection, FS_CardinalityType
<1>11. IsFiniteSet(Cached') /\ Cardinality(Cached') <= Cardinality((rest \ drop) \cup new)
  BY <1>4, <1>9, FS_Subset
<1>12. MaxEntries \in Nat /\ MaxBatch \in Nat
  BY CacheAssumption
<1>13. Cardinality(Cached') \in Nat
  BY <1>11, FS_CardinalityType
<1>14. Cardinality(Cached') < MaxEntries + MaxBatch
  BY <1>6, <1>8, <1>9, <1>10, <1>11, <1>12, <1>13
<1> QED
  BY <1>3, <1>14 DEF CacheBounded

\* Neither the cache nor the bound of a batch changes.
LEMMA CacheKept ==
    ASSUME CacheInv, UNCHANGED <<cacheTime, msgCache>>,
           resolver' \in [Resolvers -> Calls], flight' \in [Asked -> Nat],
           batch' \in Batches, peers' \in Peers,
           Cardinality(batch'.missing) <= MaxBatch,
           \A r \in Resolvers : resolver'[r].pc \in {"peer", "sync", "wait"} => resolver'[r].msg \in Asked,
           CancellationIsOwn'
    PROVE  CacheInv'
<1>1. CacheBounded'
  BY DEF CacheInv, CacheBounded, Cached
<1> QED
  BY <1>1 DEF CacheInv

\* A flight that ends takes every caller that waits for it along.
LEMMA DeliverKeeps ==
    ASSUME CacheInv, NEW m \in Asked, Deliver(m)
    PROVE  /\ resolver' \in [Resolvers -> Calls] /\ flight' \in [Asked -> Nat]
           /\ \A r \in Resolvers :
                /\ resolver'[r].pc \in {"peer", "sync", "wait"} => resolver'[r].msg \in Asked
                /\ resolver'[r].pc = "ctx" => resolver'[r].cancelled
                /\ resolver'[r].pc = "wait" => flight'[resolver'[r].msg] > 0
                /\ resolver'[r].pc = "sync" => resolver[r].pc = "sync"
<1>1. NoCall \in Calls /\ NoCall.pc = "idle"
  BY DEF NoCall, Calls
<1>2. flight' = [flight EXCEPT ![m] = 0] /\ flight \in [Asked -> Nat]
  BY DEF Deliver, CacheInv
<1>3. resolver \in [Resolvers -> Calls]
  BY DEF CacheInv
<1>4. resolver' \in [Resolvers -> Calls]
  BY <1>1, <1>3 DEF Deliver
<1>5. ASSUME NEW r \in Resolvers
      PROVE  \/ resolver'[r] = NoCall
             \/ resolver'[r] = resolver[r] /\ ~(resolver[r].pc = "wait" /\ resolver[r].msg = m)
  BY <1>5 DEF Deliver
<1>6. ASSUME NEW r \in Resolvers
      PROVE  /\ resolver[r].pc \in {"peer", "sync", "wait"} => resolver[r].msg \in Asked
             /\ resolver[r].pc = "ctx" => resolver[r].cancelled
             /\ resolver[r].pc = "wait" => flight[resolver[r].msg] > 0
  BY <1>6 DEF CacheInv, CancellationIsOwn
<1>7. \A k \in Asked \ {m} : flight'[k] = flight[k]
  BY Zenon, <1>2
<1>8. ASSUME NEW r \in Resolvers
      PROVE  /\ resolver'[r].pc \in {"peer", "sync", "wait"} => resolver'[r].msg \in Asked
             /\ resolver'[r].pc = "ctx" => resolver'[r].cancelled
             /\ resolver'[r].pc = "wait" => flight'[resolver'[r].msg] > 0
             /\ resolver'[r].pc = "sync" => resolver[r].pc = "sync"
  <2>1. CASE resolver'[r] = NoCall
    BY <1>1, <2>1
  <2>2. CASE resolver'[r] = resolver[r] /\ ~(resolver[r].pc = "wait" /\ resolver[r].msg = m)
    BY Zenon, <1>6, <1>7, <2>2
  <2> QED
    BY <1>5, <2>1, <2>2
<1> QED
  BY <1>2, <1>4, <1>8

\* A batch is bounded as it is called, and what it fetches is of what it asked.
LEMMA PeerThenFetchKeeps ==
    ASSUME CacheInv, NEW asked \in SUBSET Messages, Cardinality(asked) <= MaxBatch,
           PeerThenFetch(asked), UNCHANGED <<cacheTime, msgCache, resolver, flight>>
    PROVE  CacheInv'
<1> DEFINE unserved == {m \in asked : ~Served(m)}
<1>1. IsFiniteSet(asked) /\ IsFiniteSet({}) /\ Cardinality({}) = 0
  BY Zenon, FS_Subset, CacheAssumption, FS_EmptySet
<1>2. unserved \subseteq asked
  OBVIOUS
<1>3. Cardinality(unserved) <= Cardinality(asked) /\ IsFiniteSet(unserved)
  BY <1>1, <1>2, FS_Subset
<1>4. Cardinality(unserved) <= MaxBatch /\ 0 <= MaxBatch
  BY SMTT(30), <1>1, <1>3, FS_CardinalityType, CacheAssumption
<1>5. NoBatch \in Batches /\ NoBatch.pc = "idle" /\ Cardinality(NoBatch.missing) <= MaxBatch
  BY <1>1, <1>4 DEF NoBatch, Batches
<1>6. peers \in Peers /\ (peers.begun \in Nat) /\ cacheTime \in Nat
  BY Zenon DEF CacheInv, Peers
<1>7. \A r \in Resolvers : /\ resolver[r].pc = "sync" => peers.sync
                           /\ resolver[r].pc = "ctx" => resolver[r].cancelled
                           /\ resolver[r].pc = "wait" => flight[resolver[r].msg] > 0
  BY SMTT(30) DEF CacheInv, CancellationIsOwn
<1>8. CASE JoinSync /\ batch' = [pc |-> "sync", missing |-> asked, now |-> 0]
  <2>1. batch' \in Batches /\ Cardinality(batch'.missing) <= MaxBatch
    BY <1>8 DEF Batches
  <2>2. (IF peers.sync THEN peers.begun ELSE peers.begun + 1) \in Nat
    BY <1>6
  <2>3. peers' \in Peers /\ peers'.sync = TRUE
    BY Zenon, <1>6, <1>8, <2>2 DEF JoinSync, Peers
  <2>4. CancellationIsOwn'
    BY Zenon, <1>7, <2>3 DEF CancellationIsOwn
  <2> QED
    BY Zenon, <2>1, <2>3, <2>4, CacheKept DEF CacheInv
<1>9. CASE UNCHANGED peers /\ batch' = NoBatch
  <2>1. CancellationIsOwn'
    BY Zenon, <1>5, <1>7, <1>9 DEF CancellationIsOwn
  <2> QED
    BY Zenon, <1>5, <1>6, <1>9, <2>1, CacheKept DEF CacheInv
<1>10. CASE UNCHANGED peers /\ batch' = [pc |-> "fetch", missing |-> unserved, now |-> cacheTime]
  <2>1. batch' \in Batches /\ batch'.pc # "sync" /\ Cardinality(batch'.missing) <= MaxBatch
    BY Zenon, <1>4, <1>6, <1>10 DEF Batches
  <2>2. CancellationIsOwn'
    BY <1>7, <1>10, <2>1 DEF CancellationIsOwn
  <2> QED
    BY <1>6, <1>10, <2>1, <2>2, CacheKept DEF CacheInv
<1> QED
  BY <1>8, <1>9, <1>10 DEF PeerThenFetch

\* Every call of the resolver, every batch and the clock preserve the invariant.
LEMMA CacheStep == CacheInv /\ [CacheNext]_cacheVars => CacheInv'
<1> SUFFICES ASSUME CacheInv, [CacheNext]_cacheVars PROVE CacheInv'
  OBVIOUS
<1>1. /\ cacheTime \in Nat /\ resolver \in [Resolvers -> Calls] /\ flight \in [Asked -> Nat]
      /\ batch \in Batches /\ peers \in Peers /\ Cardinality(batch.missing) <= MaxBatch
  BY DEF CacheInv
<1>2. \A r \in Resolvers : /\ resolver[r].pc \in {"peer", "sync", "wait"} => resolver[r].msg \in Asked
                           /\ resolver[r].pc = "ctx" => resolver[r].cancelled
                           /\ resolver[r].pc = "wait" => flight[resolver[r].msg] > 0
                           /\ resolver[r].pc = "sync" => peers.sync
                           /\ batch.pc = "sync" => peers.sync
  BY DEF CacheInv, CancellationIsOwn
<1>3. NoCall \in Calls /\ NoCall.pc = "idle"
  BY Zenon DEF NoCall, Calls
<1>4. /\ NoBatch \in Batches /\ NoBatch.pc = "idle" /\ NoBatch.missing = {}
      /\ Cardinality(NoBatch.missing) <= MaxBatch
  BY FS_EmptySet, CacheAssumption DEF NoBatch, Batches
<1>5. batch.missing \in SUBSET Messages /\ batch.pc \in {"idle", "peer", "sync", "fetch"}
  BY <1>1 DEF Batches
<1>6. \A r \in Resolvers : resolver[r] \in Calls /\ resolver[r].pc \in {"idle", "peer", "sync", "wait", "ctx"}
  BY <1>1 DEF Calls
<1>7. ASSUME SyncDone PROVE CacheInv'
  <2>1. peers' \in Peers
    <3>1. PICK found \in BOOLEAN :
             peers' = [peers EXCEPT !.sync = FALSE, !.recent = TRUE, !.known = @ \/ found]
      BY Zenon, <1>7 DEF SyncDone
    <3>2. (peers.known \/ found) \in BOOLEAN
      BY Zenon, <1>1, <3>1 DEF Peers
    <3> QED
      BY Zenon, <1>1, <3>1, <3>2 DEF Peers
  <2>2. \A r \in Resolvers : [resolver[r] EXCEPT !.pc = "peer"] \in Calls
    BY Zenon, <1>6 DEF Calls
  <2>3. resolver' \in [Resolvers -> Calls]
    BY Zenon, <1>6, <1>7, <2>2 DEF SyncDone
  <2>4. ASSUME NEW r \in Resolvers
        PROVE  /\ resolver'[r].pc \in {"peer", "sync", "wait"} => resolver'[r].msg \in Asked
               /\ resolver'[r].pc = "ctx" => resolver'[r].cancelled
               /\ resolver'[r].pc = "wait" => flight[resolver'[r].msg] > 0
               /\ resolver'[r].pc # "sync"
    <3>1. CASE r \in Syncing
      <4>1. resolver'[r] = [resolver[r] EXCEPT !.pc = "peer"]
        BY <1>7, <3>1 DEF SyncDone
      <4>2. resolver'[r].pc = "peer" /\ resolver'[r].msg = resolver[r].msg
        BY Zenon, <1>6, <4>1 DEF Calls
      <4> QED
        BY <1>2, <3>1, <4>2 DEF Syncing
    <3>2. CASE r \notin Syncing
      BY <1>2, <1>7, <3>2 DEF SyncDone, Syncing
    <3> QED
      BY <3>1, <3>2
  <2>5. batch' \in Batches /\ batch'.pc # "sync" /\ Cardinality(batch'.missing) <= MaxBatch
    <3>1. CASE batch.pc = "sync"
      <4>1. batch' = [batch EXCEPT !.pc = "peer"]
        BY <1>7, <3>1 DEF SyncDone
      <4>2. batch' \in Batches /\ batch'.pc = "peer" /\ batch'.missing = batch.missing
        BY Zenon, <1>1, <4>1 DEF Batches
      <4> QED
        BY <1>1, <4>2
    <3>2. CASE batch.pc # "sync"
      BY <1>1, <1>7, <3>2 DEF SyncDone
    <3> QED
      BY <3>1, <3>2
  <2>6. UNCHANGED <<cacheTime, msgCache, flight>>
    BY <1>7 DEF SyncDone
  <2>7. CancellationIsOwn'
    BY <2>4, <2>5, <2>6 DEF CancellationIsOwn
  <2> QED
    BY <1>1, <2>1, <2>3, <2>4, <2>5, <2>6, <2>7, CacheKept
<1>8. ASSUME SyncFails PROVE CacheInv'
  <2>1. peers' \in Peers
    <3>1. PICK found \in BOOLEAN : peers' = [peers EXCEPT !.sync = FALSE, !.known = @ \/ found]
      BY Zenon, <1>8 DEF SyncFails
    <3>2. (peers.known \/ found) \in BOOLEAN
      BY Zenon, <1>1, <3>1 DEF Peers
    <3> QED
      BY Zenon, <1>1, <3>1, <3>2 DEF Peers
  <2>2. resolver' \in [Resolvers -> Calls]
    BY <1>3, <1>6, <1>8 DEF SyncFails
  <2>3. \A r \in Resolvers : resolver'[r] = NoCall \/ (resolver'[r] = resolver[r] /\ resolver[r].pc # "sync")
    BY <1>8 DEF SyncFails, Syncing
  <2>4. batch' \in Batches /\ batch'.pc # "sync" /\ Cardinality(batch'.missing) <= MaxBatch
    BY Zenon, <1>1, <1>4, <1>8 DEF SyncFails
  <2>5. UNCHANGED <<cacheTime, msgCache, flight>>
    BY <1>8 DEF SyncFails
  <2>6. CancellationIsOwn'
    BY Zenon, <1>2, <1>3, <2>3, <2>4, <2>5 DEF CancellationIsOwn
  <2> QED
    BY <1>1, <1>2, <1>3, <2>1, <2>2, <2>3, <2>4, <2>5, <2>6, CacheKept
<1>9. ASSUME NEW m \in Asked, FetchDone(m) PROVE CacheInv'
  <2>1. {m} \in SUBSET Messages /\ Cardinality({m}) <= MaxBatch
    <3>1. Cardinality({m}) = 1
      BY Zenon, FS_Singleton
    <3>2. m \in Messages
      BY Zenon, CacheAssumption
    <3>3. 1 <= MaxBatch
      BY CacheAssumption
    <3> QED
      BY Zenon, <3>1, <3>2, <3>3
  <2>2. msgCache' \in [Messages -> Int] /\ CacheBounded'
    BY <1>9, <2>1, StoreBound DEF FetchDone
  <2>3. Deliver(m) /\ UNCHANGED <<cacheTime, batch, peers>>
    BY Zenon, <1>9 DEF FetchDone
  <2>4. /\ resolver' \in [Resolvers -> Calls] /\ flight' \in [Asked -> Nat]
        /\ \A r \in Resolvers :
                /\ resolver'[r].pc \in {"peer", "sync", "wait"} => resolver'[r].msg \in Asked
                /\ resolver'[r].pc = "ctx" => resolver'[r].cancelled
                /\ resolver'[r].pc = "wait" => flight'[resolver'[r].msg] > 0
                /\ resolver'[r].pc = "sync" => resolver[r].pc = "sync"
    BY Zenon, <2>3, DeliverKeeps
  <2>5. CancellationIsOwn'
    BY Zenon, <1>2, <2>3, <2>4 DEF CancellationIsOwn
  <2> QED
    BY <1>1, <2>2, <2>3, <2>4, <2>5 DEF CacheInv
<1>10. ASSUME NEW m \in Asked, FetchFails(m) PROVE CacheInv'
  <2>1. UNCHANGED <<cacheTime, msgCache, batch, peers>>
    BY <1>10 DEF FetchFails
  <2>2. CASE flight' = [flight EXCEPT ![m] = @ + 1] /\ UNCHANGED resolver
    <3>1. flight' \in [Asked -> Nat] /\ \A k \in Asked : flight'[k] >= flight[k]
      BY <1>1, <2>2
    <3>2. CancellationIsOwn'
      BY <1>1, <1>2, <2>1, <2>2, <3>1 DEF CancellationIsOwn
    <3> QED
      BY <1>1, <1>2, <2>1, <2>2, <3>1, <3>2, CacheKept
  <2>3. CASE Deliver(m)
    <3>1. /\ resolver' \in [Resolvers -> Calls] /\ flight' \in [Asked -> Nat]
          /\ \A r \in Resolvers :
                /\ resolver'[r].pc \in {"peer", "sync", "wait"} => resolver'[r].msg \in Asked
                /\ resolver'[r].pc = "ctx" => resolver'[r].cancelled
                /\ resolver'[r].pc = "wait" => flight'[resolver'[r].msg] > 0
                /\ resolver'[r].pc = "sync" => resolver[r].pc = "sync"
      BY Zenon, <2>3, DeliverKeeps
    <3>2. CancellationIsOwn'
      BY Zenon, <1>2, <2>1, <3>1 DEF CancellationIsOwn
    <3> QED
      BY Zenon, <1>1, <2>1, <3>1, <3>2, CacheKept
  <2> QED
    BY <1>10, <2>2, <2>3 DEF FetchFails
<1>11. ASSUME BatchPeer PROVE CacheInv'
  BY Zenon, <1>1, <1>5, <1>11, PeerThenFetchKeeps DEF BatchPeer
<1>12. ASSUME NEW S \in SUBSET Messages, Cardinality(S) \in 1 .. MaxBatch, CallBatch(S) PROVE CacheInv'
  <2>1. Cardinality(S) <= MaxBatch
    BY <1>12, CacheAssumption
  <2> QED
    BY <1>12, <2>1, PeerThenFetchKeeps DEF CallBatch
<1>13. ASSUME NEW S \in SUBSET Messages, BatchDone(S) PROVE CacheInv'
  <2>1. IsFiniteSet(batch.missing)
    BY Zenon, <1>5, FS_Subset, CacheAssumption
  <2>2. IsFiniteSet(S) /\ Cardinality(S) <= Cardinality(batch.missing)
    BY Zenon, <1>13, <2>1, FS_Subset DEF BatchDone
  <2>3. Cardinality(S) <= MaxBatch
    BY SMTT(30), <1>1, <2>1, <2>2, FS_CardinalityType, CacheAssumption
  <2>4. msgCache' \in [Messages -> Int] /\ CacheBounded'
    BY Zenon, <1>13, <2>3, StoreBound DEF BatchDone
  <2>5. batch' = NoBatch /\ UNCHANGED <<cacheTime, resolver, flight, peers>>
    BY SMTT(30), <1>13 DEF BatchDone
  <2>6. CancellationIsOwn'
    BY Zenon, <1>2, <1>4, <2>5 DEF CancellationIsOwn
  <2> QED
    BY Zenon, <1>1, <1>2, <1>4, <2>4, <2>5, <2>6 DEF CacheInv
<1>14. ASSUME BatchFails PROVE CacheInv'
  <2>1. batch' = NoBatch /\ UNCHANGED <<cacheTime, msgCache, resolver, flight, peers>>
    BY Zenon, <1>14 DEF BatchFails
  <2>2. CancellationIsOwn'
    BY <1>2, <1>4, <2>1 DEF CancellationIsOwn
  <2> QED
    BY Zenon, <1>1, <1>2, <1>4, <2>1, <2>2, CacheKept
<1>15. ASSUME CacheTick PROVE CacheInv'
  <2>1. cacheTime' \in Nat /\ UNCHANGED <<msgCache, resolver, flight, batch>>
    BY <1>1, <1>15, CacheAssumption DEF CacheTick
  <2>2. PICK recent \in {FALSE, peers.recent} : peers' = [peers EXCEPT !.recent = recent]
    BY Zenon, <1>15 DEF CacheTick
  <2>3. peers' \in Peers /\ peers'.sync = peers.sync
    BY Zenon, <1>1, <2>2 DEF Peers
  <2>4. CacheBounded'
    BY Zenon, <2>1 DEF CacheInv, CacheBounded, Cached
  <2>5. CancellationIsOwn'
    BY Zenon, <1>2, <2>1, <2>3 DEF CancellationIsOwn
  <2> QED
    BY <2>1, <2>3, <2>4, <2>5 DEF CacheInv
<1>16. ASSUME NEW r \in Resolvers, NEW v \in Calls, resolver' = [resolver EXCEPT ![r] = v],
              v.pc \in {"peer", "sync", "wait"} => v.msg \in Asked,
              v.pc = "ctx" => v.cancelled,
              v.pc = "wait" => flight'[v.msg] > 0,
              v.pc = "sync" => peers'.sync, peers.sync => peers'.sync,
              flight' \in [Asked -> Nat], peers' \in Peers,
              \A k \in Asked : flight[k] > 0 => flight'[k] > 0,
              UNCHANGED <<cacheTime, msgCache, batch>>
       PROVE  CacheInv'
  <2>1. \A s \in Resolvers : resolver'[s] = IF s = r THEN v ELSE resolver[s]
    BY <1>1, <1>16
  <2>2. resolver' \in [Resolvers -> Calls]
    BY Zenon, <1>1, <1>16
  <2>3. CancellationIsOwn'
    BY Zenon, <1>2, <1>16, <2>1 DEF CancellationIsOwn
  <2>4. \A s \in Resolvers : resolver'[s].pc \in {"peer", "sync", "wait"} => resolver'[s].msg \in Asked
    BY <1>2, <1>16, <2>1
  <2> QED
    BY Zenon, <1>1, <1>16, <2>2, <2>3, <2>4, CacheKept
<1>17. ASSUME NEW r \in Resolvers, NEW m \in Asked, CallResolve(r, m) PROVE CacheInv'
  <2> DEFINE v == [NoCall EXCEPT !.pc = "peer", !.msg = m]
  <2>1. v \in Calls /\ v.pc = "peer" /\ v.msg = m
    BY Zenon DEF NoCall, Calls
  <2>2. resolver' = [resolver EXCEPT ![r] = v] /\ UNCHANGED <<cacheTime, msgCache, flight, batch, peers>>
    BY <1>17 DEF CallResolve
  <2> QED
    BY Zenon, <1>1, <1>16, <2>1, <2>2
<1>18. ASSUME NEW r \in Resolvers, ResolvePeer(r) PROVE CacheInv'
  <2>1. resolver[r].msg \in Asked /\ resolver[r] \in Calls
    BY <1>2, <1>6, <1>18 DEF ResolvePeer
  <2>2. UNCHANGED <<cacheTime, msgCache, batch>>
    BY <1>18 DEF ResolvePeer
  <2>3. CASE peers.known
    <3> DEFINE v == [resolver[r] EXCEPT !.pc = "wait"]
    <3>1. v \in Calls /\ v.pc = "wait" /\ v.msg = resolver[r].msg
      BY Zenon, <2>1 DEF Calls
    <3>2. /\ resolver' = [resolver EXCEPT ![r] = v] /\ UNCHANGED peers
          /\ flight' = [flight EXCEPT ![resolver[r].msg] =
                           IF flight[resolver[r].msg] = 0 THEN 1 ELSE flight[resolver[r].msg]]
      BY <1>18, <2>3 DEF ResolvePeer
    <3>3. flight' \in [Asked -> Nat] /\ flight'[v.msg] > 0 /\ \A k \in Asked : flight[k] > 0 => flight'[k] > 0
      BY <1>1, <2>1, <3>1, <3>2
    <3> HIDE DEF v
    <3> QED
      BY Zenon, <1>1, <1>16, <2>1, <2>2, <3>1, <3>2, <3>3
  <2>4. CASE ~peers.known /\ peers.recent
    <3>1. resolver' = [resolver EXCEPT ![r] = NoCall] /\ UNCHANGED <<flight, peers>>
      BY <1>18, <2>4 DEF ResolvePeer
    <3> QED
      BY Zenon, <1>1, <1>3, <1>16, <2>2, <3>1
  <2>5. CASE ~peers.known /\ ~peers.recent
    <3> DEFINE v == [resolver[r] EXCEPT !.pc = "sync"]
    <3>1. v \in Calls /\ v.pc = "sync" /\ v.msg = resolver[r].msg
      BY Zenon, <2>1 DEF Calls
    <3>2. JoinSync /\ resolver' = [resolver EXCEPT ![r] = v] /\ UNCHANGED flight
      BY <1>18, <2>5 DEF ResolvePeer
    <3>3. (IF peers.sync THEN peers.begun ELSE peers.begun + 1) \in Nat
      BY <1>1 DEF Peers
    <3>4. peers' \in Peers /\ peers'.sync = TRUE
      BY Zenon, <1>1, <3>2, <3>3 DEF JoinSync, Peers
    <3> HIDE DEF v
    <3> QED
      BY Zenon, <1>1, <1>16, <2>1, <2>2, <3>1, <3>2, <3>4
  <2> QED
    BY <2>3, <2>4, <2>5
<1>19. ASSUME NEW r \in Resolvers, CancelResolve(r) PROVE CacheInv'
  <2>1. UNCHANGED <<cacheTime, msgCache, flight, batch, peers>>
    BY <1>19 DEF CancelResolve
  <2>2. CASE resolver[r].pc = "sync"
    <3>1. resolver' = [resolver EXCEPT ![r] = NoCall]
      BY <1>19, <2>2 DEF CancelResolve
    <3> QED
      BY Zenon, <1>1, <1>3, <1>16, <2>1, <3>1
  <2>3. CASE resolver[r].pc # "sync"
    <3> DEFINE v == [resolver[r] EXCEPT !.cancelled = TRUE, !.pc = "ctx"]
    <3>1. v \in Calls /\ v.pc = "ctx" /\ v.cancelled = TRUE
      BY Zenon, <1>6 DEF Calls
    <3>2. resolver' = [resolver EXCEPT ![r] = v]
      BY SMTT(30), <1>19, <2>3 DEF CancelResolve
    <3> HIDE DEF v
    <3> QED
      BY Zenon, <1>1, <1>16, <2>1, <3>1, <3>2
  <2> QED
    BY <2>2, <2>3
<1>20. ASSUME UNCHANGED cacheVars PROVE CacheInv'
  BY Zenon, <1>20 DEF cacheVars, CacheInv, CacheBounded, Cached, CancellationIsOwn
<1> QED
  BY Zenon, <1>7, <1>8, <1>9, <1>10, <1>11, <1>12, <1>13, <1>14, <1>15, <1>17, <1>18, <1>19, <1>20
     DEF CacheNext

\* The cache starts empty and nobody waits.
LEMMA CacheStarts == CacheInit => CacheInv
<1> SUFFICES ASSUME CacheInit PROVE CacheInv
  OBVIOUS
<1>1. Cached = {} /\ Cardinality({}) = 0
  BY FS_EmptySet DEF CacheInit, Cached
<1>2. CacheBounded
  BY SMTT(30), <1>1, CacheAssumption DEF CacheBounded
<1>3. batch \in Batches /\ peers \in Peers /\ Cardinality(batch.missing) <= MaxBatch /\ batch.pc = "idle"
  <2>1. batch = NoBatch /\ peers \in Peers
    BY Zenon DEF CacheInit, Peers
  <2>2. NoBatch \in Batches /\ NoBatch.pc = "idle" /\ NoBatch.missing = {}
    BY DEF NoBatch, Batches
  <2>3. 0 <= MaxBatch
    BY CacheAssumption
  <2> QED
    BY Zenon, <1>1, <2>1, <2>2, <2>3
<1>4. /\ resolver \in [Resolvers -> Calls]
      /\ \A r \in Resolvers : resolver[r].pc = "idle"
  BY Zenon DEF CacheInit, NoCall, Calls
<1>5. CancellationIsOwn
  BY <1>3, <1>4 DEF CancellationIsOwn
<1> QED
  BY <1>2, <1>3, <1>4, <1>5 DEF CacheInit, CacheInv, NoEntry

\* For any number of messages, callers and batches: the cache holds fewer entries
\* than its cap and one batch together, as it is trimmed before a batch is stored
\* and not after.
THEOREM CacheStaysBounded == CacheSpec => []CacheBounded
<1>1. CacheInv => CacheBounded
  BY DEF CacheInv
<1> QED
  BY <1>1, CacheStarts, CacheStep, PTL DEF CacheSpec

\* For any number of callers that share a flight: a call ends with a context error
\* only for its own context, and who waits has something to wait for.
THEOREM CancelsOnlyItself == CacheSpec => []CancellationIsOwn
<1>1. CacheInv => CancellationIsOwn
  BY DEF CacheInv
<1> QED
  BY <1>1, CacheStarts, CacheStep, PTL DEF CacheSpec

-----------------------------------------------------------------------------
(***************************************************************************)
(* AuthWizard: a reported login is one Telegram holds.                     *)
(***************************************************************************)

Wizards ==
    [ns : Namespaces, flow : {"idle", "qr", "phone"}, phone : Users \cup {Nobody},
     need2FA : BOOLEAN, loggedIn : BOOLEAN, user : Users \cup {Nobody}]

Sessions == [stage : {"out", "code", "password", "in"}, user : Users \cup {Nobody}]

WizardInv == session \in Sessions /\ wizard \in Wizards /\ LoggedInIsAuthorized

\* Every successful login ends with the session signed in.
LEMMA LoginStep ==
    ASSUME NEW v \in Wizards, NEW u \in Users \cup {Nobody}, LoggedIn(v, u)
    PROVE  WizardInv'
<1>1. session'.stage = "in" /\ session' \in Sessions
  BY DEF LoggedIn, Sessions
<1>2. wizard' \in Wizards
  <2>1. CASE wizard' = [v EXCEPT !.loggedIn = TRUE, !.flow = "idle", !.user = u]
    BY Zenon, <2>1 DEF Wizards
  <2>2. CASE wizard' = [v EXCEPT !.loggedIn = TRUE, !.flow = "idle", !.user = Nobody]
    BY Zenon, <2>2 DEF Wizards
  <2> QED
    BY <2>1, <2>2 DEF LoggedIn
<1> QED
  BY <1>1, <1>2 DEF WizardInv, LoggedInIsAuthorized

\* A method that assigns other fields, or clears loggedIn, before the login.
LEMMA OtherWizardStep ==
    ASSUME WizardInv, session' \in Sessions, wizard' \in Wizards,
           wizard'.loggedIn \in {FALSE, wizard.loggedIn},
           session.stage = "in" => session'.stage = "in" \/ ~wizard'.loggedIn
    PROVE  WizardInv'
BY Zenon DEF WizardInv, LoggedInIsAuthorized

\* The wizard reports a login only while Telegram holds the session signed in,
\* for any number of users and namespaces and any mixture of flows: no method
\* of AuthWizard keeps or sets loggedIn on another stage of the session.
THEOREM LoginIsReal == WizardSpec => []LoggedInIsAuthorized
<1>1. WizardInit => WizardInv
  BY DEF WizardInit, WizardInv, Wizards, Sessions, LoggedInIsAuthorized, Out
<1>2. ASSUME WizardInv, [WizardNext]_wizardVars PROVE WizardInv'
  <2>1. session \in Sessions /\ wizard \in Wizards /\ (wizard.loggedIn => session.stage = "in")
    BY <1>2 DEF WizardInv, LoggedInIsAuthorized
  <2>2. session.user \in Users \cup {Nobody} /\ wizard.phone \in Users \cup {Nobody}
    BY <2>1 DEF Wizards, Sessions
  <2>3. [wizard EXCEPT !.need2FA = FALSE] \in Wizards
    BY Zenon, <2>1 DEF Wizards
  <2>4. CASE CheckStatus
    <3>1. CASE session.stage = "in"
      <4>1. wizard' \in Wizards
        <5>1. CASE wizard' = [wizard EXCEPT !.loggedIn = TRUE, !.user = session.user]
          BY Zenon, <2>1, <2>2, <5>1 DEF Wizards
        <5>2. CASE wizard' = [wizard EXCEPT !.loggedIn = TRUE]
          BY Zenon, <2>1, <5>2 DEF Wizards
        <5>3. CASE wizard' = [wizard EXCEPT !.loggedIn = FALSE]
          BY Zenon, <2>1, <5>3 DEF Wizards
        <5> QED
          BY <2>4, <5>1, <5>2, <5>3 DEF CheckStatus
      <4> QED
        BY <2>1, <2>4, <3>1, <4>1 DEF CheckStatus, WizardInv, LoggedInIsAuthorized
    <3>2. CASE session.stage # "in"
      <4>1. wizard' = [wizard EXCEPT !.loggedIn = FALSE] /\ UNCHANGED session
        BY <2>4, <3>2 DEF CheckStatus
      <4>2. wizard' \in Wizards /\ wizard'.loggedIn = FALSE
        BY Zenon, <2>1, <4>1 DEF Wizards
      <4> QED
        BY <2>1, <4>1, <4>2 DEF WizardInv, LoggedInIsAuthorized
    <3> QED
      BY <3>1, <3>2
  <2>5. CASE VerifyPhoneCode
    <3>1. CASE /\ session.stage = "code" /\ wizard' = [wizard EXCEPT !.need2FA = TRUE]
               /\ session' = [session EXCEPT !.stage = "password"]
      <4>1. wizard' \in Wizards /\ session' \in Sessions /\ wizard'.loggedIn = wizard.loggedIn
        BY Zenon, <2>1, <3>1 DEF Wizards, Sessions
      <4> QED
        BY <1>2, <3>1, <4>1, OtherWizardStep
    <3>2. CASE LoggedIn([wizard EXCEPT !.need2FA = FALSE], wizard.phone)
      BY <2>2, <2>3, <3>2, LoginStep
    <3> QED
      BY <2>5, <3>1, <3>2 DEF VerifyPhoneCode
  <2>6. CASE Verify2FA
    <3>1. CASE LoggedIn([wizard EXCEPT !.need2FA = FALSE], session.user)
      BY <2>2, <2>3, <3>1, LoginStep
    <3>2. CASE UNCHANGED wizardVars
      BY <2>1, <3>2 DEF wizardVars, WizardInv, LoggedInIsAuthorized
    <3> QED
      BY <2>6, <3>1, <3>2 DEF Verify2FA
  <2>7. CASE Logout
    <3>1. wizard' \in Wizards /\ wizard'.loggedIn = FALSE
      BY Zenon, <2>1, <2>7 DEF Logout, Wizards
    <3>2. session' \in Sessions
      BY <2>1, <2>7 DEF Logout, Out, Sessions
    <3> QED
      BY Zenon, <1>2, <3>1, <3>2, OtherWizardStep
  <2>8. ASSUME NEW n \in Namespaces, SwitchAccount(n) \/ DeleteAccount(n) \/ StartQR(n),
               UNCHANGED session
        PROVE  WizardInv'
    <3>1. \/ wizard' = [wizard EXCEPT !.ns = n]
          \/ wizard' = wizard
          \/ wizard' = [wizard EXCEPT !.ns = n, !.flow = "qr", !.need2FA = FALSE]
      BY <2>8 DEF SwitchAccount, DeleteAccount, StartQR
    <3>2. wizard' \in Wizards /\ wizard'.loggedIn = wizard.loggedIn
      BY Zenon, <2>1, <3>1 DEF Wizards
    <3> QED
      BY <1>2, <2>1, <2>8, <3>2, OtherWizardStep
  <2>8a. ASSUME NEW n \in Namespaces, StartQR(n), session' # session PROVE WizardInv'
    <3>1. wizard' = [wizard EXCEPT !.ns = n] /\ session.stage # "in"
      BY <2>8a DEF StartQR
    <3>2. session' \in Sessions
      <4>1. PICK u \in Users : session' = Scanned(u)
        BY <2>8a DEF StartQR
      <4>2. (IF u \in TwoFactor THEN "password" ELSE "in") \in {"out", "code", "password", "in"}
        OBVIOUS
      <4> QED
        BY <4>1, <4>2 DEF Scanned, Sessions
    <3>3. wizard' \in Wizards /\ wizard'.loggedIn = wizard.loggedIn
      BY Zenon, <2>1, <3>1 DEF Wizards
    <3> QED
      BY <1>2, <3>1, <3>2, <3>3, OtherWizardStep
  <2>9. ASSUME NEW n \in Namespaces, Restart(n) PROVE WizardInv'
    <3>1. wizard' \in Wizards /\ wizard'.loggedIn = FALSE /\ UNCHANGED session
      BY <2>9 DEF Restart, Wizards
    <3> QED
      BY Zenon, <1>2, <2>1, <3>1, OtherWizardStep
  <2>10. CASE PollQR
    <3>1. CASE LoggedIn([wizard EXCEPT !.need2FA = FALSE], session.user)
      BY <2>2, <2>3, <3>1, LoginStep
    <3>2. CASE UNCHANGED session /\ wizard' = [wizard EXCEPT !.need2FA = TRUE]
      <4>1. wizard' \in Wizards /\ wizard'.loggedIn = wizard.loggedIn
        BY Zenon, <2>1, <3>2 DEF Wizards
      <4> QED
        BY <1>2, <2>1, <3>2, <4>1, OtherWizardStep
    <3> QED
      BY <2>10, <3>1, <3>2 DEF PollQR
  <2>11. ASSUME NEW u \in Users, NEW n \in Namespaces, SendPhoneCode(u, n) PROVE WizardInv'
    <3>1. [wizard EXCEPT !.ns = n] \in Wizards /\ [wizard EXCEPT !.ns = n].loggedIn = wizard.loggedIn
      BY Zenon, <2>1 DEF Wizards
    <3>2. CASE LoggedIn([wizard EXCEPT !.ns = n], u)
      BY <3>1, <3>2, LoginStep
    <3>3. CASE wizard' = [wizard EXCEPT !.ns = n] /\ UNCHANGED session
      BY <1>2, <2>1, <3>1, <3>3, OtherWizardStep
    <3>4. CASE /\ session.stage # "in" /\ session' = [stage |-> "code", user |-> u]
               /\ wizard' = [[wizard EXCEPT !.ns = n] EXCEPT !.phone = u, !.flow = "phone", !.need2FA = FALSE]
      <4>1. wizard' \in Wizards /\ wizard'.loggedIn = wizard.loggedIn
        BY Zenon, <2>1, <3>1, <3>4 DEF Wizards
      <4>2. session' \in Sessions
        BY <3>4 DEF Sessions
      <4> QED
        BY <1>2, <3>4, <4>1, <4>2, OtherWizardStep
    <3> QED
      BY <2>11, <3>2, <3>3, <3>4 DEF SendPhoneCode
  <2>12. CASE UNCHANGED wizardVars
    BY <2>1, <2>12 DEF wizardVars, WizardInv, LoggedInIsAuthorized
  <2> QED
    <3>1. ASSUME NEW n \in Namespaces, SwitchAccount(n) \/ DeleteAccount(n) \/ StartQR(n)
          PROVE  WizardInv'
      <4>1. SwitchAccount(n) \/ DeleteAccount(n) => UNCHANGED session
        BY DEF SwitchAccount, DeleteAccount
      <4> QED
        BY <2>8, <2>8a, <3>1, <4>1
    <3> QED
      BY <1>2, <2>4, <2>5, <2>6, <2>7, <2>9, <2>10, <2>11, <2>12, <3>1 DEF WizardNext
<1>3. WizardInv => LoggedInIsAuthorized
  BY DEF WizardInv
<1> QED
  BY <1>1, <1>2, <1>3, PTL DEF WizardSpec

-----------------------------------------------------------------------------
(***************************************************************************)
(* ProxyManager: which node its watchdog leaves.                           *)
(***************************************************************************)

Dogs == [pc : {"idle", "note", "ping", "list", "search", "put", "set"}, watched : Entries \cup {""},
         tries : 0 .. MaxRetests, node : Entries \cup {""}, step : Nat, moved : BOOLEAN]
WebCalls == [pc : {"idle", "switch", "listed"}, node : Entries \cup {""}]

ProxyTypes ==
    /\ selected \in Entries /\ activeTag \in Entries \cup {""}
    /\ dog \in Dogs /\ user \in WebCalls /\ crossed \in BOOLEAN

\* While no call of the web server crossed a switch, everyone who is about to
\* assign activeTag holds what sing-box uses, and activeTag itself is that unless
\* a switch is under way.
Agreement ==
    ~crossed =>
        /\ user.pc # "idle" => user.node = selected
        /\ dog.pc \in {"note", "set"} => dog.node = selected
        /\ dog.pc = "set" => user.pc = "idle"
        /\ user.pc # "switch" /\ dog.pc # "set" => activeTag \in {"", selected}

\* A round without a switch of the web server watches the node in use, and its
\* last steps follow the last retry.
Round ==
    /\ dog.pc \in {"list", "search", "put"} => dog.tries = MaxRetests
    /\ dog.pc = "note" /\ dog.watched # "" => dog.tries = MaxRetests
    /\ dog.pc \in {"search", "put"} => dog.watched # ""
    /\ dog.pc \in {"note", "search", "put", "set"} => dog.node \in Entries
    /\ ~crossed /\ ~dog.moved /\ dog.pc \in {"note", "ping", "list", "search", "put"} =>
          user.pc # "switch" /\ dog.watched \in {"", selected}

ProxyInv == ProxyTypes /\ Agreement /\ Round

\* The search stays in the list.
LEMMA CandidateIsEntry ==
    ASSUME dog.node \in Entries, dog.step \in Nat
    PROVE  Candidate \in Entries
<1>1. \E i \in 1 .. Len(Nodes) : Nodes[i] = dog.node
  BY DEF Entries
<1>2. IndexOf(dog.node) \in 1 .. Len(Nodes)
  BY <1>1 DEF IndexOf
<1>3. Len(Nodes) \in Nat /\ Len(Nodes) > 0
  BY ProxyAssumption
<1>4. ASSUME NEW a \in Nat PROVE a % Len(Nodes) \in 0 .. Len(Nodes) - 1
  BY <1>3
<1>5. IndexOf(dog.node) - 1 + dog.step \in Nat
  BY <1>2, <1>3
<1>6. ((IndexOf(dog.node) - 1 + dog.step) % Len(Nodes)) + 1 \in 1 .. Len(Nodes)
  BY <1>3, <1>4, <1>5
<1> QED
  BY <1>6 DEF Candidate, Entries

\* A step of the watchdog that assigns no variable but its own, and no spent.
LEMMA DogKeeps ==
    ASSUME ProxyInv, dog' \in Dogs, UNCHANGED <<selected, activeTag, user, crossed>>,
           dog.pc # "set", dog'.pc # "set", dog'.pc = "note" => dog'.node = selected, Round'
    PROVE  ProxyInv'
<1>1. Agreement'
  BY Zenon DEF ProxyInv, Agreement
<1> QED
  BY Zenon, <1>1 DEF ProxyInv, ProxyTypes

\* A watchdog between two rounds.
LEMMA IdleDog ==
    /\ DogIdle \in Dogs /\ DogIdle.pc = "idle"
    /\ DogIdle.watched = "" /\ DogIdle.tries = 0 /\ DogIdle.moved = FALSE
BY ProxyAssumption DEF DogIdle, Dogs

\* Every step of the watchdog and every request of a user preserve the invariant.
LEMMA ProxyStep == ProxyInv /\ [ProxyNext]_proxyVars => ProxyInv'
<1> SUFFICES ASSUME ProxyInv, [ProxyNext]_proxyVars PROVE ProxyInv'
  OBVIOUS
<1>1. /\ selected \in Entries /\ activeTag \in Entries \cup {""}
      /\ dog \in Dogs /\ user \in WebCalls /\ crossed \in BOOLEAN
  BY Zenon DEF ProxyInv, ProxyTypes
<1>2. /\ dog.pc \in {"idle", "note", "ping", "list", "search", "put", "set"}
      /\ dog.watched \in Entries \cup {""} /\ dog.node \in Entries \cup {""}
      /\ user.pc \in {"idle", "switch", "listed"} /\ user.node \in Entries \cup {""}
  BY Zenon, <1>1 DEF Dogs, WebCalls
<1>tries. dog.tries \in 0 .. MaxRetests /\ dog.step \in Nat /\ MaxRetests \in Nat
  BY Zenon, <1>1, ProxyAssumption DEF Dogs
<1>3. ASSUME ~crossed
      PROVE  /\ user.pc # "idle" => user.node = selected
             /\ dog.pc \in {"note", "set"} => dog.node = selected
             /\ dog.pc = "set" => user.pc = "idle"
             /\ user.pc # "switch" /\ dog.pc # "set" => activeTag \in {"", selected}
  BY Zenon, <1>3 DEF ProxyInv, Agreement
<1>4. /\ dog.pc \in {"list", "search", "put"} => dog.tries = MaxRetests
      /\ dog.pc = "note" /\ dog.watched # "" => dog.tries = MaxRetests
      /\ dog.pc \in {"search", "put"} => dog.watched # ""
      /\ dog.pc \in {"note", "search", "put", "set"} => dog.node \in Entries
  BY Zenon DEF ProxyInv, Round
<1>5. ASSUME ~crossed, ~dog.moved, dog.pc \in {"note", "ping", "list", "search", "put"}
      PROVE  user.pc # "switch" /\ dog.watched \in {"", selected}
  BY Zenon, <1>5 DEF ProxyInv, Round
<1>6. (user.pc = "switch") \in BOOLEAN
  OBVIOUS
<1>7. CASE DogTimer
  <2>1. UNCHANGED <<selected, activeTag, user, crossed>> /\ dog.pc = "idle"
    BY Zenon, <1>7 DEF DogTimer
  <2>2. CASE /\ activeTag # ""
             /\ dog' = [DogIdle EXCEPT !.pc = "ping", !.watched = activeTag, !.moved = user.pc = "switch"]
    <3>1. dog' \in Dogs /\ dog'.pc = "ping" /\ dog'.watched = activeTag /\ dog'.moved = (user.pc = "switch")
      BY Zenon, IdleDog, <1>1, <1>6, <2>2 DEF Dogs
    <3>2. Round'
      BY Zenon, <1>3, <2>1, <3>1 DEF Round
    <3> QED
      BY <2>1, <3>1, <3>2, DogKeeps
  <2>3. CASE dog' = [DogIdle EXCEPT !.pc = "note", !.node = selected, !.moved = user.pc = "switch"]
    <3>1. /\ dog' \in Dogs /\ dog'.pc = "note" /\ dog'.watched = "" /\ dog'.node = selected
          /\ dog'.moved = (user.pc = "switch")
      BY Zenon, IdleDog, <1>1, <1>6, <2>3 DEF Dogs
    <3>2. Round'
      BY Zenon, <1>1, <2>1, <3>1 DEF Round
    <3> QED
      BY Zenon, <2>1, <3>1, <3>2, DogKeeps
  <2>4. CASE UNCHANGED dog
    <3>1. Round'
      BY Zenon, <2>1, <2>4 DEF ProxyInv, Round
    <3> QED
      BY Zenon, <1>1, <2>1, <2>4, <3>1, DogKeeps
  <2> QED
    BY Zenon, <1>7, <2>2, <2>3, <2>4 DEF DogTimer
<1>8. CASE DogNote
  <2>1. /\ dog.pc = "note" /\ activeTag' = dog.node
        /\ UNCHANGED <<selected, user, crossed>>
    BY Zenon, <1>8 DEF DogNote
  <2>2. /\ dog' \in Dogs /\ dog'.pc \in {"ping", "search"} /\ dog'.moved = dog.moved
        /\ dog'.tries = dog.tries /\ dog'.node = dog.node
        /\ dog'.watched = (IF dog.watched = "" THEN dog.node ELSE dog.watched)
        /\ dog'.pc = "search" => dog.watched # ""
    <3>1. CASE dog.watched = ""
      <4>1. dog' = [dog EXCEPT !.pc = "ping", !.watched = dog.node]
        BY Zenon, <1>8, <3>1 DEF DogNote
      <4>2. /\ dog' \in Dogs /\ dog'.pc = "ping" /\ dog'.moved = dog.moved
            /\ dog'.tries = dog.tries /\ dog'.node = dog.node /\ dog'.watched = dog.node
        BY Zenon, <1>1, <1>2, <4>1 DEF Dogs
      <4> QED
        BY Zenon, <3>1, <4>2
    <3>2. CASE dog.watched # ""
      <4>1. dog' = [dog EXCEPT !.pc = "search", !.step = 1]
        BY Zenon, <1>8, <3>2 DEF DogNote
      <4>2. 1 \in Nat
        OBVIOUS
      <4>3. /\ dog' \in Dogs /\ dog'.pc = "search" /\ dog'.moved = dog.moved
            /\ dog'.tries = dog.tries /\ dog'.node = dog.node /\ dog'.watched = dog.watched
        BY Zenon, <1>1, <1>2, <4>1, <4>2 DEF Dogs
      <4> QED
        BY Zenon, <3>2, <4>3
    <3> QED
      BY Zenon, <3>1, <3>2
  <2>3. Round'
    BY Zenon, <1>3, <1>4, <1>5, <2>1, <2>2 DEF Round
  <2>4. Agreement'
    BY Zenon, <1>3, <2>1, <2>2 DEF Agreement
  <2> QED
    BY Zenon, <1>1, <1>2, <2>1, <2>2, <2>3, <2>4 DEF ProxyInv, ProxyTypes
<1>9. CASE DogPing
  <2>1. UNCHANGED <<selected, activeTag, user, crossed>> /\ dog.pc = "ping"
    BY <1>9 DEF DogPing
  <2>2. CASE dog' = DogIdle
    <3>1. Round'
      BY Zenon, IdleDog, <2>2 DEF Round
    <3> QED
      BY Zenon, IdleDog, <2>1, <2>2, <3>1, DogKeeps
  <2>3. CASE dog.tries < MaxRetests /\ dog' = [dog EXCEPT !.tries = @ + 1]
    <3>1. dog.tries + 1 \in 0 .. MaxRetests
      BY <1>tries, <2>3
    <3>2. /\ dog' \in Dogs /\ dog'.pc = dog.pc /\ dog'.moved = dog.moved
          /\ dog'.watched = dog.watched
      BY Zenon, <1>1, <2>3, <3>1 DEF Dogs
    <3>3. Round'
      BY Zenon, <1>5, <2>1, <3>2 DEF Round
    <3> QED
      BY <2>1, <3>2, <3>3, DogKeeps
  <2>4. CASE ~(dog.tries < MaxRetests) /\ dog' = [dog EXCEPT !.pc = "list"]
    <3>1. dog.tries = MaxRetests
      BY <1>tries, <2>4
    <3>2. /\ dog' \in Dogs /\ dog'.pc = "list" /\ dog'.moved = dog.moved
          /\ dog'.watched = dog.watched /\ dog'.tries = dog.tries
      BY Zenon, <1>1, <2>4 DEF Dogs
    <3>3. Round'
      BY Zenon, <1>5, <2>1, <3>1, <3>2 DEF Round
    <3> QED
      BY <2>1, <3>2, <3>3, DogKeeps
  <2> QED
    BY <1>9, <2>2, <2>3, <2>4 DEF DogPing
<1>10. CASE DogList
  <2>1. UNCHANGED <<selected, activeTag, user, crossed>> /\ dog.pc = "list"
    BY <1>10 DEF DogList
  <2>2. CASE dog' = DogIdle
    <3>1. Round'
      BY Zenon, IdleDog, <2>2 DEF Round
    <3> QED
      BY Zenon, IdleDog, <2>1, <2>2, <3>1, DogKeeps
  <2>3. CASE dog' = [dog EXCEPT !.pc = "note", !.node = selected]
    <3>1. /\ dog' \in Dogs /\ dog'.pc = "note" /\ dog'.moved = dog.moved /\ dog'.node = selected
          /\ dog'.watched = dog.watched /\ dog'.tries = dog.tries
      BY Zenon, <1>1, <2>3 DEF Dogs
    <3>2. Round'
      BY Zenon, <1>1, <1>4, <1>5, <2>1, <3>1 DEF Round
    <3> QED
      BY <2>1, <3>1, <3>2, DogKeeps
  <2> QED
    BY <1>10, <2>2, <2>3 DEF DogList
<1>11. CASE DogSearch
  <2>1. UNCHANGED <<selected, activeTag, user, crossed>> /\ dog.pc = "search"
    BY <1>11 DEF DogSearch
  <2>2. CASE dog' = DogIdle
    <3>1. Round'
      BY Zenon, IdleDog, <2>2 DEF Round
    <3> QED
      BY Zenon, IdleDog, <2>1, <2>2, <3>1, DogKeeps
  <2>3. CASE dog' = [dog EXCEPT !.pc = "put", !.node = Candidate, !.step = 0]
    <3>1. Candidate \in Entries
      BY Zenon, CandidateIsEntry, <1>4, <1>tries, <2>1
    <3>2. Candidate \in Entries \cup {""} /\ 0 \in Nat
      BY Zenon, <3>1
    <3>3. /\ dog' \in Dogs /\ dog'.pc = "put" /\ dog'.moved = dog.moved /\ dog'.node = Candidate
          /\ dog'.watched = dog.watched /\ dog'.tries = dog.tries
      BY Zenon, <1>1, <2>3, <3>2 DEF Dogs
    <3>4. Round'
      BY Zenon, <1>4, <1>5, <2>1, <3>1, <3>3 DEF Round
    <3> QED
      BY <2>1, <3>3, <3>4, DogKeeps
  <2>4. CASE dog' = [dog EXCEPT !.step = @ + 1]
    <3>1. dog.step + 1 \in Nat
      BY <1>tries
    <3>2. /\ dog' \in Dogs /\ dog'.pc = dog.pc /\ dog'.moved = dog.moved /\ dog'.node = dog.node
          /\ dog'.watched = dog.watched /\ dog'.tries = dog.tries
      BY Zenon, <1>1, <2>4, <3>1 DEF Dogs
    <3>3. Round'
      BY Zenon, <1>4, <1>5, <2>1, <3>2 DEF Round
    <3> QED
      BY <2>1, <3>2, <3>3, DogKeeps
  <2> QED
    BY <1>11, <2>2, <2>3, <2>4 DEF DogSearch
<1>12. CASE DogPut
  <2>1. /\ dog.pc = "put" /\ UNCHANGED <<activeTag, user>>
    BY <1>12 DEF DogPut
  <2>2. crossed' \in BOOLEAN
    BY Zenon, <1>1, <1>12 DEF DogPut
  <2>3. CASE /\ selected' = dog.node /\ dog' = [dog EXCEPT !.pc = "set"]
             /\ crossed' = (crossed \/ user.pc # "idle")
    <3>1. dog' \in Dogs /\ dog'.pc = "set" /\ dog'.node = dog.node
      BY Zenon, <1>1, <2>3 DEF Dogs
    <3>2. Round'
      BY Zenon, <1>4, <2>1, <3>1 DEF Round
    <3>3. Agreement'
      BY Zenon, <2>1, <2>3, <3>1 DEF Agreement
    <3> QED
      BY Zenon, <1>1, <1>4, <2>1, <2>2, <2>3, <3>1, <3>2, <3>3 DEF ProxyInv, ProxyTypes
  <2>4. CASE dog' = DogIdle /\ UNCHANGED <<selected, crossed>>
    <3>1. Round'
      BY Zenon, IdleDog, <2>4 DEF Round
    <3>2. Agreement'
      BY Zenon, IdleDog, <1>3, <2>1, <2>4 DEF Agreement
    <3> QED
      BY Zenon, IdleDog, <1>1, <2>1, <2>2, <2>4, <3>1, <3>2 DEF ProxyInv, ProxyTypes
  <2>5. CASE dog' = DogIdle /\ selected' = dog.node /\ crossed' = TRUE
    <3>1. Round'
      BY Zenon, IdleDog, <2>5 DEF Round
    <3>2. Agreement'
      BY Zenon, <2>5 DEF Agreement
    <3> QED
      BY Zenon, IdleDog, <1>1, <1>4, <2>1, <2>2, <2>5, <3>1, <3>2 DEF ProxyInv, ProxyTypes
  <2> QED
    BY Zenon, <1>12, <2>3, <2>4, <2>5 DEF DogPut
<1>13. CASE DogSet
  <2>1. /\ dog.pc = "set" /\ activeTag' = dog.node /\ dog' = DogIdle
        /\ UNCHANGED <<selected, user, crossed>>
    BY <1>13 DEF DogSet
  <2>2. Round'
    BY Zenon, IdleDog, <2>1 DEF Round
  <2>3. Agreement'
    BY Zenon, IdleDog, <1>3, <2>1 DEF Agreement
  <2> QED
    BY Zenon, IdleDog, <1>1, <1>2, <2>1, <2>2, <2>3 DEF ProxyInv, ProxyTypes
<1>14. ASSUME NEW node \in Entries, UserPut(node) PROVE ProxyInv'
  <2>1. /\ user.pc = "idle" /\ selected' = node
        /\ dog' = [dog EXCEPT !.moved = dog.pc # "idle"] /\ UNCHANGED activeTag
    BY <1>14 DEF UserPut
  <2>2. (dog.pc # "idle") \in BOOLEAN /\ crossed' \in BOOLEAN
    BY Zenon, <1>1, <1>14 DEF UserPut
  <2>3. /\ dog' \in Dogs /\ dog'.pc = dog.pc /\ dog'.moved = (dog.pc # "idle") /\ dog'.node = dog.node
        /\ dog'.watched = dog.watched /\ dog'.tries = dog.tries
    BY Zenon, <1>1, <2>1, <2>2 DEF Dogs
  <2>4. Round'
    BY Zenon, <1>4, <2>3 DEF Round
  <2>5. CASE /\ user' = [pc |-> "switch", node |-> node]
             /\ crossed' = (crossed \/ dog.pc \in {"note", "set"})
    <3>1. user' \in WebCalls /\ user'.pc = "switch" /\ user'.node = node
      BY Zenon, <2>5 DEF WebCalls
    <3>2. Agreement'
      BY Zenon, <2>1, <2>3, <2>5, <3>1 DEF Agreement
    <3> QED
      BY Zenon, <1>1, <2>1, <2>2, <2>3, <2>4, <3>1, <3>2 DEF ProxyInv, ProxyTypes
  <2>6. CASE user' = user /\ crossed' = TRUE
    <3>1. Agreement'
      BY Zenon, <2>6 DEF Agreement
    <3> QED
      BY Zenon, <1>1, <2>1, <2>2, <2>3, <2>4, <2>6, <3>1 DEF ProxyInv, ProxyTypes
  <2> QED
    BY Zenon, <1>14, <2>5, <2>6 DEF UserPut
<1>15. CASE UserList
  <2>1. /\ user.pc = "idle" /\ user' = [pc |-> "listed", node |-> selected]
        /\ crossed' = (crossed \/ dog.pc = "set") /\ UNCHANGED <<selected, activeTag, dog>>
    BY <1>15 DEF UserList
  <2>2. crossed' \in BOOLEAN
    BY <2>1
  <2>3. user' \in WebCalls /\ user'.pc = "listed" /\ user'.node = selected
    BY Zenon, <1>1, <2>1 DEF WebCalls
  <2>4. Round'
    BY Zenon, <1>4, <1>5, <2>1, <2>3 DEF Round
  <2>5. Agreement'
    BY Zenon, <1>3, <2>1, <2>3 DEF Agreement
  <2> QED
    BY Zenon, <1>1, <2>1, <2>2, <2>3, <2>4, <2>5 DEF ProxyInv, ProxyTypes
<1>16. CASE UserSet
  <2>1. /\ user.pc # "idle" /\ activeTag' = user.node /\ user' = UserIdle
        /\ UNCHANGED <<selected, dog, crossed>>
    BY <1>16 DEF UserSet
  <2>2. user' \in WebCalls /\ user'.pc = "idle"
    BY Zenon, <2>1 DEF WebCalls, UserIdle
  <2>3. Round'
    BY Zenon, <1>4, <1>5, <2>1, <2>2 DEF Round
  <2>4. Agreement'
    BY Zenon, <1>3, <2>1, <2>2 DEF Agreement
  <2> QED
    BY Zenon, <1>1, <1>2, <2>1, <2>2, <2>3, <2>4 DEF ProxyInv, ProxyTypes
<1>17. ASSUME UNCHANGED <<selected, activeTag, dog, user, crossed>> PROVE ProxyInv'
  BY Zenon, <1>17 DEF ProxyInv, ProxyTypes, Agreement, Round
<1>18. ASSUME NEW node \in Entries, Flap(node) PROVE ProxyInv'
  BY <1>17, <1>18 DEF Flap
<1>19. CASE UNCHANGED proxyVars
  BY <1>17, <1>19 DEF proxyVars
<1> QED
  BY Zenon, <1>7, <1>8, <1>9, <1>10, <1>11, <1>12, <1>13, <1>14, <1>15, <1>16, <1>18, <1>19
     DEF ProxyNext, Dog

\* For any list of nodes and any number of retests: the watchdog leaves a node only
\* after the first ping and every retry of that very node failed, unless the web
\* server switched since the timer fired, or a switch before was crossed by another
\* call or lost its answer.
THEOREM LeavesADeadNode == ProxySpec => LeavesOnlyDead
<1>1. ProxyInit => ProxyInv
  <2> SUFFICES ASSUME ProxyInit PROVE ProxyInv
    OBVIOUS
  <2>1. /\ selected \in Entries /\ activeTag = "" /\ dog = DogIdle /\ user = UserIdle /\ crossed = FALSE
    BY Zenon DEF ProxyInit
  <2>2. user \in WebCalls /\ user.pc = "idle"
    BY Zenon, <2>1 DEF UserIdle, WebCalls
  <2>3. Round
    BY Zenon, IdleDog, <2>1 DEF Round
  <2>4. Agreement
    BY Zenon, IdleDog, <2>1, <2>2 DEF Agreement
  <2> QED
    BY Zenon, IdleDog, <2>1, <2>2, <2>3, <2>4 DEF ProxyInv, ProxyTypes
<1>2. ProxyInv /\ dog.pc = "put"
        => dog.moved \/ crossed \/ (dog.watched = selected /\ dog.tries = MaxRetests)
  BY Zenon DEF ProxyInv, Round
<1>3. ASSUME ProxyInv, [ProxyNext]_proxyVars
      PROVE  [(dog.pc = "put" /\ selected' # selected /\ UNCHANGED user)
                => (dog.moved \/ crossed \/ (dog.watched = selected /\ dog.tries = MaxRetests))]_proxyVars
  BY <1>2, <1>3
<1> QED
  BY <1>1, <1>3, ProxyStep, PTL DEF ProxySpec, LeavesOnlyDead

-----------------------------------------------------------------------------
(***************************************************************************)
(* SpoolRows: what a run of the migration decides.                         *)
(***************************************************************************)

\* What holds behind a committed run, whatever the daemon did since: the row is in
\* no status of the old spool.
SpoolRowsInv ==
    /\ old \in [commit : {"none", "listed"}, attempt : BOOLEAN, digest : BOOLEAN, sized : BOOLEAN]
    /\ stored \in [target : Stored, archive : Stored] /\ status \in RowStatus /\ migrations \in Nat
    /\ migrations > 0 => status \notin LegacyStatus

\* One upsert takes nothing back, and moves a row to pending or success only.
LEMMA UpsertMoves ==
    ASSUME NEW row, NEW d \in {"NONE", "IMPORT_SUCCESS", "RESET_PENDING"}
    PROVE  /\ Upsert(row, d) \in {row, "pending", "success"}
           /\ row \in {"success", "archived"} => Upsert(row, d) = row
           /\ d = "NONE" => Upsert(row, d) = row
           /\ d = "RESET_PENDING" /\ row \notin {"success", "archived"} => Upsert(row, d) = "pending"
           /\ d = "IMPORT_SUCCESS" /\ row # "archived" => Upsert(row, d) = "success"
           /\ d # "IMPORT_SUCCESS" /\ Upsert(row, d) = "success" => row = "success"
BY DEF Upsert

\* One run: the three upserts of a record take nothing back, leave no legacy
\* status, reach success only for a verified file, and leave a row that is not of
\* the old spool alone when the old tables list nothing.
LEMMA MigrateMoves ==
    ASSUME SpoolRowsInv, Migrate
    PROVE  /\ status' \in RowStatus /\ status' \notin LegacyStatus
           /\ status \in {"success", "archived"} => status' = status
           /\ status' = "success" /\ status # "success" =>
                 VerifyDiskFile(old.digest, old.sized) /\ (old.commit = "none" => old.sized)
           /\ old.commit = "listed" =>
                 status' \in IF VerifyDiskFile(old.digest, old.sized) THEN {"success", "archived"}
                             ELSE {"success", "archived", "pending"}
           /\ old.attempt => status' \in {"success", "archived", "pending"}
           /\ old.commit = "none" /\ ~old.attempt /\ status \notin LegacyStatus => status' = status
<1> DEFINE c == CommitDisposition
           a == AttemptDisposition
           r == RecordDisposition
           s1 == Upsert(status, c)
           s2 == Upsert(s1, a)
           verified == VerifyDiskFile(old.digest, old.sized)
<1>1. status' = Upsert(s2, r)
  BY DEF Migrate, Migrated
<1>2. {c, a, r} \subseteq {"NONE", "IMPORT_SUCCESS", "RESET_PENDING"}
  BY DEF CommitDisposition, AttemptDisposition, RecordDisposition, Import
<1>3. old.commit \in {"none", "listed"} /\ status \in RowStatus
  BY Zenon DEF SpoolRowsInv
<1>4. CASE old.commit = "listed"
  <2>1. a = "NONE" /\ r = "NONE" /\ c = (IF verified THEN "IMPORT_SUCCESS" ELSE "RESET_PENDING")
    BY <1>4 DEF CommitDisposition, AttemptDisposition, RecordDisposition, Import
  <2>2. status' = s1
    BY <1>1, <2>1, UpsertMoves
  <2>3. CASE verified
    <3>1. status' = (IF status = "archived" THEN "archived" ELSE "success")
      BY <2>1, <2>2, <2>3, UpsertMoves
    <3> QED
      BY <1>3, <1>4, <2>3, <3>1 DEF RowStatus, LegacyStatus
  <2>4. CASE ~verified
    <3>1. status' = (IF status \in {"success", "archived"} THEN status ELSE "pending")
      BY Zenon, <2>1, <2>2, <2>4, UpsertMoves
    <3> QED
      BY <1>3, <1>4, <2>4, <3>1 DEF RowStatus, Unfinished, LegacyStatus
  <2> QED
    BY <2>3, <2>4
<1>5. CASE old.commit # "listed"
  <2>1. /\ c = "NONE" /\ a = (IF old.attempt THEN "RESET_PENDING" ELSE "NONE")
        /\ r = (IF status \in LegacyStatus THEN IF verified /\ old.sized THEN "IMPORT_SUCCESS"
                                                ELSE "RESET_PENDING"
                ELSE "NONE")
    BY <1>5 DEF CommitDisposition, AttemptDisposition, RecordDisposition, Import
  <2>2. s1 = status
    BY <2>1, UpsertMoves
  <2>3. s2 = (IF old.attempt /\ status \notin {"success", "archived"} THEN "pending" ELSE status)
    BY <2>1, <2>2, UpsertMoves
  <2>4. CASE status \in LegacyStatus
    <3>1. s2 \notin {"success", "archived"}
      BY <2>3, <2>4 DEF LegacyStatus
    <3>2. status' = (IF verified /\ old.sized THEN "success" ELSE "pending")
      BY Zenon, <1>1, <2>1, <2>4, <3>1, UpsertMoves
    <3> QED
      BY <1>5, <2>4, <3>2 DEF RowStatus, Unfinished, LegacyStatus
  <2>5. CASE status \notin LegacyStatus
    <3>1. status' = s2
      BY <1>1, <2>1, <2>5, UpsertMoves
    <3> QED
      BY <1>3, <1>5, <2>3, <2>5, <3>1 DEF RowStatus, Unfinished, LegacyStatus
  <2> QED
    BY <2>4, <2>5
<1> QED
  BY <1>4, <1>5

\* A run leaves the files alone, and the old tables as they are or empty.
LEMMA MigrateKeeps ==
    ASSUME SpoolRowsInv, Migrate
    PROVE  /\ stored' = stored /\ migrations' \in Nat
           /\ VerifyDiskFile(old.digest, old.sized)' = VerifyDiskFile(old.digest, old.sized)
           /\ old' \in [commit : {"none", "listed"}, attempt : BOOLEAN, digest : BOOLEAN, sized : BOOLEAN]
           /\ \/ old' = old
              \/ old'.commit = "none" /\ old'.attempt = FALSE
<1>1. stored' = stored /\ migrations' \in Nat
  BY DEF Migrate, SpoolRowsInv
<1>2. CASE old' = old
  BY Zenon, <1>1, <1>2 DEF SpoolRowsInv, VerifyDiskFile
<1>3. CASE old' = [commit |-> "none", attempt |-> FALSE, digest |-> old.digest, sized |-> old.sized]
  <2>1. /\ old' \in [commit : {"none", "listed"}, attempt : BOOLEAN, digest : BOOLEAN, sized : BOOLEAN]
        /\ old'.commit = "none" /\ old'.attempt = FALSE
        /\ old'.digest = old.digest /\ old'.sized = old.sized
    BY Zenon, <1>3 DEF SpoolRowsInv
  <2> QED
    BY Zenon, <1>1, <2>1 DEF VerifyDiskFile
<1> QED
  BY Zenon, <1>1, <1>2, <1>3 DEF Migrate

\* The decisions of a run that follows at once leave the row as it is.
LEMMA MigrateAgain ==
    ASSUME SpoolRowsInv, Migrate
    PROVE  Migrated' = status'
<1> DEFINE c == CommitDisposition'
           a == AttemptDisposition'
           r == RecordDisposition'
           verified == VerifyDiskFile(old.digest, old.sized)
<1>1. Migrated' = Upsert(Upsert(Upsert(status', c), a), r)
  BY DEF Migrated
<1>2. r = "NONE"
  BY Zenon, MigrateMoves DEF RecordDisposition
<1>3. /\ c = (IF old'.commit = "listed" THEN IF verified THEN "IMPORT_SUCCESS" ELSE "RESET_PENDING"
             ELSE "NONE")
      /\ a = (IF old'.commit # "listed" /\ old'.attempt THEN "RESET_PENDING" ELSE "NONE")
  BY Zenon, MigrateKeeps DEF CommitDisposition, AttemptDisposition, Import
<1>4. CASE old' = old /\ old.commit = "listed"
  <2>1. Upsert(status', c) = status'
    BY <1>3, <1>4, MigrateMoves, UpsertMoves
  <2> QED
    BY <1>1, <1>2, <1>3, <1>4, <2>1, UpsertMoves
<1>5. CASE old' = old /\ old.commit # "listed"
  <2>1. Upsert(status', a) = status'
    BY <1>3, <1>5, MigrateMoves, UpsertMoves
  <2> QED
    BY <1>1, <1>2, <1>3, <1>5, <2>1, UpsertMoves
<1>6. CASE old'.commit = "none" /\ old'.attempt = FALSE
  BY <1>1, <1>2, <1>3, <1>6, UpsertMoves
<1> QED
  BY Zenon, <1>4, <1>5, <1>6, MigrateKeeps

\* The daemon moves no row to a status of the old spool.
LEMMA SpoolRowsStep == SpoolRowsInv /\ [SpoolRowsNext]_spoolRowVars => SpoolRowsInv'
<1> SUFFICES ASSUME SpoolRowsInv, [SpoolRowsNext]_spoolRowVars PROVE SpoolRowsInv'
  OBVIOUS
<1>1. CASE Migrate
  BY Zenon, <1>1, MigrateMoves, MigrateKeeps DEF SpoolRowsInv
<1>2. CASE DaemonWorks
  <2>1. UNCHANGED <<old, migrations>>
    BY <1>2 DEF DaemonWorks
  <2>2. status' \in RowStatus /\ status' \notin LegacyStatus
    BY <1>2 DEF DaemonWorks, RowStatus, Unfinished, LegacyStatus
  <2>3. stored' \in [target : Stored, archive : Stored]
    <3>1. CASE stored' = stored
      BY <3>1 DEF SpoolRowsInv
    <3>2. ASSUME NEW f \in Stored, stored' = [stored EXCEPT !.target = f]
          PROVE  stored' \in [target : Stored, archive : Stored]
      BY <3>2 DEF SpoolRowsInv
    <3>3. CASE stored' = [target |-> "none", archive |-> stored.target]
      BY <3>3 DEF SpoolRowsInv, Stored
    <3> QED
      BY <1>2, <3>1, <3>2, <3>3 DEF DaemonWorks
  <2> QED
    BY <2>1, <2>2, <2>3 DEF SpoolRowsInv
<1>3. CASE UNCHANGED spoolRowVars
  BY Zenon, <1>3 DEF spoolRowVars, SpoolRowsInv
<1> QED
  BY <1>1, <1>2, <1>3 DEF SpoolRowsNext

\* A step that commits a run is a run.
LEMMA RunIsMigrate ==
    ASSUME SpoolRowsInv, [SpoolRowsNext]_spoolRowVars, migrations' > migrations
    PROVE  Migrate
BY DEF SpoolRowsInv, SpoolRowsNext, DaemonWorks, spoolRowVars

\* Any old record may be found before the first run.
LEMMA SpoolRowsStart == SpoolRowsInit => SpoolRowsInv
BY DEF SpoolRowsInit, SpoolRowsInv

\* Whatever the old tables and the disks hold, and however many runs there are: a
\* run makes a row success only for a file that agrees with everything its entry
\* states, and without a commit only when a size is stated.
THEOREM OnlyVerifiedSucceeds == SpoolRowsSpec => SuccessIsVerified
<1>1. ASSUME SpoolRowsInv, [SpoolRowsNext]_spoolRowVars
      PROVE  [migrations' > migrations /\ status' # status /\ status' = "success" =>
                LET found == IF stored.target # "none" THEN stored.target ELSE stored.archive
                IN  /\ found # "none"
                    /\ old.digest => found = "right"
                    /\ old.sized => found \in {"right", "sized"}
                    /\ old.commit = "none" => old.sized]_spoolRowVars
  <2> DEFINE found == IF stored.target # "none" THEN stored.target ELSE stored.archive
  <2>1. SUFFICES ASSUME migrations' > migrations, status' # status, status' = "success"
                 PROVE  /\ found # "none"
                        /\ old.digest => found = "right"
                        /\ old.sized => found \in {"right", "sized"}
                        /\ old.commit = "none" => old.sized
    OBVIOUS
  <2>2. VerifyDiskFile(old.digest, old.sized) /\ (old.commit = "none" => old.sized)
    BY <1>1, <2>1, RunIsMigrate, MigrateMoves
  <2>3. found \in {"none", "right", "sized", "wrong"}
    BY <1>1 DEF SpoolRowsInv, Stored
  <2> QED
    BY Zenon, <2>2, <2>3 DEF VerifyDiskFile
<1> QED
  BY <1>1, SpoolRowsStart, SpoolRowsStep, PTL DEF SpoolRowsSpec, SuccessIsVerified

\* However often the migration runs and whatever the daemon does in between: a run
\* keeps success and archived, leaves no status of the old spool, changes nothing
\* when it is repeated, and nothing at all once the old tables are gone.
THEOREM MigratesOnce == SpoolRowsSpec => MigrationIsFinal
<1>1. ASSUME SpoolRowsInv, [SpoolRowsNext]_spoolRowVars
      PROVE  [migrations' > migrations =>
                /\ status \in {"success", "archived"} => status' = status
                /\ status' \notin LegacyStatus
                /\ Migrated' = status'
                /\ migrations > 0 /\ old.commit = "none" /\ ~old.attempt
                      => status' = status]_spoolRowVars
  <2>1. SUFFICES ASSUME migrations' > migrations
                 PROVE  /\ status \in {"success", "archived"} => status' = status
                        /\ status' \notin LegacyStatus
                        /\ Migrated' = status'
                        /\ migrations > 0 /\ old.commit = "none" /\ ~old.attempt
                              => status' = status
    OBVIOUS
  <2>2. Migrate
    BY <1>1, <2>1, RunIsMigrate
  <2>3. migrations > 0 => status \notin LegacyStatus
    BY <1>1 DEF SpoolRowsInv
  <2> QED
    BY <1>1, <2>2, <2>3, MigrateMoves, MigrateAgain
<1> QED
  BY <1>1, SpoolRowsStart, SpoolRowsStep, PTL DEF SpoolRowsSpec, MigrationIsFinal
=============================================================================
