--------------------------- MODULE TransferProofs ---------------------------
(***************************************************************************)
(* Proofs about the transfer of files: what the tracker of written ranges  *)
(* records, that the gate's permits are conserved and its cooldowns waited *)
(* for, and what a download returns, which rests on both; for any number   *)
(* of byte ranges, files, workers, permits and data centres.               *)
(***************************************************************************)
EXTENDS Transfer, RangeTracker, FiniteSetTheorems, TLAPS

-----------------------------------------------------------------------------
(***************************************************************************)
(* Ranges and RangeTracker: AddRange records the bytes it is given.  The    *)
(* provers have no induction over data; the loop's rounds are reasoned      *)
(* about by the first round that would break the invariant.                *)
(***************************************************************************)
\* A set of natural numbers has a smallest one.
LEMMA Smallest ==
    ASSUME NEW S \in SUBSET Nat, S # {}
    PROVE  \E k \in S : \A j \in S : k <= j
<1>1. PICK k \in S : \A j \in S : ~(<<j, k>> \in OpToRel(<, Nat))
  BY Zenon, NatLessThanWellFounded, WFMin
<1>2. \A j \in S : ~(j < k)
  BY Zenon, <1>1 DEF OpToRel
<1> QED
  BY <1>2

\* f holds the variables of AddRange's loop after each of the first n rounds.
Rounds(f, iv, s, e, n) ==
    f = [i \in 0 .. n |->
            IF i = 0
            THEN [merged |-> << >>, new |-> [start |-> s, end |-> e], inserted |-> FALSE]
            ELSE MergeStep(f[i - 1], iv[i])]

\* The loop runs any number of rounds.
LEMMA RoundsExist ==
    ASSUME NEW iv, NEW s, NEW e, NEW n \in Nat
    PROVE  \E f : Rounds(f, iv, s, e, n)
<1> DEFINE Bad == {k \in Nat : ~\E f : Rounds(f, iv, s, e, k)}
<1> SUFFICES ASSUME Bad # {} PROVE FALSE
  OBVIOUS
<1>1. PICK k \in Bad : \A j \in Bad : k <= j
  BY Zenon, Smallest
<1>2. k # 0
  <2> DEFINE f0 == [i \in 0 .. 0 |->
                [merged |-> << >>, new |-> [start |-> s, end |-> e], inserted |-> FALSE]]
  <2>1. Rounds(f0, iv, s, e, 0)
    BY DEF Rounds
  <2> QED
    BY <2>1, <1>1
<1>3. k - 1 \in Nat /\ k - 1 \notin Bad
  BY <1>1, <1>2
<1>4. PICK f : Rounds(f, iv, s, e, k - 1)
  BY <1>3
<1> DEFINE g == [i \in 0 .. k |-> IF i < k THEN f[i] ELSE MergeStep(f[k - 1], iv[k])]
<1>5. Rounds(g, iv, s, e, k)
  <2> SUFFICES ASSUME NEW i \in 0 .. k
               PROVE g[i] = IF i = 0
                            THEN [merged |-> << >>, new |-> [start |-> s, end |-> e],
                                  inserted |-> FALSE]
                            ELSE MergeStep(g[i - 1], iv[i])
    BY Zenon DEF Rounds
  <2>1. CASE i = k
    <3>1. g[k - 1] = f[k - 1]
      BY <1>1, <1>3
    <3> QED
      BY <2>1, <1>2, <3>1
  <2>2. CASE i < k
    <3>1. i \in 0 .. k - 1 /\ g[i] = f[i] /\ (i # 0 => g[i - 1] = f[i - 1])
      BY <2>2, <1>1
    <3> HIDE DEF g
    <3> QED
      BY Zenon, <3>1, <1>4 DEF Rounds
  <2> QED
    BY <2>1, <2>2, <1>1
<1> QED
  BY <1>5, <1>1

\* MergeLoop is such a function.
LEMMA MergeLoopRounds ==
    ASSUME NEW iv, Len(iv) \in Nat, NEW s, NEW e
    PROVE  Rounds(MergeLoop(iv, s, e), iv, s, e, Len(iv))
<1>1. \E f : Rounds(f, iv, s, e, Len(iv))
  BY RoundsExist
<1>2. MergeLoop(iv, s, e) = CHOOSE f : Rounds(f, iv, s, e, Len(iv))
  BY Zenon DEF MergeLoop, Rounds
<1> QED
  BY Zenon, <1>1, <1>2

-----------------------------------------------------------------------------
Interval == [start : Int, end : Int]

\* The intervals are non-empty and each ends before every later one starts.
Ordered(iv) ==
    /\ iv \in Seq(Interval)
    /\ \A i \in DOMAIN iv : iv[i].start < iv[i].end
    /\ \A i, j \in DOMAIN iv : i < j => iv[i].end < iv[j].start

\* Byte b is in one of the first n intervals.
In(iv, n, b) == \E i \in DOMAIN iv : i <= n /\ iv[i].start <= b /\ b < iv[i].end

\* The types in an ordered sequence.
LEMMA OrderedType ==
    ASSUME NEW iv, Ordered(iv)
    PROVE  /\ iv \in Seq(Interval) /\ Len(iv) \in Nat /\ DOMAIN iv = 1 .. Len(iv)
           /\ \A i \in DOMAIN iv : iv[i].start \in Int /\ iv[i].end \in Int /\ iv[i].start < iv[i].end
<1>1. iv \in Seq(Interval) /\ \A i \in DOMAIN iv : iv[i].start < iv[i].end
  BY Zenon DEF Ordered
<1>2. Len(iv) \in Nat /\ DOMAIN iv = 1 .. Len(iv) /\ \A i \in DOMAIN iv : iv[i] \in Interval
  BY <1>1
<1>3. \A x \in Interval : x.start \in Int /\ x.end \in Int
  BY DEF Interval
<1> QED
  BY Zenon, <1>1, <1>2, <1>3

\* The invariant of AddRange's loop: A are its variables after n rounds over iv.
LoopInv(A, iv, s, e, n) ==
    /\ A.inserted \in BOOLEAN /\ A.new \in Interval
    /\ A = [merged |-> A.merged, new |-> A.new, inserted |-> A.inserted]
    /\ Ordered(A.merged)
    /\ \A k \in DOMAIN A.merged : \A j \in DOMAIN iv : n < j => A.merged[k].end < iv[j].start
    /\ ~A.inserted => /\ A.new.start < A.new.end
                      /\ \A k \in DOMAIN A.merged : A.merged[k].end < A.new.start
    /\ \A b \in Int :
            In(iv, n, b) \/ (s <= b /\ b < e)
            <=> \/ In(A.merged, Len(A.merged), b)
                \/ ~A.inserted /\ A.new.start <= b /\ b < A.new.end

\* What an interval at the end of a sequence adds.
LEMMA AppendOrdered ==
    ASSUME NEW iv, Ordered(iv), NEW x \in Interval, x.start < x.end,
           \A k \in DOMAIN iv : iv[k].end < x.start
    PROVE  /\ Ordered(Append(iv, x))
           /\ \A k \in DOMAIN Append(iv, x) : Append(iv, x)[k] = x \/ \E j \in DOMAIN iv : Append(iv, x)[k] = iv[j]
           /\ \A b \in Int : In(Append(iv, x), Len(Append(iv, x)), b)
                                <=> In(iv, Len(iv), b) \/ (x.start <= b /\ b < x.end)
<1> DEFINE y == Append(iv, x)
<1>1. iv \in Seq(Interval) /\ Len(iv) \in Nat /\ DOMAIN iv = 1 .. Len(iv)
  BY DEF Ordered
<1>2. /\ y \in Seq(Interval) /\ Len(y) = Len(iv) + 1 /\ DOMAIN y = 1 .. Len(iv) + 1
      /\ \A k \in 1 .. Len(iv) : y[k] = iv[k]
      /\ y[Len(iv) + 1] = x
  BY <1>1
<1> HIDE DEF y
<1>3. Ordered(y)
  BY <1>1, <1>2 DEF Ordered
<1>4. \A k \in DOMAIN y : y[k] = x \/ \E j \in DOMAIN iv : y[k] = iv[j]
  BY <1>1, <1>2
<1>5. ASSUME NEW b \in Int
      PROVE  In(y, Len(y), b) <=> In(iv, Len(iv), b) \/ (x.start <= b /\ b < x.end)
  <2>1. In(y, Len(y), b) => In(iv, Len(iv), b) \/ (x.start <= b /\ b < x.end)
    BY <1>1, <1>2 DEF In
  <2>2. In(iv, Len(iv), b) => In(y, Len(y), b)
    BY <1>1, <1>2 DEF In
  <2>3. x.start <= b /\ b < x.end => In(y, Len(y), b)
    <3>1. Len(iv) + 1 \in DOMAIN y /\ Len(iv) + 1 <= Len(y)
      BY <1>1, <1>2
    <3> QED
      BY <3>1, <1>2 DEF In
  <2> QED
    BY <2>1, <2>2, <2>3
<1> QED
  BY Zenon, <1>3, <1>4, <1>5 DEF y

\* What the branches of a round leave.
Kept(A, x)     == [A EXCEPT !.merged = Append(@, x)]
Inserted(A, x) == [A EXCEPT !.merged = Append(Append(@, A.new), x), !.inserted = TRUE]
Widened(A, x)  == [A EXCEPT !.new = [start |-> LowerOf(@.start, x.start),
                                     end   |-> HigherOf(@.end, x.end)]]

\* Which branch a round takes.
LEMMA MergeBranch ==
    ASSUME NEW A, NEW x, A.inserted \in BOOLEAN, A.new.end \in Int, x.start \in Int
    PROVE  /\ ~A.inserted /\ A.new.end < x.start => MergeStep(A, x) = Inserted(A, x)
           /\ A.inserted \/ (~(A.new.end < x.start) /\ A.new.start > x.end)
              => MergeStep(A, x) = Kept(A, x)
           /\ ~A.inserted /\ ~(A.new.end < x.start) /\ ~(A.new.start > x.end)
              => MergeStep(A, x) = Widened(A, x)
<1>1. MergeStep(A, x) = CASE A.inserted -> Kept(A, x)
                          [] ~A.inserted /\ A.new.end < x.start -> Inserted(A, x)
                          [] ~A.inserted /\ A.new.end >= x.start /\ A.new.start > x.end -> Kept(A, x)
                          [] OTHER -> Widened(A, x)
  BY Zenon DEF MergeStep, Kept, Inserted, Widened
<1>2. ~A.inserted /\ A.new.end < x.start => MergeStep(A, x) = Inserted(A, x)
  BY <1>1
<1>3. A.inserted => MergeStep(A, x) = Kept(A, x)
  BY <1>1
<1>4. ~A.inserted /\ ~(A.new.end < x.start) /\ A.new.start > x.end => MergeStep(A, x) = Kept(A, x)
  BY <1>1
<1>5. ~A.inserted /\ ~(A.new.end < x.start) /\ ~(A.new.start > x.end)
        => MergeStep(A, x) = Widened(A, x)
  BY <1>1
<1> QED
  BY Zenon, <1>2, <1>3, <1>4, <1>5

\* One round keeps the invariant.
LEMMA MergeStepInv ==
    ASSUME NEW iv, Ordered(iv), NEW s \in Int, NEW e \in Int, NEW n \in Nat, n + 1 \in DOMAIN iv,
           NEW A, LoopInv(A, iv, s, e, n)
    PROVE  LoopInv(MergeStep(A, iv[n + 1]), iv, s, e, n + 1)
<1> DEFINE x == iv[n + 1]
<1> DEFINE B == MergeStep(A, x)
<1>1. /\ x \in Interval /\ x.start \in Int /\ x.end \in Int /\ x.start < x.end
      /\ \A j \in DOMAIN iv : n + 1 < j => x.end < iv[j].start
      /\ \A k \in DOMAIN A.merged : A.merged[k].end < x.start
      /\ \A k \in DOMAIN A.merged : \A j \in DOMAIN iv : n + 1 < j => A.merged[k].end < iv[j].start
      /\ DOMAIN iv \subseteq Nat
  <2>1. DOMAIN iv \subseteq Nat /\ \A j \in DOMAIN iv : iv[j] \in Interval
    BY DEF Ordered
  <2>2. x.start < x.end /\ \A j \in DOMAIN iv : n + 1 < j => x.end < iv[j].start
    BY Zenon DEF Ordered
  <2>3. n < n + 1 /\ \A j \in DOMAIN iv : n + 1 < j => n < j
    BY <2>1
  <2>4. \A k \in DOMAIN A.merged : \A j \in DOMAIN iv : n < j => A.merged[k].end < iv[j].start
    BY Zenon DEF LoopInv
  <2>5. \A k \in DOMAIN A.merged : A.merged[k].end < x.start
    BY Zenon, <2>3, <2>4
  <2>6. x.start \in Int /\ x.end \in Int
    BY <2>1 DEF Interval
  <2> QED
    BY Zenon, <2>1, <2>2, <2>3, <2>4, <2>5, <2>6
<1>2. \A b \in Int : In(iv, n + 1, b) <=> In(iv, n, b) \/ (x.start <= b /\ b < x.end)
  <2> SUFFICES ASSUME NEW b \in Int
               PROVE  In(iv, n + 1, b) <=> In(iv, n, b) \/ (x.start <= b /\ b < x.end)
    OBVIOUS
  <2>1. \A i \in DOMAIN iv : i <= n + 1 <=> (i <= n \/ i = n + 1)
    BY <1>1
  <2> QED
    BY Zenon, <2>1 DEF In
<1>3. /\ A = [merged |-> A.merged, new |-> A.new, inserted |-> A.inserted]
      /\ A.inserted \in BOOLEAN /\ A.new \in Interval /\ A.new.start \in Int /\ A.new.end \in Int
      /\ Ordered(A.merged)
  BY DEF LoopInv, Interval
<1>x. x = iv[n + 1]
  OBVIOUS
<1> HIDE DEF x
<1>y. A.inserted \in BOOLEAN /\ A.new.end \in Int /\ x.start \in Int
  BY Zenon, <1>1, <1>3
<1>4. CASE A.inserted \/ (~(A.new.end < x.start) /\ A.new.start > x.end)
  <2>1. B = [merged |-> Append(A.merged, x), new |-> A.new, inserted |-> A.inserted]
    <3>1. B = Kept(A, x)
      BY <1>y, <1>4, MergeBranch
    <3> HIDE DEF B
    <3> QED
      BY <3>1, <1>3 DEF Kept
  <2> HIDE DEF B
  <2>2. /\ Ordered(B.merged)
        /\ \A k \in DOMAIN B.merged : B.merged[k] = x \/ \E j \in DOMAIN A.merged : B.merged[k] = A.merged[j]
        /\ \A b \in Int : In(B.merged, Len(B.merged), b)
                             <=> In(A.merged, Len(A.merged), b) \/ (x.start <= b /\ b < x.end)
    BY <2>1, <1>1, <1>3, AppendOrdered
  <2>3. \A k \in DOMAIN B.merged : \A j \in DOMAIN iv : n + 1 < j => B.merged[k].end < iv[j].start
    BY <2>2, <1>1
  <2>4. ~B.inserted => /\ B.new.start < B.new.end
                       /\ \A k \in DOMAIN B.merged : B.merged[k].end < B.new.start
    BY <2>1, <2>2, <1>4, <1>1, <1>3 DEF LoopInv
  <2>5. \A b \in Int :
            In(iv, n + 1, b) \/ (s <= b /\ b < e)
            <=> \/ In(B.merged, Len(B.merged), b)
                \/ ~B.inserted /\ B.new.start <= b /\ b < B.new.end
    BY <2>1, <2>2, <1>2 DEF LoopInv
  <2>6. B = [merged |-> B.merged, new |-> B.new, inserted |-> B.inserted]
        /\ B.inserted \in BOOLEAN /\ B.new \in Interval
    BY <2>1, <1>3
  <2> QED
    BY Zenon, <2>2, <2>3, <2>4, <2>5, <2>6, <1>x DEF LoopInv, B
<1>5. CASE ~A.inserted /\ A.new.end < x.start
  <2> DEFINE C == Append(A.merged, A.new)
  <2>1. B = [merged |-> Append(C, x), new |-> A.new, inserted |-> TRUE]
    <3>1. B = Inserted(A, x)
      BY <1>y, <1>5, MergeBranch
    <3> HIDE DEF B
    <3> QED
      BY Zenon, <3>1, <1>3 DEF Inserted
  <2>a. A.new.start < A.new.end /\ \A k \in DOMAIN A.merged : A.merged[k].end < A.new.start
    BY <1>5 DEF LoopInv
  <2> HIDE DEF B, C
  <2>2. /\ Ordered(C)
        /\ \A k \in DOMAIN C : C[k] = A.new \/ \E j \in DOMAIN A.merged : C[k] = A.merged[j]
        /\ \A b \in Int : In(C, Len(C), b)
                             <=> In(A.merged, Len(A.merged), b) \/ (A.new.start <= b /\ b < A.new.end)
    BY <2>a, <1>3, AppendOrdered DEF C
  <2>b. \A k \in DOMAIN C : C[k].end < x.start
    <3> SUFFICES ASSUME NEW k \in DOMAIN C PROVE C[k].end < x.start
      OBVIOUS
    <3>1. CASE C[k] = A.new
      BY Zenon, <3>1, <1>5
    <3>2. CASE \E j \in DOMAIN A.merged : C[k] = A.merged[j]
      BY Zenon, <3>2, <1>1
    <3> QED
      BY Zenon, <3>1, <3>2, <2>2
  <2>3. /\ Ordered(B.merged)
        /\ \A k \in DOMAIN B.merged : B.merged[k] = x \/ \E j \in DOMAIN C : B.merged[k] = C[j]
        /\ \A b \in Int : In(B.merged, Len(B.merged), b)
                             <=> In(C, Len(C), b) \/ (x.start <= b /\ b < x.end)
    BY <2>1, <2>2, <2>b, <1>1, AppendOrdered
  <2>c. A.new.end \in Int /\ \A j \in DOMAIN iv : n + 1 < j => A.new.end < iv[j].start
    <3> SUFFICES ASSUME NEW j \in DOMAIN iv, n + 1 < j PROVE A.new.end < iv[j].start
      BY <1>3
    <3>1. x.end < iv[j].start /\ iv[j].start \in Int
      <4>1. iv[j] \in Interval
        BY DEF Ordered
      <4> QED
        BY <4>1, <1>1 DEF Interval
    <3> QED
      BY <3>1, <1>1, <1>3, <1>5
  <2>4. \A k \in DOMAIN B.merged : \A j \in DOMAIN iv : n + 1 < j => B.merged[k].end < iv[j].start
    <3> SUFFICES ASSUME NEW k \in DOMAIN B.merged, NEW j \in DOMAIN iv, n + 1 < j
                 PROVE  B.merged[k].end < iv[j].start
      OBVIOUS
    <3>1. CASE B.merged[k] = x
      BY <3>1, <1>1
    <3>2. CASE \E i \in DOMAIN C : B.merged[k] = C[i]
      BY Zenon, <3>2, <2>2, <2>c, <1>1
    <3> QED
      BY <3>1, <3>2, <2>3
  <2>5. \A b \in Int :
            In(iv, n + 1, b) \/ (s <= b /\ b < e)
            <=> \/ In(B.merged, Len(B.merged), b)
                \/ ~B.inserted /\ B.new.start <= b /\ b < B.new.end
    <3> SUFFICES ASSUME NEW b \in Int
                 PROVE In(iv, n + 1, b) \/ (s <= b /\ b < e) <=> In(B.merged, Len(B.merged), b)
      BY <2>1
    <3>1. In(iv, n, b) \/ (s <= b /\ b < e)
            <=> In(A.merged, Len(A.merged), b) \/ (A.new.start <= b /\ b < A.new.end)
      BY <1>5 DEF LoopInv
    <3> QED
      BY Zenon, <3>1, <2>2, <2>3, <1>2
  <2>6. B = [merged |-> B.merged, new |-> B.new, inserted |-> B.inserted]
        /\ B.inserted /\ B.new \in Interval
    BY <2>1, <1>3
  <2> QED
    BY Zenon, <2>3, <2>4, <2>5, <2>6, <1>x DEF LoopInv, B
<1>6. CASE ~A.inserted /\ ~(A.new.end < x.start) /\ ~(A.new.start > x.end)
  <2> DEFINE w == [start |-> LowerOf(A.new.start, x.start), end |-> HigherOf(A.new.end, x.end)]
  <2>1. B = [merged |-> A.merged, new |-> w, inserted |-> FALSE]
    <3>1. B = Widened(A, x)
      BY <1>y, <1>6, MergeBranch
    <3> HIDE DEF B
    <3> QED
      BY Zenon, <3>1, <1>3, <1>6 DEF Widened
  <2>2. w \in Interval /\ w.start < w.end /\ w.start \in {A.new.start, x.start}
    BY <1>1, <1>3 DEF LowerOf, HigherOf, Interval
  <2>3. \A b \in Int : w.start <= b /\ b < w.end
            <=> (A.new.start <= b /\ b < A.new.end) \/ (x.start <= b /\ b < x.end)
    BY <1>1, <1>3, <1>6 DEF LowerOf, HigherOf, LoopInv
  <2> HIDE DEF B, w
  <2>4. \A k \in DOMAIN B.merged : B.merged[k].end < B.new.start
    BY <2>1, <2>2, <1>1, <1>6 DEF LoopInv
  <2>5. \A b \in Int :
            In(iv, n + 1, b) \/ (s <= b /\ b < e)
            <=> \/ In(B.merged, Len(B.merged), b)
                \/ ~B.inserted /\ B.new.start <= b /\ b < B.new.end
    <3> SUFFICES ASSUME NEW b \in Int
                 PROVE In(iv, n + 1, b) \/ (s <= b /\ b < e)
                        <=> In(A.merged, Len(A.merged), b) \/ (w.start <= b /\ b < w.end)
      BY <2>1
    <3>1. In(iv, n, b) \/ (s <= b /\ b < e)
            <=> In(A.merged, Len(A.merged), b) \/ (A.new.start <= b /\ b < A.new.end)
      BY <1>6 DEF LoopInv
    <3> QED
      BY Zenon, <3>1, <2>3, <1>2
  <2>6. /\ B = [merged |-> B.merged, new |-> B.new, inserted |-> B.inserted]
        /\ B.inserted = FALSE /\ B.new \in Interval /\ B.new.start < B.new.end
        /\ B.merged = A.merged
    BY <2>1, <2>2
  <2> QED
    <3>1. \A k \in DOMAIN B.merged : \A j \in DOMAIN iv : n + 1 < j => B.merged[k].end < iv[j].start
      BY Zenon, <2>6, <1>1
    <3>2. Ordered(B.merged) /\ B.inserted \in BOOLEAN
      BY Zenon, <2>6, <1>3
    <3>3. LoopInv(B, iv, s, e, n + 1)
      BY Zenon, <3>1, <3>2, <2>4, <2>5, <2>6 DEF LoopInv
    <3> QED
      BY Zenon, <3>3, <1>x DEF B
<1> QED
  BY Zenon, <1>4, <1>5, <1>6
\* AddRange records exactly the bytes it is given, in normal form.
LEMMA AddRangeExact ==
    ASSUME NEW iv, Ordered(iv), NEW s \in Nat, NEW e \in Int
    PROVE  /\ Ordered(AddRange(iv, s, e))
           /\ \A b \in Int : In(AddRange(iv, s, e), Len(AddRange(iv, s, e)), b)
                                <=> In(iv, Len(iv), b) \/ (s <= b /\ b < e)
<1>1. iv \in Seq(Interval) /\ Len(iv) \in Nat /\ DOMAIN iv = 1 .. Len(iv)
  BY DEF Ordered
<1>2. CASE s >= e
  <2>1. AddRange(iv, s, e) = iv
    BY Zenon, <1>2 DEF AddRange
  <2>2. \A b \in Int : ~(s <= b /\ b < e)
    BY <1>2
  <2> QED
    BY Zenon, <2>1, <2>2
<1>3. CASE ~(s >= e)
  <2> DEFINE f == MergeLoop(iv, s, e)
  <2> DEFINE Bad == {k \in 0 .. Len(iv) : ~LoopInv(f[k], iv, s, e, k)}
  <2>1. Rounds(f, iv, s, e, Len(iv))
    BY <1>1, MergeLoopRounds
  <2> HIDE DEF f
  <2>2. f[0] = [merged |-> << >>, new |-> [start |-> s, end |-> e], inserted |-> FALSE]
    BY <2>1, <1>1 DEF Rounds
  <2>3. \A k \in 0 .. Len(iv) : k # 0 => f[k] = MergeStep(f[k - 1], iv[k])
    BY Zenon, <2>1, <1>1 DEF Rounds
  <2>4. LoopInv(f[0], iv, s, e, 0)
    <3>1. DOMAIN << >> = {} /\ Len(<< >>) = 0 /\ << >> \in Seq(Interval)
      OBVIOUS
    <3>2. \A i \in DOMAIN iv : ~(i <= 0)
      BY <1>1
    <3>3. Ordered(<< >>) /\ \A b \in Int : ~In(<< >>, 0, b) /\ ~In(iv, 0, b)
      BY Zenon, <3>1, <3>2 DEF Ordered, In
    <3>4. /\ [start |-> s, end |-> e] \in Interval /\ s < e
          /\ f[0].merged = << >> /\ f[0].new.start = s /\ f[0].new.end = e
          /\ f[0].new = [start |-> s, end |-> e] /\ f[0].inserted = FALSE
      BY <2>2, <1>3 DEF Interval
    <3>5. f[0] = [merged |-> f[0].merged, new |-> f[0].new, inserted |-> f[0].inserted]
      BY <2>2
    <3> QED
      BY Zenon, <3>1, <3>3, <3>4, <3>5 DEF LoopInv
  <2>5. Bad = {}
    <3> SUFFICES ASSUME Bad # {} PROVE FALSE
      OBVIOUS
    <3>1. PICK k \in Bad : \A j \in Bad : k <= j
      <4>1. Bad \in SUBSET Nat
        BY <1>1
      <4> HIDE DEF Bad
      <4> QED
        BY <4>1, Smallest
    <3>2. k \in 0 .. Len(iv) /\ k # 0
      BY <3>1, <2>4
    <3>3. k - 1 \in Nat /\ k - 1 \in 0 .. Len(iv) /\ (k - 1) + 1 = k /\ k \in DOMAIN iv
      BY <3>2, <1>1
    <3>4. LoopInv(f[k - 1], iv, s, e, k - 1)
      BY <3>1, <3>3
    <3>5. LoopInv(MergeStep(f[k - 1], iv[(k - 1) + 1]), iv, s, e, (k - 1) + 1)
      <4> HIDE DEF Bad
      <4> QED
        BY <3>3, <3>4, MergeStepInv
    <3>6. LoopInv(f[k], iv, s, e, k)
      BY Zenon, <3>5, <3>3, <3>2, <2>3
    <3> QED
      BY Zenon, <3>6, <3>1
  <2> DEFINE A == f[Len(iv)]
  <2>6. LoopInv(A, iv, s, e, Len(iv))
    BY <2>5, <1>1
  <2>7. AddRange(iv, s, e) = IF A.inserted THEN A.merged ELSE Append(A.merged, A.new)
    BY <1>3 DEF AddRange, f
  <2> HIDE DEF A
  <2>8. Ordered(A.merged) /\ A.new \in Interval
    BY Zenon, <2>6 DEF LoopInv
  <2>9. CASE A.inserted
    BY Zenon, <2>9, <2>6, <2>7 DEF LoopInv
  <2>10. CASE ~A.inserted
    <3>1. A.new.start < A.new.end /\ \A k \in DOMAIN A.merged : A.merged[k].end < A.new.start
      BY Zenon, <2>10, <2>6 DEF LoopInv
    <3> DEFINE r == Append(A.merged, A.new)
    <3>2. /\ Ordered(r)
          /\ \A b \in Int : In(r, Len(r), b)
                <=> In(A.merged, Len(A.merged), b) \/ (A.new.start <= b /\ b < A.new.end)
      BY <3>1, <2>8, AppendOrdered
    <3>3. r = AddRange(iv, s, e)
      BY <2>7, <2>10
    <3> HIDE DEF r
    <3> QED
      BY Zenon, <3>2, <3>3, <2>10, <2>6 DEF LoopInv
  <2> QED
    BY Zenon, <2>9, <2>10
<1> QED
  BY Zenon, <1>2, <1>3

\* The reference, byte by byte.
LEMMA CoveredIn ==
    ASSUME NEW iv, Ordered(iv)
    PROVE  /\ Normal(iv) /\ Covered(iv) \subseteq Int
           /\ \A b \in Int : b \in Covered(iv) <=> In(iv, Len(iv), b)
<1>1. /\ iv \in Seq(Interval) /\ Len(iv) \in Nat /\ DOMAIN iv = 1 .. Len(iv)
      /\ \A i \in DOMAIN iv : iv[i].start \in Int /\ iv[i].end \in Int
  BY Zenon, OrderedType
<1>2. Normal(iv)
  <2>1. \A i \in 1 .. Len(iv) - 1 : i \in DOMAIN iv /\ i + 1 \in DOMAIN iv /\ i < i + 1
    BY <1>1
  <2> QED
    BY Zenon, <2>1 DEF Ordered, Normal
<1>3. \A b : b \in Covered(iv) <=> \E i \in DOMAIN iv : b \in iv[i].start .. iv[i].end - 1
  BY Zenon DEF Covered
<1>4. Covered(iv) \subseteq Int
  BY <1>3, <1>1
<1>5. \A b \in Int : \A i \in DOMAIN iv :
        b \in iv[i].start .. iv[i].end - 1 <=> i <= Len(iv) /\ iv[i].start <= b /\ b < iv[i].end
  BY <1>1
<1>6. \A b \in Int : b \in Covered(iv) <=> In(iv, Len(iv), b)
  BY Zenon, <1>3, <1>5 DEF In
<1> QED
  BY Zenon, <1>2, <1>4, <1>6

\* What IsComplete tells of the bytes.
LEMMA CompleteIsCovered ==
    ASSUME NEW iv, Ordered(iv), NEW size \in Nat, IsComplete(iv, size)
    PROVE  0 .. size - 1 \subseteq Covered(iv)
<1> SUFFICES ASSUME NEW b \in 0 .. size - 1 PROVE In(iv, Len(iv), b)
  BY CoveredIn
<1>1. b \in Int /\ 1 \in DOMAIN iv /\ 1 <= Len(iv) /\ iv[1].start <= b /\ b < iv[1].end
  <2>1. Len(iv) = 1 /\ iv[1].start = 0 /\ iv[1].end >= size
    BY DEF IsComplete
  <2> QED
    BY <2>1, OrderedType
<1> QED
  BY Zenon, <1>1 DEF In

\* A tracker whose intervals cover the whole file says that it is complete.
LEMMA CoveredIsComplete ==
    ASSUME NEW iv, Ordered(iv), NEW size \in Nat, Covered(iv) = 0 .. size - 1
    PROVE  IsComplete(iv, size)
<1> SUFFICES ASSUME size > 0 PROVE IsComplete(iv, size)
  BY DEF IsComplete
<1>1. \A b \in Int : In(iv, Len(iv), b) <=> 0 <= b /\ b < size
  <2>1. \A b \in Int : b \in 0 .. size - 1 <=> 0 <= b /\ b < size
    OBVIOUS
  <2> QED
    BY Zenon, <2>1, CoveredIn
<1>2. /\ iv \in Seq(Interval) /\ Len(iv) \in Nat /\ DOMAIN iv = 1 .. Len(iv)
      /\ \A i \in DOMAIN iv : iv[i].start \in Int /\ iv[i].end \in Int /\ iv[i].start < iv[i].end
  BY Zenon, OrderedType
<1>3. 1 \in DOMAIN iv
  <2>1. In(iv, Len(iv), 0)
    BY <1>1
  <2> QED
    BY <2>1, <1>2 DEF In
<1>4. Len(iv) = 1
  <2> SUFFICES ASSUME 2 \in DOMAIN iv PROVE FALSE
    BY <1>2, <1>3
  <2>1. iv[1].end < iv[2].start
    BY <1>3 DEF Ordered
  <2>a. ASSUME NEW i \in DOMAIN iv PROVE In(iv, Len(iv), iv[i].start)
    <3>1. i <= Len(iv) /\ iv[i].start <= iv[i].start /\ iv[i].start < iv[i].end
      BY <1>2
    <3> QED
      BY Zenon, <3>1 DEF In
  <2>2. In(iv, Len(iv), iv[1].start) /\ In(iv, Len(iv), iv[2].start)
    BY Zenon, <2>a, <1>3
  <2>3. In(iv, Len(iv), iv[1].end)
    BY <2>1, <2>2, <1>1, <1>2, <1>3
  <2>4. PICK i \in DOMAIN iv : iv[i].start <= iv[1].end /\ iv[1].end < iv[i].end
    BY <2>3 DEF In
  <2>5. i = 1 \/ iv[1].end < iv[i].start
    BY <1>2, <1>3 DEF Ordered
  <2> QED
    BY <2>4, <2>5, <1>2, <1>3
<1>5. \A b \in Int : iv[1].start <= b /\ b < iv[1].end <=> 0 <= b /\ b < size
  <2>1. \A i \in DOMAIN iv : i = 1 /\ i <= Len(iv)
    BY <1>2, <1>4
  <2> QED
    BY Zenon, <2>1, <1>1, <1>3 DEF In
<1>6. iv[1].start = 0 /\ iv[1].end >= size
  <2>1. iv[1].start <= 0
    BY <1>5
  <2>2. 0 <= iv[1].start
    BY <1>5, <1>2, <1>3
  <2>3. size - 1 < iv[1].end
    BY <1>5
  <2> QED
    BY <2>1, <2>2, <2>3, <1>2, <1>3
<1> QED
  BY <1>4, <1>6 DEF IsComplete

-----------------------------------------------------------------------------
\* The inductive invariant of the tracker.
TrackerInv ==
    /\ Ordered(tracked) /\ bytes \subseteq Int
    /\ \A b \in Int : b \in bytes <=> In(tracked, Len(tracked), b)

\* Every step of a writer keeps the intervals ordered and exact.
LEMMA TrackerStep == TrackerInv /\ [TrackerNext]_trackerVars => TrackerInv'
<1> SUFFICES ASSUME TrackerInv, [TrackerNext]_trackerVars PROVE TrackerInv'
  OBVIOUS
<1>1. CASE UNCHANGED trackerVars
  BY Zenon, <1>1 DEF TrackerInv, trackerVars
<1>2. ASSUME NEW s \in 0 .. MaxByte, NEW e \in 0 .. MaxByte, TrackRange(s, e)
      PROVE  TrackerInv'
  <2>1. s \in Nat /\ e \in Int
    BY TrackerAssumption
  <2>2. /\ Ordered(tracked')
        /\ \A b \in Int : In(tracked', Len(tracked'), b)
                            <=> In(tracked, Len(tracked), b) \/ (s <= b /\ b < e)
    BY <2>1, <1>2, AddRangeExact DEF TrackRange, TrackerInv
  <2>3. bytes' \subseteq Int /\ \A b \in Int : b \in bytes' <=> b \in bytes \/ (s <= b /\ b < e)
    BY <2>1, <1>2 DEF TrackRange, TrackerInv
  <2> QED
    BY Zenon, <2>2, <2>3 DEF TrackerInv
<1> QED
  BY Zenon, <1>1, <1>2 DEF TrackerNext

\* After any number of writes, in any order and overlapping in any way, the intervals
\* AddRange keeps are sorted, apart, and cover exactly the bytes written;
\* IsComplete claims no byte that is missing, and a file whose bytes are all there,
\* none past its size, is complete.
THEOREM TrackerExact == TrackerSpec => []TrackerIsExact
<1>1. TrackerInit => TrackerInv
  <2> SUFFICES ASSUME TrackerInit PROVE TrackerInv
    OBVIOUS
  <2>1. DOMAIN << >> = {} /\ << >> \in Seq(Interval)
    OBVIOUS
  <2> QED
    BY Zenon, <2>1 DEF TrackerInit, TrackerInv, Ordered, In
<1>2. TrackerInv => TrackerIsExact
  <2> SUFFICES ASSUME TrackerInv PROVE TrackerIsExact
    OBVIOUS
  <2>1. Normal(tracked) /\ Covered(tracked) = bytes
    BY Zenon, CoveredIn DEF TrackerInv
  <2>2. ASSUME NEW size \in 0 .. MaxByte
        PROVE  /\ IsComplete(tracked, size) => 0 .. size - 1 \subseteq bytes
               /\ bytes = 0 .. size - 1 => IsComplete(tracked, size)
    <3>1. size \in Nat /\ Ordered(tracked)
      BY TrackerAssumption DEF TrackerInv
    <3> QED
      BY Zenon, <3>1, <2>1, CompleteIsCovered, CoveredIsComplete
  <2> QED
    BY Zenon, <2>1, <2>2 DEF TrackerIsExact
<1> QED
  BY <1>1, <1>2, TrackerStep, PTL DEF TrackerSpec

-----------------------------------------------------------------------------
(***************************************************************************)
(* Transfer: permits are conserved, and few requests go into a cooldown.  *)
(***************************************************************************)

\* The types the steps of the workers need.
Places == {"next", "gate", "sem", "held", "cleared", "rpc", "write", "done"}
WorkerType == [pc : Places, off : Int, wait : Int, n : Int]
FileType == [state : {"new", "running", "ended"}, next : Int, eof : BOOLEAN, count : Int,
             ctx : {"live", "cancelled"}, err : Errors, werr : BOOLEAN, class : Classes]

TransferShape ==
    /\ permits \in Nat
    /\ cooldown \in [DCs -> Nat]
    /\ late \in [DCs -> Nat]
    /\ file \in [Files -> FileType]
    /\ DOMAIN worker = Files
    /\ \A f \in Files : worker[f] \in [Threads(f) -> WorkerType]

\* The workers that hold a permit are finitely many, and as many as are missing
\* at the gate.
TransferInv == TransferShape /\ IsFiniteSet(Holders) /\ PermitsConserved

Holds(f, t) == \E p \in {"held", "cleared", "rpc"} : AtPc(f, t, p)

\* Only worker t of file f moves, and it moves from a place in A to one in B.
Moves(f, t, A, B) ==
    /\ file[f].state = "running" /\ worker[f][t].pc \in A /\ worker'[f][t].pc \in B
    /\ \A g \in Files : file'[g].state = file[g].state
    /\ \A g \in Files : \A u \in Threads(g) :
            (g # f \/ u # t) => worker'[g][u].pc = worker[g][u].pc

\* What a step of a worker does to the gate, named for its effect.
Without == Places \ {"held", "cleared", "rpc"}

\* A failed request starts or prolongs the cooldown of its own data centre.
Warns(f, t) ==
    \A dc \in DCs :
        \/ cooldown'[dc] = cooldown[dc]
        \/ dc = DcOf[f] /\ worker[f][t].pc = "rpc" /\ cooldown'[dc] > 0

Passes(f, t) == Moves(f, t, Without, Without) /\ UNCHANGED <<permits, cooldown, late>>
Takes(f, t)  ==
    Moves(f, t, {"sem"}, {"held"}) /\ permits > 0 /\ permits' = permits - 1
    /\ UNCHANGED <<cooldown, late>>
Clears(f, t) ==
    Moves(f, t, {"held"}, {"cleared"}) /\ UNCHANGED <<permits, cooldown, late>>
    /\ ~IsDCCooledDown(DcOf[f])
Sends(f, t)  ==
    Moves(f, t, {"cleared"}, {"rpc"}) /\ UNCHANGED <<permits, cooldown>> /\ CountSent(DcOf[f])
Gives(f, t)  ==
    Moves(f, t, {"held", "rpc"}, Without) /\ permits' = permits + 1
    /\ Warns(f, t) /\ UNCHANGED late

Effect(f, t) ==
    Passes(f, t) \/ Takes(f, t) \/ Clears(f, t) \/ Sends(f, t) \/ Gives(f, t)

\* A step of no worker: nobody takes, gives or uses a permit.
Rests ==
    /\ permits' = permits
    /\ UNCHANGED <<cooldown, late>> \/ CooldownTick
    /\ \A f \in Files : \A t \in Threads(f) :
            /\ Holds(f, t)' <=> Holds(f, t)
            /\ AtPc(f, t, "cleared")' <=> AtPc(f, t, "cleared")

-----------------------------------------------------------------------------
\* ComputeFileThreads starts no more workers than a file may have.
LEMMA ThreadBound == \A f \in Files : Threads(f) \subseteq 1 .. MaxFileThreads
<1> SUFFICES ASSUME NEW f \in Files PROVE Threads(f) \subseteq 1 .. MaxFileThreads
  OBVIOUS
<1>1. ComputeChunkCount(Size[f]) \in Int
  BY TransferAssumption DEF ComputeChunkCount
<1> QED
  BY <1>1, TransferAssumption DEF Threads, ComputeFileThreads, HigherOf, LowerOf

\* Worker t of f now has the record w, and the others keep theirs.
OnlyWorker(f, t, w) ==
    /\ DOMAIN worker' = Files
    /\ \A g \in Files : worker'[g] \in [Threads(g) -> WorkerType]
    /\ worker'[f][t] = w
    /\ \A g \in Files : \A u \in Threads(g) : (g # f \/ u # t) => worker'[g][u] = worker[g][u]

\* The update of one worker changes no other.
LEMMA WorkerSet ==
    ASSUME TransferShape, NEW f \in Files, NEW t \in Threads(f), NEW w \in WorkerType,
           worker' = [worker EXCEPT ![f][t] = w]
    PROVE  OnlyWorker(f, t, w)
<1>1. \A g \in Files : worker'[g] = IF g = f THEN [worker[f] EXCEPT ![t] = w] ELSE worker[g]
  BY DEF TransferShape
<1>2. worker[f] \in [Threads(f) -> WorkerType]
  BY DEF TransferShape
<1>3. worker'[f] \in [Threads(f) -> WorkerType] /\ worker'[f][t] = w
  BY <1>1, <1>2
<1>4. \A g \in Files : \A u \in Threads(g) : (g # f \/ u # t) => worker'[g][u] = worker[g][u]
  BY <1>1, <1>2
<1> QED
  BY <1>1, <1>3, <1>4 DEF TransferShape, OnlyWorker

\* One file's record is replaced, its state kept.
LEMMA FileSet ==
    ASSUME TransferShape, NEW f \in Files, NEW r \in FileType, r.state = file[f].state,
           file' = [file EXCEPT ![f] = r]
    PROVE  /\ file' \in [Files -> FileType]
           /\ \A g \in Files : file'[g].state = file[g].state
BY DEF TransferShape

\* The end of a worker with an error.
LEMMA FailsShape ==
    ASSUME TransferShape, NEW f \in Files, NEW t \in Threads(f), NEW e \in Errors, Fails(f, t, e)
    PROVE  /\ worker' = [worker EXCEPT ![f][t] = Between("done")]
           /\ file' \in [Files -> FileType]
           /\ \A g \in Files : file'[g].state = file[g].state
<1> DEFINE e1 == IF file[f].err = "none" THEN e ELSE file[f].err
           r == [file[f] EXCEPT !.err = e1]
<1>1. file[f] \in FileType
  BY DEF TransferShape
<1>2. e1 \in Errors
  BY <1>1 DEF FileType
<1>3. file' = [file EXCEPT ![f] = r]
  BY DEF Fails
<1> HIDE DEF e1
<1>4. r \in FileType /\ r.state = file[f].state
  BY <1>1, <1>2 DEF FileType
<1> HIDE DEF r
<1>5. worker' = [worker EXCEPT ![f][t] = Between("done")]
  BY DEF Fails, Leave
<1> QED
  BY Zenon, <1>3, <1>4, <1>5, FileSet

\* Invoke sends the worker to the gate, or ends it when the budget is used up.
LEMMA InvokeShape ==
    ASSUME TransferShape, NEW f \in Files, NEW t \in Threads(f), NEW off \in Int, NEW next \in Int,
           Invoke(f, t, off, next)
    PROVE  /\ file' \in [Files -> FileType]
           /\ \A g \in Files : file'[g].state = file[g].state
           /\ \E w \in WorkerType : /\ worker' = [worker EXCEPT ![f][t] = w]
                                    /\ w.pc \in {"gate", "done"}
<1>1. CASE file[f].count < ComputeRequestBudget(Size[f])
  <2>1. /\ worker' = [worker EXCEPT ![f][t] = [Between("gate") EXCEPT !.off = off]]
        /\ file' = [file EXCEPT ![f].count = @ + 1, ![f].next = next]
    BY <1>1 DEF Invoke
  <2>2. [Between("gate") EXCEPT !.off = off] = [pc |-> "gate", off |-> off, wait |-> 0, n |-> 0]
    BY DEF Between
  <2>3. [pc |-> "gate", off |-> off, wait |-> 0, n |-> 0] \in WorkerType
    BY DEF WorkerType, Places
  <2>4. file' \in [Files -> FileType] /\ \A g \in Files : file'[g].state = file[g].state
    <3> DEFINE c == file[f].count + 1
               r == [file[f] EXCEPT !.count = c, !.next = next]
    <3>1. file[f] \in FileType
      BY DEF TransferShape
    <3>1a. c \in Int
      BY <3>1 DEF FileType
    <3>2. file' = [file EXCEPT ![f] = r]
      BY Zenon, <2>1 DEF TransferShape
    <3> HIDE DEF c
    <3>3. r \in FileType /\ r.state = file[f].state
      BY Zenon, <3>1, <3>1a DEF FileType
    <3> HIDE DEF r
    <3> QED
      BY Zenon, <3>2, <3>3, FileSet
  <2> QED
    BY Zenon, <2>1, <2>2, <2>3, <2>4
<1>2. CASE ~(file[f].count < ComputeRequestBudget(Size[f]))
  <2>1. Fails(f, t, "budget")
    BY <1>2 DEF Invoke
  <2>2. Between("done") \in WorkerType /\ Between("done").pc = "done"
    BY DEF Between, WorkerType, Places
  <2> QED
    BY <2>1, <2>2, FailsShape DEF Errors
<1> QED
  BY <1>1, <1>2

\* From the record a step gives one worker: the shape and the move.
LEMMA Moved ==
    ASSUME TransferShape, NEW f \in Files, NEW t \in Threads(f), NEW w \in WorkerType, NEW A, NEW B,
           file[f].state = "running", worker[f][t].pc \in A, w.pc \in B,
           worker' = [worker EXCEPT ![f][t] = w],
           file' \in [Files -> FileType], \A g \in Files : file'[g].state = file[g].state,
           permits' \in Nat, cooldown' \in [DCs -> Nat], late' \in [DCs -> Nat]
    PROVE  TransferShape' /\ Moves(f, t, A, B)
<1>1. OnlyWorker(f, t, w)
  BY Zenon, WorkerSet
<1>2. TransferShape'
  BY <1>1 DEF TransferShape, OnlyWorker
<1>3. Moves(f, t, A, B)
  BY <1>1 DEF Moves, OnlyWorker
<1> QED
  BY <1>2, <1>3

\* The same for a step that leaves the files alone.
LEMMA MovedOnly ==
    ASSUME TransferShape, NEW f \in Files, NEW t \in Threads(f), NEW w \in WorkerType, NEW A, NEW B,
           file[f].state = "running", worker[f][t].pc \in A, w.pc \in B,
           worker' = [worker EXCEPT ![f][t] = w], UNCHANGED <<file, cooldown, late>>, permits' \in Nat
    PROVE  TransferShape' /\ Moves(f, t, A, B)
<1>1. file' \in [Files -> FileType] /\ cooldown' \in [DCs -> Nat] /\ late' \in [DCs -> Nat]
  BY DEF TransferShape
<1>2. \A g \in Files : file'[g].state = file[g].state
  OBVIOUS
<1> QED
  BY Zenon, <1>1, <1>2, Moved

-----------------------------------------------------------------------------
(***************************************************************************)
(* The steps of a worker.                                                  *)
(***************************************************************************)
LEMMA RequestPartEffect ==
    ASSUME TransferShape, NEW f \in Files, NEW t \in Threads(f), RequestPart(f, t)
    PROVE  TransferShape' /\ Passes(f, t)
<1>1. file[f].next \in Int /\ file[f].next + PartSize \in Int
  BY TransferAssumption DEF TransferShape, FileType
<1>2. PICK w \in WorkerType : /\ worker' = [worker EXCEPT ![f][t] = w]
                              /\ w.pc \in {"gate", "done"}
  BY <1>1, InvokeShape DEF RequestPart
<1>3. file' \in [Files -> FileType] /\ \A g \in Files : file'[g].state = file[g].state
  BY <1>1, InvokeShape DEF RequestPart
<1>4. /\ permits' \in Nat /\ cooldown' \in [DCs -> Nat] /\ late' \in [DCs -> Nat]
      /\ UNCHANGED <<permits, cooldown, late>>
  BY DEF RequestPart, gateVars, TransferShape
<1>5. file[f].state = "running" /\ worker[f][t].pc \in Without /\ w.pc \in Without
  BY <1>2 DEF RequestPart, AtPc, Without, Places
<1> QED
  BY Zenon, <1>2, <1>3, <1>4, <1>5, Moved DEF Passes

\* A worker at the cooldown.
LEMMA CheckCooldownEffect ==
    ASSUME TransferShape, NEW f \in Files, NEW t \in Threads(f), CheckCooldown(f, t)
    PROVE  TransferShape' /\ Passes(f, t)
<1> DEFINE p == IF IsDCCooledDown(DcOf[f]) THEN "gate" ELSE "sem"
           w == [worker[f][t] EXCEPT !.pc = p, !.wait = cooldown[DcOf[f]]]
<1>1. worker[f][t] \in WorkerType /\ cooldown[DcOf[f]] \in Int /\ p \in {"gate", "sem"}
  BY TransferAssumption DEF TransferShape
<1>2. worker' = [worker EXCEPT ![f][t] = w]
  BY Zenon DEF CheckCooldown, TransferShape
<1> HIDE DEF p
<1>3. w \in WorkerType /\ w.pc \in Without
  BY Zenon, <1>1 DEF WorkerType, Places, Without
<1> HIDE DEF w
<1>4. permits' \in Nat /\ UNCHANGED <<permits, file, cooldown, late>>
  BY DEF CheckCooldown, gateVars, TransferShape
<1>5. file[f].state = "running" /\ worker[f][t].pc \in Without
  BY DEF CheckCooldown, AtPc, Without, Places
<1> QED
  BY Zenon, <1>2, <1>3, <1>4, <1>5, MovedOnly DEF Passes

\* A worker that takes a permit.
LEMMA AcquireEffect ==
    ASSUME TransferShape, NEW f \in Files, NEW t \in Threads(f), Acquire(f, t)
    PROVE  TransferShape' /\ Takes(f, t)
<1> DEFINE w == [worker[f][t] EXCEPT !.pc = "held"]
<1>1. worker[f][t] \in WorkerType
  BY DEF TransferShape
<1>2. worker' = [worker EXCEPT ![f][t] = w]
  BY DEF Acquire, Goto, TransferShape
<1>3. w \in WorkerType /\ w.pc \in {"held"}
  BY <1>1 DEF WorkerType, Places
<1> HIDE DEF w
<1>4. permits > 0 /\ permits' = permits - 1 /\ permits' \in Nat /\ UNCHANGED <<file, cooldown, late>>
  BY DEF Acquire, AcquirePermit, TransferShape
<1>5. file[f].state = "running" /\ worker[f][t].pc \in {"sem"}
  BY DEF Acquire, AtPc
<1> QED
  BY Zenon, <1>2, <1>3, <1>4, <1>5, MovedOnly DEF Takes

\* A permit is given back when the data centre was cooled down meanwhile;
\* otherwise the request may be sent.
LEMMA PostCheckEffect ==
    ASSUME TransferShape, NEW f \in Files, NEW t \in Threads(f), PostCheck(f, t)
    PROVE  TransferShape' /\ (Clears(f, t) \/ Gives(f, t))
<1>1. worker[f][t] \in WorkerType /\ cooldown[DcOf[f]] \in Int /\ permits \in Nat
  BY TransferAssumption DEF TransferShape
<1>2. file[f].state = "running" /\ worker[f][t].pc = "held" /\ UNCHANGED <<file, cooldown, late>>
  BY DEF PostCheck, AtPc
<1>3. CASE IsDCCooledDown(DcOf[f])
  <2> DEFINE w == [worker[f][t] EXCEPT !.pc = "gate", !.wait = cooldown[DcOf[f]]]
  <2>1. worker' = [worker EXCEPT ![f][t] = w]
    BY Zenon, <1>3 DEF PostCheck, TransferShape
  <2>2. w \in WorkerType /\ w.pc \in Without
    BY Zenon, <1>1 DEF WorkerType, Places, Without
  <2> HIDE DEF w
  <2>3. permits' \in Nat /\ permits' = permits + 1
    BY <1>1, <1>3 DEF PostCheck, ReleasePermit
  <2>4. worker[f][t].pc \in {"held", "rpc"} /\ Warns(f, t)
    BY <1>2 DEF Warns
  <2> QED
    BY Zenon, <1>2, <2>1, <2>2, <2>3, <2>4, MovedOnly DEF Gives
<1>4. CASE ~IsDCCooledDown(DcOf[f])
  <2> DEFINE w == [worker[f][t] EXCEPT !.pc = "cleared"]
  <2>1. worker' = [worker EXCEPT ![f][t] = w]
    BY <1>4 DEF PostCheck, Goto, TransferShape
  <2>2. w \in WorkerType /\ w.pc \in {"cleared"}
    BY <1>1 DEF WorkerType, Places
  <2> HIDE DEF w
  <2>3. permits' \in Nat /\ permits' = permits
    BY <1>1, <1>4 DEF PostCheck
  <2>4. worker[f][t].pc \in {"held"}
    BY <1>2
  <2> QED
    BY Zenon, <1>2, <1>4, <2>1, <2>2, <2>3, <2>4, MovedOnly DEF Clears
<1> QED
  BY <1>3, <1>4

\* A worker that sends its request.
LEMMA SendEffect ==
    ASSUME TransferShape, NEW f \in Files, NEW t \in Threads(f), Send(f, t)
    PROVE  TransferShape' /\ Sends(f, t)
<1> DEFINE w == [worker[f][t] EXCEPT !.pc = "rpc"]
<1>1. worker[f][t] \in WorkerType /\ DcOf[f] \in DCs /\ late \in [DCs -> Nat]
  BY TransferAssumption DEF TransferShape
<1>2. worker' = [worker EXCEPT ![f][t] = w]
  BY DEF Send, Goto, TransferShape
<1>3. w \in WorkerType /\ w.pc \in {"rpc"}
  BY <1>1 DEF WorkerType, Places
<1> HIDE DEF w
<1>4. CountSent(DcOf[f]) /\ UNCHANGED <<permits, cooldown, file>>
  BY Zenon DEF Send
<1>5. late' \in [DCs -> Nat]
  BY <1>1, <1>4 DEF CountSent
<1>6. permits' \in Nat /\ cooldown' \in [DCs -> Nat] /\ file' \in [Files -> FileType]
  BY <1>4 DEF TransferShape
<1>7. \A g \in Files : file'[g].state = file[g].state
  BY <1>4
<1>8. file[f].state = "running" /\ worker[f][t].pc \in {"cleared"}
  BY DEF Send, AtPc
<1> QED
  BY Zenon, <1>2, <1>3, <1>4, <1>5, <1>6, <1>7, <1>8, Moved DEF Sends

\* A worker that is cancelled at the gate.
LEMMA GateCancelledEffect ==
    ASSUME TransferShape, NEW f \in Files, NEW t \in Threads(f), GateCancelled(f, t)
    PROVE  TransferShape' /\ Passes(f, t)
<1>1. /\ worker' = [worker EXCEPT ![f][t] = Between("done")]
      /\ file' \in [Files -> FileType]
      /\ \A g \in Files : file'[g].state = file[g].state
  BY FailsShape DEF GateCancelled, Errors
<1>2. Between("done") \in WorkerType /\ Between("done").pc \in Without
  BY DEF Between, WorkerType, Places, Without
<1>3. file[f].state = "running" /\ worker[f][t].pc \in Without
  BY DEF GateCancelled, AtPc, Without, Places
<1>4. /\ permits' \in Nat /\ cooldown' \in [DCs -> Nat] /\ late' \in [DCs -> Nat]
      /\ UNCHANGED <<permits, cooldown, late>>
  BY DEF GateCancelled, gateVars, TransferShape
<1> QED
  BY Zenon, <1>1, <1>2, <1>3, <1>4, Moved DEF Passes

\* A worker with an answer.
LEMMA AnswerEffect ==
    ASSUME TransferShape, NEW f \in Files, NEW t \in Threads(f), NEW n \in 0 .. PartSize,
           Answer(f, t, n)
    PROVE  TransferShape' /\ Gives(f, t)
<1> DEFINE w == [worker[f][t] EXCEPT !.pc = "write", !.n = n]
<1>1. worker[f][t] \in WorkerType /\ n \in Int /\ permits \in Nat
  BY TransferAssumption DEF TransferShape
<1>2. worker' = [worker EXCEPT ![f][t] = w]
  BY Zenon DEF Answer, TransferShape
<1>3. w \in WorkerType /\ w.pc \in Without
  BY Zenon, <1>1 DEF WorkerType, Places, Without
<1> HIDE DEF w
<1>4. permits' \in Nat /\ permits' = permits + 1 /\ UNCHANGED <<file, cooldown, late>>
  BY <1>1 DEF Answer, ReleasePermit
<1>5. file[f].state = "running" /\ worker[f][t].pc \in {"held", "rpc"} /\ Warns(f, t)
  BY <1>4 DEF Answer, AtPc, Warns
<1> QED
  BY Zenon, <1>2, <1>3, <1>4, <1>5, MovedOnly DEF Gives

\* Whatever the failure, and whether gotd tries again or not.
LEMMA RequestFailsEffect ==
    ASSUME TransferShape, NEW f \in Files, NEW t \in Threads(f),
           NEW error \in {"network", "expired", "ctx"}, NEW d \in 0 .. MaxFloodWait,
           RequestFails(f, t, error, d)
    PROVE  TransferShape' /\ Gives(f, t)
<1>1. permits' \in Nat /\ permits' = permits + 1
  BY DEF RequestFails, ReleasePermit, TransferShape
<1>2. cooldown' \in [DCs -> Nat] /\ late' \in [DCs -> Nat] /\ UNCHANGED late
  BY GateAssumption DEF RequestFails, TriggerFloodWait, TransferShape
<1>3. file[f].state = "running" /\ worker[f][t].pc \in {"held", "rpc"} /\ Warns(f, t)
  <2>1. file[f].state = "running" /\ worker[f][t].pc = "rpc"
    BY DEF RequestFails, AtPc
  <2>2. \/ UNCHANGED cooldown
        \/ d > 0 /\ cooldown' = [cooldown EXCEPT ![DcOf[f]] = IF d > @ THEN d ELSE @]
    BY DEF RequestFails, TriggerFloodWait
  <2>3. Warns(f, t)
    BY <2>1, <2>2, GateAssumption DEF Warns, TransferShape
  <2> QED
    BY <2>1, <2>3
<1>4. CASE Fails(f, t, error)
  <2>1. /\ worker' = [worker EXCEPT ![f][t] = Between("done")]
        /\ file' \in [Files -> FileType]
        /\ \A g \in Files : file'[g].state = file[g].state
    BY <1>4, FailsShape DEF Errors
  <2>2. Between("done") \in WorkerType /\ Between("done").pc \in Without
    BY DEF Between, WorkerType, Places, Without
  <2> QED
    BY Zenon, <1>1, <1>2, <1>3, <2>1, <2>2, Moved DEF Gives
<1>5. CASE Invoke(f, t, worker[f][t].off, file[f].next)
  <2>1. worker[f][t].off \in Int /\ file[f].next \in Int
    BY DEF TransferShape, WorkerType, FileType
  <2>2. PICK w \in WorkerType : /\ worker' = [worker EXCEPT ![f][t] = w]
                                /\ w.pc \in {"gate", "done"}
    BY SMTT(30), <1>5, <2>1, InvokeShape
  <2>3. file' \in [Files -> FileType] /\ \A g \in Files : file'[g].state = file[g].state
    BY SMTT(30), <1>5, <2>1, InvokeShape
  <2>4. w.pc \in Without
    BY <2>2 DEF Without, Places
  <2> QED
    BY Zenon, <1>1, <1>2, <1>3, <2>2, <2>3, <2>4, Moved DEF Gives
<1> QED
  BY <1>4, <1>5 DEF RequestFails

\* A worker that writes its chunk.
LEMMA WriteAtEffect ==
    ASSUME TransferShape, NEW f \in Files, NEW t \in Threads(f), NEW m \in 0 .. PartSize,
           WriteAt(f, t, m)
    PROVE  TransferShape' /\ Passes(f, t)
<1>1. file[f] \in FileType
  BY DEF TransferShape
<1>2. /\ permits' \in Nat /\ cooldown' \in [DCs -> Nat] /\ late' \in [DCs -> Nat]
      /\ UNCHANGED <<permits, cooldown, late>>
  BY DEF WriteAt, gateVars, TransferShape
<1>3. file[f].state = "running" /\ worker[f][t].pc \in Without
  BY DEF WriteAt, AtPc, Without, Places
<1>4. \A p \in {"done", "next"} : Between(p) \in WorkerType /\ Between(p).pc \in Without
  BY DEF Between, WorkerType, Places, Without
<1>5. CASE m < worker[f][t].n
  <2> DEFINE e == IF file[f].err = "none" THEN "io" ELSE file[f].err
             r == [file[f] EXCEPT !.err = e, !.werr = TRUE]
  <2>1. e \in Errors
    BY <1>1 DEF FileType, Errors
  <2>2. file' = [file EXCEPT ![f] = r] /\ worker' = [worker EXCEPT ![f][t] = Between("done")]
    BY Zenon, <1>5 DEF WriteAt, Leave, TransferShape
  <2> HIDE DEF e
  <2>3. r \in FileType /\ r.state = file[f].state
    BY Zenon, <1>1, <2>1 DEF FileType
  <2> HIDE DEF r
  <2>4. file' \in [Files -> FileType] /\ \A g \in Files : file'[g].state = file[g].state
    BY Zenon, <2>2, <2>3, FileSet
  <2> QED
    BY Zenon, <1>2, <1>3, <1>4, <2>2, <2>4, Moved DEF Passes
<1>6. CASE ~(m < worker[f][t].n)
  <2> DEFINE b == file[f].eof \/ worker[f][t].n < PartSize
             r == [file[f] EXCEPT !.eof = b]
  <2>1. b \in BOOLEAN
    OBVIOUS
  <2>2. file' = [file EXCEPT ![f] = r] /\ worker' = [worker EXCEPT ![f][t] = Between("next")]
    BY <1>6 DEF WriteAt, Leave, TransferShape
  <2> HIDE DEF b
  <2>3. r \in FileType /\ r.state = file[f].state
    BY SMTT(30), <1>1, <2>1 DEF FileType
  <2> HIDE DEF r
  <2>4. file' \in [Files -> FileType] /\ \A g \in Files : file'[g].state = file[g].state
    BY ZenonT(30), <2>2, <2>3, FileSet
  <2> QED
    BY Zenon, <1>2, <1>3, <1>4, <2>2, <2>4, Moved DEF Passes
<1> QED
  BY <1>5, <1>6

\* Every step of a worker has one of the five effects.
LEMMA WorkerEffect ==
    ASSUME TransferShape, NEW f \in Files, NEW t \in Threads(f),
           WorkerStep(f, t) \/ Acquire(f, t)
    PROVE  TransferShape' /\ Effect(f, t)
<1> USE DEF Effect
<1>1. CASE RequestPart(f, t)
  BY <1>1, RequestPartEffect
<1>2. CASE CheckCooldown(f, t)
  BY <1>2, CheckCooldownEffect
<1>3. CASE PostCheck(f, t)
  BY <1>3, PostCheckEffect
<1>4. CASE GateCancelled(f, t)
  BY <1>4, GateCancelledEffect
<1>5. ASSUME NEW n \in 0 .. PartSize, Answer(f, t, n) PROVE TransferShape' /\ Effect(f, t)
  BY <1>5, AnswerEffect
<1>6. ASSUME NEW d \in 0 .. MaxFloodWait, NEW error \in {"network", "expired", "ctx"},
             RequestFails(f, t, error, d)
      PROVE  TransferShape' /\ Effect(f, t)
  BY <1>6, RequestFailsEffect
<1>7. ASSUME NEW m \in 0 .. PartSize, WriteAt(f, t, m) PROVE TransferShape' /\ Effect(f, t)
  BY <1>7, WriteAtEffect
<1>8. CASE Acquire(f, t)
  BY <1>8, AcquireEffect
<1>9. 0 \in 0 .. MaxFloodWait
  BY GateAssumption
<1>10. CASE Send(f, t)
  BY <1>10, SendEffect
<1> QED
  BY <1>1, <1>2, <1>3, <1>4, <1>5, <1>6, <1>7, <1>8, <1>9, <1>10 DEF WorkerStep

-----------------------------------------------------------------------------
(***************************************************************************)
(* The other steps.                                                        *)
(***************************************************************************)
\* The workers of one file are replaced by workers that hold nothing.
LEMMA FileWorkersSet ==
    ASSUME TransferShape, NEW f \in Files, NEW p \in {"next", "done"}, NEW r \in FileType,
           worker' = [worker EXCEPT ![f] = [t \in Threads(f) |-> Between(p)]],
           file' = [file EXCEPT ![f] = r], UNCHANGED gateVars,
           \A t \in Threads(f) : ~Holds(f, t)
    PROVE  TransferShape' /\ Rests
<1>1. Between(p) \in WorkerType /\ Between(p).pc = p
  BY DEF Between, WorkerType, Places
<1>2. \A g \in Files : worker'[g] = IF g = f THEN [t \in Threads(f) |-> Between(p)] ELSE worker[g]
  BY DEF TransferShape
<1>3. [t \in Threads(f) |-> Between(p)] \in [Threads(f) -> WorkerType]
  BY <1>1
<1>4. \A t \in Threads(f) : worker'[f][t].pc = p
  BY SMTT(30), <1>1, <1>2
<1>5. \A g \in Files \ {f} : worker'[g] = worker[g] /\ file'[g] = file[g]
  BY <1>2 DEF TransferShape
<1>6. TransferShape'
  <2>1. \A g \in Files : worker'[g] \in [Threads(g) -> WorkerType]
    BY SMTT(30), <1>2, <1>3 DEF TransferShape
  <2>2. file' \in [Files -> FileType]
    BY DEF TransferShape
  <2> QED
    BY SMTT(30), <2>1, <2>2 DEF TransferShape, gateVars
<1>7. Rests
  BY SMTT(30), <1>4, <1>5 DEF Rests, Holds, AtPc, gateVars
<1> QED
  BY SMTT(30), <1>6, <1>7

\* The start of a file leaves the permits alone.
LEMMA StartFileRests ==
    ASSUME TransferShape, NEW f \in Files, StartFile(f) PROVE TransferShape' /\ Rests
<1> DEFINE r == [file[f] EXCEPT !.state = "running"]
<1>1. r \in FileType
  BY DEF TransferShape, FileType
<1>2. file' = [file EXCEPT ![f] = r]
  BY DEF StartFile, TransferShape
<1> HIDE DEF r
<1>3. \A t \in Threads(f) : ~Holds(f, t)
  BY SMTT(30) DEF StartFile, Holds, AtPc
<1> QED
  BY Zenon, <1>1, <1>2, <1>3, FileWorkersSet DEF StartFile

\* A call returns when none of its workers is at the gate or beyond it.
LEMMA ReturnRests ==
    ASSUME TransferShape, NEW f \in Files, Return(f) PROVE TransferShape' /\ Rests
<1> DEFINE c == Classify(f)
           z == 0
           r == [file[f] EXCEPT !.state = "ended", !.class = c, !.count = z, !.next = z,
                                !.eof = FALSE]
<1>1. file[f] \in FileType
  BY DEF TransferShape
<1>2. c \in Classes
  BY <1>1 DEF Classify, FileType, Classes, Errors
<1>3. file' = [file EXCEPT ![f] = r]
  BY Zenon DEF Return, TransferShape
<1>3a. z \in Int
  OBVIOUS
<1> HIDE DEF c, z
<1>4. r \in FileType
  BY Zenon, <1>1, <1>2, <1>3a DEF FileType
<1> HIDE DEF r
<1>5. \A t \in Threads(f) : ~Holds(f, t)
  BY DEF Return, Holds, AtPc
<1> QED
  BY Zenon, <1>3, <1>4, <1>5, FileWorkersSet DEF Return

\* So does its cancellation.
LEMMA CancelFileRests ==
    ASSUME TransferShape, NEW f \in Files, CancelFile(f) PROVE TransferShape' /\ Rests
<1> DEFINE r == [file[f] EXCEPT !.ctx = "cancelled"]
<1>1. r \in FileType /\ r.state = file[f].state
  BY DEF TransferShape, FileType
<1>2. file' = [file EXCEPT ![f] = r]
  BY DEF CancelFile, TransferShape
<1> HIDE DEF r
<1>3. file' \in [Files -> FileType] /\ \A g \in Files : file'[g].state = file[g].state
  BY Zenon, <1>1, <1>2, FileSet
<1>4. UNCHANGED <<worker, cooldown, permits, late>>
  BY DEF CancelFile, gateVars
<1>5. TransferShape'
  BY <1>3, <1>4 DEF TransferShape
<1>6. Rests
  BY <1>3, <1>4 DEF Rests, Holds, AtPc
<1> QED
  BY <1>5, <1>6

\* Time moves no worker.
LEMMA TickRests ==
    ASSUME TransferShape, Tick PROVE TransferShape' /\ Rests
<1>1. cooldown' \in [DCs -> Nat] /\ late' \in [DCs -> Nat] /\ CooldownTick
  BY DEF Tick, CooldownTick, TransferShape
<1>2. \A f \in Files : \A t \in Threads(f) :
          worker'[f][t] \in WorkerType /\ worker'[f][t].pc = worker[f][t].pc
  <2> SUFFICES ASSUME NEW f \in Files, NEW t \in Threads(f)
               PROVE  worker'[f][t] \in WorkerType /\ worker'[f][t].pc = worker[f][t].pc
    OBVIOUS
  <2> DEFINE v == IF worker[f][t].wait > 0 THEN worker[f][t].wait - 1 ELSE 0
  <2>1. worker[f][t] \in WorkerType
    BY DEF TransferShape
  <2>2. v \in Int
    BY <2>1 DEF WorkerType
  <2>3. worker'[f][t] = [worker[f][t] EXCEPT !.wait = v]
    BY DEF Tick
  <2> HIDE DEF v
  <2> QED
    BY SMTT(30), <2>1, <2>2, <2>3 DEF WorkerType
<1>3. DOMAIN worker' = Files /\ \A f \in Files : worker'[f] \in [Threads(f) -> WorkerType]
  <2>1. DOMAIN worker' = Files
    BY DEF Tick
  <2>2. \A f \in Files : worker'[f] = [t \in Threads(f) |-> worker'[f][t]]
    BY DEF Tick
  <2> QED
    BY SMTT(30), <1>2, <2>1, <2>2
<1>4. UNCHANGED <<permits, file>>
  BY DEF Tick
<1>5. TransferShape'
  BY SMTT(30), <1>1, <1>3, <1>4 DEF TransferShape
<1>6. Rests
  BY SMTT(30), <1>1, <1>2, <1>4 DEF Rests, Holds, AtPc
<1> QED
  BY <1>5, <1>6

-----------------------------------------------------------------------------
(***************************************************************************)
(* Counting the permits.                                                   *)
(***************************************************************************)
\* Who holds a permit is a worker of a file.
LEMMA HoldersAre ==
    \A x : x \in Holders <=> \E f \in Files : \E t \in Threads(f) : x = <<f, t>> /\ Holds(f, t)
BY ThreadBound DEF Holders, Holds

\* The holders after a step.
LEMMA HoldersAreNext ==
    \A x : x \in Holders' <=> \E f \in Files : \E t \in Threads(f) : x = <<f, t>> /\ Holds(f, t)'
BY ThreadBound DEF Holders, Holds, AtPc

\* A step of no worker changes neither side of the sum.
LEMMA RestsConserves ==
    ASSUME TransferInv, TransferShape', Rests PROVE TransferInv'
<1>1. Holders' = Holders
  BY HoldersAre, HoldersAreNext DEF Rests
<1> QED
  BY <1>1 DEF TransferInv, PermitsConserved, Rests

\* A worker's step changes both sides alike: it leaves the holders, joins them
\* with a permit fewer at the gate, or leaves them with one more.
LEMMA EffectConserves ==
    ASSUME TransferInv, TransferShape', NEW f \in Files, NEW t \in Threads(f), Effect(f, t)
    PROVE  TransferInv'
<1> DEFINE x == <<f, t>>
<1>1. \A g \in Files : \A u \in Threads(g) :
          (g # f \/ u # t) => (Holds(g, u)' <=> Holds(g, u))
  BY DEF Effect, Passes, Takes, Clears, Sends, Gives, Moves, Holds, AtPc
<1>2. \A y : y # x => (y \in Holders' <=> y \in Holders)
  BY SMTT(30), <1>1, HoldersAre, HoldersAreNext
<1>3. x \in Holders <=> Holds(f, t)
  BY HoldersAre
<1>4. x \in Holders' <=> Holds(f, t)'
  BY HoldersAreNext
<1>5. IsFiniteSet(Holders) /\ Cardinality(Holders) \in Nat
  BY FS_CardinalityType DEF TransferInv
<1>6. permits \in Nat /\ permits + Cardinality(Holders) = MaxDataInFlight
  BY DEF TransferInv, TransferShape, PermitsConserved
<1> HIDE DEF x
<1>7. CASE Passes(f, t) \/ Clears(f, t) \/ Sends(f, t)
  <2>1. permits' = permits /\ (Holds(f, t)' <=> Holds(f, t))
    BY <1>7 DEF Passes, Clears, Sends, Moves, Holds, AtPc, Without
  <2>2. Holders' = Holders
    BY SMTT(30), <1>2, <1>3, <1>4, <2>1
  <2> QED
    BY SMTT(30), <2>1, <2>2 DEF TransferInv, PermitsConserved
<1>8. CASE Takes(f, t)
  <2>1. permits' = permits - 1 /\ ~Holds(f, t) /\ Holds(f, t)'
    BY <1>8 DEF Takes, Moves, Holds, AtPc
  <2>2. Holders' = Holders \cup {x} /\ x \notin Holders
    BY SMTT(30), <1>2, <1>3, <1>4, <2>1
  <2>3. IsFiniteSet(Holders') /\ Cardinality(Holders') = Cardinality(Holders) + 1
    BY SMTT(30), <1>5, <2>2, FS_AddElement
  <2>4. permits' + Cardinality(Holders') = MaxDataInFlight
    BY SMTT(30), <1>5, <1>6, <2>1, <2>3
  <2> QED
    BY SMTT(30), <2>3, <2>4 DEF TransferInv, PermitsConserved
<1>9. CASE Gives(f, t)
  <2>1. permits' = permits + 1 /\ Holds(f, t) /\ ~Holds(f, t)'
    BY <1>9 DEF Gives, Moves, Holds, AtPc, Without
  <2>2. Holders' = Holders \ {x} /\ x \in Holders
    BY SMTT(30), <1>2, <1>3, <1>4, <2>1
  <2>3. IsFiniteSet(Holders') /\ Cardinality(Holders') = Cardinality(Holders) - 1
    BY SMTT(30), <1>5, <2>2, FS_RemoveElement
  <2>4. permits' + Cardinality(Holders') = MaxDataInFlight
    BY SMTT(30), <1>5, <1>6, <2>1, <2>3
  <2> QED
    BY <2>3, <2>4 DEF TransferInv, PermitsConserved
<1> QED
  BY Zenon, <1>7, <1>8, <1>9 DEF Effect

\* Every step is one worker's, with its effect, or rests.
LEMMA StepKinds ==
    ASSUME TransferShape, [TransferNext]_transferVars
    PROVE  /\ TransferShape'
           /\ Rests \/ \E f \in Files : \E t \in Threads(f) : Effect(f, t)
<1>1. ASSUME NEW f \in Files, NEW t \in Threads(f), WorkerStep(f, t) \/ Acquire(f, t)
      PROVE  TransferShape' /\ Effect(f, t)
  BY <1>1, WorkerEffect
<1>2. ASSUME NEW f \in Files, StartFile(f) \/ Return(f) \/ CancelFile(f)
      PROVE  TransferShape' /\ Rests
  BY SMTT(30), <1>2, StartFileRests, ReturnRests, CancelFileRests
<1>3. CASE Tick
  BY <1>3, TickRests
<1>4. CASE UNCHANGED transferVars
  <2>1. TransferShape'
    BY <1>4 DEF TransferShape, transferVars
  <2>2. Rests
    BY <1>4 DEF Rests, Holds, AtPc, transferVars
  <2> QED
    BY SMTT(30), <2>1, <2>2
<1> QED
  BY SMTT(30), <1>1, <1>2, <1>3, <1>4 DEF TransferNext, Progress

\* At the start nobody holds a permit, and all are at the gate.
LEMMA TransferInvInit == TransferInit => TransferInv
<1> SUFFICES ASSUME TransferInit PROVE TransferInv
  OBVIOUS
<1>1. TransferShape
  <2>1. permits \in Nat /\ cooldown \in [DCs -> Nat] /\ late \in [DCs -> Nat]
    BY GateAssumption DEF TransferInit, GateInit
  <2>2. file \in [Files -> FileType]
    BY DEF TransferInit, FileType, Errors, Classes
  <2>3. Between("done") \in WorkerType
    BY DEF Between, WorkerType, Places
  <2>4. DOMAIN worker = Files /\ \A f \in Files : worker[f] \in [Threads(f) -> WorkerType]
    BY <2>3 DEF TransferInit
  <2> QED
    BY SMTT(30), <2>1, <2>2, <2>4 DEF TransferShape
<1>2. \A f \in Files : file[f].state = "new"
  BY DEF TransferInit
<1>3. Holders = {}
  BY <1>2, HoldersAre DEF Holds, AtPc
<1>4. IsFiniteSet(Holders) /\ Cardinality(Holders) = 0
  BY SMTT(30), <1>3, FS_EmptySet
<1>5. permits + 0 = MaxDataInFlight
  BY GateAssumption DEF TransferInit, GateInit
<1> QED
  BY <1>1, <1>4, <1>5 DEF TransferInv, PermitsConserved

\* The invariant is inductive.
LEMMA TransferInvStep == TransferInv /\ [TransferNext]_transferVars => TransferInv'
<1> SUFFICES ASSUME TransferInv, [TransferNext]_transferVars PROVE TransferInv'
  OBVIOUS
<1>1. /\ TransferShape'
      /\ Rests \/ \E f \in Files : \E t \in Threads(f) : Effect(f, t)
  BY StepKinds DEF TransferInv
<1> QED
  BY SMTT(30), <1>1, RestsConserves, EffectConserves

\* It holds of every behaviour.
LEMMA TransferInvariant == TransferSpec => []TransferInv
BY TransferInvInit, TransferInvStep, PTL DEF TransferSpec

-----------------------------------------------------------------------------
\* However many files, workers and permits there are, Acquire and Invoke lose no
\* permit and hand none out twice.
THEOREM PermitsKept == TransferSpec => []PermitsConserved
<1>1. TransferInv => PermitsConserved
  BY DEF TransferInv
<1> QED
  BY <1>1, TransferInvariant, PTL

\* Never are more requests between Acquire and Release than the gate has permits.
THEOREM InFlightBounded == TransferSpec => [](Cardinality(Holders) <= MaxDataInFlight)
<1>1. TransferInv => Cardinality(Holders) <= MaxDataInFlight
  BY GateAssumption, FS_CardinalityType DEF TransferInv, TransferShape, PermitsConserved
<1> QED
  BY <1>1, TransferInvariant, PTL

\* The requests to dc that have passed the gate and are not yet sent.
Cleared(dc) == {ft \in Holders : DcOf[ft[1]] = dc /\ AtPc(ft[1], ft[2], "cleared")}

\* In a cooldown, what was sent and what can still be sent leave one permit over.
LateInv ==
    \A dc \in DCs : IF IsDCCooledDown(dc)
                     THEN late[dc] + Cardinality(Cleared(dc)) < MaxDataInFlight
                     ELSE late[dc] = 0

\* A request that has passed the gate is a worker of a file.
LEMMA ClearedAre ==
    ASSUME NEW dc
    PROVE  \A x : x \in Cleared(dc) <=>
               \E f \in Files : \E t \in Threads(f) :
                   x = <<f, t>> /\ DcOf[f] = dc /\ AtPc(f, t, "cleared")
BY HoldersAre DEF Cleared, Holds

\* The same after a step.
LEMMA ClearedAreNext ==
    ASSUME NEW dc
    PROVE  \A x : x \in Cleared(dc)' <=>
               \E f \in Files : \E t \in Threads(f) :
                   x = <<f, t>> /\ DcOf[f] = dc /\ AtPc(f, t, "cleared")'
BY HoldersAreNext DEF Cleared, Holds, AtPc

\* They hold permits, and are finitely many.
LEMMA ClearedHold ==
    ASSUME TransferInv, NEW dc
    PROVE  /\ IsFiniteSet(Cleared(dc)) /\ Cardinality(Cleared(dc)) \in Nat
           /\ \A x \in Holders : x \notin Cleared(dc) => Cardinality(Cleared(dc)) < MaxDataInFlight
<1>1. IsFiniteSet(Holders) /\ Cleared(dc) \subseteq Holders
  BY DEF TransferInv, Cleared
<1>2. IsFiniteSet(Cleared(dc)) /\ Cardinality(Cleared(dc)) \in Nat /\ Cardinality(Holders) \in Nat
  BY Zenon, <1>1, FS_Subset, FS_CardinalityType
<1>3. ASSUME NEW x \in Holders, x \notin Cleared(dc)
      PROVE  Cardinality(Cleared(dc)) < MaxDataInFlight
  <2>1. Cleared(dc) # Holders
    BY Zenon, <1>3
  <2>2. Cardinality(Cleared(dc)) < Cardinality(Holders)
    BY <1>1, <1>2, <2>1, FS_Subset
  <2>3. Cardinality(Holders) <= MaxDataInFlight
    BY <1>2, GateAssumption DEF TransferInv, TransferShape, PermitsConserved
  <2> QED
    BY <1>2, <2>2, <2>3, GateAssumption
<1> QED
  BY Zenon, <1>2, <1>3

\* As long as no request passes the gate or is sent, and no cooldown begins, the
\* count stands.
LEMMA LateStands ==
    ASSUME NEW dc \in DCs, LateInv, Cleared(dc)' = Cleared(dc),
           cooldown'[dc] = cooldown[dc] /\ late'[dc] = late[dc]
    PROVE  IF IsDCCooledDown(dc)' THEN late'[dc] + Cardinality(Cleared(dc)') < MaxDataInFlight
                                  ELSE late'[dc] = 0
BY DEF LateInv, IsDCCooledDown

\* A step of no worker keeps the count, and the end of a cooldown resets it.
LEMMA RestsLate ==
    ASSUME TransferInv, LateInv, Rests PROVE LateInv'
<1> SUFFICES ASSUME NEW dc \in DCs
             PROVE  IF IsDCCooledDown(dc)'
                    THEN late'[dc] + Cardinality(Cleared(dc)') < MaxDataInFlight
                    ELSE late'[dc] = 0
  BY Zenon DEF LateInv
<1>1. Cleared(dc)' = Cleared(dc)
  <2>1. \A f \in Files : \A t \in Threads(f) : AtPc(f, t, "cleared")' <=> AtPc(f, t, "cleared")
    BY Zenon DEF Rests
  <2>2. \A x : x \in Cleared(dc)' <=> x \in Cleared(dc)
    BY SMTT(30), <2>1, ClearedAre, ClearedAreNext
  <2> QED
    BY SMT, <2>2
<1>2. CASE UNCHANGED <<cooldown, late>>
  BY <1>1, <1>2, LateStands
<1>3. CASE CooldownTick
  <2>1. /\ cooldown[dc] \in Nat /\ late[dc] \in Nat
        /\ cooldown'[dc] = IF cooldown[dc] > 0 THEN cooldown[dc] - 1 ELSE 0
        /\ late'[dc] = IF cooldown[dc] > 1 THEN late[dc] ELSE 0
    BY <1>3 DEF CooldownTick, TransferInv, TransferShape
  <2> QED
    BY <1>1, <2>1 DEF LateInv, IsDCCooledDown
<1> QED
  BY Zenon, <1>2, <1>3 DEF Rests

\* A worker's step: the request that meets the FloodWait holds a permit without
\* being among those that can still be sent.
LEMMA EffectLate ==
    ASSUME TransferInv, LateInv, NEW f \in Files, NEW t \in Threads(f), Effect(f, t)
    PROVE  LateInv'
<1> SUFFICES ASSUME NEW dc \in DCs
             PROVE  IF IsDCCooledDown(dc)'
                    THEN late'[dc] + Cardinality(Cleared(dc)') < MaxDataInFlight
                    ELSE late'[dc] = 0
  BY Zenon DEF LateInv
<1> DEFINE x == <<f, t>>
<1>1. \A g \in Files : \A u \in Threads(g) :
          (g # f \/ u # t) => (AtPc(g, u, "cleared")' <=> AtPc(g, u, "cleared"))
  BY DEF Effect, Passes, Takes, Clears, Sends, Gives, Moves, AtPc
<1>2. \A y : y # x => (y \in Cleared(dc)' <=> y \in Cleared(dc))
  BY SMTT(30), <1>1, ClearedAre, ClearedAreNext
<1>3. x \in Cleared(dc) <=> DcOf[f] = dc /\ AtPc(f, t, "cleared")
  BY ClearedAre
<1>4. x \in Cleared(dc)' <=> DcOf[f] = dc /\ AtPc(f, t, "cleared")'
  BY ClearedAreNext
<1>5. /\ IsFiniteSet(Cleared(dc)) /\ Cardinality(Cleared(dc)) \in Nat
      /\ x \in Holders /\ x \notin Cleared(dc) => Cardinality(Cleared(dc)) < MaxDataInFlight
  BY Zenon, ClearedHold
<1>6. cooldown[dc] \in Nat /\ late[dc] \in Nat /\ late \in [DCs -> Nat]
  BY DEF TransferInv, TransferShape
<1>7. x \in Holders <=> Holds(f, t)
  BY HoldersAre
<1> HIDE DEF x
<1>8. CASE Passes(f, t) \/ Takes(f, t)
  <2>1. ~AtPc(f, t, "cleared") /\ ~AtPc(f, t, "cleared")' /\ UNCHANGED <<cooldown, late>>
    BY <1>8 DEF Passes, Takes, Moves, AtPc, Without
  <2>2. Cleared(dc)' = Cleared(dc)
    BY SMTT(30), <1>2, <1>3, <1>4, <2>1
  <2> QED
    BY <2>1, <2>2, LateStands
<1>9. CASE Clears(f, t)
  <2>1. UNCHANGED <<cooldown, late>> /\ ~IsDCCooledDown(DcOf[f]) /\ ~AtPc(f, t, "cleared")
    BY <1>9 DEF Clears, Moves, AtPc
  <2>2. CASE dc = DcOf[f]
    BY <2>1, <2>2 DEF LateInv, IsDCCooledDown
  <2>3. CASE dc # DcOf[f]
    <3>1. Cleared(dc)' = Cleared(dc)
      BY SMTT(30), <1>2, <1>3, <1>4, <2>3
    <3> QED
      BY <2>1, <3>1, LateStands
  <2> QED
    BY Zenon, <2>2, <2>3
<1>10. CASE Sends(f, t)
  <2>1. /\ UNCHANGED cooldown /\ AtPc(f, t, "cleared") /\ ~AtPc(f, t, "cleared")'
        /\ late' = [late EXCEPT ![DcOf[f]] = IF IsDCCooledDown(DcOf[f]) THEN @ + 1 ELSE @]
    BY <1>10 DEF Sends, Moves, AtPc, CountSent
  <2>2. CASE dc # DcOf[f]
    <3>1. Cleared(dc)' = Cleared(dc)
      BY SMTT(30), <1>2, <1>3, <1>4, <2>2
    <3>2. late'[dc] = late[dc]
      BY <1>6, <2>1, <2>2
    <3> QED
      BY <2>1, <3>1, <3>2, LateStands
  <2>3. CASE dc = DcOf[f] /\ IsDCCooledDown(dc)
    <3>1. Cleared(dc)' = Cleared(dc) \ {x} /\ x \in Cleared(dc)
      BY SMTT(30), <1>2, <1>3, <1>4, <2>1, <2>3
    <3>2. Cardinality(Cleared(dc)') = Cardinality(Cleared(dc)) - 1
      BY <1>5, <3>1, FS_RemoveElement
    <3>3. late'[dc] = late[dc] + 1 /\ IsDCCooledDown(dc)'
      BY <1>6, <2>1, <2>3 DEF IsDCCooledDown
    <3>4. late[dc] + Cardinality(Cleared(dc)) < MaxDataInFlight
      BY <2>3 DEF LateInv
    <3> QED
      BY <1>5, <1>6, <3>2, <3>3, <3>4
  <2>4. CASE dc = DcOf[f] /\ ~IsDCCooledDown(dc)
    <3>1. late'[dc] = late[dc] /\ ~IsDCCooledDown(dc)' /\ late[dc] = 0
      BY <1>6, <2>1, <2>4 DEF IsDCCooledDown, LateInv
    <3> QED
      BY <3>1
  <2> QED
    BY Zenon, <2>2, <2>3, <2>4
<1>11. CASE Gives(f, t)
  <2>1. /\ late' = late /\ ~AtPc(f, t, "cleared") /\ ~AtPc(f, t, "cleared")' /\ Holds(f, t)
        /\ \/ cooldown'[dc] = cooldown[dc]
           \/ dc = DcOf[f] /\ cooldown'[dc] > 0
    BY <1>11 DEF Gives, Moves, AtPc, Holds, Without, Warns
  <2>2. Cleared(dc)' = Cleared(dc)
    BY SMTT(30), <1>2, <1>3, <1>4, <2>1
  <2>3. CASE cooldown'[dc] = cooldown[dc]
    BY <2>1, <2>2, <2>3, LateStands
  <2>4. CASE cooldown'[dc] > 0
    <3>1. Cardinality(Cleared(dc)) < MaxDataInFlight
      BY Zenon, <1>3, <1>5, <1>7, <2>1
    <3>2. late[dc] + Cardinality(Cleared(dc)) < MaxDataInFlight
      BY <1>5, <1>6, <3>1 DEF LateInv, IsDCCooledDown
    <3> QED
      BY <2>1, <2>2, <2>4, <3>2 DEF IsDCCooledDown
  <2> QED
    BY Zenon, <2>1, <2>3, <2>4
<1> QED
  BY Zenon, <1>8, <1>9, <1>10, <1>11 DEF Effect

\* However many permits, files and data centres there are, and however FloodWaits
\* fall between the gate's last look and the sending, fewer requests than permits
\* go into one cooldown.
THEOREM LateBounded == TransferSpec => []LateRequestsBounded
<1>1. TransferInit => LateInv
  <2> SUFFICES ASSUME TransferInit, NEW dc \in DCs PROVE late[dc] = 0 /\ ~IsDCCooledDown(dc)
    BY Zenon DEF LateInv
  <2> QED
    BY DEF TransferInit, GateInit, IsDCCooledDown
<1>2. TransferInv /\ LateInv /\ [TransferNext]_transferVars => LateInv'
  BY Zenon, StepKinds, RestsLate, EffectLate DEF TransferInv
<1>3. TransferInv /\ LateInv => LateRequestsBounded
  <2> SUFFICES ASSUME TransferInv, LateInv, NEW dc \in DCs PROVE late[dc] < MaxDataInFlight
    BY Zenon DEF LateRequestsBounded
  <2>1. Cardinality(Cleared(dc)) \in Nat /\ late[dc] \in Nat
    BY ClearedHold DEF TransferInv, TransferShape
  <2> QED
    BY <2>1, GateAssumption DEF LateInv
<1> QED
  BY <1>1, <1>2, <1>3, TransferInvariant, PTL DEF TransferSpec

-----------------------------------------------------------------------------
(***************************************************************************)
(* Transfer: what DownloadFileWithResult returns.                          *)
(***************************************************************************)
\* A worker asks for and writes nothing beyond the end of its file.
GoodWorker(f, w) ==
    /\ w \in WorkerType /\ w.off \in Nat /\ w.n \in Nat
    /\ w.pc = "write" => w.off + w.n <= Size[f]

\* The writer's error is never the only one.
GoodFile(r) == r \in FileType /\ r.next \in Nat /\ (r.werr => r.err # "none")

\* The tracker of a file has recorded the bytes written, all of them the file's.
GoodBytes(f, iv, bs) ==
    /\ Ordered(iv)
    /\ bs \subseteq 0 .. Size[f] - 1
    /\ \A b \in Int : b \in bs <=> In(iv, Len(iv), b)

\* A file that has not ended has no class; one that has, keeps what it was given.
GoodClass(f) ==
    /\ file[f].state = "ended" => file[f].class = Classify(f)
    /\ file[f].state # "ended" => file[f].class = "none"

ResultInv ==
    /\ file \in [Files -> FileType] /\ DOMAIN worker = Files
    /\ DOMAIN intervals = Files /\ DOMAIN written = Files
    /\ \A f \in Files : worker[f] \in [Threads(f) -> WorkerType]
    /\ \A f \in Files : \A t \in Threads(f) : GoodWorker(f, worker[f][t])
    /\ \A f \in Files : GoodFile(file[f])
    /\ \A f \in Files : GoodBytes(f, intervals[f], written[f])
    /\ \A f \in Files : GoodClass(f)

\* A step of worker t of f, on the two records.
Goes(f, t, w, r) ==
    /\ GoodWorker(f, w) /\ GoodFile(r)
    /\ file[f].state = "running" /\ r.state = "running" /\ r.class = file[f].class
    /\ worker' = [worker EXCEPT ![f][t] = w]
    /\ file' = [file EXCEPT ![f] = r]

\* Of a file that has not changed, nothing changes.
LEMMA ClassKept ==
    ASSUME NEW g, GoodClass(g), file'[g] = file[g], intervals'[g] = intervals[g]
    PROVE  GoodClass(g)'
BY Zenon DEF GoodClass, Classify

\* Of a file that runs, the class is not yet given.
LEMMA ClassOpen ==
    ASSUME NEW g, GoodClass(g), file[g].state # "ended", file'[g].state # "ended",
           file'[g].class = file[g].class
    PROVE  GoodClass(g)'
BY Zenon DEF GoodClass

\* A worker that goes on keeps what the result rests on.
LEMMA GoesResult ==
    ASSUME ResultInv, NEW f \in Files, NEW t \in Threads(f), NEW w, NEW r, Goes(f, t, w, r),
           DOMAIN intervals' = Files, DOMAIN written' = Files,
           GoodBytes(f, intervals'[f], written'[f]),
           \A g \in Files : g # f => intervals'[g] = intervals[g] /\ written'[g] = written[g]
    PROVE  ResultInv'
<1>1. /\ file \in [Files -> FileType] /\ r \in FileType
      /\ DOMAIN worker = Files /\ w \in WorkerType
      /\ \A g \in Files : worker[g] \in [Threads(g) -> WorkerType]
  BY Zenon DEF ResultInv, Goes, GoodWorker, GoodFile
<1>2. /\ file' \in [Files -> FileType] /\ file'[f] = r
      /\ \A g \in Files : g # f => file'[g] = file[g]
  BY <1>1 DEF Goes
<1>3. /\ DOMAIN worker' = Files
      /\ \A g \in Files : g # f => worker'[g] = worker[g]
      /\ worker'[f] = [worker[f] EXCEPT ![t] = w]
  BY <1>1 DEF Goes
<1>4. /\ worker'[f] \in [Threads(f) -> WorkerType]
      /\ \A u \in Threads(f) : worker'[f][u] = IF u = t THEN w ELSE worker[f][u]
  BY <1>1, <1>3
<1>5. \A g \in Files : worker'[g] \in [Threads(g) -> WorkerType]
  BY Zenon, <1>1, <1>3, <1>4
<1>6. \A g \in Files : \A u \in Threads(g) : GoodWorker(g, worker'[g][u])
  BY Zenon, <1>3, <1>4 DEF ResultInv, Goes
<1>7. \A g \in Files : GoodFile(file'[g])
  BY Zenon, <1>2 DEF ResultInv, Goes
<1>8. \A g \in Files : GoodBytes(g, intervals'[g], written'[g])
  BY Zenon DEF ResultInv
<1>9. \A g \in Files : GoodClass(g)'
  <2>1. ASSUME NEW g \in Files, g # f PROVE GoodClass(g)'
    BY Zenon, <2>1, <1>2, ClassKept DEF ResultInv
  <2>2. GoodClass(f)'
    <3>1. file[f].state # "ended" /\ file'[f].state # "ended" /\ file'[f].class = file[f].class
      BY <1>2 DEF Goes
    <3> QED
      BY Zenon, <3>1, ClassOpen DEF ResultInv
  <2> QED
    BY Zenon, <2>1, <2>2
<1>10. \A g \in Files : \A u \in Threads(g) : GoodWorker(g, worker[g][u])'
  BY Zenon, <1>6 DEF GoodWorker
<1>11. \A g \in Files : GoodFile(file[g])' /\ GoodBytes(g, intervals[g], written[g])'
  BY Zenon, <1>7, <1>8 DEF GoodFile, GoodBytes, Ordered, In
<1> QED
  BY Zenon, <1>2, <1>3, <1>5, <1>9, <1>10, <1>11 DEF ResultInv

\* A worker that only changes its place.
LEMMA GoesOn ==
    ASSUME ResultInv, NEW f \in Files, NEW t \in Threads(f), NEW w, NEW r, Goes(f, t, w, r),
           UNCHANGED <<intervals, written>>
    PROVE  ResultInv'
<1>1. /\ DOMAIN intervals' = Files /\ DOMAIN written' = Files
      /\ GoodBytes(f, intervals'[f], written'[f])
      /\ \A g \in Files : g # f => intervals'[g] = intervals[g] /\ written'[g] = written[g]
  BY Zenon DEF ResultInv
<1> QED
  BY Zenon, <1>1, GoesResult

\* What the steps are given.
LEMMA ResultType ==
    ASSUME ResultInv, NEW f \in Files, NEW t \in Threads(f)
    PROVE  /\ file[f] \in FileType /\ file[f].next \in Nat /\ (file[f].werr => file[f].err # "none")
           /\ GoodFile(file[f]) /\ GoodWorker(f, worker[f][t])
           /\ worker[f][t] \in WorkerType /\ worker[f][t].off \in Nat /\ worker[f][t].n \in Nat
           /\ file \in [Files -> FileType] /\ DOMAIN worker = Files
           /\ worker[f] \in [Threads(f) -> WorkerType]
BY Zenon DEF ResultInv, GoodFile, GoodWorker

\* A step that changes the worker alone.
LEMMA WorkerGoes ==
    ASSUME ResultInv, NEW f \in Files, NEW t \in Threads(f), NEW w, GoodWorker(f, w),
           file[f].state = "running", worker' = [worker EXCEPT ![f][t] = w],
           UNCHANGED <<file, intervals, written>>
    PROVE  ResultInv'
<1>1. file' = [file EXCEPT ![f] = file[f]]
  <2>1. file \in [Files -> FileType]
    BY Zenon DEF ResultInv
  <2> QED
    BY <2>1
<1> QED
  BY Zenon, <1>1, GoesOn, ResultType DEF Goes
\* A worker that ends with an error.
LEMMA FailsResult ==
    ASSUME ResultInv, NEW f \in Files, NEW t \in Threads(f), NEW e \in Errors, e # "none",
           Fails(f, t, e), file[f].state = "running", UNCHANGED <<intervals, written>>
    PROVE  ResultInv'
<1> DEFINE e1 == IF file[f].err = "none" THEN e ELSE file[f].err
           r == [file[f] EXCEPT !.err = e1]
<1>1. file[f] \in FileType /\ file[f].next \in Nat /\ file \in [Files -> FileType]
  BY Zenon, ResultType
<1>2. e1 \in Errors /\ e1 # "none"
  BY <1>1 DEF FileType
<1>3. file' = [file EXCEPT ![f] = r] /\ worker' = [worker EXCEPT ![f][t] = Between("done")]
  BY DEF Fails, Leave
<1> HIDE DEF e1
<1>4. /\ r \in FileType /\ r.state = file[f].state /\ r.class = file[f].class
      /\ r.next = file[f].next /\ r.err = e1
  BY <1>1, <1>2 DEF FileType
<1> HIDE DEF r
<1>5. GoodFile(r)
  BY <1>1, <1>2, <1>4 DEF GoodFile
<1>6. GoodWorker(f, Between("done"))
  BY DEF GoodWorker, Between, WorkerType, Places
<1>7. Goes(f, t, Between("done"), r)
  BY Zenon, <1>3, <1>4, <1>5, <1>6 DEF Goes
<1> QED
  BY Zenon, <1>7, GoesOn

\* An answer to a request.
LEMMA InvokeResult ==
    ASSUME ResultInv, NEW f \in Files, NEW t \in Threads(f), NEW off \in Nat, NEW next \in Nat,
           Invoke(f, t, off, next), file[f].state = "running", UNCHANGED <<intervals, written>>
    PROVE  ResultInv'
<1>1. CASE file[f].count < ComputeRequestBudget(Size[f])
  <2> DEFINE c == file[f].count + 1
             r == [file[f] EXCEPT !.count = c, !.next = next]
             w == [pc |-> "gate", off |-> off, wait |-> 0, n |-> 0]
  <2>1. /\ worker' = [worker EXCEPT ![f][t] = [Between("gate") EXCEPT !.off = off]]
        /\ file' = [file EXCEPT ![f].count = @ + 1, ![f].next = next]
    BY <1>1 DEF Invoke
  <2>2. [Between("gate") EXCEPT !.off = off] = w
    BY DEF Between
  <2>3. GoodWorker(f, w)
    BY DEF GoodWorker, WorkerType, Places
  <2>4. file[f] \in FileType /\ file \in [Files -> FileType] /\ (file[f].werr => file[f].err # "none")
    BY Zenon, ResultType
  <2>5. c \in Int /\ next \in Int
    BY <2>4 DEF FileType
  <2>6. file' = [file EXCEPT ![f] = r]
    BY Zenon, <2>1, <2>4
  <2> HIDE DEF c, w
  <2>7. /\ r \in FileType /\ r.state = file[f].state /\ r.class = file[f].class
        /\ r.next = next /\ r.err = file[f].err /\ r.werr = file[f].werr
    BY Zenon, <2>4, <2>5 DEF FileType
  <2> HIDE DEF r
  <2>8. GoodFile(r)
    BY <2>4, <2>7 DEF GoodFile
  <2>9. Goes(f, t, w, r)
    BY Zenon, <2>1, <2>2, <2>3, <2>6, <2>7, <2>8 DEF Goes
  <2> QED
    BY Zenon, <2>9, GoesOn
<1>2. CASE ~(file[f].count < ComputeRequestBudget(Size[f]))
  <2>1. Fails(f, t, "budget") /\ "budget" \in Errors /\ "budget" # "none"
    BY <1>2 DEF Invoke, Errors
  <2> QED
    BY Zenon, <2>1, FailsResult
<1> QED
  BY Zenon, <1>1, <1>2

\* The steps of a worker before it writes.
LEMMA GateResult ==
    ASSUME ResultInv, TransferShape, NEW f \in Files, NEW t \in Threads(f),
           \/ RequestPart(f, t) \/ CheckCooldown(f, t) \/ Acquire(f, t) \/ PostCheck(f, t)
           \/ Send(f, t) \/ GateCancelled(f, t)
    PROVE  ResultInv'
<1>1. /\ worker[f][t] \in WorkerType /\ worker[f][t].off \in Nat /\ worker[f][t].n \in Nat
      /\ DOMAIN worker = Files /\ worker[f] \in [Threads(f) -> WorkerType]
      /\ file[f].next \in Nat /\ cooldown[DcOf[f]] \in Int
  <2>1. cooldown[DcOf[f]] \in Int
    BY TransferAssumption DEF TransferShape
  <2> QED
    BY Zenon, <2>1, ResultType
<1>2. file[f].state = "running" /\ UNCHANGED <<intervals, written>>
  BY DEF RequestPart, CheckCooldown, Acquire, PostCheck, Send, GateCancelled, AtPc
<1>3. CASE RequestPart(f, t)
  <2>1. file[f].next + PartSize \in Nat
    BY <1>1, TransferAssumption
  <2> QED
    BY Zenon, <2>1, <1>1, <1>2, <1>3, InvokeResult DEF RequestPart
<1>4. ASSUME NEW p \in {"gate", "sem", "held", "cleared", "rpc"}, NEW v \in Int,
             worker' = [worker EXCEPT ![f][t].pc = p, ![f][t].wait = v], UNCHANGED file
      PROVE  ResultInv'
  <2> DEFINE w == [worker[f][t] EXCEPT !.pc = p, !.wait = v]
  <2>1. worker' = [worker EXCEPT ![f][t] = w]
    BY Zenon, <1>1, <1>4
  <2>2. w \in WorkerType /\ w.pc = p /\ w.off = worker[f][t].off /\ w.n = worker[f][t].n
    <3>1. p \in Places
      BY DEF Places
    <3> QED
      BY Zenon, <3>1, <1>1 DEF WorkerType
  <2> HIDE DEF w
  <2>3. GoodWorker(f, w)
    BY <2>2, <1>1 DEF GoodWorker
  <2> QED
    BY Zenon, <2>1, <2>3, <1>2, <1>4, WorkerGoes
<1>5. ASSUME NEW p \in {"gate", "sem", "held", "cleared", "rpc"},
             worker' = [worker EXCEPT ![f][t].pc = p], UNCHANGED file
      PROVE  ResultInv'
  <2> DEFINE w == [worker[f][t] EXCEPT !.pc = p]
  <2>1. worker' = [worker EXCEPT ![f][t] = w]
    BY Zenon, <1>1, <1>5
  <2>2. w \in WorkerType /\ w.pc = p /\ w.off = worker[f][t].off /\ w.n = worker[f][t].n
    <3>1. p \in Places
      BY DEF Places
    <3> QED
      BY Zenon, <3>1, <1>1 DEF WorkerType
  <2> HIDE DEF w
  <2>3. GoodWorker(f, w)
    BY <2>2, <1>1 DEF GoodWorker
  <2> QED
    BY Zenon, <2>1, <2>3, <1>2, <1>5, WorkerGoes
<1>6. CASE CheckCooldown(f, t)
  <2>1. (IF IsDCCooledDown(DcOf[f]) THEN "gate" ELSE "sem") \in {"gate", "sem", "held", "cleared", "rpc"}
    OBVIOUS
  <2> QED
    BY Zenon, <1>6, <1>4, <1>1, <2>1 DEF CheckCooldown
<1>7. CASE Acquire(f, t)
  BY <1>7, <1>5 DEF Acquire, Goto
<1>8. CASE PostCheck(f, t)
  <2>1. CASE IsDCCooledDown(DcOf[f])
    <3>1. "gate" \in {"gate", "sem", "held", "cleared", "rpc"}
      OBVIOUS
    <3> QED
      BY Zenon, <3>1, <2>1, <1>8, <1>4, <1>1 DEF PostCheck
  <2>2. CASE ~IsDCCooledDown(DcOf[f])
    BY <2>2, <1>8, <1>5 DEF PostCheck, Goto
  <2> QED
    BY Zenon, <2>1, <2>2
<1>9. CASE GateCancelled(f, t)
  <2>1. "ctx" \in Errors /\ "ctx" # "none"
    BY DEF Errors
  <2> QED
    BY Zenon, <2>1, <1>2, <1>9, FailsResult DEF GateCancelled
<1>10. CASE Send(f, t)
  BY <1>10, <1>5 DEF Send, Goto
<1> QED
  BY Zenon, <1>3, <1>6, <1>7, <1>8, <1>9, <1>10
\* The answers to a request.
LEMMA RequestResult ==
    ASSUME ResultInv, NEW f \in Files, NEW t \in Threads(f),
           \/ \E n \in 0 .. PartSize : Answer(f, t, n)
           \/ \E e \in {"network", "expired", "ctx"} : \E d \in 0 .. MaxFloodWait : RequestFails(f, t, e, d)
    PROVE  ResultInv'
<1>1. /\ worker[f][t] \in WorkerType /\ worker[f][t].off \in Nat /\ worker[f][t].n \in Nat
      /\ DOMAIN worker = Files /\ worker[f] \in [Threads(f) -> WorkerType]
      /\ file[f].next \in Nat
  BY Zenon, ResultType
<1>2. file[f].state = "running" /\ UNCHANGED <<intervals, written>>
  BY Zenon DEF Answer, RequestFails, AtPc
<1>3. ASSUME NEW n \in 0 .. PartSize, Answer(f, t, n) PROVE ResultInv'
  <2> DEFINE w == [worker[f][t] EXCEPT !.pc = "write", !.n = n]
  <2>1. worker' = [worker EXCEPT ![f][t] = w] /\ UNCHANGED file
    BY Zenon, <1>1, <1>3 DEF Answer
  <2>2. n \in Nat /\ n \in Int /\ "write" \in Places /\ worker[f][t].off + n <= Size[f]
    <3>1. n <= Size[f] - worker[f][t].off
      BY Zenon, <1>3 DEF Answer
    <3>2. Size[f] \in Nat /\ n \in Nat
      BY TransferAssumption
    <3>3. "write" \in Places
      BY DEF Places
    <3>4. worker[f][t].off + n <= Size[f] /\ n \in Int
      BY <3>1, <3>2, <1>1
    <3> QED
      BY Zenon, <3>2, <3>3, <3>4
  <2>3. w \in WorkerType /\ w.pc = "write" /\ w.off = worker[f][t].off /\ w.n = n
    BY Zenon, <2>2, <1>1 DEF WorkerType
  <2> HIDE DEF w
  <2>4. GoodWorker(f, w)
    BY <2>2, <2>3, <1>1 DEF GoodWorker
  <2> QED
    BY Zenon, <2>1, <2>4, <1>2, WorkerGoes
<1>4. ASSUME NEW e \in {"network", "expired", "ctx"}, NEW d \in 0 .. MaxFloodWait,
             RequestFails(f, t, e, d)
      PROVE  ResultInv'
  <2>1. e \in Errors /\ e # "none"
    BY DEF Errors
  <2>2. Invoke(f, t, worker[f][t].off, file[f].next) \/ Fails(f, t, e)
    BY Zenon, <1>4 DEF RequestFails
  <2>3. CASE Fails(f, t, e)
    BY Zenon, <2>1, <2>3, <1>2, FailsResult
  <2>4. CASE Invoke(f, t, worker[f][t].off, file[f].next)
    BY Zenon, <2>4, <1>1, <1>2, InvokeResult
  <2> QED
    BY Zenon, <2>2, <2>3, <2>4
<1> QED
  BY Zenon, <1>3, <1>4

\* The bytes that reach the destination are recorded.
LEMMA WriteBytes ==
    ASSUME ResultInv, NEW f \in Files, NEW t \in Threads(f), NEW m \in 0 .. PartSize, WriteAt(f, t, m)
    PROVE  /\ DOMAIN intervals' = Files /\ DOMAIN written' = Files
           /\ GoodBytes(f, intervals'[f], written'[f])
           /\ \A g \in Files : g # f => intervals'[g] = intervals[g] /\ written'[g] = written[g]
<1> DEFINE off == worker[f][t].off
           n == worker[f][t].n
<1>1. off \in Nat /\ n \in Nat /\ m \in Nat /\ m <= n /\ off + n <= Size[f] /\ Size[f] \in Nat
  <2>1. off \in Nat /\ n \in Nat /\ (worker[f][t].pc = "write" => off + n <= Size[f])
    BY Zenon DEF ResultInv, GoodWorker
  <2>2. worker[f][t].pc = "write" /\ m <= n
    BY Zenon DEF WriteAt, AtPc
  <2> QED
    BY <2>1, <2>2, TransferAssumption
<1>2. /\ DOMAIN intervals = Files /\ DOMAIN written = Files
      /\ Ordered(intervals[f]) /\ written[f] \subseteq 0 .. Size[f] - 1
      /\ \A b \in Int : b \in written[f] <=> In(intervals[f], Len(intervals[f]), b)
  BY Zenon DEF ResultInv, GoodBytes
<1>3. /\ written' = [written EXCEPT ![f] = written[f] \cup (off .. off + m - 1)]
      /\ intervals' = [intervals EXCEPT ![f] = AddRange(intervals[f], off, off + m)]
  BY Zenon DEF WriteAt
<1> HIDE DEF off, n
<1> DEFINE iv == AddRange(intervals[f], off, off + m)
           bs == written[f] \cup (off .. off + m - 1)
<1>4. off + m \in Int
  BY <1>1
<1>5. /\ Ordered(iv)
      /\ \A b \in Int : In(iv, Len(iv), b)
                           <=> In(intervals[f], Len(intervals[f]), b) \/ (off <= b /\ b < off + m)
  BY Zenon, <1>1, <1>2, <1>4, AddRangeExact
<1>6. bs \subseteq 0 .. Size[f] - 1
  BY <1>1, <1>2
<1>7. \A b \in Int : b \in bs <=> b \in written[f] \/ (off <= b /\ b < off + m)
  BY <1>1
<1> HIDE DEF iv, bs
<1>8. GoodBytes(f, iv, bs)
  BY Zenon, <1>2, <1>5, <1>6, <1>7 DEF GoodBytes
<1>9. intervals'[f] = iv /\ written'[f] = bs
  BY Zenon, <1>2, <1>3 DEF iv, bs
<1> QED
  BY Zenon, <1>2, <1>3, <1>8, <1>9

\* CountingWriterAt.WriteAt.
LEMMA WriteResult ==
    ASSUME ResultInv, NEW f \in Files, NEW t \in Threads(f), NEW m \in 0 .. PartSize, WriteAt(f, t, m)
    PROVE  ResultInv'
<1>1. /\ file[f] \in FileType /\ file[f].next \in Nat /\ file \in [Files -> FileType]
      /\ (file[f].werr => file[f].err # "none")
  BY Zenon, ResultType
<1>2. file[f].state = "running"
  BY Zenon DEF WriteAt, AtPc
<1>3. GoodWorker(f, Between("done")) /\ GoodWorker(f, Between("next"))
  BY DEF GoodWorker, Between, WorkerType, Places
<1>4. ASSUME NEW w, NEW r, Goes(f, t, w, r) PROVE ResultInv'
  BY Zenon, <1>4, WriteBytes, GoesResult
<1>5. CASE m < worker[f][t].n
  <2> DEFINE e == IF file[f].err = "none" THEN "io" ELSE file[f].err
             r == [file[f] EXCEPT !.err = e, !.werr = TRUE]
  <2>1. e \in Errors /\ e # "none"
    BY <1>1 DEF FileType, Errors
  <2>2. file' = [file EXCEPT ![f] = r] /\ worker' = [worker EXCEPT ![f][t] = Between("done")]
    BY Zenon, <1>1, <1>5 DEF WriteAt, Leave
  <2> HIDE DEF e
  <2>3. /\ r \in FileType /\ r.state = file[f].state /\ r.class = file[f].class
        /\ r.next = file[f].next /\ r.err = e
    BY Zenon, <1>1, <2>1 DEF FileType
  <2> HIDE DEF r
  <2>4. GoodFile(r)
    BY <1>1, <2>1, <2>3 DEF GoodFile
  <2>5. Goes(f, t, Between("done"), r)
    BY Zenon, <1>2, <1>3, <2>2, <2>3, <2>4 DEF Goes
  <2> QED
    BY Zenon, <2>5, <1>4
<1>6. CASE ~(m < worker[f][t].n)
  <2> DEFINE b == file[f].eof \/ worker[f][t].n < PartSize
             r == [file[f] EXCEPT !.eof = b]
  <2>1. b \in BOOLEAN
    BY Zenon
  <2>2. file' = [file EXCEPT ![f] = r] /\ worker' = [worker EXCEPT ![f][t] = Between("next")]
    BY Zenon, <1>1, <1>6 DEF WriteAt, Leave
  <2> HIDE DEF b
  <2>3. /\ r \in FileType /\ r.state = file[f].state /\ r.class = file[f].class
        /\ r.next = file[f].next /\ r.err = file[f].err /\ r.werr = file[f].werr
    BY Zenon, <1>1, <2>1 DEF FileType
  <2> HIDE DEF r
  <2>4. GoodFile(r)
    BY <1>1, <2>3 DEF GoodFile
  <2>5. Goes(f, t, Between("next"), r)
    BY Zenon, <1>2, <1>3, <2>2, <2>3, <2>4 DEF Goes
  <2> QED
    BY Zenon, <2>5, <1>4
<1> QED
  BY Zenon, <1>5, <1>6
\* A step that sets all workers of a file, and its record.
LEMMA FileResult ==
    ASSUME ResultInv, NEW f \in Files, NEW p \in {"next", "done"}, NEW r, GoodFile(r),
           worker' = [worker EXCEPT ![f] = [t \in Threads(f) |-> Between(p)]],
           file' = [file EXCEPT ![f] = r], UNCHANGED <<intervals, written>>, GoodClass(f)'
    PROVE  ResultInv'
<1>1. /\ file \in [Files -> FileType] /\ r \in FileType /\ DOMAIN worker = Files
      /\ \A g \in Files : worker[g] \in [Threads(g) -> WorkerType]
  BY Zenon DEF ResultInv, GoodFile
<1>2. /\ file' \in [Files -> FileType] /\ file'[f] = r
      /\ \A g \in Files : g # f => file'[g] = file[g]
  BY <1>1
<1>3. /\ DOMAIN worker' = Files
      /\ \A g \in Files : g # f => worker'[g] = worker[g]
      /\ worker'[f] = [t \in Threads(f) |-> Between(p)]
  BY <1>1
<1>4. GoodWorker(f, Between(p)) /\ Between(p) \in WorkerType
  BY DEF GoodWorker, Between, WorkerType, Places
<1>5. worker'[f] \in [Threads(f) -> WorkerType] /\ \A t \in Threads(f) : worker'[f][t] = Between(p)
  BY <1>3, <1>4
<1>6. \A g \in Files : worker'[g] \in [Threads(g) -> WorkerType]
  BY Zenon, <1>1, <1>3, <1>5
<1>7. \A g \in Files : \A u \in Threads(g) : GoodWorker(g, worker'[g][u])
  BY Zenon, <1>3, <1>4, <1>5 DEF ResultInv
<1>8. \A g \in Files : GoodFile(file'[g]) /\ GoodBytes(g, intervals'[g], written'[g])
  BY Zenon, <1>2 DEF ResultInv
<1>9. \A g \in Files : GoodClass(g)'
  <2>1. ASSUME NEW g \in Files, g # f PROVE GoodClass(g)'
    BY Zenon, <2>1, <1>2, ClassKept DEF ResultInv
  <2> QED
    BY Zenon, <2>1
<1>10. \A g \in Files : \A u \in Threads(g) : GoodWorker(g, worker[g][u])'
  BY Zenon, <1>7 DEF GoodWorker
<1>11. \A g \in Files : GoodFile(file[g])' /\ GoodBytes(g, intervals[g], written[g])'
  BY Zenon, <1>8 DEF GoodFile, GoodBytes, Ordered, In
<1> QED
  BY Zenon, <1>2, <1>3, <1>6, <1>9, <1>10, <1>11 DEF ResultInv

\* A file starts with nothing written.
LEMMA StartFileResult ==
    ASSUME ResultInv, NEW f \in Files, StartFile(f) PROVE ResultInv'
<1> DEFINE r == [file[f] EXCEPT !.state = "running"]
<1>1. /\ file[f] \in FileType /\ file[f].next \in Nat /\ (file[f].werr => file[f].err # "none")
      /\ GoodClass(f) /\ file \in [Files -> FileType]
  BY Zenon DEF ResultInv, GoodFile
<1>2. file' = [file EXCEPT ![f] = r] /\ file[f].state = "new"
  BY Zenon, <1>1 DEF StartFile
<1>3. /\ r \in FileType /\ r.state = "running" /\ r.class = file[f].class
      /\ r.next = file[f].next /\ r.err = file[f].err /\ r.werr = file[f].werr
  BY <1>1 DEF FileType
<1> HIDE DEF r
<1>4. GoodFile(r)
  BY <1>1, <1>3 DEF GoodFile
<1>5. file'[f] = r
  BY Zenon, <1>1, <1>2
<1>6. file[f].state # "ended" /\ file'[f].state # "ended" /\ file'[f].class = file[f].class
  BY <1>2, <1>3, <1>5
<1>7. GoodClass(f)'
  BY Zenon, <1>1, <1>6, ClassOpen
<1>8. worker' = [worker EXCEPT ![f] = [t \in Threads(f) |-> Between("next")]]
      /\ UNCHANGED <<intervals, written>> /\ "next" \in {"next", "done"}
  BY Zenon DEF StartFile
<1> QED
  BY Zenon, <1>2, <1>4, <1>7, <1>8, FileResult

\* The class a call returns is the one its file keeps.
LEMMA ReturnResult ==
    ASSUME ResultInv, NEW f \in Files, Return(f) PROVE ResultInv'
<1> DEFINE c == Classify(f)
           z == 0
           r == [file[f] EXCEPT !.state = "ended", !.class = c, !.count = z, !.next = z,
                                !.eof = FALSE]
<1>1. /\ file[f] \in FileType /\ (file[f].werr => file[f].err # "none")
      /\ file \in [Files -> FileType]
  BY Zenon DEF ResultInv, GoodFile
<1>2. c \in Classes
  BY <1>1 DEF Classify, FileType, Classes, Errors
<1>3. file' = [file EXCEPT ![f] = r]
  BY Zenon, <1>1 DEF Return
<1>3a. z \in Int /\ z \in Nat
  OBVIOUS
<1>c. c = Classify(f)
  OBVIOUS
<1> HIDE DEF c, z
<1>4. r \in FileType
  BY Zenon, <1>1, <1>2, <1>3a DEF FileType
<1>5. r.state = "ended" /\ r.class = c /\ r.next = z
  BY Zenon, <1>1 DEF FileType
<1>6. r.err = file[f].err /\ r.werr = file[f].werr /\ r.ctx = file[f].ctx
  BY Zenon, <1>1 DEF FileType
<1> HIDE DEF r
<1>7. GoodFile(r)
  BY Zenon, <1>1, <1>3a, <1>4, <1>5, <1>6 DEF GoodFile
<1>8. /\ worker' = [worker EXCEPT ![f] = [t \in Threads(f) |-> Between("done")]]
      /\ UNCHANGED <<intervals, written>> /\ "done" \in {"next", "done"}
  BY Zenon DEF Return
<1>9. file'[f] = r
  BY Zenon, <1>1, <1>3
<1>10. GoodClass(f)'
  <2>1. Classify(f)' = Classify(f)
    BY Zenon, <1>6, <1>8, <1>9 DEF Classify
  <2> QED
    BY Zenon, <2>1, <1>5, <1>9, <1>c DEF GoodClass
<1> QED
  BY Zenon, <1>3, <1>7, <1>8, <1>10, FileResult

\* A cancellation takes no chunk back.
LEMMA CancelFileResult ==
    ASSUME ResultInv, NEW f \in Files, CancelFile(f) PROVE ResultInv'
<1> DEFINE r == [file[f] EXCEPT !.ctx = "cancelled"]
<1>1. /\ file[f] \in FileType /\ file[f].next \in Nat /\ (file[f].werr => file[f].err # "none")
      /\ file \in [Files -> FileType]
  BY Zenon DEF ResultInv, GoodFile
<1>2. file' = [file EXCEPT ![f] = r] /\ file[f].state = "running"
  BY Zenon, <1>1 DEF CancelFile
<1>3. /\ r \in FileType /\ r.state = file[f].state /\ r.class = file[f].class
      /\ r.next = file[f].next /\ r.err = file[f].err /\ r.werr = file[f].werr
  BY <1>1 DEF FileType
<1> HIDE DEF r
<1>4. GoodFile(r)
  BY <1>1, <1>3 DEF GoodFile
<1>5. /\ file' \in [Files -> FileType] /\ file'[f] = r
      /\ \A g \in Files : g # f => file'[g] = file[g]
  BY <1>1, <1>2, <1>3
<1>6. UNCHANGED <<worker, intervals, written>>
  BY Zenon DEF CancelFile
<1>7. \A g \in Files : GoodClass(g)'
  <2>1. ASSUME NEW g \in Files, g # f PROVE GoodClass(g)'
    BY Zenon, <2>1, <1>5, <1>6, ClassKept DEF ResultInv
  <2>2. file[f].state # "ended" /\ file'[f].state # "ended" /\ file'[f].class = file[f].class
    BY <1>2, <1>3, <1>5
  <2>3. GoodClass(f)'
    BY Zenon, <2>2, ClassOpen DEF ResultInv
  <2> QED
    BY Zenon, <2>1, <2>3
<1>8. \A g \in Files : GoodFile(file[g])'
  BY Zenon, <1>4, <1>5 DEF ResultInv, GoodFile
<1>9. \A g \in Files : GoodBytes(g, intervals[g], written[g])'
  BY Zenon, <1>6 DEF ResultInv, GoodBytes, Ordered, In
<1>10. \A g \in Files : \A u \in Threads(g) : GoodWorker(g, worker[g][u])'
  BY Zenon, <1>6 DEF ResultInv, GoodWorker
<1> QED
  BY Zenon, <1>5, <1>6, <1>7, <1>8, <1>9, <1>10 DEF ResultInv

\* Time changes only what a worker waits for.
LEMMA TickResult ==
    ASSUME ResultInv, TransferShape', Tick PROVE ResultInv'
<1>1. UNCHANGED <<file, intervals, written>>
  BY Zenon DEF Tick
<1>2. DOMAIN worker' = Files /\ \A f \in Files : worker'[f] \in [Threads(f) -> WorkerType]
  BY Zenon DEF TransferShape
<1>3. \A f \in Files : \A t \in Threads(f) : GoodWorker(f, worker[f][t])'
  <2> SUFFICES ASSUME NEW f \in Files, NEW t \in Threads(f) PROVE GoodWorker(f, worker'[f][t])
    BY Zenon DEF GoodWorker
  <2> DEFINE v == IF worker[f][t].wait > 0 THEN worker[f][t].wait - 1 ELSE 0
  <2>1. worker[f][t] \in WorkerType /\ GoodWorker(f, worker[f][t])
    BY Zenon DEF ResultInv, GoodWorker
  <2>2. worker'[f][t] = [worker[f][t] EXCEPT !.wait = v]
    BY DEF Tick
  <2>3. worker'[f][t] \in WorkerType
    BY Zenon, <1>2
  <2> HIDE DEF v
  <2>4. /\ worker'[f][t].pc = worker[f][t].pc /\ worker'[f][t].off = worker[f][t].off
        /\ worker'[f][t].n = worker[f][t].n
    BY <2>1, <2>2 DEF WorkerType
  <2> QED
    BY Zenon, <2>1, <2>3, <2>4 DEF GoodWorker
<1>4. \A g \in Files : GoodFile(file[g])' /\ GoodBytes(g, intervals[g], written[g])'
  BY Zenon, <1>1 DEF ResultInv, GoodFile, GoodBytes, Ordered, In
<1>5. \A g \in Files : GoodClass(g)'
  BY Zenon, <1>1, ClassKept DEF ResultInv
<1> QED
  BY Zenon, <1>1, <1>2, <1>3, <1>4, <1>5 DEF ResultInv
\* Initially no file has a result.
LEMMA ResultInit == TransferInit => ResultInv
<1> SUFFICES ASSUME TransferInit PROVE ResultInv
  OBVIOUS
<1>1. TransferShape
  BY Zenon, TransferInvInit DEF TransferInv
<1>2. /\ file \in [Files -> FileType] /\ DOMAIN worker = Files
      /\ \A f \in Files : worker[f] \in [Threads(f) -> WorkerType]
  BY Zenon, <1>1 DEF TransferShape
<1>3. /\ DOMAIN intervals = Files /\ DOMAIN written = Files
      /\ \A f \in Files : intervals[f] = << >> /\ written[f] = {}
  BY DEF TransferInit
<1>4. \A f \in Files : \A t \in Threads(f) : GoodWorker(f, worker[f][t])
  <2>1. \A f \in Files : GoodWorker(f, Between("done"))
    BY DEF GoodWorker, Between, WorkerType, Places
  <2>2. \A f \in Files : \A t \in Threads(f) : worker[f][t] = Between("done")
    BY Zenon DEF TransferInit
  <2> QED
    BY Zenon, <2>1, <2>2
<1>5. \A f \in Files : /\ file[f].state = "new" /\ file[f].class = "none"
                       /\ file[f].werr = FALSE /\ file[f].next = 0
  BY DEF TransferInit
<1>6. \A f \in Files : GoodFile(file[f]) /\ GoodClass(f)
  BY <1>2, <1>5 DEF GoodFile, GoodClass
<1>7. \A f \in Files : GoodBytes(f, << >>, {})
  <2>1. DOMAIN << >> = {} /\ << >> \in Seq(Interval)
    OBVIOUS
  <2> QED
    BY Zenon, <2>1 DEF GoodBytes, Ordered, In
<1> QED
  BY Zenon, <1>2, <1>3, <1>4, <1>6, <1>7 DEF ResultInv

\* The invariant is inductive.
LEMMA ResultStep ==
    ASSUME ResultInv, TransferShape, TransferShape', [TransferNext]_transferVars
    PROVE  ResultInv'
<1>1. ASSUME NEW f \in Files, NEW t \in Threads(f), WorkerStep(f, t) \/ Acquire(f, t)
      PROVE  ResultInv'
  <2>1. CASE RequestPart(f, t) \/ CheckCooldown(f, t) \/ Acquire(f, t) \/ PostCheck(f, t)
             \/ Send(f, t) \/ GateCancelled(f, t)
    BY Zenon, <2>1, GateResult
  <2>2. CASE \E n \in 0 .. PartSize : Answer(f, t, n)
    BY Zenon, <2>2, RequestResult
  <2>3. CASE \/ \E d \in 0 .. MaxFloodWait : RequestFails(f, t, "network", d)
             \/ RequestFails(f, t, "expired", 0)
             \/ RequestFails(f, t, "ctx", 0)
    <3>1. 0 \in 0 .. MaxFloodWait
      BY GateAssumption
    <3>2. \E e \in {"network", "expired", "ctx"} : \E d \in 0 .. MaxFloodWait : RequestFails(f, t, e, d)
      BY Zenon, <3>1, <2>3
    <3> QED
      BY Zenon, <3>2, RequestResult
  <2>4. CASE \E m \in 0 .. PartSize : WriteAt(f, t, m)
    BY Zenon, <2>4, WriteResult
  <2> QED
    BY Zenon, <1>1, <2>1, <2>2, <2>3, <2>4 DEF WorkerStep
<1>2. ASSUME NEW f \in Files, StartFile(f) \/ Return(f) \/ CancelFile(f)
      PROVE  ResultInv'
  BY Zenon, <1>2, StartFileResult, ReturnResult, CancelFileResult
<1>3. CASE Tick
  BY Zenon, <1>3, TickResult
<1>4. CASE UNCHANGED transferVars
  <2>1. UNCHANGED <<file, worker, intervals, written>>
    BY Zenon, <1>4 DEF transferVars
  <2>2. \A g \in Files : GoodClass(g)'
    BY Zenon, <2>1, ClassKept DEF ResultInv
  <2>3. \A g \in Files : GoodFile(file[g])' /\ GoodBytes(g, intervals[g], written[g])'
    BY Zenon, <2>1 DEF ResultInv, GoodFile, GoodBytes, Ordered, In
  <2>4. \A g \in Files : \A u \in Threads(g) : GoodWorker(g, worker[g][u])'
    BY Zenon, <2>1 DEF ResultInv, GoodWorker
  <2> QED
    BY Zenon, <2>1, <2>2, <2>3, <2>4 DEF ResultInv
<1> QED
  BY Zenon, <1>1, <1>2, <1>3, <1>4 DEF TransferNext, Progress

\* A class that was given tells the truth.
LEMMA ResultTold == ResultInv => ResultIsTrue
<1> SUFFICES ASSUME ResultInv, NEW f \in Files
             PROVE  /\ file[f].class = "ok" => written[f] = 0 .. Size[f] - 1
                    /\ file[f].state = "ended" /\ file[f].werr /\ file[f].err # "budget"
                          => file[f].class = "io"
  BY Zenon DEF ResultIsTrue
<1>1. /\ file[f] \in FileType /\ (file[f].werr => file[f].err # "none") /\ GoodClass(f)
      /\ Ordered(intervals[f]) /\ written[f] \subseteq 0 .. Size[f] - 1
      /\ \A b \in Int : b \in written[f] <=> In(intervals[f], Len(intervals[f]), b)
  BY Zenon DEF ResultInv, GoodFile, GoodBytes
<1>2. ASSUME file[f].class = "ok" PROVE written[f] = 0 .. Size[f] - 1
  <2>1. Classify(f) = "ok"
    BY <1>1, <1>2 DEF GoodClass
  <2>2. IsComplete(intervals[f], Size[f]) /\ Size[f] \in Nat
    BY <2>1, <1>1, TransferAssumption DEF Classify, FileType
  <2>3. 0 .. Size[f] - 1 \subseteq Covered(intervals[f])
    BY Zenon, <2>2, <1>1, CompleteIsCovered
  <2>4. \A b \in Covered(intervals[f]) : b \in written[f]
    BY Zenon, <1>1, CoveredIn
  <2> QED
    BY Zenon, <2>3, <2>4, <1>1
<1>3. ASSUME file[f].state = "ended", file[f].werr, file[f].err # "budget"
      PROVE  file[f].class = "io"
  <2>1. file[f].class = Classify(f)
    BY Zenon, <1>1, <1>3 DEF GoodClass
  <2>2. Classify(f) = "io"
    BY <1>1, <1>3 DEF Classify
  <2> QED
    BY Zenon, <2>1, <2>2
<1> QED
  BY Zenon, <1>2, <1>3

\* Whatever the parts, their sizes, their order and their failures, a download
\* is reported whole only when every byte of the file was written, and a write
\* error is reported as one.
THEOREM ResultTrue == TransferSpec => []ResultIsTrue
<1>1. ResultInv /\ TransferInv /\ TransferInv' /\ [TransferNext]_transferVars => ResultInv'
  BY Zenon, ResultStep DEF TransferInv
<1> QED
  BY <1>1, ResultInit, ResultTold, TransferInvariant, PTL DEF TransferSpec
=============================================================================
