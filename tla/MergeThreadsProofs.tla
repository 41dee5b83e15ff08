--------------------------- MODULE MergeThreadsProofs ---------------------------
(***************************************************************************)
(* Proofs about module MergeThreads: the merge registry, the names of      *)
(* segments and the lock of addIndexes stay consistent for any threads,    *)
(* calls, segments and added indexes.  First what the merge policy         *)
(* proposes, then what each operation does to the registry and to the      *)
(* segments, then the inductive invariant, step by step.                   *)
(***************************************************************************)
EXTENDS MergeThreads, WellFoundedInduction, FiniteSetTheorems,
        SequenceTheorems, TLAPS

-----------------------------------------------------------------------------
(***************************************************************************)
(* Induction and recursion over an interval.                               *)
(***************************************************************************)
\* A set of natural numbers that is not empty has a least element.
LEMMA LeastNat ==
    ASSUME NEW S \in SUBSET Nat, S # {}
    PROVE  \E m \in S : \A k \in S : m <= k
  <1> DEFINE R == {ss \in Nat \X Nat : ss[1] < ss[2]}
  <1>1. IsWellFoundedOn(R, Nat)
    BY NatLessThanWellFounded, Zenon DEF OpToRel
  <1>2. \A x, y \in Nat : x < y => <<x, y>> \in R
    OBVIOUS
  <1> HIDE DEF R
  <1>3. PICK m \in S : \A y \in S : <<y, m>> \notin R
    BY <1>1, WFMin, Zenon
  <1>4. \A y \in S : ~(y < m)
    BY <1>2, <1>3
  <1> QED
    BY <1>4

\* Induction: a set that has 0 and with each number the next has all to n.
LEMMA UpTo ==
    ASSUME NEW n \in Nat, NEW G, 0 \in G, \A i \in 1..n : i - 1 \in G => i \in G
    PROVE  0..n \subseteq G
  <1> DEFINE B == (0..n) \ G
  <1> SUFFICES ASSUME B # {} PROVE FALSE
    OBVIOUS
  <1>0. B \in SUBSET Nat
    OBVIOUS
  <1>1. PICK m \in B : \A k \in B : m <= k
    BY <1>0, LeastNat
  <1>2. m \in 1..n /\ m - 1 \in 0..n /\ m - 1 \notin B
    BY <1>1
  <1> QED
    BY <1>1, <1>2

\* Each next value depends on the number of the step and the last value.
IsStep(step, n, S) == step \in [(1..n) \X S -> S]

Iterates(f, step, base, n, S) ==
    /\ f \in [0..n -> S] /\ f[0] = base
    /\ \A i \in 1..n : f[i] = step[<<i, f[i - 1]>>]

\* A function that is defined step by step exists.
LEMMA Iteration ==
    ASSUME NEW n \in Nat, NEW S, NEW base \in S, NEW step, IsStep(step, n, S)
    PROVE  \E f : Iterates(f, step, base, n, S)
  <1> DEFINE Fine(k, f) == /\ f \in [0..k -> S] /\ f[0] = base
                           /\ \A i \in 1..k : f[i] = step[<<i, f[i - 1]>>]
             G == {k \in 0..n : \E f : Fine(k, f)}
  <1> USE DEF IsStep
  <1>1. 0 \in G
    <2>1. Fine(0, [i \in 0..0 |-> base])
      OBVIOUS
    <2> HIDE DEF Fine
    <2> QED
      BY <2>1
  <1>2. ASSUME NEW k \in 1..n, k - 1 \in G PROVE k \in G
    <2>1. PICK f : Fine(k - 1, f)
      BY <1>2
    <2> DEFINE g == [i \in 0..k |-> IF i = k THEN step[<<k, f[k - 1]>>] ELSE f[i]]
    <2>2. g \in [0..k -> S] /\ g[0] = base
      BY <2>1
    <2>3. ASSUME NEW i \in 1..k PROVE g[i] = step[<<i, g[i - 1]>>]
      <3>1. CASE i = k
        <4>1. g[k] = step[<<k, f[k - 1]>>] /\ g[k - 1] = f[k - 1]
          BY <2>1
        <4> QED
          BY <3>1, <4>1
      <3>2. CASE i # k
        <4>1. i \in 1..k - 1 /\ i - 1 # k /\ i - 1 \in 0..k
          BY <3>2
        <4> QED
          BY <2>1, <3>2, <4>1
      <3> QED
        BY <3>1, <3>2
    <2>4. Fine(k, g)
      BY <2>2, <2>3
    <2> HIDE DEF Fine, g
    <2> QED
      BY <2>4
  <1>3. n \in G
    <2> HIDE DEF G
    <2>1. 0..n \subseteq G
      BY <1>1, <1>2, UpTo
    <2> QED
      BY <2>1
  <1> QED
    BY <1>3 DEF Iterates

-----------------------------------------------------------------------------
(***************************************************************************)
(* The merge policy.                                                       *)
(***************************************************************************)
Info == [name : Nat, docs : Seq(Nat), ext : BOOLEAN]

\* The runs of neighbours among some segments
Runs(infos) == {SubSeq(infos, a, b) : a, b \in 1..Len(infos)} \ {<<>>}

\* What a run is.
LEMMA RunIntro ==
    ASSUME NEW infos \in Seq(Info), NEW a \in 1..Len(infos),
           NEW b \in 1..Len(infos), a <= b
    PROVE  SubSeq(infos, a, b) \in Runs(infos)
  <1>1. Len(SubSeq(infos, a, b)) = b - a + 1
    OBVIOUS
  <1>2. SubSeq(infos, a, b) # <<>>
    BY <1>1
  <1> QED
    BY <1>2 DEF Runs

\* A run is the segments between two places, and is not empty.
LEMMA RunElim ==
    ASSUME NEW infos \in Seq(Info), NEW r \in Runs(infos)
    PROVE  /\ r \in Seq(Info) /\ Len(r) > 0
           /\ \E a, b \in 1..Len(infos) :
                 /\ a <= b /\ r = SubSeq(infos, a, b) /\ Len(r) = b - a + 1
                 /\ \A i \in 1..Len(r) : r[i] = infos[a + i - 1]
  <1>1. PICK a, b \in 1..Len(infos) : r = SubSeq(infos, a, b) /\ r # <<>>
    BY DEF Runs
  <1>2. a <= b
    <2> SUFFICES ASSUME a > b PROVE FALSE
      OBVIOUS
    <2>1. Len(r) = 0 /\ r \in Seq(Info)
      BY <1>1
    <2> QED
      BY <1>1, <2>1
  <1>3. Len(r) = b - a + 1 /\ r \in Seq(Info)
    BY <1>1, <1>2
  <1>4. \A i \in 1..Len(r) : r[i] = infos[a + i - 1]
    BY <1>1, <1>2, <1>3
  <1> QED
    BY <1>1, <1>2, <1>3, <1>4

\* The sizes of segments are positive numbers.
LEMMA SizePositive ==
    ASSUME NEW info \in Info
    PROVE  AtLeastOne(SizeDocs(info)) \in Nat \ {0}
  BY DEF Info, AtLeastOne, SizeDocs

\* There is a largest size.
LEMMA MaxSizeIs ==
    ASSUME NEW infos \in Seq(Info), NEW start \in 1..Len(infos)
    PROVE  \E i \in start..Len(infos) :
              MaxSize(infos, start) = AtLeastOne(SizeDocs(infos[i]))
  <1> DEFINE size(i) == AtLeastOne(SizeDocs(infos[i]))
             n == Len(infos) - start
             G == {k \in 0..n : \E i \in start..start + k :
                                    \A j \in start..start + k : size(j) <= size(i)}
  <1>0. n \in Nat /\ \A i \in start..Len(infos) : size(i) \in Nat
    BY SizePositive
  <1> HIDE DEF size
  <1>1. 0 \in G
    BY <1>0
  <1>2. ASSUME NEW k \in 1..n, k - 1 \in G PROVE k \in G
    <2>1. PICK i \in start..start + (k - 1) :
                    \A j \in start..start + (k - 1) : size(j) <= size(i)
      BY <1>2
    <2>2. CASE size(start + k) <= size(i)
      <3>1. \A j \in start..start + k : size(j) <= size(i)
        BY <2>1, <2>2
      <3> QED
        BY <3>1
    <2>3. CASE ~(size(start + k) <= size(i))
      <3>1. \A j \in start..start + k : size(j) <= size(start + k)
        BY <1>0, <2>1, <2>3
      <3> QED
        BY <3>1
    <2> QED
      BY <2>2, <2>3
  <1>3. n \in G
    <2> HIDE DEF G
    <2>1. 0..n \subseteq G
      BY <1>0, <1>1, <1>2, UpTo
    <2> QED
      BY <1>0, <2>1
  <1>4. PICK i \in start..Len(infos) :
                \A j \in start..Len(infos) : size(j) <= size(i)
    BY <1>3
  <1> DEFINE is(m) == \A j \in start..Len(infos) : size(j) <= m
             sizes == {size(j) : j \in start..Len(infos)}
  <1>5. MaxSize(infos, start) = CHOOSE m \in sizes : is(m)
    BY DEF MaxSize, size
  <1>6. size(i) \in sizes /\ is(size(i))
    BY <1>4
  <1>7. MaxSize(infos, start) \in sizes
    BY <1>5, <1>6
  <1> QED
    BY <1>7 DEF size

\* A product of natural numbers is not smaller when there is a positive
\* factor more.
LEMMA ProductGrows ==
    ASSUME NEW a \in Nat, NEW b \in Nat \ {0}
    PROVE  a * b \in Nat /\ a * b >= a
  OBVIOUS

\* findMerges finds the end of the level it is at, behind where it starts: its
\* loop ends.
LEMMA UptoIs ==
    ASSUME NEW infos \in Seq(Info), NEW start \in 1..Len(infos)
    PROVE  Upto(infos, start) \in start..Len(infos)
  <1> DEFINE m == MaxSize(infos, start)
             in(i) == InLevel(infos[i], m)
             top(u) == in(u) /\ \A i \in u + 1..Len(infos) : ~in(i)
  <1>1. PICK s \in start..Len(infos) : m = AtLeastOne(SizeDocs(infos[s]))
    BY MaxSizeIs
  <1>2. m \in Nat \ {0}
    <2>1. infos[s] \in Info
      BY <1>1
    <2> QED
      BY <1>1, <2>1, SizePositive
  <1>3. Fourth(m) * MergeFactor * MergeFactor * MergeFactor >= Fourth(m)
    <2>1. Fourth(m) \in Nat
      BY <1>2, ProductGrows DEF Fourth
    <2>2. MergeFactor \in Nat \ {0}
      BY PolicyAssumption
    <2> DEFINE x == Fourth(m)
               y == x * MergeFactor
               z == y * MergeFactor
    <2>3. y \in Nat /\ y >= x
      BY <2>1, <2>2, ProductGrows
    <2> HIDE DEF y
    <2>4. z \in Nat /\ z >= y
      BY <2>2, <2>3, ProductGrows
    <2> HIDE DEF z
    <2>5. z * MergeFactor \in Nat /\ z * MergeFactor >= z
      BY <2>2, <2>4, ProductGrows
    <2>6. z * MergeFactor >= x
      BY <2>1, <2>3, <2>4, <2>5
    <2> QED
      BY <2>6 DEF z, y
  <1>4. in(s)
    <2>1. MinMergeDocs \in Nat
      BY PolicyAssumption
    <2> QED
      BY <1>1, <1>2, <1>3, <2>1 DEF InLevel
  <1> HIDE DEF in, m
  <1>5. \E u \in start..Len(infos) : top(u)
    <2> DEFINE B == {k \in Nat : /\ k <= Len(infos) - s
                                 /\ in(Len(infos) - k)}
    <2>1. B \in SUBSET Nat /\ Len(infos) - s \in B
      BY <1>4
    <2>2. PICK k \in B : \A j \in B : k <= j
      BY <2>1, LeastNat
    <2>3. top(Len(infos) - k)
      <3>1. in(Len(infos) - k)
        BY <2>2
      <3>2. ASSUME NEW i \in Len(infos) - k + 1..Len(infos), in(i) PROVE FALSE
        <4>1. /\ Len(infos) - i \in Nat /\ Len(infos) - i <= Len(infos) - s
              /\ Len(infos) - (Len(infos) - i) = i
          BY <2>2
        <4>2. Len(infos) - i \in B
          BY <3>2, <4>1
        <4> HIDE DEF B
        <4> QED
          BY <2>1, <2>2, <4>1, <4>2
      <3> QED
        BY <3>1, <3>2
    <2>4. Len(infos) - k \in start..Len(infos)
      BY <2>2
    <2> QED
      BY <2>3, <2>4
  <1>6. Upto(infos, start) = CHOOSE u \in start..Len(infos) : top(u)
    BY DEF Upto, in, m
  <1> HIDE DEF top
  <1> QED
    BY <1>5, <1>6

\* The merges within a level are runs.
LEMMA FullMergesAre ==
    ASSUME NEW infos \in Seq(Info), NEW start \in 1..Len(infos),
           NEW upto \in start..Len(infos)
    PROVE  FullMerges(infos, start, upto) \in Seq(Runs(infos))
  <1> DEFINE n == (upto - start + 1) \div MergeFactor
             run(k) == SubSeq(infos, start + (k - 1) * MergeFactor,
                              start + k * MergeFactor - 1)
             S == Seq(Runs(infos))
             next(k, x) == IF SmallEnough(run(k)) THEN Append(x, run(k)) ELSE x
             step == [kx \in (1..n) \X S |-> next(kx[1], kx[2])]
             F(g) == [k \in 0..n |-> IF k = 0 THEN <<>> ELSE next(k, g[k - 1])]
             h == CHOOSE g : g = F(g)
  <1>1. MergeFactor \in Nat \ {0}
    BY PolicyAssumption
  <1>2. n \in Nat /\ n * MergeFactor <= upto - start + 1
    BY <1>1
  <1>3. ASSUME NEW k \in 1..n PROVE run(k) \in Runs(infos)
    <2> DEFINE a == (k - 1) * MergeFactor
    <2>1. /\ a \in Nat /\ k * MergeFactor = a + MergeFactor
          /\ k * MergeFactor <= n * MergeFactor
      BY <1>1, <1>2
    <2> HIDE DEF a, n
    <2>2. /\ start + a \in 1..Len(infos)
          /\ start + k * MergeFactor - 1 \in 1..Len(infos)
          /\ start + a <= start + k * MergeFactor - 1
      BY <1>1, <1>2, <2>1
    <2>3. SubSeq(infos, start + a, start + k * MergeFactor - 1) \in Runs(infos)
      BY <2>2, RunIntro
    <2> QED
      BY <2>3 DEF a
  <1> HIDE DEF n, run
  <1>4. \A k \in 1..n : \A x \in S : step[<<k, x>>] = next(k, x) /\ next(k, x) \in S
    BY <1>3
  <1>5. \E g : g = F(g)
    <2>0. <<>> \in S
      OBVIOUS
    <2> HIDE DEF next, S
    <2>a. IsStep(step, n, S)
      BY <1>4 DEF IsStep
    <2> HIDE DEF step
    <2>1. PICK g : Iterates(g, step, <<>>, n, S)
      BY <1>2, <2>0, <2>a, Iteration
    <2>2. \A k \in 1..n : g[k] = next(k, g[k - 1])
      <3> TAKE k \in 1..n
      <3>1. k - 1 \in 0..n
        BY <1>2
      <3> QED
        BY <1>4, <2>1, <3>1 DEF Iterates
    <2>3. g = F(g)
      BY <2>1, <2>2 DEF Iterates
    <2> QED
      BY <2>3
  <1>6. h = F(h)
    BY <1>5
  <1>7. FullMerges(infos, start, upto) = h[n]
    BY DEF FullMerges, n, run
  <1> HIDE DEF h
  <1>8. h[n] \in S
    <2> DEFINE G == {k \in 0..n : h[k] \in S}
    <2>1. 0 \in G
      BY <1>2, <1>6
    <2>2. ASSUME NEW k \in 1..n, k - 1 \in G PROVE k \in G
      <3>1. k \in 0..n /\ k # 0
        BY <1>2
      <3>2. h[k] = next(k, h[k - 1])
        BY <1>6, <3>1
      <3> QED
        BY <1>4, <2>2, <3>1, <3>2
    <2> HIDE DEF G
    <2>3. 0..n \subseteq G
      BY <1>2, <2>1, <2>2, UpTo
    <2> QED
      BY <1>2, <2>3 DEF G
  <1> QED
    BY <1>7, <1>8

\* Whatever the segments, their sizes and the settings, findMerges of LogMergePolicy
\* proposes runs of neighbouring segments, and none that is empty: so registerMerge
\* may take each by its first segment, and commitMerge find them side by side.
THEOREM FindMergesAre ==
    ASSUME NEW infos \in Seq(Info)
    PROVE  FindMerges(infos) \in Seq(Runs(infos))
  <1> DEFINE n == Len(infos)
             S == Seq(Runs(infos))
             up(s) == Upto(infos, s)
             full(s) == FullMerges(infos, s, up(s))
             next(f, s) == IF s > n THEN <<>> ELSE full(s) \o f[up(s) + 1]
             F(f) == [s \in 1..n + 1 |-> next(f, s)]
             h == CHOOSE f : f = F(f)
             Fine(k, f) == /\ f \in [n + 1 - k..n + 1 -> S]
                           /\ \A s \in n + 1 - k..n + 1 : f[s] = next(f, s)
             G == {k \in 0..n : \E f : Fine(k, f)}
  <1>1. n \in Nat
    OBVIOUS
  <1>2. \A s \in 1..n : up(s) \in s..n /\ full(s) \in S
    BY UptoIs, FullMergesAre
  <1>3. FindMerges(infos) = h[1]
    BY DEF FindMerges
  <1>4. <<>> \in S /\ \A x, y \in S : x \o y \in S
    OBVIOUS
  <1> HIDE DEF n, up, full, S
  <1>5. 0 \in G
    <2> DEFINE g == [s \in n + 1..n + 1 |-> <<>>]
    <2>0. /\ n + 1 - 0 = n + 1 /\ \A s \in n + 1..n + 1 : s > n
      BY <1>1
    <2>2. \A s \in n + 1..n + 1 : next(g, s) = <<>> /\ g[s] = <<>>
      BY <2>0
    <2>3. g \in [n + 1..n + 1 -> S]
      BY <1>4
    <2> HIDE DEF g, next
    <2>1. Fine(0, g)
      BY <2>0, <2>2, <2>3
    <2> HIDE DEF Fine
    <2> QED
      BY <1>1, <2>1
  <1>6. ASSUME NEW k \in 1..n, k - 1 \in G PROVE k \in G
    <2> DEFINE b == n + 1 - k
    <2>0. /\ b \in 1..n /\ n + 1 - (k - 1) = b + 1 /\ k \in 0..n
      BY <1>1
    <2>1. PICK f : Fine(k - 1, f)
      BY <1>6
    <2>2. /\ f \in [b + 1..n + 1 -> S]
          /\ \A s \in b + 1..n + 1 : f[s] = next(f, s)
      BY <2>0, <2>1
    <2> HIDE DEF b
    <2> DEFINE g == [s \in b..n + 1 |-> IF s = b THEN next(f, b) ELSE f[s]]
    <2>3. ASSUME NEW s \in b..n + 1 PROVE g[s] = next(f, s) /\ g[s] \in S
      <3>1. CASE s = b
        <4>1. up(b) + 1 \in b + 1..n + 1
          BY <1>1, <1>2, <2>0
        <4> QED
          BY <1>1, <1>2, <1>4, <2>0, <2>2, <3>1, <4>1
      <3>2. CASE s # b
        <4>1. s \in b + 1..n + 1 /\ g[s] = f[s]
          BY <1>1, <2>0, <3>2
        <4> HIDE DEF next
        <4> QED
          BY <2>2, <4>1
      <3> QED
        BY <3>1, <3>2
    <2>4. ASSUME NEW s \in b..n + 1 PROVE next(g, s) = next(f, s)
      <3>1. CASE s > n
        BY <3>1
      <3>2. CASE ~(s > n)
        <4>1. /\ up(s) + 1 \in b..n + 1 /\ up(s) + 1 # b
          BY <1>1, <1>2, <2>0, <3>2
        <4>2. g[up(s) + 1] = f[up(s) + 1]
          BY <4>1
        <4> QED
          BY <4>2
      <3> QED
        BY <3>1, <3>2
    <2> HIDE DEF next
    <2>5. g \in [b..n + 1 -> S]
      BY <2>3
    <2> HIDE DEF g
    <2>6. Fine(k, g)
      BY <2>3, <2>4, <2>5 DEF b
    <2> HIDE DEF Fine
    <2> QED
      BY <2>0, <2>6
  <1>7. PICK f : Fine(n, f)
    <2> HIDE DEF G
    <2>1. 0..n \subseteq G
      BY <1>1, <1>5, <1>6, UpTo
    <2>2. n \in G
      BY <1>1, <2>1
    <2> QED
      BY <2>2 DEF G
  <1>8. f = F(f)
    <2> HIDE DEF next
    <2>1. n + 1 - n = 1
      BY <1>1
    <2> QED
      BY <1>7, <2>1
  <1>9. h = F(h)
    BY <1>8
  <1>10. h[1] \in S
    <2> DEFINE D == {k \in 0..n : h[n + 1 - k] \in S}
               E == {k \in 0..n : \A j \in 0..k : j \in D}
    <2>0. \A s \in 1..n + 1 : h[s] = next(h, s)
      BY <1>9
    <2> HIDE DEF h
    <2>1. 0 \in E
      <3>1. h[n + 1] = <<>>
        BY <1>1, <2>0
      <3> QED
        BY <1>1, <1>4, <3>1
    <2>2. ASSUME NEW k \in 1..n, k - 1 \in E PROVE k \in E
      <3>1. /\ n + 1 - k \in 1..n /\ k \in 0..n
        BY <1>1
      <3> DEFINE s == n + 1 - k
                 j == n + 1 - (up(s) + 1)
      <3>2. j \in 0..k - 1 /\ n + 1 - j = up(s) + 1
        BY <1>1, <1>2, <3>1
      <3>3. h[up(s) + 1] \in S
        BY <2>2, <3>2
      <3>4. h[s] = full(s) \o h[up(s) + 1]
        <4>1. s \in 1..n + 1 /\ ~(s > n)
          BY <1>1, <3>1
        <4> HIDE DEF s
        <4> QED
          BY <2>0, <4>1
      <3>5. h[s] \in S
        BY <1>2, <1>4, <3>1, <3>3, <3>4
      <3>6. k \in D
        BY <3>1, <3>5
      <3> HIDE DEF D
      <3>7. \A i \in 0..k : i = k \/ i \in 0..k - 1
        OBVIOUS
      <3> QED
        BY <2>2, <3>1, <3>6, <3>7
    <2> HIDE DEF E
    <2>3. 0..n \subseteq E
      BY <1>1, <2>1, <2>2, UpTo
    <2>4. n \in D
      BY <1>1, <2>3 DEF E
    <2>5. n + 1 - n = 1
      BY <1>1
    <2> QED
      BY <2>4, <2>5
  <1> QED
    BY <1>3, <1>10 DEF S

\* The newest segment to optimize is one of the segments, or there is none.
LEMMA LastIs ==
    ASSUME NEW infos \in Seq(Info), NEW toOptimize
    PROVE  LastToOptimize(infos, toOptimize) \in 0..Len(infos)
  <1> DEFINE n == Len(infos)
             in(i) == infos[i].name \in toOptimize
             last(i) == /\ i # 0 => in(i)
                        /\ \A j \in i + 1..n : ~in(j)
             B == {k \in Nat : k <= n /\ (n - k # 0 => in(n - k))}
  <1>0. n \in Nat
    OBVIOUS
  <1> HIDE DEF n, in
  <1>1. B \in SUBSET Nat /\ n \in B
    BY <1>0
  <1>2. PICK k \in B : \A j \in B : k <= j
    BY <1>1, LeastNat
  <1>3. last(n - k)
    <2>1. n - k # 0 => in(n - k)
      BY <1>2
    <2>2. ASSUME NEW i \in n - k + 1..n, in(i) PROVE FALSE
      <3>1. n - i \in Nat /\ n - i <= n /\ n - i < k /\ n - (n - i) = i
        BY <1>0, <1>2
      <3>2. n - i \in B
        BY <2>2, <3>1
      <3> HIDE DEF B
      <3> QED
        BY <1>1, <1>2, <3>1, <3>2
    <2> QED
      BY <2>1, <2>2
  <1>4. n - k \in 0..n
    BY <1>0, <1>2
  <1> HIDE DEF last
  <1>5. LastToOptimize(infos, toOptimize) = CHOOSE i \in 0..n : last(i)
    BY DEF LastToOptimize, last, n, in
  <1> QED
    BY <1>3, <1>4, <1>5 DEF n

\* A partial merge leaves its run within the segments.
LEMMA BestStartIs ==
    ASSUME NEW infos \in Seq(Info), NEW last \in 1..Len(infos), NEW n \in 1..last
    PROVE  BestStart(infos, n, last) \in 1..last - n + 1
  <1> DEFINE k == last - n + 1
             sum(i) == SumSize(infos, i, i + n - 1)
             better(i, b) == /\ sum(i) < 2 * SizeDocs(infos[i - 1])
                             /\ sum(i) < sum(b)
             next(i, b) == IF i = 1 THEN 1 ELSE IF better(i, b) THEN i ELSE b
             F(f) == [i \in 1..k |-> next(i, f[i - 1])]
             h == CHOOSE f : f = F(f)
             S == 1..k
             step == [ix \in (1..k) \X S |-> next(ix[1], ix[2])]
  <1>1. k \in Nat \ {0}
    OBVIOUS
  <1>2. BestStart(infos, n, last) = h[k]
    <2>1. \A f : F(f) = [i \in 1..k |->
                           IF i = 1 THEN 1
                           ELSE IF /\ sum(i) < 2 * SizeDocs(infos[i - 1])
                                   /\ sum(i) < sum(f[i - 1])
                                THEN i ELSE f[i - 1]]
      OBVIOUS
    <2> QED
      BY DEF BestStart
  <1> HIDE DEF k, better
  <1>3. \A i \in 1..k : \A b \in S : next(i, b) \in S
    BY <1>1
  <1>4. \E f : f = F(f)
    <2>1. 1 \in S
      BY <1>1
    <2> HIDE DEF S, next
    <2>2. IsStep(step, k, S)
      BY <1>3 DEF IsStep
    <2> HIDE DEF step
    <2>3. PICK g : Iterates(g, step, 1, k, S)
      BY <1>1, <2>1, <2>2, Iteration
    <2> DEFINE f == [i \in 1..k |-> g[i]]
    <2>4. ASSUME NEW i \in 1..k PROVE f[i] = next(i, f[i - 1])
      <3>1. i - 1 \in 0..k /\ g[i - 1] \in S
        BY <1>1, <2>3 DEF Iterates
      <3>2. g[i] = next(i, g[i - 1])
        BY <1>3, <2>3, <3>1 DEF Iterates, step
      <3>3. i # 1 => f[i - 1] = g[i - 1]
        BY <1>1
      <3> QED
        BY <3>2, <3>3 DEF next
    <2> HIDE DEF f
    <2>5. f = F(f)
      BY <2>4 DEF f
    <2> QED
      BY <2>5
  <1>5. h = F(h)
    BY <1>4
  <1> HIDE DEF h
  <1> DEFINE G == {i \in 0..k : i = 0 \/ h[i] \in S}
  <1>6. 0 \in G
    BY <1>1
  <1>7. ASSUME NEW i \in 1..k, i - 1 \in G PROVE i \in G
    <2>1. h[i] = next(i, h[i - 1])
      BY <1>5
    <2>2. h[i] \in S
      BY <1>1, <1>3, <1>7, <2>1
    <2> QED
      BY <1>1, <2>2
  <1>8. h[k] \in S
    <2> HIDE DEF G
    <2>1. 0..k \subseteq G
      BY <1>1, <1>6, <1>7, UpTo
    <2> QED
      BY <1>1, <2>1 DEF G
  <1> QED
    BY <1>2, <1>8 DEF k

\* So does findMergesForOptimize, whatever is marked and however many are to stay.
THEOREM FindMergesForOptimizeAre ==
    ASSUME NEW infos \in Seq(Info), NEW max \in Nat \ {0}, NEW toOptimize
    PROVE  FindMergesForOptimize(infos, max, toOptimize) \in Seq(Runs(infos))
  <1> DEFINE last == LastToOptimize(infos, toOptimize)
             spare == last - max + 1
             full == IF spare < MergeFactor THEN 0 ELSE spare \div MergeFactor
             run(k) == SubSeq(infos, last - k * MergeFactor + 1,
                              last - (k - 1) * MergeFactor)
  <1>1. last \in 0..Len(infos)
    BY LastIs
  <1>2. MergeFactor \in Nat \ {0}
    BY PolicyAssumption
  <1> HIDE DEF last
  <1>3. full \in Nat /\ (full # 0 => full * MergeFactor <= spare)
    BY <1>1, <1>2
  <1>4. CASE last # 0 /\ full = 0
    <2>1. PartialMerge(infos, max, last) \in Seq(Runs(infos))
      <3>1. CASE max = 1
        <4>1. SubSeq(infos, 1, last) \in Runs(infos)
          BY <1>1, <1>4, RunIntro
        <4> QED
          BY <3>1, <4>1 DEF PartialMerge
      <3>2. CASE max # 1 /\ last > max
        <4> DEFINE n == last - max + 1
                   start == BestStart(infos, n, last)
        <4>1. start \in 1..last - n + 1 /\ n \in 1..last
          BY <1>1, <1>4, <3>2, BestStartIs
        <4>2. SubSeq(infos, start, start + n - 1) \in Runs(infos)
          BY <1>1, <4>1, RunIntro
        <4> QED
          BY <3>2, <4>2 DEF PartialMerge
      <3>3. CASE max # 1 /\ ~(last > max)
        BY <3>3 DEF PartialMerge
      <3> QED
        BY <3>1, <3>2, <3>3
    <2> QED
      BY <1>4, <2>1 DEF FindMergesForOptimize, last
  <1>5. CASE last # 0 /\ full # 0
    <2>1. ASSUME NEW k \in 1..full PROVE run(k) \in Runs(infos)
      <3> DEFINE a == (k - 1) * MergeFactor
      <3>1. /\ a \in Nat /\ k * MergeFactor = a + MergeFactor
            /\ k * MergeFactor <= full * MergeFactor
        BY <1>2, <1>3
      <3> HIDE DEF a, full
      <3>2. /\ last - k * MergeFactor + 1 \in 1..Len(infos)
            /\ last - a \in 1..Len(infos)
            /\ last - k * MergeFactor + 1 <= last - a
        BY <1>1, <1>2, <1>3, <1>5, <3>1
      <3>3. SubSeq(infos, last - k * MergeFactor + 1, last - a) \in Runs(infos)
        BY <3>2, RunIntro
      <3> QED
        BY <3>3 DEF a
    <2> HIDE DEF full, run
    <2>2. [k \in 1..full |-> run(k)] \in Seq(Runs(infos))
      BY <1>3, <2>1
    <2> QED
      BY <1>5, <2>2 DEF FindMergesForOptimize, last, full, run
  <1>6. CASE last = 0
    BY <1>6 DEF FindMergesForOptimize, last
  <1> QED
    BY <1>4, <1>5, <1>6

-----------------------------------------------------------------------------
(***************************************************************************)
(* Documents.                                                              *)
(***************************************************************************)
\* The sequences that concatenation goes through.
Flattens(f, seqs, S) ==
    /\ f \in [0..Len(seqs) -> Seq(S)] /\ f[0] = <<>>
    /\ \A i \in 1..Len(seqs) : f[i] = f[i - 1] \o seqs[i]

\* What FlattenSeq computes.
LEMMA FlattenIs ==
    ASSUME NEW S, NEW seqs \in Seq(Seq(S))
    PROVE  \E f : Flattens(f, seqs, S) /\ FlattenSeq(seqs) = f[Len(seqs)]
  <1> DEFINE n == Len(seqs)
             T == Seq(S)
             step == [ix \in (1..n) \X T |-> ix[2] \o seqs[ix[1]]]
             next(i, x) == IF i = 1 THEN seqs[i] ELSE x \o seqs[i]
             F(f) == [i \in 1..n |-> next(i, f[i - 1])]
             h == CHOOSE f : f = F(f)
  <1>1. n \in Nat /\ \A i \in 1..n : seqs[i] \in T
    OBVIOUS
  <1>2. <<>> \in T /\ \A x, y \in T : x \o y \in T /\ <<>> \o y = y
    OBVIOUS
  <1>3. FlattenSeq(seqs) = IF n = 0 THEN seqs ELSE h[n]
    BY DEF FlattenSeq
  <1>4. n = 0 => seqs = <<>>
    OBVIOUS
  <1> HIDE DEF T, n
  <1>5. IsStep(step, n, T)
    BY <1>1, <1>2 DEF IsStep
  <1> HIDE DEF step
  <1>6. PICK f : Iterates(f, step, <<>>, n, T)
    BY <1>1, <1>2, <1>5, Iteration
  <1>7. \A i \in 1..n : f[i] = f[i - 1] \o seqs[i] /\ f[i - 1] \in T
    <2> TAKE i \in 1..n
    <2>1. i - 1 \in 0..n
      BY <1>1
    <2>2. f[i] = step[<<i, f[i - 1]>>] /\ f[i - 1] \in T
      BY <1>6, <2>1 DEF Iterates
    <2> QED
      BY <2>2 DEF step
  <1>8. f \in [0..n -> T] /\ f[0] = <<>>
    BY <1>6 DEF Iterates
  <1> DEFINE g == [i \in 1..n |-> f[i]]
  <1>9. g = F(g)
    <2>1. ASSUME NEW i \in 1..n PROVE g[i] = next(i, g[i - 1])
      <3>1. CASE i = 1
        <4>1. f[i] = f[i - 1] \o seqs[i]
          BY <1>7
        <4>2. i - 1 = 0
          BY <3>1
        <4>3. f[i] = seqs[i]
          BY <1>1, <1>2, <1>8, <4>1, <4>2
        <4> QED
          BY <3>1, <4>3
      <3>2. CASE i # 1
        <4>1. g[i - 1] = f[i - 1]
          BY <1>1, <3>2
        <4> QED
          BY <1>7, <3>2, <4>1
      <3> QED
        BY <3>1, <3>2
    <2> HIDE DEF next
    <2> QED
      BY <2>1
  <1>10. h = F(h)
    <2> HIDE DEF F, g
    <2> QED
      BY <1>9
  <1> HIDE DEF h, g
  <1>11. \A i \in 1..n : h[i] = next(i, h[i - 1])
    <2> HIDE DEF next
    <2> QED
      BY <1>10
  <1> DEFINE G == {i \in 0..n : i = 0 \/ h[i] = f[i]}
  <1>12. 0 \in G
    BY <1>1
  <1>13. ASSUME NEW i \in 1..n, i - 1 \in G PROVE i \in G
    <2>1. CASE i = 1
      <3>1. f[i] = f[i - 1] \o seqs[i]
        BY <1>7
      <3>2. i - 1 = 0
        BY <2>1
      <3>3. f[i] = seqs[i]
        BY <1>1, <1>2, <1>8, <3>1, <3>2
      <3>4. h[i] = seqs[i]
        BY <1>11, <2>1
      <3> QED
        BY <1>1, <3>3, <3>4
    <2>2. CASE i # 1
      <3>1. h[i] = h[i - 1] \o seqs[i]
        BY <1>11, <2>2
      <3>2. f[i] = f[i - 1] \o seqs[i]
        BY <1>7
      <3>3. h[i - 1] = f[i - 1]
        BY <1>1, <1>13, <2>2
      <3>4. i \in 0..n
        BY <1>1
      <3> QED
        BY <3>1, <3>2, <3>3, <3>4
    <2> QED
      BY <2>1, <2>2
  <1>14. n # 0 => h[n] = f[n]
    <2> HIDE DEF G
    <2>1. 0..n \subseteq G
      BY <1>1, <1>12, <1>13, UpTo
    <2> QED
      BY <1>1, <2>1 DEF G
  <1>15. FlattenSeq(seqs) = f[n]
    BY <1>1, <1>3, <1>4, <1>8, <1>14
  <1> QED
    BY <1>7, <1>8, <1>15 DEF Flattens, n, T

\* It returns a sequence.
LEMMA FlattenType ==
    ASSUME NEW S, NEW seqs \in Seq(Seq(S))
    PROVE  FlattenSeq(seqs) \in Seq(S)
  <1>1. PICK f : Flattens(f, seqs, S) /\ FlattenSeq(seqs) = f[Len(seqs)]
    BY FlattenIs
  <1>2. Len(seqs) \in 0..Len(seqs)
    OBVIOUS
  <1> QED
    BY <1>1, <1>2 DEF Flattens

\* The sums of the beginnings of a sequence.
Sums(f, seq) ==
    /\ f \in [0..Len(seq) -> Nat] /\ f[0] = 0
    /\ \A i \in 1..Len(seq) : f[i] = f[i - 1] + seq[i]

\* What Sum computes.
LEMMA SumIs ==
    ASSUME NEW seq \in Seq(Nat)
    PROVE  \E f : Sums(f, seq) /\ Sum(seq) = f[Len(seq)]
  <1> DEFINE n == Len(seq)
             next(i, x) == IF i = 0 THEN 0 ELSE x + seq[i]
             F(f) == [i \in 0..n |-> next(i, f[i - 1])]
             h == CHOOSE f : f = F(f)
             step == [ix \in (1..n) \X Nat |-> ix[2] + seq[ix[1]]]
  <1>1. n \in Nat /\ \A i \in 1..n : seq[i] \in Nat
    OBVIOUS
  <1>2. Sum(seq) = h[n]
    BY DEF Sum
  <1> HIDE DEF n
  <1>3. \E f : f = F(f)
    <2>1. IsStep(step, n, Nat)
      BY <1>1 DEF IsStep
    <2> HIDE DEF step
    <2>2. PICK f : Iterates(f, step, 0, n, Nat)
      BY <1>1, <2>1, Iteration
    <2>3. ASSUME NEW i \in 0..n PROVE f[i] = next(i, f[i - 1])
      <3>1. CASE i = 0
        BY <2>2, <3>1 DEF Iterates
      <3>2. CASE i # 0
        <4>1. i \in 1..n /\ i - 1 \in 0..n
          BY <1>1, <3>2
        <4>2. f[i] = step[<<i, f[i - 1]>>] /\ f[i - 1] \in Nat
          BY <2>2, <4>1 DEF Iterates
        <4> QED
          BY <3>2, <4>1, <4>2 DEF step
      <3> QED
        BY <3>1, <3>2
    <2> HIDE DEF next
    <2>4. f = F(f)
      BY <2>2, <2>3 DEF Iterates
    <2> QED
      BY <2>4
  <1>4. h = F(h)
    BY <1>3
  <1> HIDE DEF h
  <1> DEFINE G == {i \in 0..n : h[i] \in Nat}
  <1>5. 0 \in G
    BY <1>1, <1>4
  <1>6. ASSUME NEW i \in 1..n, i - 1 \in G PROVE i \in G
    <2>1. h[i] = h[i - 1] + seq[i]
      BY <1>1, <1>4
    <2> QED
      BY <1>1, <1>6, <2>1
  <1> HIDE DEF G
  <1>7. 0..n \subseteq G
    BY <1>1, <1>5, <1>6, UpTo
  <1>8. \A i \in 0..n : h[i] \in Nat
    BY <1>7 DEF G
  <1>9. Sums(h, seq)
    <2>1. h = [i \in 0..n |-> h[i]]
      BY <1>4
    <2>2. h \in [0..n -> Nat]
      BY <1>8, <2>1
    <2>3. h[0] = 0 /\ \A i \in 1..n : h[i] = h[i - 1] + seq[i]
      BY <1>1, <1>4
    <2> QED
      BY <2>2, <2>3 DEF Sums, n
  <1> QED
    BY <1>2, <1>9 DEF n

\* It is a number.
LEMMA SumType ==
    ASSUME NEW seq \in Seq(Nat)
    PROVE  Sum(seq) \in Nat
  <1>1. PICK f : Sums(f, seq) /\ Sum(seq) = f[Len(seq)]
    BY SumIs
  <1>2. Len(seq) \in 0..Len(seq)
    OBVIOUS
  <1> QED
    BY <1>1, <1>2 DEF Sums

\* What comes before an element, and the element, are part of the sum.
LEMMA SumBefore ==
    ASSUME NEW s \in Seq(Nat), NEW i \in 1..Len(s)
    PROVE  Sum(SubSeq(s, 1, i - 1)) + s[i] <= Sum(s)
  <1> DEFINE n == Len(s)
             p == SubSeq(s, 1, i - 1)
  <1>1. /\ n \in Nat /\ i \in 1..n /\ i - 1 \in Nat /\ i - 1 \in 0..n
        /\ p \in Seq(Nat) /\ Len(p) = i - 1 /\ \A j \in 1..i - 1 : p[j] = s[j]
    OBVIOUS
  <1> HIDE DEF p
  <1>2. PICK f : Sums(f, s) /\ Sum(s) = f[n]
    BY SumIs
  <1>3. PICK g : Sums(g, p) /\ Sum(p) = g[i - 1]
    BY <1>1, SumIs
  <1>4. /\ f \in [0..n -> Nat] /\ f[0] = 0
        /\ \A j \in 1..n : f[j] = f[j - 1] + s[j] /\ s[j] \in Nat
        /\ g[0] = 0 /\ \A j \in 1..i - 1 : g[j] = g[j - 1] + s[j]
    BY <1>1, <1>2, <1>3, SMTT(30) DEF Sums
  <1> HIDE DEF n
  <1>5. g[i - 1] = f[i - 1]
    <2> DEFINE G == {j \in 0..i - 1 : g[j] = f[j]}
    <2>1. 0 \in G
      BY <1>1, <1>4, SMTT(30)
    <2>2. ASSUME NEW j \in 1..i - 1, j - 1 \in G PROVE j \in G
      BY <1>1, <1>4, <2>2
    <2> HIDE DEF G
    <2>3. 0..i - 1 \subseteq G
      BY <1>1, <2>1, <2>2, UpTo
    <2>4. i - 1 \in 0..i - 1
      BY <1>1
    <2> QED
      BY <2>3, <2>4 DEF G
  <1>6. f[i] <= f[n]
    <2> DEFINE H == {j \in 0..n : j < i \/ f[i] <= f[j]}
    <2>1. 0 \in H
      BY <1>1
    <2>2. ASSUME NEW j \in 1..n, j - 1 \in H PROVE j \in H
      <3>1. f[j] = f[j - 1] + s[j] /\ s[j] \in Nat /\ f[j - 1] \in Nat
            /\ f[j] \in Nat /\ f[i] \in Nat /\ j \in 0..n
        BY <1>1, <1>4, SMTT(30)
      <3>2. CASE j = i
        BY <3>1, <3>2
      <3>3. CASE j # i
        <4>1. j - 1 < i \/ f[i] <= f[j - 1]
          BY <2>2
        <4> QED
          BY <1>1, <3>1, <3>3, <4>1, SMTT(30)
      <3> QED
        BY <3>2, <3>3
    <2> HIDE DEF H
    <2>3. 0..n \subseteq H
      BY <1>1, <2>1, <2>2, UpTo
    <2>4. n \in 0..n /\ ~(n < i)
      BY <1>1
    <2> QED
      BY <2>3, <2>4 DEF H
  <1>7. f[i] = f[i - 1] + s[i]
    BY <1>1, <1>4
  <1> QED
    BY <1>2, <1>3, <1>5, <1>6, <1>7 DEF p

-----------------------------------------------------------------------------
(***************************************************************************)
(* The inductive invariant.                                                *)
(***************************************************************************)
Merge == [segs : Seq(Info) \ {<<>>}, info : Nat, aborted : BOOLEAN, gen : Nat,
          isExternal : BOOLEAN, max : Nat]

\* The registry is a record of these fields.
RegTyped(r) ==
    /\ r = [merges |-> r.merges, pending |-> r.pending,
            running |-> r.running, merging |-> r.merging]
    /\ r.merges \in [DOMAIN r.merges -> Merge]
    /\ r.pending \in Seq(DOMAIN r.merges)

\* A merge is known by its first segment, and all segments were given names;
\* n is how many were.
RegNamed(r, n) ==
    \A id \in DOMAIN r.merges :
        /\ id = Id(r.merges[id].segs)
        /\ Names(r.merges[id].segs) \subseteq 1..n
        /\ r.merges[id].info \in 0..n

\* A merge is pending, once, or running, and a pending one has no name yet.
RegQueued(r) ==
    /\ ToSet(r.pending) \cup r.running = DOMAIN r.merges
    /\ ToSet(r.pending) \cap r.running = {}
    /\ \A i, j \in DOMAIN r.pending : r.pending[i] = r.pending[j] => i = j
    /\ \A i \in DOMAIN r.pending : r.merges[r.pending[i]].info = None

\* mergingSegments are the segments of the merges and what becomes of them.
RegMerging(r) ==
    r.merging = (UNION {Names(r.merges[id].segs) : id \in DOMAIN r.merges})
                  \cup ({r.merges[id].info : id \in DOMAIN r.merges} \ {None})

\* What becomes of a merge is no segment of a merge, and no two merges have a
\* segment in common.
RegDisjoint(r) ==
    \A a, b \in DOMAIN r.merges :
        /\ r.merges[a].info \notin Names(r.merges[b].segs)
        /\ a # b => /\ Names(r.merges[a].segs) \cap Names(r.merges[b].segs) = {}
                    /\ \/ r.merges[a].info = None
                       \/ r.merges[a].info # r.merges[b].info

RegInv(r, n) == /\ RegTyped(r) /\ RegNamed(r, n) /\ RegQueued(r)
                /\ RegMerging(r) /\ RegDisjoint(r)

\* Where a process runs a merge, and where this has no name yet or has one
Merging == {"scheduleInit", "init", "stall", "work", "commitMerge", "merged",
            "mergeFailed"}
Begins == {"scheduleInit", "init"}
Goes == {"stall", "work", "commitMerge"}

\* What a process runs is a running merge, of no other process, with a name from
\* mergeInit on unless it was aborted before.
ProcInv ==
    /\ \A p \in Process :
        /\ merge[p] \in reg.running \cup {None}
        /\ pc[p] \in Merging => merge[p] # None
        /\ pc[p] \in Begins => MergeOf(p).info = None
        /\ pc[p] \in Goes => MergeOf(p).aborted \/ MergeOf(p).info # None
    /\ \A p, q \in Process : p # q => merge[p] = None \/ merge[p] # merge[q]

\* Where flush, the scheduler and pauseAllThreads let a call go on.
Continuations == {"return", "commit", "optMark", "optWait", "startTransaction",
                  "txResolve", "txCommit", "closeMerges", "finishMerges",
                  "acquireRead", "revert"}

\* The types of the variables.
Typed ==
    /\ {counter, buffered, added, mergeGen, optimizeMaxNumSegments}
          \subseteq Nat
    /\ {dirty, mergeExceptions, stopMerges, closing, closed, docClosed}
          \subseteq BOOLEAN
    /\ writeThread \in Thread \cup {None}
    /\ pc = [p \in Process |-> pc[p]]
    /\ op \in [Thread -> Calls \cup {"none"}]
    /\ then \in [Thread -> Continuations]
    /\ merge = [p \in Process |-> merge[p]]
    /\ existing \in [Thread -> Seq(Nat)]
    /\ calls \in 0..MaxCalls

\* Every segment was given its name.
Named(infos, n) == infos \in Seq(Info) /\ Names(infos) \subseteq 1..n

AllNamed ==
    /\ Named(segmentInfos, counter)
    /\ Named(rollbackSegmentInfos, counter)
    /\ Named(localRollbackSegmentInfos, counter)

\* Who upgrades its lock reads, and waits to write.
Upgrading ==
    /\ upgradeThreads \subseteq readThreads /\ readThreads \subseteq Thread
    /\ \A t \in upgradeThreads : pc[t] = "acquireWrite"

\* Whether a call has paused the indexing threads and is to resume them.
Owes(t) ==
    \/ op[t] \in AddIndexes /\ pc[t] # "pause"
    \/ op[t] = "deleteAll" /\ pc[t] # "deleteAll"
    \/ op[t] \in Closing
         /\ pc[t] \notin {"shouldClose", "pause", "closeInternal", "return"}
    \/ op[t] = "rollback" /\ pc[t] = "closeInternal"

\* Each of them counts.
Paused == /\ pauseThreads \in Nat
          /\ Cardinality({t \in Thread : Owes(t)}) <= pauseThreads

\* Where only a transaction is.
OnlyTransaction ==
    {"addExternal", "readersPut", "txResolve", "txCommit", "resolve",
     "resolveMore", "init", "work", "commitMerge", "merged", "mergeFailed",
     "commitTransaction", "rollbackTransaction"}
ThenTransaction == {"txResolve", "txCommit"}
InScheduler == {"schedule", "scheduleInit", "stall"}

InTransaction(t) ==
    \/ pc[t] \in OnlyTransaction
    \/ pc[t] \in {"update"} \cup InScheduler /\ then[t] \in ThenTransaction

\* Whether a transaction has resolved its external segments.
Resolved(t) ==
    \/ pc[t] \in {"txCommit", "commitTransaction"}
    \/ pc[t] \in {"update"} \cup InScheduler /\ then[t] = "txCommit"

\* A transaction is run by who has the write lock, and who has it runs one or
\* rolls it back.
InLock(t) ==
    /\ InTransaction(t) => writeThread = t
    /\ writeThread = t
          => InTransaction(t) \/ pc[t] \in {"finishRead", "finishWait"}
    /\ then[t] \in ThenTransaction
          => writeThread = t \/ pc[t] \in {"return", "throw"}
    /\ Resolved(t) => ~ExternalIn(segmentInfos)

\* External segments are there only while one runs a transaction.
Transactions ==
    /\ \A t \in Thread : InLock(t)
    /\ writeThread = None => ~ExternalIn(segmentInfos)
    /\ ~ExternalIn(rollbackSegmentInfos)
    /\ ~ExternalIn(localRollbackSegmentInfos)

IInv == /\ Typed /\ AllNamed /\ RegInv(reg, counter) /\ ProcInv
        /\ Upgrading /\ Paused /\ Transactions
-----------------------------------------------------------------------------
(***************************************************************************)
(* The registry.                                                           *)
(***************************************************************************)
\* The elements of a sequence that grows.
LEMMA AppendIs ==
    ASSUME NEW S, NEW s \in Seq(S), NEW x \in S
    PROVE  /\ Append(s, x) \in Seq(S) /\ Len(Append(s, x)) = Len(s) + 1
           /\ \A i \in DOMAIN Append(s, x) :
                 Append(s, x)[i] = IF i = Len(s) + 1 THEN x ELSE s[i]
           /\ ToSet(Append(s, x)) = ToSet(s) \cup {x}
  <1> DEFINE t == Append(s, x)
  <1>1. /\ t \in Seq(S) /\ Len(t) = Len(s) + 1
        /\ DOMAIN t = 1..Len(s) + 1 /\ DOMAIN s = 1..Len(s) /\ Len(s) \in Nat
    OBVIOUS
  <1>2. t[Len(s) + 1] = x /\ \A i \in 1..Len(s) : t[i] = s[i]
    OBVIOUS
  <1> HIDE DEF t
  <1>3. \A i \in DOMAIN t : t[i] = IF i = Len(s) + 1 THEN x ELSE s[i]
    BY <1>1, <1>2
  <1>4. Len(s) + 1 \in DOMAIN t /\ DOMAIN s \subseteq DOMAIN t
    BY <1>1
  <1>5. ToSet(t) = ToSet(s) \cup {x}
    <2>1. ToSet(t) \subseteq ToSet(s) \cup {x}
      BY <1>1, <1>2 DEF ToSet
    <2>2. ToSet(s) \subseteq ToSet(t)
      BY <1>1, <1>2, <1>4 DEF ToSet
    <2>3. x \in ToSet(t)
      BY <1>1, <1>2, <1>4 DEF ToSet
    <2> QED
      BY <2>1, <2>2, <2>3
  <1> QED
    BY <1>1, <1>3, <1>5 DEF t

\* The sequence without one of its elements.
LEMMA RemoveAtIs ==
    ASSUME NEW S, NEW s \in Seq(S), NEW k \in 1..Len(s)
    PROVE  /\ RemoveAt(s, k) \in Seq(S) /\ Len(RemoveAt(s, k)) = Len(s) - 1
           /\ \A i \in 1..Len(s) - 1 :
                 RemoveAt(s, k)[i] = IF i < k THEN s[i] ELSE s[i + 1]
  <1> DEFINE a == SubSeq(s, 1, k - 1)
             b == SubSeq(s, k + 1, Len(s))
  <1>1. /\ a \in Seq(S) /\ Len(a) = k - 1
        /\ \A i \in 1..k - 1 : a[i] = s[i]
    OBVIOUS
  <1>2. /\ b \in Seq(S) /\ Len(b) = Len(s) - k
        /\ \A i \in 1..Len(s) - k : b[i] = s[k + i]
    OBVIOUS
  <1>3. RemoveAt(s, k) = a \o b
    BY DEF RemoveAt
  <1> HIDE DEF a, b
  <1>4. a \o b \in Seq(S) /\ Len(a \o b) = Len(s) - 1
    <2>1. a \o b \in Seq(S) /\ Len(a \o b) = Len(a) + Len(b)
      <3>1. a \in Seq(S) /\ b \in Seq(S)
        BY <1>1, <1>2
      <3> QED
        BY <3>1
    <2> QED
      BY <1>1, <1>2, <2>1
  <1>5. ASSUME NEW i \in 1..Len(s) - 1
        PROVE  (a \o b)[i] = IF i < k THEN s[i] ELSE s[i + 1]
    <2>1. CASE i < k
      BY <1>1, <1>2, <2>1
    <2>2. CASE ~(i < k)
      <3>1. /\ i > Len(a) /\ i <= Len(a) + Len(b) /\ i - Len(a) \in 1..Len(s) - k
            /\ k + (i - Len(a)) = i + 1
        BY <1>1, <1>2, <2>2
      <3>2. (a \o b)[i] = b[i - Len(a)]
        BY <1>1, <1>2, <3>1
      <3> QED
        BY <1>2, <2>2, <3>1, <3>2
    <2> QED
      BY <2>1, <2>2
  <1> QED
    BY <1>3, <1>4, <1>5

\* A merge has a first segment.
LEMMA IdIsName ==
    ASSUME NEW segs \in Seq(Info) \ {<<>>}
    PROVE  Id(segs) \in Names(segs) /\ Names(segs) \subseteq Nat
  <1>1. 1 \in DOMAIN segs
    OBVIOUS
  <1>2. \A i \in DOMAIN segs : segs[i] \in Info
    OBVIOUS
  <1>3. \A i \in DOMAIN segs : segs[i].name \in Nat
    BY <1>2 DEF Info
  <1> QED
    BY <1>1, <1>3 DEF Id, Names

\* A merge that is registered.
LEMMA NewMergeIs ==
    ASSUME NEW segs \in Seq(Info) \ {<<>>}, NEW max \in Nat,
           mergeGen \in Nat, optimizeMaxNumSegments \in Nat
    PROVE  /\ NewMerge(segs, max) \in Merge
           /\ NewMerge(segs, max).segs = segs
           /\ NewMerge(segs, max).info = None
           /\ ~NewMerge(segs, max).aborted
  BY DEF NewMerge, Merge, None, ExternalIn

\* What every step of the registry keeps of the merges that run: those that go
\* on are the same, but may be aborted meanwhile.
SameRunning(r, q) ==
    /\ q.running = r.running
    /\ \A id \in r.running : /\ q.merges[id].info = r.merges[id].info
                             /\ r.merges[id].aborted => q.merges[id].aborted

\* A merge that is pending or running has a record.
LEMMA RegIds ==
    ASSUME NEW r, NEW n \in Nat, RegInv(r, n)
    PROVE  /\ r.running \subseteq DOMAIN r.merges
           /\ \A i \in DOMAIN r.pending :
                 /\ r.pending[i] \in DOMAIN r.merges
                 /\ r.pending[i] \notin r.running
           /\ \A id \in DOMAIN r.merges :
                 /\ r.merges[id] \in Merge
                 /\ r.merges[id].segs \in Seq(Info) \ {<<>>}
                 /\ r.merges[id].info \in Nat /\ r.merges[id].max \in Nat
                 /\ id \in Names(r.merges[id].segs) /\ id \in 1..n
                 /\ id # None
                 /\ Names(r.merges[id].segs) \subseteq r.merging
  <1>1. r.running \subseteq DOMAIN r.merges
    BY DEF RegInv, RegQueued
  <1>2. ASSUME NEW i \in DOMAIN r.pending
        PROVE  r.pending[i] \in DOMAIN r.merges /\ r.pending[i] \notin r.running
    <2>1. r.pending[i] \in ToSet(r.pending)
      BY DEF ToSet
    <2> QED
      BY <2>1 DEF RegInv, RegQueued
  <1>3. ASSUME NEW id \in DOMAIN r.merges
        PROVE  /\ r.merges[id] \in Merge
               /\ r.merges[id].segs \in Seq(Info) \ {<<>>}
               /\ r.merges[id].info \in Nat /\ r.merges[id].max \in Nat
               /\ id \in Names(r.merges[id].segs) /\ id \in 1..n
               /\ id # None
               /\ Names(r.merges[id].segs) \subseteq r.merging
    <2>1. r.merges[id] \in Merge
      BY DEF RegInv, RegTyped
    <2>2. /\ r.merges[id].segs \in Seq(Info) \ {<<>>}
          /\ r.merges[id].info \in Nat /\ r.merges[id].max \in Nat
      BY <2>1 DEF Merge
    <2>3. id \in Names(r.merges[id].segs)
      BY <2>2, IdIsName DEF RegInv, RegNamed
    <2>4. id \in 1..n
      BY <2>3 DEF RegInv, RegNamed
    <2>5. Names(r.merges[id].segs) \subseteq r.merging
      BY DEF RegInv, RegMerging
    <2> QED
      BY <2>1, <2>2, <2>3, <2>4, <2>5 DEF None
  <1> QED
    BY <1>1, <1>2, <1>3

\* registerMerge keeps the registry.
LEMMA WithPendingKeeps ==
    ASSUME NEW r, NEW n \in Nat, RegInv(r, n),
           NEW segs \in Seq(Info) \ {<<>>}, NEW max \in Nat,
           mergeGen \in Nat, optimizeMaxNumSegments \in Nat,
           Names(segs) \cap r.merging = {}, Names(segs) \subseteq 1..n
    PROVE  LET q == WithPending(r, segs, max) IN
           /\ RegInv(q, n) /\ SameRunning(r, q)
           /\ DOMAIN q.pending # {} /\ Len(q.pending) \in DOMAIN q.pending
           /\ q.pending[Len(q.pending)] = Id(segs)
  <1> DEFINE q == WithPending(r, segs, max)
             k == Id(segs)
             ids == DOMAIN r.merges
             new == NewMerge(segs, max)
             ms == [id \in ids \cup {k} |-> IF id = k THEN new ELSE r.merges[id]]
             ps == Append(r.pending, k)
             names(id) == Names(r.merges[id].segs)
             mine == Names(segs)
  <1>1. r = [merges |-> r.merges, pending |-> r.pending,
             running |-> r.running, merging |-> r.merging]
    BY DEF RegInv, RegTyped
  <1>2. q = [merges |-> ms, pending |-> ps, running |-> r.running,
             merging |-> r.merging \cup mine]
    <2>1. q = [r EXCEPT !.merges = ms, !.pending = ps,
                        !.merging = r.merging \cup mine]
      BY DEF WithPending
    <2> HIDE DEF q, k, new, ms, ps, mine
    <2> QED
      BY <1>1, <2>1
  <1>3. /\ new \in Merge /\ new.segs = segs /\ new.info = None
        /\ k \in mine /\ mine \subseteq Nat
    BY NewMergeIs, IdIsName
  <1>4. /\ \A id \in ids : names(id) \subseteq r.merging /\ id \in names(id)
        /\ \A id \in ids : r.merges[id] \in Merge
        /\ r.running \subseteq ids
    BY RegIds
  <1>5. k \notin ids
    BY <1>3, <1>4
  <1>6. /\ r.pending \in Seq(ids) /\ ps \in Seq(ids \cup {k})
        /\ Len(ps) = Len(r.pending) + 1 /\ DOMAIN ps = 1..Len(r.pending) + 1
        /\ \A i \in DOMAIN ps : ps[i] = IF i = Len(r.pending) + 1 THEN k
                                        ELSE r.pending[i]
        /\ ToSet(ps) = ToSet(r.pending) \cup {k}
    <2>1. r.pending \in Seq(ids)
      BY DEF RegInv, RegTyped
    <2>2. r.pending \in Seq(ids \cup {k})
      BY <2>1
    <2>3. k \in ids \cup {k}
      OBVIOUS
    <2> HIDE DEF k
    <2>4. /\ ps \in Seq(ids \cup {k}) /\ Len(ps) = Len(r.pending) + 1
          /\ \A i \in DOMAIN ps : ps[i] = IF i = Len(r.pending) + 1 THEN k
                                          ELSE r.pending[i]
          /\ ToSet(ps) = ToSet(r.pending) \cup {k}
      BY <2>2, <2>3, AppendIs
    <2>5. DOMAIN ps = 1..Len(ps)
      BY <2>4
    <2> QED
      BY <2>1, <2>4, <2>5
  <1>7. \A id \in ids : r.merges[id].info \in r.merging \cup {None}
    <2> DEFINE infos == {r.merges[i].info : i \in ids}
               all == UNION {names(i) : i \in ids}
    <2>1. r.merging = all \cup (infos \ {None})
      BY DEF RegInv, RegMerging
    <2> TAKE id \in ids
    <2>2. r.merges[id].info \in infos
      OBVIOUS
    <2> HIDE DEF infos, all
    <2> QED
      BY <2>1, <2>2
  <1> HIDE DEF q, k, new, ms, ps, mine
  <1>8. /\ q.merges = ms /\ q.pending = ps /\ q.running = r.running
        /\ q.merging = r.merging \cup mine
        /\ q = [merges |-> q.merges, pending |-> q.pending,
                running |-> q.running, merging |-> q.merging]
    BY <1>2
  <1>9. /\ DOMAIN ms = ids \cup {k} /\ ms[k] = new
        /\ \A id \in ids : ms[id] = r.merges[id]
    BY <1>5 DEF ms
  <1>10. RegTyped(q)
    <2>1. ms \in [DOMAIN ms -> Merge]
      BY <1>3, <1>4, <1>9 DEF ms
    <2> QED
      BY <1>6, <1>8, <1>9, <2>1 DEF RegTyped
  <1>11. RegNamed(q, n)
    BY <1>3, <1>8, <1>9 DEF RegNamed, RegInv, None, k, mine
  <1>12. RegQueued(q)
    <2>1. ToSet(ps) \cup r.running = ids \cup {k} /\ ToSet(ps) \cap r.running = {}
      BY <1>4, <1>5, <1>6 DEF RegInv, RegQueued
    <2>2. \A i, j \in DOMAIN ps : ps[i] = ps[j] => i = j
      <3>1. \A i \in DOMAIN ps :
                \/ i = Len(r.pending) + 1 /\ ps[i] = k
                \/ i \in DOMAIN r.pending /\ ps[i] = r.pending[i] /\ ps[i] # k
        BY <1>5, <1>6
      <3> QED
        BY <3>1 DEF RegInv, RegQueued
    <2>3. \A i \in DOMAIN ps : ms[ps[i]].info = None
      <3>1. \A i \in DOMAIN ps :
                \/ ps[i] = k
                \/ i \in DOMAIN r.pending /\ ps[i] = r.pending[i] /\ ps[i] \in ids
        BY <1>6
      <3> QED
        BY <1>3, <1>9, <3>1 DEF RegInv, RegQueued
    <2> QED
      BY <1>8, <1>9, <2>1, <2>2, <2>3 DEF RegQueued
  <1>13. RegMerging(q)
    BY <1>3, <1>8, <1>9 DEF RegMerging, RegInv, mine
  <1>14. RegDisjoint(q)
    <2>1. \A id \in ids : mine \cap names(id) = {} /\ r.merges[id].info \notin mine
      <3>1. None \notin mine
        BY DEF None, mine
      <3> QED
        BY <1>4, <1>7, <3>1 DEF mine
    <2>2. new.info \notin mine /\ \A id \in ids : new.info \notin names(id)
      <3>1. \A id \in ids : names(id) \subseteq 1..n
        BY DEF RegInv, RegNamed
      <3> QED
        BY <1>3, <3>1 DEF None, mine
    <2>3. RegDisjoint(r)
      BY DEF RegInv
    <2>4. ASSUME NEW a \in DOMAIN ms, NEW b \in DOMAIN ms
          PROVE  /\ ms[a].info \notin Names(ms[b].segs)
                 /\ a # b => /\ Names(ms[a].segs) \cap Names(ms[b].segs) = {}
                             /\ \/ ms[a].info = None
                                \/ ms[a].info # ms[b].info
      <3>1. CASE a = k /\ b = k
        BY <1>3, <1>9, <2>2, <3>1 DEF mine
      <3>2. CASE a = k /\ b \in ids
        BY <1>3, <1>9, <2>1, <2>2, <3>2 DEF mine
      <3>3. CASE a \in ids /\ b = k
        BY <1>3, <1>9, <2>1, <2>2, <3>3 DEF mine
      <3>4. CASE a \in ids /\ b \in ids
        BY <1>9, <2>3, <3>4 DEF RegDisjoint
      <3> QED
        BY <1>9, <3>1, <3>2, <3>3, <3>4
    <2> QED
      BY <1>8, <2>4 DEF RegDisjoint
  <1>15. RegInv(q, n)
    BY <1>10, <1>11, <1>12, <1>13, <1>14 DEF RegInv
  <1>16. SameRunning(r, q)
    BY <1>4, <1>8, <1>9 DEF SameRunning
  <1>17. /\ DOMAIN ps # {} /\ Len(ps) \in DOMAIN ps /\ ps[Len(ps)] = k
    BY <1>6
  <1> QED
    BY <1>8, <1>15, <1>16, <1>17 DEF q, k

\* Where the merges of a registry come from: they were there, and may have been
\* given a name or aborted, or merge neighbours among these segments.
Stems(r, q, infos) ==
    \A id \in DOMAIN q.merges :
        \/ /\ id \in DOMAIN r.merges
           /\ q.merges[id].segs = r.merges[id].segs
           /\ r.merges[id].info \in {q.merges[id].info, None}
           /\ r.merges[id].aborted => q.merges[id].aborted
        \/ q.merges[id].segs \in Runs(infos)

\* What a step makes of the merges that run, if it starts or ends some of them.
SameMerges(r, q, ids) ==
    \A id \in ids : q.merges[id] = r.merges[id]

\* getNextMerge keeps the registry.
LEMMA StartedKeeps ==
    ASSUME NEW r, NEW n \in Nat, RegInv(r, n), NEW k \in DOMAIN r.pending
    PROVE  LET q == Started(r, k) IN
           /\ RegInv(q, n) /\ q.merges = r.merges
           /\ q.running = r.running \cup {r.pending[k]}
           /\ r.pending[k] \in DOMAIN r.merges
           /\ r.pending[k] \notin r.running
           /\ r.merges[r.pending[k]].info = None
  <1> DEFINE q == Started(r, k)
             x == r.pending[k]
             ids == DOMAIN r.merges
             ps == RemoveAt(r.pending, k)
  <1>1. r = [merges |-> r.merges, pending |-> r.pending,
             running |-> r.running, merging |-> r.merging]
    BY DEF RegInv, RegTyped
  <1>2. q = [merges |-> r.merges, pending |-> ps, running |-> r.running \cup {x},
             merging |-> r.merging]
    <2>1. q = [r EXCEPT !.pending = ps, !.running = r.running \cup {x}]
      BY DEF Started
    <2> HIDE DEF q, x, ps
    <2> QED
      BY <1>1, <2>1
  <1>3. r.pending \in Seq(ids)
    BY DEF RegInv, RegTyped
  <1>4. /\ ps \in Seq(ids) /\ Len(ps) = Len(r.pending) - 1
        /\ \A i \in 1..Len(r.pending) - 1 :
              ps[i] = IF i < k THEN r.pending[i] ELSE r.pending[i + 1]
    <2>1. k \in 1..Len(r.pending)
      BY <1>3
    <2> QED
      BY <1>3, <2>1, RemoveAtIs
  <1>5. /\ DOMAIN ps = 1..Len(r.pending) - 1
        /\ DOMAIN r.pending = 1..Len(r.pending) /\ Len(r.pending) \in Nat
    BY <1>3, <1>4
  <1>6. x \in ids /\ x \notin r.running /\ r.merges[x].info = None
    BY RegIds DEF RegInv, RegQueued
  <1> HIDE DEF q, ps
  <1>7. /\ q.merges = r.merges /\ q.pending = ps
        /\ q.running = r.running \cup {x} /\ q.merging = r.merging
        /\ q = [merges |-> q.merges, pending |-> q.pending,
                running |-> q.running, merging |-> q.merging]
    BY <1>2
  \* where an element of the new queue was
  <1> DEFINE was(i) == IF i < k THEN i ELSE i + 1
  <1>8. \A i \in DOMAIN ps : was(i) \in DOMAIN r.pending /\ was(i) # k
                             /\ ps[i] = r.pending[was(i)]
    BY <1>4, <1>5
  <1>9. \A i, j \in DOMAIN ps : was(i) = was(j) => i = j
    BY <1>5
  <1>10. \A j \in DOMAIN r.pending : j # k => \E i \in DOMAIN ps : was(i) = j
    <2> TAKE j \in DOMAIN r.pending
    <2> HAVE j # k
    <2>1. CASE j < k
      <3>1. j \in DOMAIN ps /\ was(j) = j
        BY <1>5, <2>1
      <3> QED
        BY <3>1
    <2>2. CASE ~(j < k)
      <3>1. j - 1 \in DOMAIN ps /\ was(j - 1) = j
        BY <1>5, <2>2
      <3> QED
        BY <3>1
    <2> QED
      BY <2>1, <2>2
  <1> HIDE DEF was
  <1>11. ToSet(ps) = ToSet(r.pending) \ {x}
    <2>1. \A i \in DOMAIN ps : ps[i] # x
      BY <1>8 DEF RegInv, RegQueued
    <2>2. ToSet(ps) \subseteq ToSet(r.pending) \ {x}
      BY <1>8, <2>1 DEF ToSet
    <2>3. \A j \in DOMAIN r.pending : r.pending[j] # x => r.pending[j] \in ToSet(ps)
      BY <1>8, <1>10 DEF ToSet
    <2> QED
      BY <2>2, <2>3 DEF ToSet
  <1>12. RegTyped(q)
    BY <1>4, <1>7 DEF RegInv, RegTyped
  <1>13. RegNamed(q, n) /\ RegMerging(q) /\ RegDisjoint(q)
    BY <1>7 DEF RegInv, RegNamed, RegMerging, RegDisjoint
  <1>14. RegQueued(q)
    <2>1. ToSet(ps) \cup q.running = ids /\ ToSet(ps) \cap q.running = {}
      BY <1>6, <1>7, <1>11 DEF RegInv, RegQueued
    <2>2. \A i, j \in DOMAIN ps : ps[i] = ps[j] => i = j
      BY <1>8, <1>9 DEF RegInv, RegQueued
    <2>3. \A i \in DOMAIN ps : r.merges[ps[i]].info = None
      BY <1>8 DEF RegInv, RegQueued
    <2> QED
      BY <1>7, <2>1, <2>2, <2>3 DEF RegQueued
  <1> QED
    BY <1>6, <1>7, <1>12, <1>13, <1>14 DEF RegInv, q

\* mergeFinish keeps the registry.
LEMMA FinishedKeeps ==
    ASSUME NEW r, NEW n \in Nat, RegInv(r, n), NEW k \in r.running
    PROVE  LET q == FinishedMerge(r, k) IN
           /\ RegInv(q, n) /\ SameMerges(r, q, r.running \ {k})
           /\ q.running = r.running \ {k}
           /\ \A infos : Stems(r, q, infos)
  <1> DEFINE q == FinishedMerge(r, k)
             ids == DOMAIN r.merges
             ms == [id \in ids \ {k} |-> r.merges[id]]
             gone == Names(r.merges[k].segs) \cup {r.merges[k].info}
             names(id) == Names(r.merges[id].segs)
  <1>1. r = [merges |-> r.merges, pending |-> r.pending,
             running |-> r.running, merging |-> r.merging]
    BY DEF RegInv, RegTyped
  <1>2. q = [merges |-> ms, pending |-> r.pending,
             running |-> r.running \ {k}, merging |-> r.merging \ gone]
    <2>1. q = [r EXCEPT !.merges = ms, !.running = r.running \ {k},
                        !.merging = r.merging \ gone]
      BY DEF FinishedMerge, Restrict
    <2> HIDE DEF q, ms, gone
    <2> QED
      BY <1>1, <2>1
  <1> HIDE DEF q
  <1>3. /\ q.merges = ms /\ q.pending = r.pending
        /\ q.running = r.running \ {k} /\ q.merging = r.merging \ gone
        /\ q = [merges |-> q.merges, pending |-> q.pending,
                running |-> q.running, merging |-> q.merging]
    BY <1>2
  <1> HIDE DEF ms, gone
  <1>4. DOMAIN ms = ids \ {k} /\ \A id \in ids \ {k} : ms[id] = r.merges[id]
    BY DEF ms
  <1>5. k \in ids /\ r.running \subseteq ids
    BY RegIds
  <1>6. k \notin ToSet(r.pending)
    BY DEF RegInv, RegQueued
  <1>7. RegTyped(q)
    <2>1. r.pending \in Seq(ids \ {k})
      <3>1. r.pending \in Seq(ids)
        BY DEF RegInv, RegTyped
      <3>2. \A i \in DOMAIN r.pending : r.pending[i] \in ids \ {k}
        BY <1>6, <3>1 DEF ToSet
      <3> QED
        BY <3>1, <3>2
    <2>2. ms \in [DOMAIN ms -> Merge]
      BY DEF ms, RegInv, RegTyped
    <2> QED
      BY <1>3, <1>4, <2>1, <2>2 DEF RegTyped
  <1>8. RegNamed(q, n)
    BY <1>3, <1>4 DEF RegInv, RegNamed
  <1>9. RegQueued(q)
    <2>1. /\ ToSet(r.pending) \cup q.running = ids \ {k}
          /\ ToSet(r.pending) \cap q.running = {}
      BY <1>3, <1>6 DEF RegInv, RegQueued
    <2>2. \A i \in DOMAIN r.pending : r.pending[i] \in ids \ {k}
      BY <1>6, RegIds DEF ToSet
    <2> QED
      BY <1>3, <1>4, <2>1, <2>2 DEF RegInv, RegQueued
  <1>10. RegDisjoint(q)
    BY <1>3, <1>4 DEF RegInv, RegDisjoint
  <1>11. RegMerging(q)
    <2> DEFINE segs == UNION {names(id) : id \in ids}
               infos == {r.merges[id].info : id \in ids} \ {None}
               left == UNION {Names(ms[id].segs) : id \in DOMAIN ms}
               leftInfos == {ms[id].info : id \in DOMAIN ms} \ {None}
    <2>1. r.merging = segs \cup infos
      BY DEF RegInv, RegMerging
    <2>2. \A x : x \in segs <=> x \in left \/ x \in names(k)
      BY <1>4, <1>5
    <2>3. \A x : x \in left => x \notin names(k) /\ x # r.merges[k].info
      BY <1>4, <1>5 DEF RegInv, RegDisjoint
    <2>4. \A x \in names(k) : x # None
      BY <1>5 DEF RegInv, RegNamed, None
    <2>5. \A x : x \in infos <=> (\/ x \in leftInfos
                                  \/ x = r.merges[k].info /\ x # None)
      BY <1>4, <1>5
    <2>6. \A x : x \in leftInfos => x \notin names(k) /\ x # r.merges[k].info
      BY <1>4, <1>5 DEF RegInv, RegDisjoint
    <2>7. q.merging = left \cup leftInfos
      <3>1. \A x : x \in gone <=> x \in names(k) \/ x = r.merges[k].info
        BY DEF gone
      <3>2. \A x \in gone : x \notin left /\ x \notin leftInfos
        BY <2>3, <2>6, <3>1
      <3>3. \A x : x \in segs \cup infos /\ x \notin gone
                      => x \in left \cup leftInfos
        BY <2>2, <2>5, <3>1
      <3>4. left \subseteq segs /\ leftInfos \subseteq infos
        BY <2>2, <2>5
      <3> HIDE DEF segs, infos, left, leftInfos
      <3> QED
        BY <1>3, <2>1, <3>2, <3>3, <3>4
    <2> QED
      BY <1>3, <2>7 DEF RegMerging
  <1>12. \A infos : Stems(r, q, infos)
    BY <1>3, <1>4, Zenon DEF Stems
  <1> QED
    BY <1>3, <1>4, <1>5, <1>7, <1>8, <1>9, <1>10, <1>11, <1>12, ZenonT(40)
       DEF RegInv, SameMerges, q

\* finishMerges(false) keeps the registry.
LEMMA AbortedKeeps ==
    ASSUME NEW r, NEW n \in Nat, RegInv(r, n)
    PROVE  /\ RegInv(AbortedMerges(r), n)
           /\ SameRunning(r, AbortedMerges(r))
           /\ \A infos : Stems(r, AbortedMerges(r), infos)
  <1> DEFINE q == AbortedMerges(r)
             ids == DOMAIN r.merges
             ms == [id \in r.running |-> [r.merges[id] EXCEPT !.aborted = TRUE]]
             names(id) == Names(r.merges[id].segs)
             gone == UNION {names(id) : id \in ToSet(r.pending)}
  <1>1. r = [merges |-> r.merges, pending |-> r.pending,
             running |-> r.running, merging |-> r.merging]
    BY DEF RegInv, RegTyped
  <1>2. q = [merges |-> ms, pending |-> <<>>, running |-> r.running,
             merging |-> r.merging \ gone]
    <2>1. q = [r EXCEPT !.merges = ms, !.pending = <<>>,
                        !.merging = r.merging \ gone]
      BY DEF AbortedMerges
    <2> HIDE DEF q, ms, gone
    <2> QED
      BY <1>1, <2>1
  <1> HIDE DEF q
  <1>3. /\ q.merges = ms /\ q.pending = <<>>
        /\ q.running = r.running /\ q.merging = r.merging \ gone
        /\ q = [merges |-> q.merges, pending |-> q.pending,
                running |-> q.running, merging |-> q.merging]
    BY <1>2
  <1> HIDE DEF ms
  <1>4. r.running \subseteq ids /\ \A id \in ids : r.merges[id] \in Merge
    BY RegIds
  <1>5. /\ DOMAIN ms = r.running
        /\ \A id \in r.running : /\ ms[id] \in Merge /\ ms[id].aborted
                                 /\ ms[id].segs = r.merges[id].segs
                                 /\ ms[id].info = r.merges[id].info
    BY <1>4 DEF ms, Merge
  <1>6. RegTyped(q)
    <2>1. ms \in [DOMAIN ms -> Merge]
      BY <1>5 DEF ms
    <2>2. <<>> \in Seq(DOMAIN ms)
      OBVIOUS
    <2> QED
      BY <1>3, <2>1, <2>2 DEF RegTyped
  <1>7. RegNamed(q, n)
    BY <1>3, <1>4, <1>5 DEF RegInv, RegNamed
  <1>8. RegQueued(q)
    BY <1>3, <1>5 DEF RegQueued, ToSet
  <1>9. RegDisjoint(q)
    BY <1>3, <1>4, <1>5 DEF RegInv, RegDisjoint
  <1>10. RegMerging(q)
    <2> DEFINE segs == UNION {names(id) : id \in ids}
               infos == {r.merges[id].info : id \in ids} \ {None}
               left == UNION {Names(ms[id].segs) : id \in DOMAIN ms}
               leftInfos == {ms[id].info : id \in DOMAIN ms} \ {None}
    <2>1. r.merging = segs \cup infos
      BY DEF RegInv, RegMerging
    <2>2. ids = ToSet(r.pending) \cup r.running
          /\ ToSet(r.pending) \cap r.running = {}
      BY DEF RegInv, RegQueued
    <2>3. \A x : x \in segs <=> x \in left \/ x \in gone
      BY <1>5, <2>2
    <2>4. \A x : x \in left => x \notin gone
      BY <1>5, <2>2 DEF RegInv, RegDisjoint
    <2>5. \A id \in ToSet(r.pending) : r.merges[id].info = None
      BY DEF ToSet, RegInv, RegQueued
    <2>6. \A x : x \in infos <=> x \in leftInfos
      BY <1>5, <2>2, <2>5
    <2>7. \A x : x \in leftInfos => x \notin gone
      BY <1>5, <2>2 DEF RegInv, RegDisjoint
    <2>8. q.merging = left \cup leftInfos
      <3> HIDE DEF segs, infos, left, leftInfos, gone
      <3> QED
        BY <1>3, <2>1, <2>3, <2>4, <2>6, <2>7
    <2>9. q.merges = ms
      BY <1>3
    <2> QED
      BY <2>8, <2>9, Zenon DEF RegMerging
  <1>11. \A infos : Stems(r, q, infos)
    BY <1>3, <1>4, <1>5 DEF Stems
  <1> QED
    BY <1>3, <1>5, <1>6, <1>7, <1>8, <1>9, <1>10, <1>11
       DEF RegInv, SameRunning, q

\* More names may be given.
LEMMA RegGrows ==
    ASSUME NEW r, NEW n \in Nat, RegInv(r, n), NEW k \in Nat, n <= k
    PROVE  RegInv(r, k)
  <1>1. 1..n \subseteq 1..k /\ 0..n \subseteq 0..k
    OBVIOUS
  <1> QED
    BY <1>1 DEF RegInv, RegNamed

\* What mergeInit makes of the registry, and the marks of optimize.
WithName(r, id, name) == [r EXCEPT !.merges[id].info = name,
                                   !.merging = @ \cup {name}]

Marked(r, max) == [r EXCEPT !.merges = [id \in DOMAIN r.merges |->
                                 [r.merges[id] EXCEPT !.max = max]]]

\* mergeInit keeps the registry.
LEMMA NamedKeeps ==
    ASSUME NEW r, NEW n \in Nat, RegInv(r, n), NEW k \in r.running,
           r.merges[k].info = None
    PROVE  LET q == WithName(r, k, n + 1) IN
           /\ RegInv(q, n + 1) /\ SameMerges(r, q, r.running \ {k})
           /\ q.running = r.running
           /\ q.merges[k].info = n + 1
           /\ \A infos : Stems(r, q, infos)
  <1> DEFINE q == WithName(r, k, n + 1)
             ids == DOMAIN r.merges
             ms == [r.merges EXCEPT ![k].info = n + 1]
             names(id) == Names(r.merges[id].segs)
  <1>1. r = [merges |-> r.merges, pending |-> r.pending,
             running |-> r.running, merging |-> r.merging]
    BY DEF RegInv, RegTyped
  <1>2. q = [merges |-> ms, pending |-> r.pending, running |-> r.running,
             merging |-> r.merging \cup {n + 1}]
    <2>1. q = [r EXCEPT !.merges = ms, !.merging = r.merging \cup {n + 1}]
      BY DEF WithName
    <2> HIDE DEF q, ms
    <2> QED
      BY <1>1, <2>1
  <1> HIDE DEF q, ms
  <1>3. /\ q.merges = ms /\ q.pending = r.pending
        /\ q.running = r.running /\ q.merging = r.merging \cup {n + 1}
        /\ q = [merges |-> q.merges, pending |-> q.pending,
                running |-> q.running, merging |-> q.merging]
    BY <1>2
  <1>4. /\ k \in ids /\ r.running \subseteq ids
        /\ \A id \in ids : r.merges[id] \in Merge
    BY RegIds
  <1>5. /\ DOMAIN ms = ids /\ ms[k] \in Merge
        /\ ms[k].segs = r.merges[k].segs /\ ms[k].info = n + 1
        /\ \A id \in ids \ {k} : ms[id] = r.merges[id]
    <2>1. r.merges \in [ids -> Merge]
      BY DEF RegInv, RegTyped
    <2>2. DOMAIN ms = ids /\ \A id \in ids \ {k} : ms[id] = r.merges[id]
      BY <1>4, <2>1 DEF ms
    <2>3. ms[k] = [r.merges[k] EXCEPT !.info = n + 1]
      BY <1>4, <2>1 DEF ms
    <2>4. r.merges[k] \in Merge
      BY <1>4
    <2>5. ms[k] \in Merge /\ ms[k].segs = r.merges[k].segs /\ ms[k].info = n + 1
      BY <2>3, <2>4 DEF Merge
    <2> QED
      BY <2>2, <2>5
  <1>6. /\ \A id \in ids : ms[id].segs = r.merges[id].segs
        /\ \A id \in ids : names(id) \subseteq 1..n /\ r.merges[id].info \in 0..n
    BY <1>5 DEF RegInv, RegNamed
  <1>7. RegTyped(q)
    <2>1. r.merges \in [ids -> Merge]
      BY DEF RegInv, RegTyped
    <2>2. ms \in [ids -> Merge]
      BY <1>4, <1>5, <2>1 DEF ms
    <2> QED
      BY <1>3, <1>5, <2>2 DEF RegInv, RegTyped
  <1>8. RegNamed(q, n + 1)
    <2>1. \A id \in ids : id = Id(r.merges[id].segs)
      BY DEF RegInv, RegNamed
    <2>2. 1..n \subseteq 1..n + 1 /\ 0..n \subseteq 0..n + 1 /\ n + 1 \in 0..n + 1
      OBVIOUS
    <2>3. \A id \in ids : ms[id].info \in 0..n + 1
      BY <1>5, <1>6, <2>2
    <2> QED
      BY <1>3, <1>5, <1>6, <2>1, <2>2, <2>3 DEF RegNamed
  <1>9. RegQueued(q)
    <2>1. \A i \in DOMAIN r.pending : r.pending[i] \in ids \ {k}
      BY RegIds
    <2> QED
      BY <1>3, <1>5, <2>1 DEF RegInv, RegQueued
  <1>10. RegDisjoint(q)
    <2>1. \A id \in ids : n + 1 \notin names(id) /\ n + 1 # r.merges[id].info
      BY <1>6
    <2>2. RegDisjoint(r)
      BY DEF RegInv
    <2>3. ASSUME NEW a \in ids, NEW b \in ids
          PROVE  /\ ms[a].info \notin Names(ms[b].segs)
                 /\ a # b => /\ Names(ms[a].segs) \cap Names(ms[b].segs) = {}
                             /\ \/ ms[a].info = None
                                \/ ms[a].info # ms[b].info
      <3>1. CASE a = k
        BY <1>5, <1>6, <2>1, <2>2, <3>1 DEF RegDisjoint
      <3>2. CASE a # k /\ b = k
        BY <1>5, <1>6, <2>1, <2>2, <3>2 DEF RegDisjoint
      <3>3. CASE a # k /\ b # k
        BY <1>5, <1>6, <2>2, <3>3 DEF RegDisjoint
      <3> QED
        BY <3>1, <3>2, <3>3
    <2> QED
      BY <1>3, <1>5, <2>3 DEF RegDisjoint
  <1>11. RegMerging(q)
    <2> DEFINE segs == UNION {names(id) : id \in ids}
               infos == {r.merges[id].info : id \in ids} \ {None}
               left == UNION {Names(ms[id].segs) : id \in DOMAIN ms}
               leftInfos == {ms[id].info : id \in DOMAIN ms} \ {None}
    <2>1. r.merging = segs \cup infos
      BY DEF RegInv, RegMerging
    <2>2. left = segs
      BY <1>5, <1>6
    <2>3. \A x : x \in leftInfos <=> x \in infos \/ x = n + 1
      <3>1. n + 1 # None
        BY DEF None
      <3> QED
        BY <1>4, <1>5, <3>1
    <2>4. q.merging = left \cup leftInfos
      <3> HIDE DEF segs, infos, left, leftInfos
      <3> QED
        BY <1>3, <2>1, <2>2, <2>3
    <2>5. q.merges = ms
      BY <1>3
    <2> QED
      BY <2>4, <2>5, Zenon DEF RegMerging
  <1>12. \A infos : Stems(r, q, infos)
    <2>1. ms[k].aborted = r.merges[k].aborted
      <3>1. r.merges \in [ids -> Merge]
        BY DEF RegInv, RegTyped
      <3>2. ms[k] = [r.merges[k] EXCEPT !.info = n + 1]
        BY <1>4, <3>1 DEF ms
      <3> QED
        BY <1>4, <3>2 DEF Merge
    <2>2. \A id \in ids : /\ ms[id].segs = r.merges[id].segs
                          /\ r.merges[id].info \in {ms[id].info, None}
                          /\ ms[id].aborted = r.merges[id].aborted
      BY <1>5, <2>1
    <2> QED
      BY <1>3, <1>5, <2>2, Zenon DEF Stems
  <1> QED
    BY <1>3, <1>4, <1>5, <1>7, <1>8, <1>9, <1>10, <1>11, <1>12, ZenonT(40)
       DEF RegInv, SameMerges, q

\* optimize marks the merges.
LEMMA MarkedKeeps ==
    ASSUME NEW r, NEW n \in Nat, RegInv(r, n), NEW max \in Nat
    PROVE  /\ RegInv(Marked(r, max), n)
           /\ SameRunning(r, Marked(r, max))
           /\ \A infos : Stems(r, Marked(r, max), infos)
  <1> DEFINE q == Marked(r, max)
             ids == DOMAIN r.merges
             ms == [id \in ids |-> [r.merges[id] EXCEPT !.max = max]]
  <1>1. r = [merges |-> r.merges, pending |-> r.pending,
             running |-> r.running, merging |-> r.merging]
    BY DEF RegInv, RegTyped
  <1>2. q = [merges |-> ms, pending |-> r.pending, running |-> r.running,
             merging |-> r.merging]
    <2>1. q = [r EXCEPT !.merges = ms]
      BY DEF Marked
    <2> HIDE DEF q, ms
    <2> QED
      BY <1>1, <2>1
  <1> HIDE DEF q, ms
  <1>3. /\ q.merges = ms /\ q.pending = r.pending
        /\ q.running = r.running /\ q.merging = r.merging
        /\ q = [merges |-> q.merges, pending |-> q.pending,
                running |-> q.running, merging |-> q.merging]
    BY <1>2
  <1>4. r.running \subseteq ids /\ \A id \in ids : r.merges[id] \in Merge
    BY RegIds
  <1>5. /\ DOMAIN ms = ids
        /\ \A id \in ids : /\ ms[id] \in Merge
                           /\ ms[id].segs = r.merges[id].segs
                           /\ ms[id].info = r.merges[id].info
                           /\ ms[id].aborted = r.merges[id].aborted
    BY <1>4 DEF ms, Merge
  <1>6. RegTyped(q)
    <2>1. ms \in [ids -> Merge]
      BY <1>5 DEF ms
    <2> QED
      BY <1>3, <1>5, <2>1 DEF RegInv, RegTyped
  <1>7. RegNamed(q, n)
    BY <1>3, <1>5 DEF RegInv, RegNamed
  <1>8. RegQueued(q)
    <2>1. \A i \in DOMAIN r.pending : r.pending[i] \in ids
      BY RegIds
    <2> QED
      BY <1>3, <1>5, <2>1 DEF RegInv, RegQueued
  <1>9. RegDisjoint(q)
    <2>1. RegDisjoint(r)
      BY DEF RegInv
    <2>2. ASSUME NEW a \in ids, NEW b \in ids
          PROVE  /\ ms[a].info \notin Names(ms[b].segs)
                 /\ a # b => /\ Names(ms[a].segs) \cap Names(ms[b].segs) = {}
                             /\ \/ ms[a].info = None
                                \/ ms[a].info # ms[b].info
      <3>1. /\ ms[a].segs = r.merges[a].segs /\ ms[a].info = r.merges[a].info
            /\ ms[b].segs = r.merges[b].segs /\ ms[b].info = r.merges[b].info
        BY <1>5
      <3> QED
        BY <2>1, <3>1 DEF RegDisjoint
    <2> QED
      BY <1>3, <1>5, <2>2 DEF RegDisjoint
  <1>10. RegMerging(q)
    <2> DEFINE left == UNION {Names(ms[id].segs) : id \in DOMAIN ms}
               leftInfos == {ms[id].info : id \in DOMAIN ms} \ {None}
    <2>1. left = UNION {Names(r.merges[id].segs) : id \in ids}
      BY <1>5
    <2>2. leftInfos = {r.merges[id].info : id \in ids} \ {None}
      BY <1>5
    <2>3. RegMerging(r)
      BY DEF RegInv
    <2>4. q.merging = left \cup leftInfos
      <3> HIDE DEF left, leftInfos
      <3> QED
        BY <1>3, <2>1, <2>2, <2>3 DEF RegMerging
    <2>5. q.merges = ms
      BY <1>3
    <2> QED
      BY <2>4, <2>5, Zenon DEF RegMerging
  <1>11. \A infos : Stems(r, q, infos)
    BY <1>3, <1>5, Zenon DEF Stems
  <1> QED
    BY <1>3, <1>4, <1>5, <1>6, <1>7, <1>8, <1>9, <1>10, <1>11
       DEF RegInv, SameRunning, q

\* The names of neighbours.
LEMMA RunNames ==
    ASSUME NEW infos \in Seq(Info), NEW run \in Runs(infos)
    PROVE  Names(run) \subseteq Names(infos) /\ run \in Seq(Info) \ {<<>>}
  <1>1. /\ run \in Seq(Info) /\ Len(run) > 0
        /\ \E a, b \in 1..Len(infos) :
              /\ a <= b /\ Len(run) = b - a + 1
              /\ \A i \in 1..Len(run) : run[i] = infos[a + i - 1]
    BY RunElim
  <1>2. PICK a \in 1..Len(infos), b \in 1..Len(infos) :
              /\ a <= b /\ Len(run) = b - a + 1
              /\ \A i \in 1..Len(run) : run[i] = infos[a + i - 1]
    BY <1>1
  <1>3. \A i \in DOMAIN run : /\ a + i - 1 \in DOMAIN infos
                              /\ run[i] = infos[a + i - 1]
    <2>1. DOMAIN run = 1..Len(run) /\ DOMAIN infos = 1..Len(infos)
      BY <1>1
    <2> QED
      BY <1>2, <2>1
  <1>4. run # <<>>
    BY <1>1
  <1> QED
    BY <1>1, <1>3, <1>4 DEF Names

\* A merge that is registered.
LEMMA StemsPending ==
    ASSUME NEW r, NEW n \in Nat, RegInv(r, n), NEW infos,
           NEW segs \in Runs(infos), NEW max
    PROVE  Stems(r, WithPending(r, segs, max), infos)
  <1> DEFINE k == Id(segs)
             new == NewMerge(segs, max)
             ms == [id \in DOMAIN r.merges \cup {k} |->
                      IF id = k THEN new ELSE r.merges[id]]
             ps == Append(r.pending, k)
             mine == Names(segs)
             q == WithPending(r, segs, max)
  <1>1. r = [merges |-> r.merges, pending |-> r.pending,
             running |-> r.running, merging |-> r.merging]
    BY DEF RegInv, RegTyped
  <1>2. q.merges = ms
    <2>1. q = [r EXCEPT !.merges = ms, !.pending = ps,
                        !.merging = r.merging \cup mine]
      BY DEF WithPending
    <2> HIDE DEF q, k, new, ms, ps, mine
    <2> QED
      BY <1>1, <2>1
  <1>3. new.segs = segs
    BY DEF NewMerge
  <1> HIDE DEF q, new, k
  <1>4. ASSUME NEW id \in DOMAIN q.merges
        PROVE  \/ id \in DOMAIN r.merges /\ q.merges[id] = r.merges[id]
               \/ q.merges[id].segs = segs
    <2>1. id \in DOMAIN r.merges \cup {k}
      BY <1>2
    <2>2. q.merges[id] = IF id = k THEN new ELSE r.merges[id]
      BY <1>2, <2>1
    <2> QED
      BY <1>3, <2>1, <2>2
  <1>5. Stems(r, q, infos)
    BY <1>4, Zenon DEF Stems
  <1> QED
    BY <1>5 DEF q

\* What comes from what comes from a registry comes from it.
LEMMA StemsThrough ==
    ASSUME NEW r, NEW x, NEW q, NEW infos, Stems(r, x, infos), Stems(x, q, infos)
    PROVE  Stems(r, q, infos)
  BY DEF Stems

\* Registering the merges that the policy proposes keeps the registry.
LEMMA RegisteredKeeps ==
    ASSUME NEW r, NEW n \in Nat, RegInv(r, n), NEW max \in Nat,
           segmentInfos \in Seq(Info), Names(segmentInfos) \subseteq 1..n,
           mergeGen \in Nat, optimizeMaxNumSegments \in Nat,
           NEW spec \in Seq(Runs(segmentInfos))
    PROVE  /\ RegInv(Registered(r, spec, max), n)
           /\ SameRunning(r, Registered(r, spec, max))
           /\ Stems(r, Registered(r, spec, max), segmentInfos)
  <1> DEFINE All == [merges : UNION {[D -> Merge] : D \in SUBSET (1..n)},
                     pending : Seq(1..n), running : SUBSET (1..n),
                     merging : SUBSET Nat]
             S == {x \in All : /\ RegInv(x, n) /\ SameRunning(r, x)
                               /\ Stems(r, x, segmentInfos)}
             k == Len(spec)
             next(i, x) == IF MayRegister(x, spec[i])
                           THEN WithPending(x, spec[i], max) ELSE x
             F(f) == [i \in 0..k |-> IF i = 0 THEN r ELSE next(i, f[i - 1])]
             h == CHOOSE f : f = F(f)
             step == [ix \in (1..k) \X S |-> next(ix[1], ix[2])]
  <1>1. k \in Nat /\ \A i \in 1..k : spec[i] \in Runs(segmentInfos)
    OBVIOUS
  <1>2. Registered(r, spec, max) = h[k]
    BY DEF Registered
  <1>3. ASSUME NEW x, RegInv(x, n) PROVE x \in All
    <2>1. /\ DOMAIN x.merges \subseteq 1..n /\ x.running \subseteq DOMAIN x.merges
      BY <1>3, RegIds
    <2>2. x.merges \in UNION {[D -> Merge] : D \in SUBSET (1..n)}
      BY <1>3, <2>1 DEF RegInv, RegTyped
    <2>3. x.pending \in Seq(1..n)
      <3>1. x.pending \in Seq(DOMAIN x.merges)
        BY <1>3 DEF RegInv, RegTyped
      <3> QED
        BY <2>1, <3>1
    <2>4. x.merging \subseteq Nat
      <3>1. \A id \in DOMAIN x.merges : /\ Names(x.merges[id].segs) \subseteq Nat
                                        /\ x.merges[id].info \in Nat
        <4>1. 1..n \subseteq Nat /\ 0..n \subseteq Nat
          OBVIOUS
        <4>2. RegNamed(x, n)
          BY <1>3 DEF RegInv
        <4> QED
          BY <4>1, <4>2 DEF RegNamed
      <3> QED
        BY <1>3, <3>1 DEF RegInv, RegMerging
    <2>5. x = [merges |-> x.merges, pending |-> x.pending,
               running |-> x.running, merging |-> x.merging]
      BY <1>3 DEF RegInv, RegTyped
    <2>6. x.running \in SUBSET (1..n)
      BY <2>1
    <2> QED
      BY <2>2, <2>3, <2>4, <2>5, <2>6
  <1>4. r \in S
    BY <1>3 DEF SameRunning, Stems
  <1>5. ASSUME NEW i \in 1..k, NEW x \in S PROVE next(i, x) \in S
    <2>1. RegInv(x, n) /\ SameRunning(r, x) /\ Stems(r, x, segmentInfos)
      OBVIOUS
    <2>2. CASE MayRegister(x, spec[i])
      <3>1. spec[i] \in Seq(Info) \ {<<>>}
        BY <1>1, RunNames
      <3>2. /\ Names(spec[i]) \cap x.merging = {}
            /\ Names(spec[i]) \subseteq 1..n
        BY <2>2 DEF MayRegister
      <3>3. /\ RegInv(WithPending(x, spec[i], max), n)
            /\ SameRunning(x, WithPending(x, spec[i], max))
        BY <2>1, <3>1, <3>2, WithPendingKeeps
      <3>4. SameRunning(r, WithPending(x, spec[i], max))
        BY <2>1, <3>3 DEF SameRunning
      <3>5. Stems(r, WithPending(x, spec[i], max), segmentInfos)
        BY <1>1, <2>1, StemsPending, StemsThrough
      <3> HIDE DEF All
      <3> QED
        BY <1>3, <2>2, <3>3, <3>4, <3>5
    <2> QED
      BY <2>2
  <1> HIDE DEF All, next
  <1>6. \E f : f = F(f)
    <2>1. IsStep(step, k, S)
      BY <1>5 DEF IsStep
    <2> HIDE DEF step, S
    <2>2. PICK f : Iterates(f, step, r, k, S)
      BY <1>1, <1>4, <2>1, Iteration
    <2>3. ASSUME NEW i \in 0..k
          PROVE  f[i] = IF i = 0 THEN r ELSE next(i, f[i - 1])
      <3>1. CASE i = 0
        BY <2>2, <3>1 DEF Iterates
      <3>2. CASE i # 0
        <4>1. i \in 1..k /\ i - 1 \in 0..k
          BY <1>1, <3>2
        <4>2. f[i] = step[<<i, f[i - 1]>>] /\ f[i - 1] \in S
          BY <2>2, <4>1 DEF Iterates
        <4> QED
          BY <3>2, <4>1, <4>2 DEF step
      <3> QED
        BY <3>1, <3>2
    <2>4. f = F(f)
      BY <2>2, <2>3 DEF Iterates
    <2> QED
      BY <2>4
  <1>7. h = F(h)
    BY <1>6
  <1> HIDE DEF h
  <1> DEFINE G == {i \in 0..k : h[i] \in S}
  <1>8. 0 \in G
    BY <1>1, <1>4, <1>7
  <1>9. ASSUME NEW i \in 1..k, i - 1 \in G PROVE i \in G
    <2>1. h[i] = next(i, h[i - 1])
      BY <1>1, <1>7
    <2>2. h[i - 1] \in S
      BY <1>9
    <2>3. h[i] \in S
      BY <1>5, <2>1, <2>2
    <2> QED
      BY <1>1, <2>3
  <1> HIDE DEF G
  <1>10. 0..k \subseteq G
    BY <1>1, <1>8, <1>9, UpTo
  <1>11. h[k] \in S
    BY <1>1, <1>10 DEF G
  <1> QED
    BY <1>2, <1>11

\* updatePendingMerges keeps the registry.
LEMMA UpdatedKeeps ==
    ASSUME NEW r, NEW n \in Nat, RegInv(r, n), NEW max \in Nat,
           segmentInfos \in Seq(Info), Names(segmentInfos) \subseteq 1..n,
           mergeGen \in Nat, optimizeMaxNumSegments \in Nat
    PROVE  /\ RegInv(UpdatedMerges(r, max), n)
           /\ SameRunning(r, UpdatedMerges(r, max))
           /\ Stems(r, UpdatedMerges(r, max), segmentInfos)
  <1>1. CASE stopMerges
    BY <1>1 DEF UpdatedMerges, SameRunning, Stems
  <1>2. CASE ~stopMerges
    <2>1. Proposed(max) \in Seq(Runs(segmentInfos))
      <3>1. CASE max = 0
        BY <3>1, FindMergesAre DEF Proposed
      <3>2. CASE max # 0
        BY <3>2, FindMergesForOptimizeAre DEF Proposed
      <3> QED
        BY <3>1, <3>2
    <2> QED
      BY <1>2, <2>1, RegisteredKeeps DEF UpdatedMerges
  <1> QED
    BY <1>1, <1>2

\* The documents of segments are numbers.
LEMMA DocsType ==
    ASSUME NEW infos \in Seq(Info)
    PROVE  Docs(infos) \in Seq(Nat)
  <1> DEFINE docs == [i \in DOMAIN infos |-> infos[i].docs]
  <1>1. ASSUME NEW i \in DOMAIN infos PROVE infos[i].docs \in Seq(Nat)
    <2>1. infos[i] \in Info
      OBVIOUS
    <2> QED
      BY <2>1 DEF Info
  <1>2. docs \in Seq(Seq(Nat))
    <2> DEFINE S == Seq(Nat)
    <2> HIDE DEF S
    <2>1. \A i \in DOMAIN infos : infos[i].docs \in S
      BY <1>1 DEF S
    <2>2. docs \in Seq(S)
      BY <2>1
    <2> QED
      BY <2>2 DEF S
  <1> QED
    BY <1>2, FlattenType DEF Docs

\* Segments that are added.
LEMMA ConcatInfos ==
    ASSUME NEW a \in Seq(Info), NEW b \in Seq(Info)
    PROVE  /\ a \o b \in Seq(Info)
           /\ Names(a \o b) = Names(a) \cup Names(b)
           /\ ExternalIn(a \o b) <=> ExternalIn(a) \/ ExternalIn(b)
  <1> DEFINE c == a \o b
  <1>1. /\ c \in Seq(Info) /\ DOMAIN c = 1..Len(a) + Len(b)
        /\ DOMAIN a = 1..Len(a) /\ DOMAIN b = 1..Len(b)
        /\ Len(a) \in Nat /\ Len(b) \in Nat
    OBVIOUS
  <1>2. \A i \in DOMAIN a : i \in DOMAIN c /\ c[i] = a[i]
    OBVIOUS
  <1>3. \A i \in DOMAIN b : Len(a) + i \in DOMAIN c /\ c[Len(a) + i] = b[i]
    OBVIOUS
  <1>4. \A i \in DOMAIN c : \/ i \in DOMAIN a
                            \/ i - Len(a) \in DOMAIN b /\ Len(a) + (i - Len(a)) = i
    BY <1>1
  <1> HIDE DEF c
  <1>5. \A i \in DOMAIN c : \/ i \in DOMAIN a /\ c[i] = a[i]
                            \/ \E j \in DOMAIN b : c[i] = b[j]
    BY <1>2, <1>3, <1>4
  <1>6. Names(c) = Names(a) \cup Names(b)
    <2>1. Names(c) \subseteq Names(a) \cup Names(b)
      BY <1>5 DEF Names
    <2>2. Names(a) \subseteq Names(c)
      BY <1>2 DEF Names
    <2>3. Names(b) \subseteq Names(c)
      BY <1>3 DEF Names
    <2> QED
      BY <2>1, <2>2, <2>3
  <1>7. ExternalIn(c) <=> ExternalIn(a) \/ ExternalIn(b)
    BY <1>2, <1>3, <1>5 DEF ExternalIn
  <1> QED
    BY <1>1, <1>6, <1>7 DEF c

\* A segment that is added.
LEMMA OneInfo ==
    ASSUME NEW x \in Info
    PROVE  /\ <<x>> \in Seq(Info) \ {<<>>} /\ Names(<<x>>) = {x.name}
           /\ ExternalIn(<<x>>) <=> x.ext
  <1>1. /\ <<x>> \in Seq(Info) /\ Len(<<x>>) = 1 /\ DOMAIN <<x>> = {1}
        /\ <<x>>[1] = x
    OBVIOUS
  <1>2. <<x>> # <<>>
    OBVIOUS
  <1> QED
    BY <1>1, <1>2 DEF Names, ExternalIn

\* What no segments are.
LEMMA NoInfos ==
    <<>> \in Seq(Info) /\ Names(<<>>) = {} /\ ~ExternalIn(<<>>)
  BY DEF Names, ExternalIn

\* Neighbours have the names of the segments, and are external only if these
\* are.
LEMMA SubInfos ==
    ASSUME NEW infos \in Seq(Info), NEW a \in Nat \ {0}, NEW b \in Nat,
           b <= Len(infos)
    PROVE  /\ SubSeq(infos, a, b) \in Seq(Info)
           /\ Names(SubSeq(infos, a, b)) \subseteq Names(infos)
           /\ ExternalIn(SubSeq(infos, a, b)) => ExternalIn(infos)
  <1> DEFINE s == SubSeq(infos, a, b)
  <1>1. CASE a > b
    <2>1. s = <<>>
      BY <1>1
    <2> QED
      BY <2>1, NoInfos
  <1>2. CASE a <= b
    <2>1. /\ s \in Seq(Info) /\ Len(s) = b - a + 1 /\ DOMAIN s = 1..b - a + 1
          /\ DOMAIN infos = 1..Len(infos)
          /\ \A i \in 1..b - a + 1 : s[i] = infos[a + i - 1]
      BY <1>2
    <2> HIDE DEF s
    <2>2. \A i \in DOMAIN s : a + i - 1 \in DOMAIN infos
      BY <1>2, <2>1
    <2>3. \A i \in DOMAIN s : \E j \in DOMAIN infos : s[i] = infos[j]
      BY <2>1, <2>2
    <2>4. Names(s) \subseteq Names(infos)
      BY <2>3 DEF Names
    <2>5. ExternalIn(s) => ExternalIn(infos)
      BY <2>3 DEF ExternalIn
    <2> QED
      BY <2>1, <2>4, <2>5 DEF s
  <1> QED
    BY <1>1, <1>2

\* What commitMerge makes of the segments.
LEMMA WithMergedIs ==
    ASSUME NEW infos \in Seq(Info), NEW m \in Merge, Contiguous(m.segs, infos)
    PROVE  /\ WithMerged(infos, m) \in Seq(Info)
           /\ Names(WithMerged(infos, m)) \subseteq Names(infos) \cup {m.info}
           /\ ExternalIn(WithMerged(infos, m)) => ExternalIn(infos)
  <1> DEFINE is(i) == infos[i].name = Id(m.segs)
             first == CHOOSE i \in DOMAIN infos : is(i)
             merged == [name |-> m.info, docs |-> Docs(m.segs), ext |-> FALSE]
             left == SubSeq(infos, 1, first - 1)
             right == SubSeq(infos, first + Len(m.segs), Len(infos))
  <1>1. m.segs \in Seq(Info) \ {<<>>} /\ m.info \in Nat
    BY DEF Merge
  <1>2. first \in DOMAIN infos
    <2>1. PICK f \in DOMAIN infos :
                /\ f + Len(m.segs) - 1 <= Len(infos)
                /\ \A i \in DOMAIN m.segs : infos[f + i - 1].name = m.segs[i].name
      BY DEF Contiguous
    <2>2. 1 \in DOMAIN m.segs /\ f + 1 - 1 = f
      <3>1. f \in Int
        BY <2>1
      <3> QED
        BY <1>1, <3>1
    <2>3. infos[f].name = m.segs[1].name
      BY <2>1, <2>2
    <2>4. is(f)
      BY <2>3 DEF Id
    <2> HIDE DEF is
    <2> QED
      BY <2>1, <2>4
  <1>3. merged \in Info
    <2>1. Docs(m.segs) \in Seq(Nat)
      BY <1>1, DocsType
    <2> QED
      BY <1>1, <2>1 DEF Info
  <1>4. WithMerged(infos, m) = left \o <<merged>> \o right
    BY DEF WithMerged
  <1> HIDE DEF first
  <1>5. /\ first - 1 \in Nat /\ first - 1 <= Len(infos)
        /\ first + Len(m.segs) \in Nat \ {0} /\ Len(infos) \in Nat
        /\ 1 \in Nat \ {0} /\ Len(infos) <= Len(infos)
    BY <1>1, <1>2
  <1>6. /\ left \in Seq(Info) /\ Names(left) \subseteq Names(infos)
        /\ ExternalIn(left) => ExternalIn(infos)
    BY <1>5, SubInfos
  <1>7. /\ right \in Seq(Info) /\ Names(right) \subseteq Names(infos)
        /\ ExternalIn(right) => ExternalIn(infos)
    BY <1>5, SubInfos
  <1>8. /\ <<merged>> \in Seq(Info) /\ Names(<<merged>>) = {m.info}
        /\ ~ExternalIn(<<merged>>)
    <2>1. merged.name = m.info /\ ~merged.ext
      OBVIOUS
    <2> HIDE DEF merged
    <2> QED
      BY <1>3, <2>1, OneInfo
  <1> HIDE DEF left, right, merged
  <1>9. /\ left \o <<merged>> \in Seq(Info)
        /\ Names(left \o <<merged>>) \subseteq Names(infos) \cup {m.info}
        /\ ExternalIn(left \o <<merged>>) => ExternalIn(infos)
    <2> DEFINE one == <<merged>>
    <2> HIDE DEF one
    <2>1. /\ one \in Seq(Info) /\ Names(one) = {m.info} /\ ~ExternalIn(one)
      BY <1>8 DEF one
    <2>2. /\ left \o one \in Seq(Info)
          /\ Names(left \o one) = Names(left) \cup Names(one)
          /\ ExternalIn(left \o one) <=> ExternalIn(left) \/ ExternalIn(one)
      BY <1>6, <2>1, ConcatInfos
    <2>3. /\ left \o one \in Seq(Info)
          /\ Names(left \o one) \subseteq Names(infos) \cup {m.info}
          /\ ExternalIn(left \o one) => ExternalIn(infos)
      BY <1>6, <2>1, <2>2
    <2> QED
      BY <2>3 DEF one
  <1> DEFINE most == left \o <<merged>>
  <1> HIDE DEF most
  <1>10. /\ most \in Seq(Info) /\ Names(most) \subseteq Names(infos) \cup {m.info}
         /\ ExternalIn(most) => ExternalIn(infos)
    BY <1>9 DEF most
  <1>11. /\ most \o right \in Seq(Info)
         /\ Names(most \o right) = Names(most) \cup Names(right)
         /\ ExternalIn(most \o right) <=> ExternalIn(most) \/ ExternalIn(right)
    BY <1>7, <1>10, ConcatInfos
  <1>12. WithMerged(infos, m) = most \o right
    BY <1>4 DEF most
  <1> QED
    BY <1>7, <1>10, <1>11, <1>12

\* A step keeps the types of the variables.
LEMMA TypedStep ==
    ASSUME IInv, [Next]_vars
    PROVE  Typed'
  <1>1. ASSUME NEW t \in Thread, Call(t)
        PROVE  Typed'
    <2>1. counter' \in Nat /\ buffered' \in Nat /\ added' \in Nat
      BY <1>1, MergesAssumption, SumType
        DEF Call, GoTo, GoToThen, Stays, infoVars, commitVars, optVars,
           closeVars, lockVars, threadVars, IInv, Typed, AddIndexes
    <2>2. mergeGen' \in Nat /\ optimizeMaxNumSegments' \in Nat
      BY <1>1, MergesAssumption
        DEF Call, GoTo, GoToThen, Stays, infoVars, commitVars, optVars,
           closeVars, lockVars, threadVars, IInv, Typed, AddIndexes
    <2>3. /\ dirty' \in BOOLEAN /\ mergeExceptions' \in BOOLEAN
          /\ stopMerges' \in BOOLEAN /\ closed' \in BOOLEAN
          /\ docClosed' \in BOOLEAN
      BY <1>1
        DEF Call, GoTo, GoToThen, Stays, infoVars, commitVars, optVars,
           closeVars, lockVars, threadVars, IInv, Typed, AddIndexes
    <2>4. closing' \in BOOLEAN
      BY <1>1
        DEF Call, GoTo, GoToThen, Stays, infoVars, commitVars, optVars,
           closeVars, lockVars, threadVars, IInv, Typed, AddIndexes
    <2>5. writeThread' \in Thread \cup {None}
      BY <1>1
        DEF Call, GoTo, GoToThen, Stays, infoVars, commitVars, optVars,
           closeVars, lockVars, threadVars, IInv, Typed, None, AddIndexes
    <2>6. pc' = [p \in Process |-> pc'[p]]
      BY <1>1
        DEF Call, GoTo, GoToThen, Stays, infoVars, commitVars, optVars,
           closeVars, lockVars, threadVars, IInv, Typed, Process, AddIndexes
    <2>7. op' \in [Thread -> Calls \cup {"none"}]
      BY <1>1
        DEF Call, GoTo, GoToThen, Stays, infoVars, commitVars, optVars,
           closeVars, lockVars, threadVars, IInv, Typed, AddIndexes
    <2>8. then' \in [Thread -> Continuations]
      BY <1>1
        DEF Call, GoTo, GoToThen, Stays, infoVars, commitVars, optVars,
           closeVars, lockVars, threadVars, IInv, Typed, Continuations,
           AddIndexes
    <2>9. merge' = [p \in Process |-> merge'[p]]
      BY <1>1
        DEF Call, GoTo, GoToThen, Stays, infoVars, commitVars, optVars,
           closeVars, lockVars, threadVars, IInv, Typed, Process, AddIndexes
    <2>10. existing' \in [Thread -> Seq(Nat)]
      BY <1>1
        DEF Call, GoTo, GoToThen, Stays, infoVars, commitVars, optVars,
           closeVars, lockVars, threadVars, IInv, Typed, AddIndexes
    <2>11. calls' \in 0..MaxCalls
      BY <1>1, MergesAssumption
        DEF Call, GoTo, GoToThen, Stays, infoVars, commitVars, optVars,
           closeVars, lockVars, threadVars, IInv, Typed, AddIndexes
    <2> QED
      BY <2>1, <2>2, <2>3, <2>4, <2>5, <2>6, <2>7, <2>8, <2>9, <2>10, <2>11
         DEF Typed
  <1>2. ASSUME NEW t \in Thread, AddDocument(t)
        PROVE  Typed'
    BY <1>2, MergesAssumption
      DEF AddDocument, GoTo, GoToThen, Stays, infoVars, commitVars, optVars,
         closeVars, lockVars, threadVars, IInv, Typed, Process, Continuations,
         None
  <1>3. ASSUME NEW t \in Thread, Flush(t)
        PROVE  Typed'
    <2>1. counter' \in Nat /\ buffered' \in Nat /\ added' \in Nat
      <3>1. counter \in Nat /\ buffered \in Nat /\ added \in Nat
        BY DEF IInv, Typed
      <3>2. \/ UNCHANGED infoVars
            \/ /\ counter' = counter + 1 /\ buffered' = 0
               /\ added' = added + buffered
        BY <1>3 DEF Flush
      <3> QED
        BY <3>1, <3>2 DEF infoVars
    <2>2. mergeGen' \in Nat /\ optimizeMaxNumSegments' \in Nat
      BY <1>3
        DEF Flush, GoTo, GoToThen, Stays, infoVars, commitVars, optVars,
           closeVars, lockVars, threadVars, IInv, Typed
    <2>3. /\ dirty' \in BOOLEAN /\ mergeExceptions' \in BOOLEAN
          /\ stopMerges' \in BOOLEAN /\ closed' \in BOOLEAN
          /\ docClosed' \in BOOLEAN
      BY <1>3
        DEF Flush, GoTo, GoToThen, Stays, infoVars, commitVars, optVars,
           closeVars, lockVars, threadVars, IInv, Typed
    <2>4. closing' \in BOOLEAN
      BY <1>3
        DEF Flush, GoTo, GoToThen, Stays, infoVars, commitVars, optVars,
           closeVars, lockVars, threadVars, IInv, Typed
    <2>5. writeThread' \in Thread \cup {None}
      BY <1>3
        DEF Flush, GoTo, GoToThen, Stays, infoVars, commitVars, optVars,
           closeVars, lockVars, threadVars, IInv, Typed, None
    <2>6. pc' = [p \in Process |-> pc'[p]]
      BY <1>3
        DEF Flush, GoTo, GoToThen, Stays, infoVars, commitVars, optVars,
           closeVars, lockVars, threadVars, IInv, Typed, Process
    <2>7. op' \in [Thread -> Calls \cup {"none"}]
      BY <1>3
        DEF Flush, GoTo, GoToThen, Stays, infoVars, commitVars, optVars,
           closeVars, lockVars, threadVars, IInv, Typed
    <2>8. then' \in [Thread -> Continuations]
      BY <1>3
        DEF Flush, GoTo, GoToThen, Stays, infoVars, commitVars, optVars,
           closeVars, lockVars, threadVars, IInv, Typed, Continuations
    <2>9. merge' = [p \in Process |-> merge'[p]]
      BY <1>3
        DEF Flush, GoTo, GoToThen, Stays, infoVars, commitVars, optVars,
           closeVars, lockVars, threadVars, IInv, Typed, Process
    <2>10. existing' \in [Thread -> Seq(Nat)]
      BY <1>3
        DEF Flush, GoTo, GoToThen, Stays, infoVars, commitVars, optVars,
           closeVars, lockVars, threadVars, IInv, Typed
    <2>11. calls' \in 0..MaxCalls
      BY <1>3, MergesAssumption
        DEF Flush, GoTo, GoToThen, Stays, infoVars, commitVars, optVars,
           closeVars, lockVars, threadVars, IInv, Typed
    <2> QED
      BY <2>1, <2>2, <2>3, <2>4, <2>5, <2>6, <2>7, <2>8, <2>9, <2>10, <2>11
         DEF Typed
  <1>4. ASSUME NEW t \in Thread, UpdatePendingMerges(t)
        PROVE  Typed'
    BY <1>4, MergesAssumption
      DEF UpdatePendingMerges, GoTo, GoToThen, Stays, infoVars, commitVars,
         optVars, closeVars, lockVars, threadVars, IInv, Typed, Process,
         Continuations, None
  <1>5. ASSUME NEW t \in Thread, Commit(t)
        PROVE  Typed'
    BY <1>5, MergesAssumption
      DEF Commit, GoTo, GoToThen, Stays, infoVars, commitVars, optVars,
         closeVars, lockVars, threadVars, IInv, Typed, Process, Continuations,
         None
  <1>6. ASSUME NEW t \in Thread, Leave(t)
        PROVE  Typed'
    <2>1. counter' \in Nat /\ buffered' \in Nat /\ added' \in Nat
      BY <1>6, MergesAssumption, SumType
        DEF Leave, GoTo, GoToThen, Stays, infoVars, commitVars, optVars,
           closeVars, lockVars, threadVars, IInv, Typed
    <2>2. mergeGen' \in Nat /\ optimizeMaxNumSegments' \in Nat
      BY <1>6, MergesAssumption
        DEF Leave, GoTo, GoToThen, Stays, infoVars, commitVars, optVars,
           closeVars, lockVars, threadVars, IInv, Typed
    <2>3. /\ dirty' \in BOOLEAN /\ mergeExceptions' \in BOOLEAN
          /\ stopMerges' \in BOOLEAN /\ closed' \in BOOLEAN
          /\ docClosed' \in BOOLEAN
      BY <1>6
        DEF Leave, GoTo, GoToThen, Stays, infoVars, commitVars, optVars,
           closeVars, lockVars, threadVars, IInv, Typed
    <2>4. closing' \in BOOLEAN
      BY <1>6
        DEF Leave, GoTo, GoToThen, Stays, infoVars, commitVars, optVars,
           closeVars, lockVars, threadVars, IInv, Typed
    <2>5. writeThread' \in Thread \cup {None}
      BY <1>6
        DEF Leave, GoTo, GoToThen, Stays, infoVars, commitVars, optVars,
           closeVars, lockVars, threadVars, IInv, Typed, None
    <2>6. pc' = [p \in Process |-> pc'[p]]
      BY <1>6
        DEF Leave, GoTo, GoToThen, Stays, infoVars, commitVars, optVars,
           closeVars, lockVars, threadVars, IInv, Typed, Process
    <2>7. op' \in [Thread -> Calls \cup {"none"}]
      BY <1>6
        DEF Leave, GoTo, GoToThen, Stays, infoVars, commitVars, optVars,
           closeVars, lockVars, threadVars, IInv, Typed
    <2>8. then' \in [Thread -> Continuations]
      BY <1>6
        DEF Leave, GoTo, GoToThen, Stays, infoVars, commitVars, optVars,
           closeVars, lockVars, threadVars, IInv, Typed, Continuations
    <2>9. merge' = [p \in Process |-> merge'[p]]
      BY <1>6
        DEF Leave, GoTo, GoToThen, Stays, infoVars, commitVars, optVars,
           closeVars, lockVars, threadVars, IInv, Typed, Process
    <2>10. existing' \in [Thread -> Seq(Nat)]
      BY <1>6
        DEF Leave, GoTo, GoToThen, Stays, infoVars, commitVars, optVars,
           closeVars, lockVars, threadVars, IInv, Typed
    <2>11. calls' \in 0..MaxCalls
      BY <1>6, MergesAssumption
        DEF Leave, GoTo, GoToThen, Stays, infoVars, commitVars, optVars,
           closeVars, lockVars, threadVars, IInv, Typed
    <2> QED
      BY <2>1, <2>2, <2>3, <2>4, <2>5, <2>6, <2>7, <2>8, <2>9, <2>10, <2>11
         DEF Typed
  <1>7. ASSUME NEW t \in Thread, OptimizeMark(t)
        PROVE  Typed'
    <2>1. counter' \in Nat /\ buffered' \in Nat /\ added' \in Nat
      BY <1>7, MergesAssumption, SumType
        DEF OptimizeMark, GoTo, GoToThen, Stays, infoVars, commitVars,
           optVars, closeVars, lockVars, threadVars, IInv, Typed, MaxSegments
    <2>2. mergeGen' \in Nat /\ optimizeMaxNumSegments' \in Nat
      BY <1>7, MergesAssumption
        DEF OptimizeMark, GoTo, GoToThen, Stays, infoVars, commitVars,
           optVars, closeVars, lockVars, threadVars, IInv, Typed, MaxSegments
    <2>3. /\ dirty' \in BOOLEAN /\ mergeExceptions' \in BOOLEAN
          /\ stopMerges' \in BOOLEAN /\ closed' \in BOOLEAN
          /\ docClosed' \in BOOLEAN
      BY <1>7
        DEF OptimizeMark, GoTo, GoToThen, Stays, infoVars, commitVars,
           optVars, closeVars, lockVars, threadVars, IInv, Typed, MaxSegments
    <2>4. closing' \in BOOLEAN
      BY <1>7
        DEF OptimizeMark, GoTo, GoToThen, Stays, infoVars, commitVars,
           optVars, closeVars, lockVars, threadVars, IInv, Typed, MaxSegments
    <2>5. writeThread' \in Thread \cup {None}
      BY <1>7
        DEF OptimizeMark, GoTo, GoToThen, Stays, infoVars, commitVars,
           optVars, closeVars, lockVars, threadVars, IInv, Typed, None,
           MaxSegments
    <2>6. pc' = [p \in Process |-> pc'[p]]
      BY <1>7
        DEF OptimizeMark, GoTo, GoToThen, Stays, infoVars, commitVars,
           optVars, closeVars, lockVars, threadVars, IInv, Typed, Process,
           MaxSegments
    <2>7. op' \in [Thread -> Calls \cup {"none"}]
      BY <1>7
        DEF OptimizeMark, GoTo, GoToThen, Stays, infoVars, commitVars,
           optVars, closeVars, lockVars, threadVars, IInv, Typed, MaxSegments
    <2>8. then' \in [Thread -> Continuations]
      BY <1>7
        DEF OptimizeMark, GoTo, GoToThen, Stays, infoVars, commitVars,
           optVars, closeVars, lockVars, threadVars, IInv, Typed,
           Continuations, MaxSegments
    <2>9. merge' = [p \in Process |-> merge'[p]]
      BY <1>7
        DEF OptimizeMark, GoTo, GoToThen, Stays, infoVars, commitVars,
           optVars, closeVars, lockVars, threadVars, IInv, Typed, Process,
           MaxSegments
    <2>10. existing' \in [Thread -> Seq(Nat)]
      BY <1>7
        DEF OptimizeMark, GoTo, GoToThen, Stays, infoVars, commitVars,
           optVars, closeVars, lockVars, threadVars, IInv, Typed, MaxSegments
    <2>11. calls' \in 0..MaxCalls
      BY <1>7, MergesAssumption
        DEF OptimizeMark, GoTo, GoToThen, Stays, infoVars, commitVars,
           optVars, closeVars, lockVars, threadVars, IInv, Typed, MaxSegments
    <2> QED
      BY <2>1, <2>2, <2>3, <2>4, <2>5, <2>6, <2>7, <2>8, <2>9, <2>10, <2>11
         DEF Typed
  <1>8. ASSUME NEW t \in Thread, OptimizeWait(t)
        PROVE  Typed'
    BY <1>8, MergesAssumption
      DEF OptimizeWait, GoTo, GoToThen, Stays, infoVars, commitVars, optVars,
         closeVars, lockVars, threadVars, IInv, Typed, Process, Continuations,
         None
  <1>9. ASSUME NEW t \in Thread, PauseAllThreads(t)
        PROVE  Typed'
    BY <1>9, MergesAssumption
      DEF PauseAllThreads, GoTo, GoToThen, Stays, infoVars, commitVars,
         optVars, closeVars, lockVars, threadVars, IInv, Typed, Process,
         Continuations, None
  <1>10. ASSUME NEW t \in Thread, AcquireRead(t)
        PROVE  Typed'
    BY <1>10, MergesAssumption, ZenonT(40)
      DEF AcquireRead, GoTo, GoToThen, Stays, infoVars, commitVars, optVars,
         closeVars, lockVars, threadVars, IInv, Typed, Process, Continuations,
         None
  <1>11. ASSUME NEW t \in Thread, StartTransaction(t)
        PROVE  Typed'
    BY <1>11, MergesAssumption
      DEF StartTransaction, TakesWriteLock, UpgradeReadToWrite, AcquireWrite,
         TakesLock, GoTo, GoToThen, Stays, infoVars, commitVars, optVars,
         closeVars, lockVars, threadVars, IInv, Typed, Process, Continuations,
         None
  <1>12. ASSUME NEW t \in Thread, AddExternal(t)
        PROVE  Typed'
    <2>1. counter' \in Nat /\ buffered' \in Nat /\ added' \in Nat
      <3>1. Sum(External) \in Nat /\ Len(External) \in Nat
        BY MergesAssumption, SumType
      <3>2. counter \in Nat /\ buffered \in Nat /\ added \in Nat
        BY DEF IInv, Typed
      <3>3. \/ UNCHANGED infoVars
            \/ /\ counter' = counter + Len(External) /\ UNCHANGED buffered
               /\ added' = added + Sum(External)
        BY <1>12 DEF AddExternal
      <3> QED
        BY <3>1, <3>2, <3>3 DEF infoVars
    <2>2. mergeGen' \in Nat /\ optimizeMaxNumSegments' \in Nat
      BY <1>12
        DEF AddExternal, GoTo, GoToThen, Stays, infoVars, commitVars, optVars,
           closeVars, lockVars, threadVars, IInv, Typed
    <2>3. /\ dirty' \in BOOLEAN /\ mergeExceptions' \in BOOLEAN
          /\ stopMerges' \in BOOLEAN /\ closed' \in BOOLEAN
          /\ docClosed' \in BOOLEAN
      BY <1>12
        DEF AddExternal, GoTo, GoToThen, Stays, infoVars, commitVars, optVars,
           closeVars, lockVars, threadVars, IInv, Typed
    <2>4. closing' \in BOOLEAN
      BY <1>12
        DEF AddExternal, GoTo, GoToThen, Stays, infoVars, commitVars, optVars,
           closeVars, lockVars, threadVars, IInv, Typed
    <2>5. writeThread' \in Thread \cup {None}
      BY <1>12
        DEF AddExternal, GoTo, GoToThen, Stays, infoVars, commitVars, optVars,
           closeVars, lockVars, threadVars, IInv, Typed, None
    <2>6. pc' = [p \in Process |-> pc'[p]]
      BY <1>12
        DEF AddExternal, GoTo, GoToThen, Stays, infoVars, commitVars, optVars,
           closeVars, lockVars, threadVars, IInv, Typed, Process
    <2>7. op' \in [Thread -> Calls \cup {"none"}]
      BY <1>12
        DEF AddExternal, GoTo, GoToThen, Stays, infoVars, commitVars, optVars,
           closeVars, lockVars, threadVars, IInv, Typed
    <2>8. then' \in [Thread -> Continuations]
      BY <1>12
        DEF AddExternal, GoTo, GoToThen, Stays, infoVars, commitVars, optVars,
           closeVars, lockVars, threadVars, IInv, Typed, Continuations
    <2>9. merge' = [p \in Process |-> merge'[p]]
      BY <1>12
        DEF AddExternal, GoTo, GoToThen, Stays, infoVars, commitVars, optVars,
           closeVars, lockVars, threadVars, IInv, Typed, Process
    <2>10. existing' \in [Thread -> Seq(Nat)]
      BY <1>12
        DEF AddExternal, GoTo, GoToThen, Stays, infoVars, commitVars, optVars,
           closeVars, lockVars, threadVars, IInv, Typed
    <2>11. calls' \in 0..MaxCalls
      BY <1>12, MergesAssumption
        DEF AddExternal, GoTo, GoToThen, Stays, infoVars, commitVars, optVars,
           closeVars, lockVars, threadVars, IInv, Typed
    <2> QED
      BY <2>1, <2>2, <2>3, <2>4, <2>5, <2>6, <2>7, <2>8, <2>9, <2>10, <2>11
         DEF Typed
  <1>13. ASSUME NEW t \in Thread, TransactionOpen(t)
        PROVE  Typed'
    BY <1>13, MergesAssumption
      DEF TransactionOpen, GoTo, GoToThen, Stays, infoVars, commitVars,
         optVars, closeVars, lockVars, threadVars, IInv, Typed, Process,
         Continuations, None
  <1>14. ASSUME NEW t \in Thread, ResolveExternal(t)
        PROVE  Typed'
    BY <1>14, MergesAssumption
      DEF ResolveExternal, GoTo, GoToThen, Stays, infoVars, commitVars,
         optVars, closeVars, lockVars, threadVars, IInv, Typed, Process,
         Continuations, None
  <1>15. ASSUME NEW t \in Thread, ReadersGet(t)
        PROVE  Typed'
    <2>1. counter' \in Nat /\ buffered' \in Nat /\ added' \in Nat
      BY <1>15
        DEF ReadersGet, GoTo, GoToThen, Stays, infoVars, commitVars, optVars,
           closeVars, lockVars, threadVars, IInv, Typed
    <2>2. mergeGen' \in Nat /\ optimizeMaxNumSegments' \in Nat
      BY <1>15
        DEF ReadersGet, GoTo, GoToThen, Stays, infoVars, commitVars, optVars,
           closeVars, lockVars, threadVars, IInv, Typed
    <2>3. /\ dirty' \in BOOLEAN /\ mergeExceptions' \in BOOLEAN
          /\ stopMerges' \in BOOLEAN /\ closed' \in BOOLEAN
          /\ docClosed' \in BOOLEAN
      BY <1>15
        DEF ReadersGet, GoTo, GoToThen, Stays, infoVars, commitVars, optVars,
           closeVars, lockVars, threadVars, IInv, Typed
    <2>4. closing' \in BOOLEAN
      BY <1>15
        DEF ReadersGet, GoTo, GoToThen, Stays, infoVars, commitVars, optVars,
           closeVars, lockVars, threadVars, IInv, Typed
    <2>5. writeThread' \in Thread \cup {None}
      BY <1>15
        DEF ReadersGet, GoTo, GoToThen, Stays, infoVars, commitVars, optVars,
           closeVars, lockVars, threadVars, IInv, Typed, None
    <2>6. pc' = [p \in Process |-> pc'[p]]
      BY <1>15
        DEF ReadersGet, GoTo, GoToThen, Stays, infoVars, commitVars, optVars,
           closeVars, lockVars, threadVars, IInv, Typed, Process
    <2>7. op' \in [Thread -> Calls \cup {"none"}]
      BY <1>15
        DEF ReadersGet, GoTo, GoToThen, Stays, infoVars, commitVars, optVars,
           closeVars, lockVars, threadVars, IInv, Typed
    <2>8. then' \in [Thread -> Continuations]
      BY <1>15
        DEF ReadersGet, GoTo, GoToThen, Stays, infoVars, commitVars, optVars,
           closeVars, lockVars, threadVars, IInv, Typed, Continuations
    <2>9. merge' = [p \in Process |-> merge'[p]]
      BY <1>15
        DEF ReadersGet, GoTo, GoToThen, Stays, infoVars, commitVars, optVars,
           closeVars, lockVars, threadVars, IInv, Typed, Process
    <2>10. existing' \in [Thread -> Seq(Nat)]
      <3>1. Len(segmentInfos) = 1 => segmentInfos[1].docs \in Seq(Nat)
        <4>1. segmentInfos \in Seq(Info)
          BY DEF IInv, AllNamed, Named
        <4>2. Len(segmentInfos) = 1 => segmentInfos[1] \in Info
          BY <4>1
        <4> QED
          BY <4>2 DEF Info
      <3>2. existing \in [Thread -> Seq(Nat)] /\ <<>> \in Seq(Nat)
        BY DEF IInv, Typed
      <3>3. existing' = [existing EXCEPT ![t] =
              IF Len(segmentInfos) = 1 THEN segmentInfos[1].docs ELSE <<>>]
        BY <1>15 DEF ReadersGet
      <3> QED
        BY <3>1, <3>2, <3>3
    <2>11. calls' \in 0..MaxCalls
      BY <1>15, MergesAssumption
        DEF ReadersGet, GoTo, GoToThen, Stays, infoVars, commitVars, optVars,
           closeVars, lockVars, threadVars, IInv, Typed
    <2> QED
      BY <2>1, <2>2, <2>3, <2>4, <2>5, <2>6, <2>7, <2>8, <2>9, <2>10, <2>11
         DEF Typed
  <1>16. ASSUME NEW t \in Thread, ReadersPut(t)
        PROVE  Typed'
    <2>1. counter' \in Nat /\ buffered' \in Nat /\ added' \in Nat
      <3> DEFINE new == [k \in 1..Sum(External) |-> added + k]
      <3>1. Sum(External) \in Nat
        BY MergesAssumption, SumType
      <3>2. counter \in Nat /\ buffered \in Nat /\ added \in Nat
        BY DEF IInv, Typed
      <3>3. Len(new) \in Nat
        <4>1. new \in Seq(Nat)
          BY <3>1, <3>2
        <4> HIDE DEF new
        <4> QED
          BY <4>1
      <3>4. \/ UNCHANGED infoVars
            \/ /\ counter' = counter + 1 /\ UNCHANGED buffered
               /\ added' = added + Len(new)
        BY <1>16 DEF ReadersPut
      <3> HIDE DEF new
      <3> QED
        BY <3>2, <3>3, <3>4 DEF infoVars
    <2>2. mergeGen' \in Nat /\ optimizeMaxNumSegments' \in Nat
      BY <1>16
        DEF ReadersPut, GoTo, GoToThen, Stays, infoVars, commitVars, optVars,
           closeVars, lockVars, threadVars, IInv, Typed
    <2>3. /\ dirty' \in BOOLEAN /\ mergeExceptions' \in BOOLEAN
          /\ stopMerges' \in BOOLEAN /\ closed' \in BOOLEAN
          /\ docClosed' \in BOOLEAN
      BY <1>16
        DEF ReadersPut, GoTo, GoToThen, Stays, infoVars, commitVars, optVars,
           closeVars, lockVars, threadVars, IInv, Typed
    <2>4. closing' \in BOOLEAN
      BY <1>16
        DEF ReadersPut, GoTo, GoToThen, Stays, infoVars, commitVars, optVars,
           closeVars, lockVars, threadVars, IInv, Typed
    <2>5. writeThread' \in Thread \cup {None}
      BY <1>16
        DEF ReadersPut, GoTo, GoToThen, Stays, infoVars, commitVars, optVars,
           closeVars, lockVars, threadVars, IInv, Typed, None
    <2>6. pc' = [p \in Process |-> pc'[p]]
      BY <1>16
        DEF ReadersPut, GoTo, GoToThen, Stays, infoVars, commitVars, optVars,
           closeVars, lockVars, threadVars, IInv, Typed, Process
    <2>7. op' \in [Thread -> Calls \cup {"none"}]
      BY <1>16
        DEF ReadersPut, GoTo, GoToThen, Stays, infoVars, commitVars, optVars,
           closeVars, lockVars, threadVars, IInv, Typed
    <2>8. then' \in [Thread -> Continuations]
      BY <1>16
        DEF ReadersPut, GoTo, GoToThen, Stays, infoVars, commitVars, optVars,
           closeVars, lockVars, threadVars, IInv, Typed, Continuations
    <2>9. merge' = [p \in Process |-> merge'[p]]
      BY <1>16
        DEF ReadersPut, GoTo, GoToThen, Stays, infoVars, commitVars, optVars,
           closeVars, lockVars, threadVars, IInv, Typed, Process
    <2>10. existing' \in [Thread -> Seq(Nat)]
      BY <1>16
        DEF ReadersPut, GoTo, GoToThen, Stays, infoVars, commitVars, optVars,
           closeVars, lockVars, threadVars, IInv, Typed
    <2>11. calls' \in 0..MaxCalls
      BY <1>16, MergesAssumption
        DEF ReadersPut, GoTo, GoToThen, Stays, infoVars, commitVars, optVars,
           closeVars, lockVars, threadVars, IInv, Typed
    <2> QED
      BY <2>1, <2>2, <2>3, <2>4, <2>5, <2>6, <2>7, <2>8, <2>9, <2>10, <2>11
         DEF Typed
  <1>17. ASSUME NEW t \in Thread, CommitTransaction(t)
        PROVE  Typed'
    BY <1>17, MergesAssumption
      DEF CommitTransaction, GoTo, GoToThen, Stays, infoVars, commitVars,
         optVars, closeVars, lockVars, threadVars, IInv, Typed, Process,
         Continuations, None
  <1>18. ASSUME NEW t \in Thread, FinishMerges(t)
        PROVE  Typed'
    <2>1. counter' \in Nat /\ buffered' \in Nat /\ added' \in Nat
      BY <1>18, MergesAssumption, SumType
        DEF FinishMerges, MergesFinished, RolledBack, AllDeleted, GoTo,
           GoToThen, Stays, infoVars, commitVars, optVars, closeVars,
           lockVars, threadVars, IInv, Typed
    <2>2. mergeGen' \in Nat /\ optimizeMaxNumSegments' \in Nat
      BY <1>18, MergesAssumption
        DEF FinishMerges, MergesFinished, RolledBack, AllDeleted, GoTo,
           GoToThen, Stays, infoVars, commitVars, optVars, closeVars,
           lockVars, threadVars, IInv, Typed
    <2>3. /\ dirty' \in BOOLEAN /\ mergeExceptions' \in BOOLEAN
          /\ stopMerges' \in BOOLEAN /\ closed' \in BOOLEAN
          /\ docClosed' \in BOOLEAN
      BY <1>18
        DEF FinishMerges, MergesFinished, RolledBack, AllDeleted, GoTo,
           GoToThen, Stays, infoVars, commitVars, optVars, closeVars,
           lockVars, threadVars, IInv, Typed
    <2>4. closing' \in BOOLEAN
      BY <1>18
        DEF FinishMerges, MergesFinished, RolledBack, AllDeleted, GoTo,
           GoToThen, Stays, infoVars, commitVars, optVars, closeVars,
           lockVars, threadVars, IInv, Typed
    <2>5. writeThread' \in Thread \cup {None}
      BY <1>18
        DEF FinishMerges, MergesFinished, RolledBack, AllDeleted, GoTo,
           GoToThen, Stays, infoVars, commitVars, optVars, closeVars,
           lockVars, threadVars, IInv, Typed, None
    <2>6. pc' = [p \in Process |-> pc'[p]]
      BY <1>18
        DEF FinishMerges, MergesFinished, RolledBack, AllDeleted, GoTo,
           GoToThen, Stays, infoVars, commitVars, optVars, closeVars,
           lockVars, threadVars, IInv, Typed, Process
    <2>7. op' \in [Thread -> Calls \cup {"none"}]
      BY <1>18
        DEF FinishMerges, MergesFinished, RolledBack, AllDeleted, GoTo,
           GoToThen, Stays, infoVars, commitVars, optVars, closeVars,
           lockVars, threadVars, IInv, Typed
    <2>8. then' \in [Thread -> Continuations]
      BY <1>18
        DEF FinishMerges, MergesFinished, RolledBack, AllDeleted, GoTo,
           GoToThen, Stays, infoVars, commitVars, optVars, closeVars,
           lockVars, threadVars, IInv, Typed, Continuations
    <2>9. merge' = [p \in Process |-> merge'[p]]
      BY <1>18
        DEF FinishMerges, MergesFinished, RolledBack, AllDeleted, GoTo,
           GoToThen, Stays, infoVars, commitVars, optVars, closeVars,
           lockVars, threadVars, IInv, Typed, Process
    <2>10. existing' \in [Thread -> Seq(Nat)]
      BY <1>18
        DEF FinishMerges, MergesFinished, RolledBack, AllDeleted, GoTo,
           GoToThen, Stays, infoVars, commitVars, optVars, closeVars,
           lockVars, threadVars, IInv, Typed
    <2>11. calls' \in 0..MaxCalls
      BY <1>18, MergesAssumption
        DEF FinishMerges, MergesFinished, RolledBack, AllDeleted, GoTo,
           GoToThen, Stays, infoVars, commitVars, optVars, closeVars,
           lockVars, threadVars, IInv, Typed
    <2> QED
      BY <2>1, <2>2, <2>3, <2>4, <2>5, <2>6, <2>7, <2>8, <2>9, <2>10, <2>11
         DEF Typed
  <1>19. ASSUME NEW t \in Thread, FinishMergesWait(t)
        PROVE  Typed'
    <2>1. counter' \in Nat /\ buffered' \in Nat /\ added' \in Nat
      BY <1>19, MergesAssumption, SumType
        DEF FinishMergesWait, MergesFinished, RolledBack, AllDeleted, GoTo,
           GoToThen, Stays, infoVars, commitVars, optVars, closeVars,
           lockVars, threadVars, IInv, Typed
    <2>2. mergeGen' \in Nat /\ optimizeMaxNumSegments' \in Nat
      BY <1>19, MergesAssumption
        DEF FinishMergesWait, MergesFinished, RolledBack, AllDeleted, GoTo,
           GoToThen, Stays, infoVars, commitVars, optVars, closeVars,
           lockVars, threadVars, IInv, Typed
    <2>3. /\ dirty' \in BOOLEAN /\ mergeExceptions' \in BOOLEAN
          /\ stopMerges' \in BOOLEAN /\ closed' \in BOOLEAN
          /\ docClosed' \in BOOLEAN
      BY <1>19
        DEF FinishMergesWait, MergesFinished, RolledBack, AllDeleted, GoTo,
           GoToThen, Stays, infoVars, commitVars, optVars, closeVars,
           lockVars, threadVars, IInv, Typed
    <2>4. closing' \in BOOLEAN
      BY <1>19
        DEF FinishMergesWait, MergesFinished, RolledBack, AllDeleted, GoTo,
           GoToThen, Stays, infoVars, commitVars, optVars, closeVars,
           lockVars, threadVars, IInv, Typed
    <2>5. writeThread' \in Thread \cup {None}
      BY <1>19
        DEF FinishMergesWait, MergesFinished, RolledBack, AllDeleted, GoTo,
           GoToThen, Stays, infoVars, commitVars, optVars, closeVars,
           lockVars, threadVars, IInv, Typed, None
    <2>6. pc' = [p \in Process |-> pc'[p]]
      BY <1>19
        DEF FinishMergesWait, MergesFinished, RolledBack, AllDeleted, GoTo,
           GoToThen, Stays, infoVars, commitVars, optVars, closeVars,
           lockVars, threadVars, IInv, Typed, Process
    <2>7. op' \in [Thread -> Calls \cup {"none"}]
      BY <1>19
        DEF FinishMergesWait, MergesFinished, RolledBack, AllDeleted, GoTo,
           GoToThen, Stays, infoVars, commitVars, optVars, closeVars,
           lockVars, threadVars, IInv, Typed
    <2>8. then' \in [Thread -> Continuations]
      BY <1>19
        DEF FinishMergesWait, MergesFinished, RolledBack, AllDeleted, GoTo,
           GoToThen, Stays, infoVars, commitVars, optVars, closeVars,
           lockVars, threadVars, IInv, Typed, Continuations
    <2>9. merge' = [p \in Process |-> merge'[p]]
      BY <1>19
        DEF FinishMergesWait, MergesFinished, RolledBack, AllDeleted, GoTo,
           GoToThen, Stays, infoVars, commitVars, optVars, closeVars,
           lockVars, threadVars, IInv, Typed, Process
    <2>10. existing' \in [Thread -> Seq(Nat)]
      BY <1>19
        DEF FinishMergesWait, MergesFinished, RolledBack, AllDeleted, GoTo,
           GoToThen, Stays, infoVars, commitVars, optVars, closeVars,
           lockVars, threadVars, IInv, Typed
    <2>11. calls' \in 0..MaxCalls
      BY <1>19, MergesAssumption
        DEF FinishMergesWait, MergesFinished, RolledBack, AllDeleted, GoTo,
           GoToThen, Stays, infoVars, commitVars, optVars, closeVars,
           lockVars, threadVars, IInv, Typed
    <2> QED
      BY <2>1, <2>2, <2>3, <2>4, <2>5, <2>6, <2>7, <2>8, <2>9, <2>10, <2>11
         DEF Typed
  <1>20. ASSUME NEW t \in Thread, WaitForMerges(t)
        PROVE  Typed'
    BY <1>20, MergesAssumption
      DEF WaitForMerges, GoTo, GoToThen, Stays, infoVars, commitVars, optVars,
         closeVars, lockVars, threadVars, IInv, Typed, Process, Continuations,
         None
  <1>21. ASSUME NEW t \in Thread, ShouldClose(t)
        PROVE  Typed'
    BY <1>21, MergesAssumption
      DEF ShouldClose, GoTo, GoToThen, Stays, infoVars, commitVars, optVars,
         closeVars, lockVars, threadVars, IInv, Typed, Process, Continuations,
         None
  <1>22. ASSUME NEW t \in Thread, SyncThreads(t)
        PROVE  Typed'
    BY <1>22, MergesAssumption
      DEF SyncThreads, GoTo, GoToThen, Stays, infoVars, commitVars, optVars,
         closeVars, lockVars, threadVars, IInv, Typed, Process, Continuations,
         None
  <1>23. ASSUME NEW t \in Thread, Revert(t)
        PROVE  Typed'
    <2>1. counter' \in Nat /\ buffered' \in Nat /\ added' \in Nat
      BY <1>23, MergesAssumption, SumType
        DEF Revert, GoTo, GoToThen, Stays, infoVars, commitVars, optVars,
           closeVars, lockVars, threadVars, IInv, Typed
    <2>2. mergeGen' \in Nat /\ optimizeMaxNumSegments' \in Nat
      BY <1>23, MergesAssumption
        DEF Revert, GoTo, GoToThen, Stays, infoVars, commitVars, optVars,
           closeVars, lockVars, threadVars, IInv, Typed
    <2>3. /\ dirty' \in BOOLEAN /\ mergeExceptions' \in BOOLEAN
          /\ stopMerges' \in BOOLEAN /\ closed' \in BOOLEAN
          /\ docClosed' \in BOOLEAN
      BY <1>23
        DEF Revert, GoTo, GoToThen, Stays, infoVars, commitVars, optVars,
           closeVars, lockVars, threadVars, IInv, Typed
    <2>4. closing' \in BOOLEAN
      BY <1>23
        DEF Revert, GoTo, GoToThen, Stays, infoVars, commitVars, optVars,
           closeVars, lockVars, threadVars, IInv, Typed
    <2>5. writeThread' \in Thread \cup {None}
      BY <1>23
        DEF Revert, GoTo, GoToThen, Stays, infoVars, commitVars, optVars,
           closeVars, lockVars, threadVars, IInv, Typed, None
    <2>6. pc' = [p \in Process |-> pc'[p]]
      BY <1>23
        DEF Revert, GoTo, GoToThen, Stays, infoVars, commitVars, optVars,
           closeVars, lockVars, threadVars, IInv, Typed, Process
    <2>7. op' \in [Thread -> Calls \cup {"none"}]
      BY <1>23
        DEF Revert, GoTo, GoToThen, Stays, infoVars, commitVars, optVars,
           closeVars, lockVars, threadVars, IInv, Typed
    <2>8. then' \in [Thread -> Continuations]
      BY <1>23
        DEF Revert, GoTo, GoToThen, Stays, infoVars, commitVars, optVars,
           closeVars, lockVars, threadVars, IInv, Typed, Continuations
    <2>9. merge' = [p \in Process |-> merge'[p]]
      BY <1>23
        DEF Revert, GoTo, GoToThen, Stays, infoVars, commitVars, optVars,
           closeVars, lockVars, threadVars, IInv, Typed, Process
    <2>10. existing' \in [Thread -> Seq(Nat)]
      BY <1>23
        DEF Revert, GoTo, GoToThen, Stays, infoVars, commitVars, optVars,
           closeVars, lockVars, threadVars, IInv, Typed
    <2>11. calls' \in 0..MaxCalls
      BY <1>23, MergesAssumption
        DEF Revert, GoTo, GoToThen, Stays, infoVars, commitVars, optVars,
           closeVars, lockVars, threadVars, IInv, Typed
    <2> QED
      BY <2>1, <2>2, <2>3, <2>4, <2>5, <2>6, <2>7, <2>8, <2>9, <2>10, <2>11
         DEF Typed
  <1>24. ASSUME NEW t \in Thread, Recount(t)
        PROVE  Typed'
    BY <1>24, MergesAssumption
      DEF Recount, GoTo, GoToThen, Stays, infoVars, commitVars, optVars,
         closeVars, lockVars, threadVars, IInv, Typed, Process, Continuations,
         None
  <1>25. ASSUME NEW t \in Thread, CloseInternal(t)
        PROVE  Typed'
    BY <1>25, MergesAssumption
      DEF CloseInternal, GoTo, GoToThen, Stays, infoVars, commitVars, optVars,
         closeVars, lockVars, threadVars, IInv, Typed, Process, Continuations,
         None
  <1>26. ASSUME NEW t \in Thread, CloseMerges(t)
        PROVE  Typed'
    BY <1>26, MergesAssumption
      DEF CloseMerges, GoTo, GoToThen, Stays, infoVars, commitVars, optVars,
         closeVars, lockVars, threadVars, IInv, Typed, Process, Continuations,
         None
  <1>27. ASSUME NEW t \in Thread, CloseStop(t)
        PROVE  Typed'
    BY <1>27, MergesAssumption
      DEF CloseStop, GoTo, GoToThen, Stays, infoVars, commitVars, optVars,
         closeVars, lockVars, threadVars, IInv, Typed, Process, Continuations,
         None
  <1>28. ASSUME NEW t \in Thread, Closed(t)
        PROVE  Typed'
    BY <1>28, MergesAssumption
      DEF Closed, GoTo, GoToThen, Stays, infoVars, commitVars, optVars,
         closeVars, lockVars, threadVars, IInv, Typed, Process, Continuations,
         None
  <1>29. ASSUME NEW t \in Thread, Schedule(t)
        PROVE  Typed'
    BY <1>29, MergesAssumption
      DEF Schedule, GoTo, GoToThen, Stays, infoVars, commitVars, optVars,
         closeVars, lockVars, threadVars, IInv, Typed, Process, Continuations,
         None
  <1>30. ASSUME NEW t \in Thread, NEW m \in MergeThread, StartThread(t, m)
        PROVE  Typed'
    BY <1>30, MergesAssumption
      DEF StartThread, GoTo, GoToThen, Stays, infoVars, commitVars, optVars,
         closeVars, lockVars, threadVars, IInv, Typed, Process, Continuations,
         None
  <1>31. ASSUME NEW p \in Process, MergeInit(p)
        PROVE  Typed'
    BY <1>31, MergesAssumption
      DEF MergeInit, Fails, Throws, GoTo, GoToThen, Stays, infoVars,
         commitVars, optVars, closeVars, lockVars, threadVars, IInv, Typed,
         Process, Continuations, None
  <1>32. ASSUME NEW p \in Process, MergeMiddle(p)
        PROVE  Typed'
    BY <1>32, MergesAssumption
      DEF MergeMiddle, GoTo, GoToThen, Stays, infoVars, commitVars, optVars,
         closeVars, lockVars, threadVars, IInv, Typed, Process, Continuations,
         None
  <1>33. ASSUME NEW p \in Process, CommitMerge(p)
        PROVE  Typed'
    BY <1>33, MergesAssumption
      DEF CommitMerge, GoTo, GoToThen, Stays, infoVars, commitVars, optVars,
         closeVars, lockVars, threadVars, IInv, Typed, Process, Continuations,
         None
  <1>34. ASSUME NEW p \in Process, MergeDone(p)
        PROVE  Typed'
    BY <1>34, MergesAssumption
      DEF MergeDone, GoTo, GoToThen, Stays, infoVars, commitVars, optVars,
         closeVars, lockVars, threadVars, IInv, Typed, Process, Continuations,
         None
  <1>35. ASSUME NEW p \in Process, MergeFailed(p)
        PROVE  Typed'
    BY <1>35, MergesAssumption
      DEF MergeFailed, Fails, Throws, GoTo, GoToThen, Stays, infoVars,
         commitVars, optVars, closeVars, lockVars, threadVars, IInv, Typed,
         Process, Continuations, None
  <1>36. ASSUME NEW m \in MergeThread, NextMerge(m)
        PROVE  Typed'
    BY <1>36, MergesAssumption
      DEF NextMerge, GoTo, GoToThen, Stays, infoVars, commitVars, optVars,
         closeVars, lockVars, threadVars, IInv, Typed, Process, Continuations,
         None
  <1>37. CASE UNCHANGED vars
    BY <1>37, MergesAssumption
      DEF vars, infoVars, commitVars, optVars, closeVars, lockVars,
         threadVars, IInv, Typed, Process, Continuations, None
  <1> QED
    BY <1>1, <1>2, <1>3, <1>4, <1>5, <1>6, <1>7, <1>8, <1>9, <1>10, <1>11,
       <1>12, <1>13, <1>14, <1>15, <1>16, <1>17, <1>18, <1>19, <1>20, <1>21,
       <1>22, <1>23, <1>24, <1>25, <1>26, <1>27, <1>28, <1>29, <1>30, <1>31,
       <1>32, <1>33, <1>34, <1>35, <1>36, <1>37
      DEF Next, CallStep, MergeStep, Process

\* More names may be given.
LEMMA NamedGrows ==
    ASSUME NEW infos, NEW n \in Nat, Named(infos, n), NEW k \in Nat, n <= k
    PROVE  Named(infos, k)
  <1>1. 1..n \subseteq 1..k
    OBVIOUS
  <1> QED
    BY <1>1 DEF Named

\* A segment with a new name is added.
LEMMA NamedAppend ==
    ASSUME NEW infos, NEW n \in Nat, Named(infos, n),
           NEW x \in Info, x.name = n + 1
    PROVE  Named(Append(infos, x), n + 1)
  <1>1. infos \in Seq(Info) /\ Append(infos, x) = infos \o <<x>>
    BY DEF Named
  <1>2. <<x>> \in Seq(Info) /\ Names(<<x>>) = {n + 1}
    BY OneInfo
  <1> DEFINE one == <<x>>
  <1> HIDE DEF one
  <1>3. one \in Seq(Info) /\ Names(one) = {n + 1} /\ Append(infos, x) = infos \o one
    BY <1>1, <1>2 DEF one
  <1>4. /\ infos \o one \in Seq(Info)
        /\ Names(infos \o one) = Names(infos) \cup Names(one)
    BY <1>1, <1>3, ConcatInfos
  <1>5. 1..n \subseteq 1..n + 1 /\ n + 1 \in 1..n + 1
    OBVIOUS
  <1> QED
    BY <1>3, <1>4, <1>5 DEF Named

\* What runs and is about to commit was named.
LEMMA MergeIsNamed ==
    ASSUME IInv, NEW p \in Process, pc[p] = "commitMerge", ~MergeOf(p).aborted
    PROVE  /\ MergeOf(p) \in Merge /\ MergeOf(p).info \in 1..counter
           /\ MergeOf(p).segs \in Seq(Info) \ {<<>>}
  <1>1. /\ merge[p] \in reg.running /\ MergeOf(p).info # None
    BY DEF IInv, ProcInv, Merging, Goes, None
  <1>2. counter \in Nat /\ RegInv(reg, counter)
    BY DEF IInv, Typed
  <1>3. merge[p] \in DOMAIN reg.merges /\ reg.merges[merge[p]] \in Merge
        /\ reg.merges[merge[p]].segs \in Seq(Info) \ {<<>>}
    BY <1>1, <1>2, RegIds
  <1>4. reg.merges[merge[p]].info \in 0..counter
    BY <1>2, <1>3 DEF RegInv, RegNamed
  <1> QED
    BY <1>1, <1>2, <1>3, <1>4 DEF MergeOf, None

\* The documents that addDocument has buffered, or an addIndexes brings.
LEMMA NewDocs ==
    ASSUME NEW n \in Nat, NEW a \in Nat
    PROVE  /\ [k \in 1..n |-> a + k] \in Seq(Nat)
           /\ Len([k \in 1..n |-> a + k]) = n
  OBVIOUS

\* The segments that addIndexesNoOptimize adds.
LEMMA NewExternal ==
    ASSUME NEW n \in Nat, NEW a \in Nat, NEW new,
           new = [i \in DOMAIN External |->
                    [name |-> n + i, ext |-> TRUE,
                     docs |-> [k \in 1..External[i] |->
                                 a + Sum(SubSeq(External, 1, i - 1)) + k]]]
    PROVE  /\ new \in Seq(Info)
           /\ Names(new) \subseteq n + 1..n + Len(External)
           /\ Len(External) \in Nat
  <1>1. External \in Seq(Nat) /\ Len(External) \in Nat
        /\ DOMAIN External = 1..Len(External)
    BY MergesAssumption
  <1>2. ASSUME NEW i \in 1..Len(External)
        PROVE  /\ new[i] \in Info /\ new[i].name = n + i
    <2>1. SubSeq(External, 1, i - 1) \in Seq(Nat)
      BY <1>1
    <2>2. Sum(SubSeq(External, 1, i - 1)) \in Nat
      BY <2>1, SumType
    <2>3. External[i] \in Nat
      BY <1>1
    <2> DEFINE b == a + Sum(SubSeq(External, 1, i - 1))
               docs == [k \in 1..External[i] |-> b + k]
    <2>4. b \in Nat
      BY <2>2
    <2> HIDE DEF b
    <2>5. docs \in Seq(Nat)
      BY <2>3, <2>4, NewDocs
    <2> HIDE DEF docs
    <2>6. new[i] = [name |-> n + i, ext |-> TRUE, docs |-> docs]
      BY <1>1 DEF docs, b
    <2>7. n + i \in Nat
      BY <1>1
    <2> DEFINE info == [name |-> n + i, ext |-> TRUE, docs |-> docs]
    <2>8. info \in Info /\ info.name = n + i
      BY <2>5, <2>7 DEF Info
    <2> HIDE DEF info
    <2>9. new[i] = info
      BY <2>6 DEF info
    <2> QED
      BY <2>8, <2>9
  <1>3. DOMAIN new = 1..Len(External) /\ new = [i \in 1..Len(External) |-> new[i]]
    BY <1>1
  <1>4. new \in Seq(Info)
    BY <1>1, <1>2, <1>3
  <1>5. Names(new) \subseteq n + 1..n + Len(External)
    BY <1>1, <1>2, <1>3 DEF Names
  <1> QED
    BY <1>1, <1>4, <1>5

\* A step names the segments it adds.
LEMMA NamedStep ==
    ASSUME IInv, [Next]_vars
    PROVE  AllNamed'
  <1>1. ASSUME NEW t \in Thread, Call(t)
        PROVE  AllNamed'
    BY <1>1, NoInfos
      DEF Call, GoTo, GoToThen, Stays, infoVars, commitVars, optVars,
         closeVars, lockVars, threadVars, IInv, Typed, AllNamed, Named
  <1>2. ASSUME NEW t \in Thread, AddDocument(t)
        PROVE  AllNamed'
    BY <1>2, NoInfos
      DEF AddDocument, GoTo, GoToThen, Stays, infoVars, commitVars, optVars,
         closeVars, lockVars, threadVars, IInv, Typed, AllNamed, Named
  <1>3. ASSUME NEW t \in Thread, Flush(t)
        PROVE  AllNamed'
    <2> DEFINE new == [name |-> counter + 1,
                        docs |-> [i \in 1..buffered |-> added + i], ext |-> FALSE]
    <2>0. /\ counter \in Nat /\ buffered \in Nat /\ added \in Nat
          /\ UNCHANGED <<rollbackSegmentInfos, localRollbackSegmentInfos>>
      BY <1>3 DEF IInv, Typed, Flush, commitVars, lockVars
    <2>1. CASE UNCHANGED infoVars
      BY <2>0, <2>1 DEF IInv, AllNamed, infoVars
    <2>2. CASE /\ segmentInfos' = Append(segmentInfos, new)
               /\ counter' = counter + 1
      <3>1. [i \in 1..buffered |-> added + i] \in Seq(Nat)
        BY <2>0, NewDocs
      <3>2. new \in Info /\ new.name = counter + 1
        BY <2>0, <3>1 DEF Info
      <3> HIDE DEF new
      <3>3. Named(Append(segmentInfos, new), counter + 1)
        BY <2>0, <3>2, NamedAppend DEF IInv, AllNamed
      <3>4. counter + 1 \in Nat /\ counter <= counter + 1
        BY <2>0
      <3> QED
        BY <2>0, <2>2, <3>3, <3>4, NamedGrows DEF IInv, AllNamed
    <2>3. \/ UNCHANGED infoVars
          \/ /\ segmentInfos' = Append(segmentInfos, new)
             /\ counter' = counter + 1
      BY <1>3 DEF Flush
    <2> QED
      BY <2>1, <2>2, <2>3
  <1>4. ASSUME NEW t \in Thread, UpdatePendingMerges(t)
        PROVE  AllNamed'
    BY <1>4, NoInfos
      DEF UpdatePendingMerges, GoTo, GoToThen, Stays, infoVars, commitVars,
         optVars, closeVars, lockVars, threadVars, IInv, Typed, AllNamed,
         Named
  <1>5. ASSUME NEW t \in Thread, Commit(t)
        PROVE  AllNamed'
    BY <1>5, NoInfos
      DEF Commit, GoTo, GoToThen, Stays, infoVars, commitVars, optVars,
         closeVars, lockVars, threadVars, IInv, Typed, AllNamed, Named
  <1>6. ASSUME NEW t \in Thread, Leave(t)
        PROVE  AllNamed'
    BY <1>6, NoInfos
      DEF Leave, GoTo, GoToThen, Stays, infoVars, commitVars, optVars,
         closeVars, lockVars, threadVars, IInv, Typed, AllNamed, Named
  <1>7. ASSUME NEW t \in Thread, OptimizeMark(t)
        PROVE  AllNamed'
    BY <1>7, NoInfos
      DEF OptimizeMark, GoTo, GoToThen, Stays, infoVars, commitVars, optVars,
         closeVars, lockVars, threadVars, IInv, Typed, AllNamed, Named
  <1>8. ASSUME NEW t \in Thread, OptimizeWait(t)
        PROVE  AllNamed'
    BY <1>8, NoInfos
      DEF OptimizeWait, GoTo, GoToThen, Stays, infoVars, commitVars, optVars,
         closeVars, lockVars, threadVars, IInv, Typed, AllNamed, Named
  <1>9. ASSUME NEW t \in Thread, PauseAllThreads(t)
        PROVE  AllNamed'
    BY <1>9, NoInfos
      DEF PauseAllThreads, GoTo, GoToThen, Stays, infoVars, commitVars,
         optVars, closeVars, lockVars, threadVars, IInv, Typed, AllNamed,
         Named
  <1>10. ASSUME NEW t \in Thread, AcquireRead(t)
        PROVE  AllNamed'
    BY <1>10, NoInfos
      DEF AcquireRead, GoTo, GoToThen, Stays, infoVars, commitVars, optVars,
         closeVars, lockVars, threadVars, IInv, Typed, AllNamed, Named
  <1>11. ASSUME NEW t \in Thread, StartTransaction(t)
        PROVE  AllNamed'
    BY <1>11, NoInfos
      DEF StartTransaction, TakesWriteLock, UpgradeReadToWrite, AcquireWrite,
         TakesLock, GoTo, GoToThen, Stays, infoVars, commitVars, optVars,
         closeVars, lockVars, threadVars, IInv, Typed, AllNamed, Named
  <1>12. ASSUME NEW t \in Thread, AddExternal(t)
        PROVE  AllNamed'
    <2> DEFINE new == [i \in DOMAIN External |->
                        [name |-> counter + i, ext |-> TRUE,
                         docs |-> [k \in 1..External[i] |->
                                     added + Sum(SubSeq(External, 1, i - 1)) + k]]]
    <2>0. /\ counter \in Nat /\ added \in Nat
          /\ UNCHANGED <<rollbackSegmentInfos, localRollbackSegmentInfos>>
      BY <1>12 DEF IInv, Typed, AddExternal, commitVars, lockVars
    <2>1. CASE UNCHANGED infoVars
      BY <2>0, <2>1 DEF IInv, AllNamed, infoVars
    <2>2. CASE /\ segmentInfos' = segmentInfos \o new
               /\ counter' = counter + Len(External)
      <3>1. /\ new \in Seq(Info) /\ Len(External) \in Nat
            /\ Names(new) \subseteq counter + 1..counter + Len(External)
        BY <2>0, NewExternal
      <3> HIDE DEF new
      <3>2. counter' \in Nat /\ counter <= counter'
        BY <2>0, <2>2, <3>1
      <3>3. /\ segmentInfos \o new \in Seq(Info)
            /\ Names(segmentInfos \o new) = Names(segmentInfos) \cup Names(new)
        BY <3>1, ConcatInfos DEF IInv, AllNamed, Named
      <3>4. counter + 1..counter + Len(External) \subseteq 1..counter'
            /\ 1..counter \subseteq 1..counter'
        BY <2>0, <2>2, <3>1
      <3>5. Named(segmentInfos', counter')
        BY <2>2, <3>1, <3>3, <3>4 DEF IInv, AllNamed, Named
      <3> QED
        BY <2>0, <3>2, <3>5, NamedGrows DEF IInv, AllNamed
    <2>3. \/ UNCHANGED infoVars
          \/ /\ segmentInfos' = segmentInfos \o new
             /\ counter' = counter + Len(External)
      BY <1>12 DEF AddExternal
    <2> QED
      BY <2>1, <2>2, <2>3
  <1>13. ASSUME NEW t \in Thread, TransactionOpen(t)
        PROVE  AllNamed'
    BY <1>13, NoInfos
      DEF TransactionOpen, GoTo, GoToThen, Stays, infoVars, commitVars,
         optVars, closeVars, lockVars, threadVars, IInv, Typed, AllNamed,
         Named
  <1>14. ASSUME NEW t \in Thread, ResolveExternal(t)
        PROVE  AllNamed'
    BY <1>14, NoInfos
      DEF ResolveExternal, GoTo, GoToThen, Stays, infoVars, commitVars,
         optVars, closeVars, lockVars, threadVars, IInv, Typed, AllNamed,
         Named
  <1>15. ASSUME NEW t \in Thread, ReadersGet(t)
        PROVE  AllNamed'
    BY <1>15, NoInfos
      DEF ReadersGet, GoTo, GoToThen, Stays, infoVars, commitVars, optVars,
         closeVars, lockVars, threadVars, IInv, Typed, AllNamed, Named
  <1>16. ASSUME NEW t \in Thread, ReadersPut(t)
        PROVE  AllNamed'
    <2> DEFINE docs == existing[t] \o [k \in 1..Sum(External) |-> added + k]
               new == [name |-> counter + 1, ext |-> FALSE, docs |-> docs]
    <2>0. /\ counter \in Nat /\ added \in Nat
          /\ UNCHANGED <<rollbackSegmentInfos, localRollbackSegmentInfos>>
          /\ existing[t] \in Seq(Nat) /\ Sum(External) \in Nat
      BY <1>16, MergesAssumption, SumType
         DEF IInv, Typed, ReadersPut, commitVars, lockVars
    <2>1. CASE UNCHANGED infoVars
      BY <2>0, <2>1 DEF IInv, AllNamed, infoVars
    <2>2. CASE segmentInfos' = <<new>> /\ counter' = counter + 1
      <3>1. [k \in 1..Sum(External) |-> added + k] \in Seq(Nat)
        BY <2>0, NewDocs
      <3>2. docs \in Seq(Nat)
        BY <2>0, <3>1
      <3> HIDE DEF docs
      <3>3. new \in Info /\ new.name = counter + 1
        BY <2>0, <3>2 DEF Info
      <3> HIDE DEF new
      <3>4. <<new>> \in Seq(Info) /\ Names(<<new>>) = {counter + 1}
        BY <3>3, OneInfo
      <3>5. /\ counter + 1 \in Nat /\ counter <= counter + 1
            /\ counter + 1 \in 1..counter + 1
        BY <2>0
      <3>6. Named(segmentInfos', counter')
        BY <2>2, <3>4, <3>5 DEF Named
      <3> QED
        BY <2>0, <2>2, <3>5, <3>6, NamedGrows DEF IInv, AllNamed
    <2>3. \/ UNCHANGED infoVars
          \/ segmentInfos' = <<new>> /\ counter' = counter + 1
      BY <1>16 DEF ReadersPut
    <2> QED
      BY <2>1, <2>2, <2>3
  <1>17. ASSUME NEW t \in Thread, CommitTransaction(t)
        PROVE  AllNamed'
    BY <1>17, NoInfos
      DEF CommitTransaction, GoTo, GoToThen, Stays, infoVars, commitVars,
         optVars, closeVars, lockVars, threadVars, IInv, Typed, AllNamed,
         Named
  <1>18. ASSUME NEW t \in Thread, FinishMerges(t)
        PROVE  AllNamed'
    <2>1. /\ segmentInfos' \in {segmentInfos, localRollbackSegmentInfos, <<>>}
          /\ UNCHANGED <<counter, rollbackSegmentInfos>>
          /\ localRollbackSegmentInfos' \in {localRollbackSegmentInfos, <<>>}
      BY <1>18
         DEF FinishMerges, MergesFinished, RolledBack, AllDeleted, infoVars,
             commitVars
    <2> QED
      BY <2>1, NoInfos DEF IInv, AllNamed, Named
  <1>19. ASSUME NEW t \in Thread, FinishMergesWait(t)
        PROVE  AllNamed'
    <2>1. /\ segmentInfos' \in {segmentInfos, localRollbackSegmentInfos, <<>>}
          /\ UNCHANGED <<counter, rollbackSegmentInfos>>
          /\ localRollbackSegmentInfos' \in {localRollbackSegmentInfos, <<>>}
      BY <1>19
         DEF FinishMergesWait, MergesFinished, RolledBack, AllDeleted, infoVars,
             commitVars
    <2> QED
      BY <2>1, NoInfos DEF IInv, AllNamed, Named
  <1>20. ASSUME NEW t \in Thread, WaitForMerges(t)
        PROVE  AllNamed'
    BY <1>20, NoInfos
      DEF WaitForMerges, GoTo, GoToThen, Stays, infoVars, commitVars, optVars,
         closeVars, lockVars, threadVars, IInv, Typed, AllNamed, Named
  <1>21. ASSUME NEW t \in Thread, ShouldClose(t)
        PROVE  AllNamed'
    BY <1>21, NoInfos
      DEF ShouldClose, GoTo, GoToThen, Stays, infoVars, commitVars, optVars,
         closeVars, lockVars, threadVars, IInv, Typed, AllNamed, Named
  <1>22. ASSUME NEW t \in Thread, SyncThreads(t)
        PROVE  AllNamed'
    BY <1>22, NoInfos
      DEF SyncThreads, GoTo, GoToThen, Stays, infoVars, commitVars, optVars,
         closeVars, lockVars, threadVars, IInv, Typed, AllNamed, Named
  <1>23. ASSUME NEW t \in Thread, Revert(t)
        PROVE  AllNamed'
    BY <1>23, NoInfos
      DEF Revert, GoTo, GoToThen, Stays, infoVars, commitVars, optVars,
         closeVars, lockVars, threadVars, IInv, Typed, AllNamed, Named
  <1>24. ASSUME NEW t \in Thread, Recount(t)
        PROVE  AllNamed'
    BY <1>24, NoInfos
      DEF Recount, GoTo, GoToThen, Stays, infoVars, commitVars, optVars,
         closeVars, lockVars, threadVars, IInv, Typed, AllNamed, Named
  <1>25. ASSUME NEW t \in Thread, CloseInternal(t)
        PROVE  AllNamed'
    BY <1>25, NoInfos
      DEF CloseInternal, GoTo, GoToThen, Stays, infoVars, commitVars, optVars,
         closeVars, lockVars, threadVars, IInv, Typed, AllNamed, Named
  <1>26. ASSUME NEW t \in Thread, CloseMerges(t)
        PROVE  AllNamed'
    BY <1>26, NoInfos
      DEF CloseMerges, GoTo, GoToThen, Stays, infoVars, commitVars, optVars,
         closeVars, lockVars, threadVars, IInv, Typed, AllNamed, Named
  <1>27. ASSUME NEW t \in Thread, CloseStop(t)
        PROVE  AllNamed'
    BY <1>27, NoInfos
      DEF CloseStop, GoTo, GoToThen, Stays, infoVars, commitVars, optVars,
         closeVars, lockVars, threadVars, IInv, Typed, AllNamed, Named
  <1>28. ASSUME NEW t \in Thread, Closed(t)
        PROVE  AllNamed'
    BY <1>28, NoInfos
      DEF Closed, GoTo, GoToThen, Stays, infoVars, commitVars, optVars,
         closeVars, lockVars, threadVars, IInv, Typed, AllNamed, Named
  <1>29. ASSUME NEW t \in Thread, Schedule(t)
        PROVE  AllNamed'
    BY <1>29, NoInfos
      DEF Schedule, GoTo, GoToThen, Stays, infoVars, commitVars, optVars,
         closeVars, lockVars, threadVars, IInv, Typed, AllNamed, Named
  <1>30. ASSUME NEW t \in Thread, NEW m \in MergeThread, StartThread(t, m)
        PROVE  AllNamed'
    BY <1>30, NoInfos
      DEF StartThread, GoTo, GoToThen, Stays, infoVars, commitVars, optVars,
         closeVars, lockVars, threadVars, IInv, Typed, AllNamed, Named
  <1>31. ASSUME NEW p \in Process, MergeInit(p)
        PROVE  AllNamed'
    <2>1. counter \in Nat /\ (counter' = counter \/ counter' = counter + 1)
          /\ UNCHANGED <<segmentInfos, rollbackSegmentInfos,
                         localRollbackSegmentInfos>>
      BY <1>31 DEF IInv, Typed, MergeInit, commitVars, lockVars
    <2>2. counter' \in Nat /\ counter <= counter'
      BY <2>1
    <2> QED
      BY <2>1, <2>2, NamedGrows DEF IInv, AllNamed
  <1>32. ASSUME NEW p \in Process, MergeMiddle(p)
        PROVE  AllNamed'
    BY <1>32, NoInfos
      DEF MergeMiddle, GoTo, GoToThen, Stays, infoVars, commitVars, optVars,
         closeVars, lockVars, threadVars, IInv, Typed, AllNamed, Named
  <1>33. ASSUME NEW p \in Process, CommitMerge(p)
        PROVE  AllNamed'
    <2>0. UNCHANGED <<counter, rollbackSegmentInfos, localRollbackSegmentInfos>>
      BY <1>33 DEF CommitMerge, commitVars, lockVars
    <2>1. CASE UNCHANGED segmentInfos
      BY <2>0, <2>1 DEF IInv, AllNamed
    <2>2. CASE /\ pc[p] = "commitMerge" /\ ~MergeOf(p).aborted
               /\ Contiguous(MergeOf(p).segs, segmentInfos)
               /\ segmentInfos' = WithMerged(segmentInfos, MergeOf(p))
      <3>1. MergeOf(p) \in Merge /\ MergeOf(p).info \in 1..counter
        BY <2>2, MergeIsNamed
      <3>2. segmentInfos \in Seq(Info) /\ Names(segmentInfos) \subseteq 1..counter
        BY DEF IInv, AllNamed, Named
      <3>3. /\ WithMerged(segmentInfos, MergeOf(p)) \in Seq(Info)
            /\ Names(WithMerged(segmentInfos, MergeOf(p)))
                  \subseteq Names(segmentInfos) \cup {MergeOf(p).info}
        BY <2>2, <3>1, <3>2, WithMergedIs
      <3>4. Named(segmentInfos', counter)
        BY <2>2, <3>1, <3>2, <3>3 DEF Named
      <3> QED
        BY <2>0, <3>4 DEF IInv, AllNamed
    <2>3. \/ UNCHANGED segmentInfos
          \/ /\ pc[p] = "commitMerge" /\ ~MergeOf(p).aborted
             /\ Contiguous(MergeOf(p).segs, segmentInfos)
             /\ segmentInfos' = WithMerged(segmentInfos, MergeOf(p))
      BY <1>33 DEF CommitMerge
    <2> QED
      BY <2>1, <2>2, <2>3
  <1>34. ASSUME NEW p \in Process, MergeDone(p)
        PROVE  AllNamed'
    BY <1>34, NoInfos
      DEF MergeDone, GoTo, GoToThen, Stays, infoVars, commitVars, optVars,
         closeVars, lockVars, threadVars, IInv, Typed, AllNamed, Named
  <1>35. ASSUME NEW p \in Process, MergeFailed(p)
        PROVE  AllNamed'
    BY <1>35, NoInfos
      DEF MergeFailed, Fails, Throws, GoTo, GoToThen, Stays, infoVars,
         commitVars, optVars, closeVars, lockVars, threadVars, IInv, Typed,
         AllNamed, Named
  <1>36. ASSUME NEW m \in MergeThread, NextMerge(m)
        PROVE  AllNamed'
    BY <1>36, NoInfos
      DEF NextMerge, GoTo, GoToThen, Stays, infoVars, commitVars, optVars,
         closeVars, lockVars, threadVars, IInv, Typed, AllNamed, Named
  <1>37. CASE UNCHANGED vars
    BY <1>37, NoInfos
      DEF vars, infoVars, commitVars, optVars, closeVars, lockVars,
         threadVars, IInv, Typed, AllNamed, Named
  <1> QED
    BY <1>1, <1>2, <1>3, <1>4, <1>5, <1>6, <1>7, <1>8, <1>9, <1>10, <1>11,
       <1>12, <1>13, <1>14, <1>15, <1>16, <1>17, <1>18, <1>19, <1>20, <1>21,
       <1>22, <1>23, <1>24, <1>25, <1>26, <1>27, <1>28, <1>29, <1>30, <1>31,
       <1>32, <1>33, <1>34, <1>35, <1>36, <1>37
      DEF Next, CallStep, MergeStep, Process

\* A segment is a run.
LEMMA OneRun ==
    ASSUME NEW infos \in Seq(Info), NEW i \in DOMAIN infos
    PROVE  <<infos[i]>> \in Runs(infos)
  <1>1. i \in 1..Len(infos) /\ i <= i
    OBVIOUS
  <1>2. SubSeq(infos, i, i) = <<infos[i]>>
    <2> DEFINE s == SubSeq(infos, i, i)
    <2>1. s \in Seq(Info) /\ Len(s) = 1 /\ s[1] = infos[i]
      BY <1>1
    <2> HIDE DEF s
    <2>2. s = <<infos[i]>>
      BY <2>1
    <2> QED
      BY <2>2 DEF s
  <1> QED
    BY <1>1, <1>2, RunIntro

\* What runs a merge with a name ran it, took it from the thread that had it
\* named, or has just given it the name.
GoesFrom ==
    \A q \in Process : pc'[q] \in Goes =>
        LET name == reg'.merges[merge'[q]].info IN
        \/ \E s \in Process : pc[s] \in Goes /\ name = MergeOf(s).info
        \/ name = None
        \/ name = counter + 1 /\ \E p \in Process : MergeInit(p)

Comes == Stems(reg, reg', segmentInfos) /\ GoesFrom

\* What a step of one process must do so that what the processes run stays
\* consistent with the registry.
LEMMA ProcKeeps ==
    ASSUME IInv, NEW p \in Process,
           merge' = [merge EXCEPT ![p] = merge'[p]],
           pc' = [pc EXCEPT ![p] = pc'[p]],
           \A id \in reg.running \ {merge[p]} :
              /\ id \in reg'.running
              /\ reg'.merges[id].info = reg.merges[id].info
              /\ reg.merges[id].aborted => reg'.merges[id].aborted,
           merge'[p] \in reg'.running \cup {None},
           merge'[p] \notin reg.running \ {merge[p]},
           pc'[p] \in Merging => merge'[p] # None,
           pc'[p] \in Begins => reg'.merges[merge'[p]].info = None,
           pc'[p] \in Goes => \/ reg'.merges[merge'[p]].aborted
                              \/ reg'.merges[merge'[p]].info # None
    PROVE  /\ ProcInv'
           /\ \A q \in Process \ {p} : pc'[q] \in Goes =>
                 /\ pc[q] \in Goes
                 /\ reg'.merges[merge'[q]].info = MergeOf(q).info
  <1>1. /\ \A q \in Process : q # p => merge'[q] = merge[q] /\ pc'[q] = pc[q]
    BY DEF IInv, Typed
  <1>2. ASSUME NEW q \in Process, q # p
        PROVE  /\ merge'[q] \in reg'.running \cup {None}
               /\ pc'[q] \in Merging => merge'[q] # None
               /\ pc'[q] \in Begins => reg'.merges[merge'[q]].info = None
               /\ pc'[q] \in Goes => \/ reg'.merges[merge'[q]].aborted
                                     \/ reg'.merges[merge'[q]].info # None
               /\ merge'[q] = None \/ merge'[q] # merge'[p]
               /\ pc'[q] \in Goes =>
                     /\ pc[q] \in Goes
                     /\ reg'.merges[merge'[q]].info = reg.merges[merge[q]].info
    <2>1. /\ merge[q] \in reg.running \cup {None}
          /\ pc[q] \in Merging => merge[q] # None
          /\ pc[q] \in Begins => reg.merges[merge[q]].info = None
          /\ pc[q] \in Goes => \/ reg.merges[merge[q]].aborted
                               \/ reg.merges[merge[q]].info # None
          /\ merge[q] = None \/ merge[q] # merge[p]
      BY <1>2 DEF IInv, ProcInv, MergeOf
    <2>2. Begins \subseteq Merging /\ Goes \subseteq Merging
      BY DEF Begins, Goes, Merging
    <2>3. merge'[q] = merge[q] /\ pc'[q] = pc[q]
      BY <1>1, <1>2
    <2>4. CASE merge[q] = None
      BY <2>1, <2>2, <2>3, <2>4
    <2>5. CASE merge[q] # None
      <3>1. merge[q] \in reg.running \ {merge[p]}
        BY <2>1, <2>5
      <3> QED
        BY <2>1, <2>3, <2>5, <3>1
    <2> QED
      BY <2>4, <2>5
  <1>3. ASSUME NEW q \in Process
        PROVE  /\ merge'[q] \in reg'.running \cup {None}
               /\ pc'[q] \in Merging => merge'[q] # None
               /\ pc'[q] \in Begins => reg'.merges[merge'[q]].info = None
               /\ pc'[q] \in Goes => \/ reg'.merges[merge'[q]].aborted
                                     \/ reg'.merges[merge'[q]].info # None
    BY <1>2
  <1>4. ASSUME NEW q \in Process, NEW s \in Process, q # s
        PROVE  merge'[q] = None \/ merge'[q] # merge'[s]
    <2>1. CASE q = p
      BY <1>2, <1>4, <2>1
    <2>2. CASE s = p
      BY <1>2, <1>4, <2>2
    <2>3. CASE q # p /\ s # p
      BY <1>1, <1>4, <2>3 DEF IInv, ProcInv
    <2> QED
      BY <2>1, <2>2, <2>3
  <1> QED
    BY <1>2, <1>3, <1>4 DEF ProcInv, MergeOf

\* A step in which the process runs no named merge.
LEMMA GoesOn ==
    ASSUME NEW p \in Process, pc'[p] \notin Goes,
           \A q \in Process \ {p} : pc'[q] \in Goes =>
                 /\ pc[q] \in Goes
                 /\ reg'.merges[merge'[q]].info = MergeOf(q).info
    PROVE  GoesFrom
  BY DEF GoesFrom

\* A step that has nothing to do with merges.
LEMMA QuietKeeps ==
    ASSUME IInv, NEW p \in Process, UNCHANGED <<reg, merge>>,
           counter' \in Nat, counter <= counter',
           pc' = [pc EXCEPT ![p] = pc'[p]], pc'[p] \notin Merging
    PROVE  RegInv(reg', counter') /\ ProcInv' /\ Comes
  <1>1. RegInv(reg', counter')
    BY RegGrows DEF IInv, Typed
  <1>2. /\ merge' = [merge EXCEPT ![p] = merge'[p]]
        /\ merge'[p] \in reg'.running \cup {None}
        /\ merge'[p] \notin reg.running \ {merge[p]}
    BY DEF IInv, Typed, ProcInv
  <1>3. pc'[p] \notin Begins /\ pc'[p] \notin Goes
    BY DEF Begins, Goes, Merging
  <1>4. ProcInv' /\ GoesFrom
    BY <1>2, <1>3, ProcKeeps, GoesOn
  <1>5. Stems(reg, reg', segmentInfos)
    BY DEF Stems
  <1> QED
    BY <1>1, <1>4, <1>5 DEF Comes

\* A step that registers, aborts or marks merges.
LEMMA SameRunningKeeps ==
    ASSUME IInv, NEW p \in Process, SameRunning(reg, reg'), UNCHANGED merge,
           pc' = [pc EXCEPT ![p] = pc'[p]], pc'[p] \notin Merging
    PROVE  ProcInv' /\ GoesFrom
  <1>1. /\ merge' = [merge EXCEPT ![p] = merge'[p]]
        /\ merge'[p] \in reg'.running \cup {None}
        /\ merge'[p] \notin reg.running \ {merge[p]}
        /\ \A id \in reg.running \ {merge[p]} :
              /\ id \in reg'.running
              /\ reg'.merges[id].info = reg.merges[id].info
              /\ reg.merges[id].aborted => reg'.merges[id].aborted
    BY DEF IInv, Typed, ProcInv, SameRunning
  <1>2. pc'[p] \notin Begins /\ pc'[p] \notin Goes
    BY DEF Begins, Goes, Merging
  <1> QED
    BY <1>1, <1>2, ProcKeeps, GoesOn

\* A step that takes a pending merge.
LEMMA StartKeeps ==
    ASSUME IInv, NEW p \in Process, NEW r, RegInv(r, counter),
           SameRunning(reg, r), Stems(reg, r, segmentInfos),
           NEW k \in DOMAIN r.pending, reg' = Started(r, k),
           merge' = [merge EXCEPT ![p] = r.pending[k]], UNCHANGED counter,
           pc' = [pc EXCEPT ![p] = pc'[p]], pc'[p] \in Begins
    PROVE  RegInv(reg', counter') /\ ProcInv' /\ Comes
  <1>0. counter \in Nat
    BY DEF IInv, Typed
  <1>1. /\ RegInv(reg', counter) /\ reg'.merges = r.merges
        /\ reg'.running = r.running \cup {r.pending[k]}
        /\ r.pending[k] \in DOMAIN r.merges
        /\ r.pending[k] \notin r.running
        /\ r.merges[r.pending[k]].info = None
    BY <1>0, StartedKeeps
  <1>2. r.pending[k] # None
    BY <1>0, RegIds
  <1>3. merge'[p] = r.pending[k]
    BY DEF IInv, Typed
  <1>4. pc'[p] \notin Goes
    BY DEF Begins, Goes
  <1>5. \A id \in reg.running \ {merge[p]} :
              /\ id \in reg'.running
              /\ reg'.merges[id].info = reg.merges[id].info
              /\ reg.merges[id].aborted => reg'.merges[id].aborted
    BY <1>1 DEF SameRunning
  <1>6. /\ merge' = [merge EXCEPT ![p] = merge'[p]]
        /\ merge'[p] \in reg'.running \cup {None}
        /\ merge'[p] \notin reg.running \ {merge[p]}
        /\ merge'[p] # None /\ reg'.merges[merge'[p]].info = None
    BY <1>1, <1>2, <1>3 DEF SameRunning
  <1>7. ProcInv' /\ GoesFrom
    BY <1>4, <1>5, <1>6, ProcKeeps, GoesOn
  <1>8. Stems(reg, reg', segmentInfos)
    BY <1>1 DEF Stems
  <1> QED
    BY <1>1, <1>7, <1>8 DEF Comes

\* A step that ends a merge.
LEMMA EndKeeps ==
    ASSUME IInv, NEW p \in Process, merge[p] # None,
           NEW r, r = FinishedMerge(reg, merge[p]),
           RegInv(reg', counter'), SameRunning(r, reg'),
           merge' = [merge EXCEPT ![p] = None],
           pc' = [pc EXCEPT ![p] = pc'[p]], pc'[p] \notin Merging
    PROVE  ProcInv' /\ GoesFrom
  <1>0. merge[p] \in reg.running /\ counter \in Nat /\ RegInv(reg, counter)
    BY DEF IInv, Typed, ProcInv
  <1>1. /\ SameMerges(reg, r, reg.running \ {merge[p]})
        /\ r.running = reg.running \ {merge[p]}
    BY <1>0, FinishedKeeps
  <1>2. merge'[p] = None /\ merge' = [merge EXCEPT ![p] = merge'[p]]
    BY DEF IInv, Typed
  <1>3. pc'[p] \notin Begins /\ pc'[p] \notin Goes
    BY DEF Begins, Goes, Merging
  <1>4. \A id \in reg.running \ {merge[p]} :
              /\ id \in reg'.running
              /\ reg'.merges[id].info = reg.merges[id].info
              /\ reg.merges[id].aborted => reg'.merges[id].aborted
    BY <1>1 DEF SameRunning, SameMerges
  <1>5. None \notin reg.running
    BY <1>0, RegIds
  <1> QED
    BY <1>2, <1>3, <1>4, <1>5, ProcKeeps, GoesOn

\* The processes.
LEMMA ProcessIs == Thread \subseteq Process /\ MergeThread \subseteq Process
  BY DEF Process

\* A step keeps the registry, and what the processes run.
LEMMA RegStep ==
    ASSUME IInv, [Next]_vars
    PROVE  RegInv(reg', counter') /\ ProcInv' /\ Comes
  <1>1. ASSUME NEW t \in Thread, Call(t)
        PROVE  RegInv(reg', counter') /\ ProcInv' /\ Comes
    <2>1. UNCHANGED <<reg, merge>> /\ pc' = [pc EXCEPT ![t] = pc'[t]]
          /\ pc'[t] \notin Merging
      BY <1>1, ProcessIs, ZenonT(40)
         DEF Call, GoTo, GoToThen, Stays, infoVars, commitVars, optVars,
            closeVars, lockVars, threadVars, IInv, Typed, Merging,
            Continuations, Throws
    <2>2. counter' = counter /\ counter \in Nat
      BY <1>1
         DEF Call, GoTo, GoToThen, Stays, infoVars, commitVars, optVars,
            closeVars, lockVars, threadVars, IInv, Typed
    <2>3. counter' \in Nat /\ counter <= counter'
      BY <2>2
    <2> QED
      BY <2>1, <2>3, ProcessIs, QuietKeeps
  <1>2. ASSUME NEW t \in Thread, AddDocument(t)
        PROVE  RegInv(reg', counter') /\ ProcInv' /\ Comes
    <2>1. UNCHANGED <<reg, merge>> /\ pc' = [pc EXCEPT ![t] = pc'[t]]
          /\ pc'[t] \notin Merging
      BY <1>2, ProcessIs
         DEF AddDocument, GoTo, GoToThen, Stays, infoVars, commitVars,
            optVars, closeVars, lockVars, threadVars, IInv, Typed, Merging,
            Continuations, Throws
    <2>2. counter' = counter /\ counter \in Nat
      BY <1>2
         DEF AddDocument, GoTo, GoToThen, Stays, infoVars, commitVars,
            optVars, closeVars, lockVars, threadVars, IInv, Typed
    <2>3. counter' \in Nat /\ counter <= counter'
      BY <2>2
    <2> QED
      BY <2>1, <2>3, ProcessIs, QuietKeeps
  <1>3. ASSUME NEW t \in Thread, Flush(t)
        PROVE  RegInv(reg', counter') /\ ProcInv' /\ Comes
    <2>1. UNCHANGED <<reg, merge>> /\ pc' = [pc EXCEPT ![t] = pc'[t]]
          /\ pc'[t] \notin Merging
      BY <1>3, ProcessIs
         DEF Flush, GoTo, GoToThen, Stays, infoVars, commitVars, optVars,
            closeVars, lockVars, threadVars, IInv, Typed, Merging,
            Continuations, Throws
    <2>2. counter \in Nat /\ (counter' = counter \/ counter' = counter + 1)
      BY <1>3 DEF Flush, infoVars, IInv, Typed
    <2>3. counter' \in Nat /\ counter <= counter'
      BY <2>2
    <2> QED
      BY <2>1, <2>3, ProcessIs, QuietKeeps
  <1>4. ASSUME NEW t \in Thread, UpdatePendingMerges(t)
        PROVE  RegInv(reg', counter') /\ ProcInv' /\ Comes
    <2>0. /\ counter \in Nat /\ RegInv(reg, counter) /\ mergeGen \in Nat
          /\ optimizeMaxNumSegments \in Nat
          /\ segmentInfos \in Seq(Info)
          /\ Names(segmentInfos) \subseteq 1..counter
      BY DEF IInv, Typed, AllNamed, Named
    <2> DEFINE max == IF then[t] = "optWait" THEN MaxSegments(t) ELSE 0
    <2>1. max \in Nat
      BY MergesAssumption DEF MaxSegments
    <2>2. /\ reg' = UpdatedMerges(reg, max) /\ UNCHANGED <<counter, merge>>
      BY <1>4 DEF UpdatePendingMerges, infoVars, Stays
    <2> HIDE DEF max
    <2>3. /\ RegInv(reg', counter') /\ SameRunning(reg, reg')
          /\ Stems(reg, reg', segmentInfos)
      BY <2>0, <2>1, <2>2, UpdatedKeeps
    <2>4. pc' = [pc EXCEPT ![t] = pc'[t]] /\ pc'[t] \notin Merging
      BY <1>4, ProcessIs
         DEF UpdatePendingMerges, GoTo, GoToThen, Stays, infoVars, commitVars,
            optVars, closeVars, lockVars, threadVars, IInv, Typed, Merging
    <2> QED
      BY <2>2, <2>3, <2>4, ProcessIs, SameRunningKeeps DEF Comes
  <1>5. ASSUME NEW t \in Thread, Commit(t)
        PROVE  RegInv(reg', counter') /\ ProcInv' /\ Comes
    <2>1. UNCHANGED <<reg, merge>> /\ pc' = [pc EXCEPT ![t] = pc'[t]]
          /\ pc'[t] \notin Merging
      BY <1>5, ProcessIs
         DEF Commit, GoTo, GoToThen, Stays, infoVars, commitVars, optVars,
            closeVars, lockVars, threadVars, IInv, Typed, Merging,
            Continuations, Throws
    <2>2. counter' = counter /\ counter \in Nat
      BY <1>5
         DEF Commit, GoTo, GoToThen, Stays, infoVars, commitVars, optVars,
            closeVars, lockVars, threadVars, IInv, Typed
    <2>3. counter' \in Nat /\ counter <= counter'
      BY <2>2
    <2> QED
      BY <2>1, <2>3, ProcessIs, QuietKeeps
  <1>6. ASSUME NEW t \in Thread, Leave(t)
        PROVE  RegInv(reg', counter') /\ ProcInv' /\ Comes
    <2>1. UNCHANGED <<reg, merge>> /\ pc' = [pc EXCEPT ![t] = pc'[t]]
          /\ pc'[t] \notin Merging
      BY <1>6, ProcessIs
         DEF Leave, GoTo, GoToThen, Stays, infoVars, commitVars, optVars,
            closeVars, lockVars, threadVars, IInv, Typed, Merging,
            Continuations, Throws
    <2>2. counter' = counter /\ counter \in Nat
      BY <1>6
         DEF Leave, GoTo, GoToThen, Stays, infoVars, commitVars, optVars,
            closeVars, lockVars, threadVars, IInv, Typed
    <2>3. counter' \in Nat /\ counter <= counter'
      BY <2>2
    <2> QED
      BY <2>1, <2>3, ProcessIs, QuietKeeps
  <1>7. ASSUME NEW t \in Thread, OptimizeMark(t)
        PROVE  RegInv(reg', counter') /\ ProcInv' /\ Comes
    <2>0. /\ counter \in Nat /\ RegInv(reg, counter) /\ mergeGen \in Nat
          /\ optimizeMaxNumSegments \in Nat
          /\ segmentInfos \in Seq(Info)
          /\ Names(segmentInfos) \subseteq 1..counter
      BY DEF IInv, Typed, AllNamed, Named
    <2>1. MaxSegments(t) \in Nat
      BY MergesAssumption DEF MaxSegments
    <2>2. /\ reg' = Marked(reg, MaxSegments(t)) /\ UNCHANGED <<counter, merge>>
      BY <1>7 DEF OptimizeMark, infoVars, Marked
    <2>3. /\ RegInv(reg', counter') /\ SameRunning(reg, reg')
          /\ Stems(reg, reg', segmentInfos)
      BY <2>0, <2>1, <2>2, MarkedKeeps
    <2>4. pc' = [pc EXCEPT ![t] = pc'[t]] /\ pc'[t] \notin Merging
      BY <1>7, ProcessIs
         DEF OptimizeMark, GoTo, GoToThen, Stays, infoVars, commitVars,
            optVars, closeVars, lockVars, threadVars, IInv, Typed, Merging
    <2> QED
      BY <2>2, <2>3, <2>4, ProcessIs, SameRunningKeeps DEF Comes
  <1>8. ASSUME NEW t \in Thread, OptimizeWait(t)
        PROVE  RegInv(reg', counter') /\ ProcInv' /\ Comes
    <2>1. UNCHANGED <<reg, merge>> /\ pc' = [pc EXCEPT ![t] = pc'[t]]
          /\ pc'[t] \notin Merging
      BY <1>8, ProcessIs
         DEF OptimizeWait, GoTo, GoToThen, Stays, infoVars, commitVars,
            optVars, closeVars, lockVars, threadVars, IInv, Typed, Merging,
            Continuations, Throws
    <2>2. counter' = counter /\ counter \in Nat
      BY <1>8
         DEF OptimizeWait, GoTo, GoToThen, Stays, infoVars, commitVars,
            optVars, closeVars, lockVars, threadVars, IInv, Typed
    <2>3. counter' \in Nat /\ counter <= counter'
      BY <2>2
    <2> QED
      BY <2>1, <2>3, ProcessIs, QuietKeeps
  <1>9. ASSUME NEW t \in Thread, PauseAllThreads(t)
        PROVE  RegInv(reg', counter') /\ ProcInv' /\ Comes
    <2>1. UNCHANGED <<reg, merge>> /\ pc' = [pc EXCEPT ![t] = pc'[t]]
          /\ pc'[t] \notin Merging
      BY <1>9, ProcessIs
         DEF PauseAllThreads, GoTo, GoToThen, Stays, infoVars, commitVars,
            optVars, closeVars, lockVars, threadVars, IInv, Typed, Merging,
            Continuations, Throws
    <2>2. counter' = counter /\ counter \in Nat
      BY <1>9
         DEF PauseAllThreads, GoTo, GoToThen, Stays, infoVars, commitVars,
            optVars, closeVars, lockVars, threadVars, IInv, Typed
    <2>3. counter' \in Nat /\ counter <= counter'
      BY <2>2
    <2> QED
      BY <2>1, <2>3, ProcessIs, QuietKeeps
  <1>10. ASSUME NEW t \in Thread, AcquireRead(t)
        PROVE  RegInv(reg', counter') /\ ProcInv' /\ Comes
    <2>1. UNCHANGED <<reg, merge>> /\ pc' = [pc EXCEPT ![t] = pc'[t]]
          /\ pc'[t] \notin Merging
      BY <1>10, ProcessIs
         DEF AcquireRead, GoTo, GoToThen, Stays, infoVars, commitVars,
            optVars, closeVars, lockVars, threadVars, IInv, Typed, Merging,
            Continuations, Throws
    <2>2. counter' = counter /\ counter \in Nat
      BY <1>10
         DEF AcquireRead, GoTo, GoToThen, Stays, infoVars, commitVars,
            optVars, closeVars, lockVars, threadVars, IInv, Typed
    <2>3. counter' \in Nat /\ counter <= counter'
      BY <2>2
    <2> QED
      BY <2>1, <2>3, ProcessIs, QuietKeeps
  <1>11. ASSUME NEW t \in Thread, StartTransaction(t)
        PROVE  RegInv(reg', counter') /\ ProcInv' /\ Comes
    <2>1. UNCHANGED <<reg, merge>> /\ pc' = [pc EXCEPT ![t] = pc'[t]]
          /\ pc'[t] \notin Merging
      BY <1>11, ProcessIs
         DEF StartTransaction, TakesWriteLock, UpgradeReadToWrite,
            AcquireWrite, TakesLock, GoTo, GoToThen, Stays, infoVars,
            commitVars, optVars, closeVars, lockVars, threadVars, IInv, Typed,
            Merging, Continuations, Throws
    <2>2. counter' = counter /\ counter \in Nat
      BY <1>11
         DEF StartTransaction, TakesWriteLock, UpgradeReadToWrite,
            AcquireWrite, TakesLock, GoTo, GoToThen, Stays, infoVars,
            commitVars, optVars, closeVars, lockVars, threadVars, IInv, Typed
    <2>3. counter' \in Nat /\ counter <= counter'
      BY <2>2
    <2> QED
      BY <2>1, <2>3, ProcessIs, QuietKeeps
  <1>12. ASSUME NEW t \in Thread, AddExternal(t)
        PROVE  RegInv(reg', counter') /\ ProcInv' /\ Comes
    <2>1. UNCHANGED <<reg, merge>> /\ pc' = [pc EXCEPT ![t] = pc'[t]]
          /\ pc'[t] \notin Merging
      BY <1>12, ProcessIs
         DEF AddExternal, GoTo, GoToThen, Stays, infoVars, commitVars,
            optVars, closeVars, lockVars, threadVars, IInv, Typed, Merging,
            Continuations, Throws
    <2>2. /\ counter \in Nat /\ Len(External) \in Nat
          /\ counter' = counter \/ counter' = counter + Len(External)
      BY <1>12, MergesAssumption DEF AddExternal, infoVars, IInv, Typed
    <2>3. counter' \in Nat /\ counter <= counter'
      BY <2>2
    <2> QED
      BY <2>1, <2>3, ProcessIs, QuietKeeps
  <1>13. ASSUME NEW t \in Thread, TransactionOpen(t)
        PROVE  RegInv(reg', counter') /\ ProcInv' /\ Comes
    <2>1. UNCHANGED <<reg, merge>> /\ pc' = [pc EXCEPT ![t] = pc'[t]]
          /\ pc'[t] \notin Merging
      BY <1>13, ProcessIs
         DEF TransactionOpen, GoTo, GoToThen, Stays, infoVars, commitVars,
            optVars, closeVars, lockVars, threadVars, IInv, Typed, Merging,
            Continuations, Throws
    <2>2. counter' = counter /\ counter \in Nat
      BY <1>13
         DEF TransactionOpen, GoTo, GoToThen, Stays, infoVars, commitVars,
            optVars, closeVars, lockVars, threadVars, IInv, Typed
    <2>3. counter' \in Nat /\ counter <= counter'
      BY <2>2
    <2> QED
      BY <2>1, <2>3, ProcessIs, QuietKeeps
  <1>14. ASSUME NEW t \in Thread, ResolveExternal(t)
        PROVE  RegInv(reg', counter') /\ ProcInv' /\ Comes
    <2>0. /\ counter \in Nat /\ RegInv(reg, counter) /\ mergeGen \in Nat
          /\ optimizeMaxNumSegments \in Nat
          /\ segmentInfos \in Seq(Info)
          /\ Names(segmentInfos) \subseteq 1..counter
      BY DEF IInv, Typed, AllNamed, Named
    <2>1. /\ UNCHANGED counter /\ SameRunning(reg, reg)
          /\ Stems(reg, reg, segmentInfos)
      BY <1>14 DEF ResolveExternal, infoVars, SameRunning, Stems
    <2>2. CASE stopMerges \/ ~ExternalIn(segmentInfos)
      <3>1. UNCHANGED <<reg, merge>> /\ pc' = [pc EXCEPT ![t] = pc'[t]]
            /\ pc'[t] \notin Merging
        BY <1>14, <2>2, ProcessIs
           DEF ResolveExternal, GoTo, IInv, Typed, Merging
      <3>2. counter' \in Nat /\ counter <= counter'
        BY <2>0, <2>1
      <3> QED
        BY <3>1, <3>2, ProcessIs, QuietKeeps
    <2>3. CASE ~stopMerges /\ ExternalIn(segmentInfos)
      <3>1. pc' = [pc EXCEPT ![t] = pc'[t]] /\ pc'[t] \in Begins
        BY <1>14, <2>3, ProcessIs
           DEF ResolveExternal, GoTo, IInv, Typed, Begins
      <3>2. CASE FreeExternal # {}
        <4> DEFINE least(i) == \A j \in FreeExternal : i <= j
                   i == CHOOSE i \in FreeExternal : least(i)
                   one == <<segmentInfos[i]>>
                   r == WithPending(reg, one, 0)
        <4>1. i \in FreeExternal
          <5>1. FreeExternal \in SUBSET Nat
            BY <2>0 DEF FreeExternal
          <5>2. \E j \in FreeExternal : least(j)
            BY <3>2, <5>1, LeastNat
          <5> HIDE DEF least
          <5> QED
            BY <5>2
        <4>2. i = Least(FreeExternal)
          BY DEF Least
        <4> HIDE DEF i
        <4>3. /\ i \in DOMAIN segmentInfos /\ segmentInfos[i] \in Info
              /\ segmentInfos[i].name \notin reg.merging
              /\ segmentInfos[i].name \in Names(segmentInfos)
          BY <2>0, <4>1 DEF FreeExternal, Names
        <4>4. one \in Seq(Info) \ {<<>>} /\ Names(one) = {segmentInfos[i].name}
          BY <4>3, OneInfo
        <4>5. /\ reg' = Started(r, Len(r.pending))
              /\ merge' = [merge EXCEPT ![t] = Id(one)]
          BY <1>14, <2>3, <3>2, <4>2 DEF ResolveExternal
        <4> HIDE DEF one
        <4>6. /\ Names(one) \cap reg.merging = {} /\ Names(one) \subseteq 1..counter
          BY <2>0, <4>3, <4>4
        <4>7. /\ RegInv(r, counter) /\ SameRunning(reg, r)
              /\ Len(r.pending) \in DOMAIN r.pending
              /\ r.pending[Len(r.pending)] = Id(one)
          BY <2>0, <4>4, <4>6, WithPendingKeeps
        <4>9. Stems(reg, r, segmentInfos)
          <5>1. one \in Runs(segmentInfos)
            BY <2>0, <4>3, OneRun DEF one
          <5> QED
            BY <2>0, <5>1, StemsPending DEF r
        <4> HIDE DEF r
        <4> DEFINE k == Len(r.pending)
        <4>8. k \in DOMAIN r.pending /\ reg' = Started(r, k)
              /\ merge' = [merge EXCEPT ![t] = r.pending[k]]
          BY <4>5, <4>7
        <4> HIDE DEF k
        <4> QED
          BY <2>1, <3>1, <4>7, <4>8, <4>9, ProcessIs, StartKeeps
      <3>3. CASE FreeExternal = {}
        <4> DEFINE least(i) == \A j \in PendingExternal : i <= j
                   k == CHOOSE i \in PendingExternal : least(i)
        <4>0. PendingExternal # {}
          BY <1>14, <2>3, <3>3 DEF ResolveExternal
        <4>1. k \in PendingExternal
          <5>1. PendingExternal \in SUBSET Nat
            BY <2>0 DEF PendingExternal, RegInv, RegTyped
          <5>2. \E j \in PendingExternal : least(j)
            BY <4>0, <5>1, LeastNat
          <5> HIDE DEF least
          <5> QED
            BY <5>2
        <4>2. k = Least(PendingExternal)
          BY DEF Least
        <4> HIDE DEF k
        <4>3. k \in DOMAIN reg.pending
          BY <4>1 DEF PendingExternal
        <4>4. /\ reg' = Started(reg, k)
              /\ merge' = [merge EXCEPT ![t] = reg.pending[k]]
          BY <1>14, <2>3, <3>3, <4>2 DEF ResolveExternal
        <4> QED
          BY <2>0, <2>1, <3>1, <4>3, <4>4, ProcessIs, StartKeeps
      <3> QED
        BY <3>2, <3>3
    <2> QED
      BY <2>2, <2>3
  <1>15. ASSUME NEW t \in Thread, ReadersGet(t)
        PROVE  RegInv(reg', counter') /\ ProcInv' /\ Comes
    <2>1. UNCHANGED <<reg, merge>> /\ pc' = [pc EXCEPT ![t] = pc'[t]]
          /\ pc'[t] \notin Merging
      BY <1>15, ProcessIs
         DEF ReadersGet, GoTo, GoToThen, Stays, infoVars, commitVars, optVars,
            closeVars, lockVars, threadVars, IInv, Typed, Merging,
            Continuations, Throws
    <2>2. counter' = counter /\ counter \in Nat
      BY <1>15
         DEF ReadersGet, GoTo, GoToThen, Stays, infoVars, commitVars, optVars,
            closeVars, lockVars, threadVars, IInv, Typed
    <2>3. counter' \in Nat /\ counter <= counter'
      BY <2>2
    <2> QED
      BY <2>1, <2>3, ProcessIs, QuietKeeps
  <1>16. ASSUME NEW t \in Thread, ReadersPut(t)
        PROVE  RegInv(reg', counter') /\ ProcInv' /\ Comes
    <2>1. UNCHANGED <<reg, merge>> /\ pc' = [pc EXCEPT ![t] = pc'[t]]
          /\ pc'[t] \notin Merging
      BY <1>16, ProcessIs
         DEF ReadersPut, GoTo, GoToThen, Stays, infoVars, commitVars, optVars,
            closeVars, lockVars, threadVars, IInv, Typed, Merging,
            Continuations, Throws
    <2>2. counter \in Nat /\ (counter' = counter \/ counter' = counter + 1)
      BY <1>16 DEF ReadersPut, infoVars, IInv, Typed
    <2>3. counter' \in Nat /\ counter <= counter'
      BY <2>2
    <2> QED
      BY <2>1, <2>3, ProcessIs, QuietKeeps
  <1>17. ASSUME NEW t \in Thread, CommitTransaction(t)
        PROVE  RegInv(reg', counter') /\ ProcInv' /\ Comes
    <2>1. UNCHANGED <<reg, merge>> /\ pc' = [pc EXCEPT ![t] = pc'[t]]
          /\ pc'[t] \notin Merging
      BY <1>17, ProcessIs
         DEF CommitTransaction, GoTo, GoToThen, Stays, infoVars, commitVars,
            optVars, closeVars, lockVars, threadVars, IInv, Typed, Merging,
            Continuations, Throws
    <2>2. counter' = counter /\ counter \in Nat
      BY <1>17
         DEF CommitTransaction, GoTo, GoToThen, Stays, infoVars, commitVars,
            optVars, closeVars, lockVars, threadVars, IInv, Typed
    <2>3. counter' \in Nat /\ counter <= counter'
      BY <2>2
    <2> QED
      BY <2>1, <2>3, ProcessIs, QuietKeeps
  <1>18. ASSUME NEW t \in Thread, FinishMerges(t)
        PROVE  RegInv(reg', counter') /\ ProcInv' /\ Comes
    <2>0. /\ counter \in Nat /\ RegInv(reg, counter) /\ mergeGen \in Nat
          /\ optimizeMaxNumSegments \in Nat
          /\ segmentInfos \in Seq(Info)
          /\ Names(segmentInfos) \subseteq 1..counter
      BY DEF IInv, Typed, AllNamed, Named
    <2>2. /\ reg' = AbortedMerges(reg) /\ UNCHANGED <<counter, merge>>
      BY <1>18 DEF FinishMerges, MergesFinished, RolledBack, AllDeleted,
                  infoVars, Stays
    <2>3. /\ RegInv(reg', counter') /\ SameRunning(reg, reg')
          /\ Stems(reg, reg', segmentInfos)
      BY <2>0, <2>2, AbortedKeeps
    <2>4. pc' = [pc EXCEPT ![t] = pc'[t]] /\ pc'[t] \notin Merging
      BY <1>18, ProcessIs
         DEF FinishMerges, MergesFinished, RolledBack, AllDeleted, GoTo,
            GoToThen, Stays, infoVars, commitVars, optVars, closeVars,
            lockVars, threadVars, IInv, Typed, Merging
    <2> QED
      BY <2>2, <2>3, <2>4, ProcessIs, SameRunningKeeps DEF Comes
  <1>19. ASSUME NEW t \in Thread, FinishMergesWait(t)
        PROVE  RegInv(reg', counter') /\ ProcInv' /\ Comes
    <2>1. UNCHANGED <<reg, merge>> /\ pc' = [pc EXCEPT ![t] = pc'[t]]
          /\ pc'[t] \notin Merging
      BY <1>19, ProcessIs
         DEF FinishMergesWait, MergesFinished, RolledBack, AllDeleted, GoTo,
            GoToThen, Stays, infoVars, commitVars, optVars, closeVars,
            lockVars, threadVars, IInv, Typed, Merging, Continuations, Throws
    <2>2. counter' = counter /\ counter \in Nat
      BY <1>19
         DEF FinishMergesWait, MergesFinished, RolledBack, AllDeleted, GoTo,
            GoToThen, Stays, infoVars, commitVars, optVars, closeVars,
            lockVars, threadVars, IInv, Typed
    <2>3. counter' \in Nat /\ counter <= counter'
      BY <2>2
    <2> QED
      BY <2>1, <2>3, ProcessIs, QuietKeeps
  <1>20. ASSUME NEW t \in Thread, WaitForMerges(t)
        PROVE  RegInv(reg', counter') /\ ProcInv' /\ Comes
    <2>1. UNCHANGED <<reg, merge>> /\ pc' = [pc EXCEPT ![t] = pc'[t]]
          /\ pc'[t] \notin Merging
      BY <1>20, ProcessIs
         DEF WaitForMerges, GoTo, GoToThen, Stays, infoVars, commitVars,
            optVars, closeVars, lockVars, threadVars, IInv, Typed, Merging,
            Continuations, Throws
    <2>2. counter' = counter /\ counter \in Nat
      BY <1>20
         DEF WaitForMerges, GoTo, GoToThen, Stays, infoVars, commitVars,
            optVars, closeVars, lockVars, threadVars, IInv, Typed
    <2>3. counter' \in Nat /\ counter <= counter'
      BY <2>2
    <2> QED
      BY <2>1, <2>3, ProcessIs, QuietKeeps
  <1>21. ASSUME NEW t \in Thread, ShouldClose(t)
        PROVE  RegInv(reg', counter') /\ ProcInv' /\ Comes
    <2>1. UNCHANGED <<reg, merge>> /\ pc' = [pc EXCEPT ![t] = pc'[t]]
          /\ pc'[t] \notin Merging
      BY <1>21, ProcessIs
         DEF ShouldClose, GoTo, GoToThen, Stays, infoVars, commitVars,
            optVars, closeVars, lockVars, threadVars, IInv, Typed, Merging,
            Continuations, Throws
    <2>2. counter' = counter /\ counter \in Nat
      BY <1>21
         DEF ShouldClose, GoTo, GoToThen, Stays, infoVars, commitVars,
            optVars, closeVars, lockVars, threadVars, IInv, Typed
    <2>3. counter' \in Nat /\ counter <= counter'
      BY <2>2
    <2> QED
      BY <2>1, <2>3, ProcessIs, QuietKeeps
  <1>22. ASSUME NEW t \in Thread, SyncThreads(t)
        PROVE  RegInv(reg', counter') /\ ProcInv' /\ Comes
    <2>1. UNCHANGED <<reg, merge>> /\ pc' = [pc EXCEPT ![t] = pc'[t]]
          /\ pc'[t] \notin Merging
      BY <1>22, ProcessIs
         DEF SyncThreads, GoTo, GoToThen, Stays, infoVars, commitVars,
            optVars, closeVars, lockVars, threadVars, IInv, Typed, Merging,
            Continuations, Throws
    <2>2. counter' = counter /\ counter \in Nat
      BY <1>22
         DEF SyncThreads, GoTo, GoToThen, Stays, infoVars, commitVars,
            optVars, closeVars, lockVars, threadVars, IInv, Typed
    <2>3. counter' \in Nat /\ counter <= counter'
      BY <2>2
    <2> QED
      BY <2>1, <2>3, ProcessIs, QuietKeeps
  <1>23. ASSUME NEW t \in Thread, Revert(t)
        PROVE  RegInv(reg', counter') /\ ProcInv' /\ Comes
    <2>1. UNCHANGED <<reg, merge>> /\ pc' = [pc EXCEPT ![t] = pc'[t]]
          /\ pc'[t] \notin Merging
      BY <1>23, ProcessIs
         DEF Revert, GoTo, GoToThen, Stays, infoVars, commitVars, optVars,
            closeVars, lockVars, threadVars, IInv, Typed, Merging,
            Continuations, Throws
    <2>2. counter' = counter /\ counter \in Nat
      BY <1>23
         DEF Revert, GoTo, GoToThen, Stays, infoVars, commitVars, optVars,
            closeVars, lockVars, threadVars, IInv, Typed
    <2>3. counter' \in Nat /\ counter <= counter'
      BY <2>2
    <2> QED
      BY <2>1, <2>3, ProcessIs, QuietKeeps
  <1>24. ASSUME NEW t \in Thread, Recount(t)
        PROVE  RegInv(reg', counter') /\ ProcInv' /\ Comes
    <2>1. UNCHANGED <<reg, merge>> /\ pc' = [pc EXCEPT ![t] = pc'[t]]
          /\ pc'[t] \notin Merging
      BY <1>24, ProcessIs
         DEF Recount, GoTo, GoToThen, Stays, infoVars, commitVars, optVars,
            closeVars, lockVars, threadVars, IInv, Typed, Merging,
            Continuations, Throws
    <2>2. counter' = counter /\ counter \in Nat
      BY <1>24
         DEF Recount, GoTo, GoToThen, Stays, infoVars, commitVars, optVars,
            closeVars, lockVars, threadVars, IInv, Typed
    <2>3. counter' \in Nat /\ counter <= counter'
      BY <2>2
    <2> QED
      BY <2>1, <2>3, ProcessIs, QuietKeeps
  <1>25. ASSUME NEW t \in Thread, CloseInternal(t)
        PROVE  RegInv(reg', counter') /\ ProcInv' /\ Comes
    <2>1. UNCHANGED <<reg, merge>> /\ pc' = [pc EXCEPT ![t] = pc'[t]]
          /\ pc'[t] \notin Merging
      BY <1>25, ProcessIs
         DEF CloseInternal, GoTo, GoToThen, Stays, infoVars, commitVars,
            optVars, closeVars, lockVars, threadVars, IInv, Typed, Merging,
            Continuations, Throws
    <2>2. counter' = counter /\ counter \in Nat
      BY <1>25
         DEF CloseInternal, GoTo, GoToThen, Stays, infoVars, commitVars,
            optVars, closeVars, lockVars, threadVars, IInv, Typed
    <2>3. counter' \in Nat /\ counter <= counter'
      BY <2>2
    <2> QED
      BY <2>1, <2>3, ProcessIs, QuietKeeps
  <1>26. ASSUME NEW t \in Thread, CloseMerges(t)
        PROVE  RegInv(reg', counter') /\ ProcInv' /\ Comes
    <2>1. UNCHANGED <<reg, merge>> /\ pc' = [pc EXCEPT ![t] = pc'[t]]
          /\ pc'[t] \notin Merging
      BY <1>26, ProcessIs
         DEF CloseMerges, GoTo, GoToThen, Stays, infoVars, commitVars,
            optVars, closeVars, lockVars, threadVars, IInv, Typed, Merging,
            Continuations, Throws
    <2>2. counter' = counter /\ counter \in Nat
      BY <1>26
         DEF CloseMerges, GoTo, GoToThen, Stays, infoVars, commitVars,
            optVars, closeVars, lockVars, threadVars, IInv, Typed
    <2>3. counter' \in Nat /\ counter <= counter'
      BY <2>2
    <2> QED
      BY <2>1, <2>3, ProcessIs, QuietKeeps
  <1>27. ASSUME NEW t \in Thread, CloseStop(t)
        PROVE  RegInv(reg', counter') /\ ProcInv' /\ Comes
    <2>1. UNCHANGED <<reg, merge>> /\ pc' = [pc EXCEPT ![t] = pc'[t]]
          /\ pc'[t] \notin Merging
      BY <1>27, ProcessIs
         DEF CloseStop, GoTo, GoToThen, Stays, infoVars, commitVars, optVars,
            closeVars, lockVars, threadVars, IInv, Typed, Merging,
            Continuations, Throws
    <2>2. counter' = counter /\ counter \in Nat
      BY <1>27
         DEF CloseStop, GoTo, GoToThen, Stays, infoVars, commitVars, optVars,
            closeVars, lockVars, threadVars, IInv, Typed
    <2>3. counter' \in Nat /\ counter <= counter'
      BY <2>2
    <2> QED
      BY <2>1, <2>3, ProcessIs, QuietKeeps
  <1>28. ASSUME NEW t \in Thread, Closed(t)
        PROVE  RegInv(reg', counter') /\ ProcInv' /\ Comes
    <2>1. UNCHANGED <<reg, merge>> /\ pc' = [pc EXCEPT ![t] = pc'[t]]
          /\ pc'[t] \notin Merging
      BY <1>28, ProcessIs
         DEF Closed, GoTo, GoToThen, Stays, infoVars, commitVars, optVars,
            closeVars, lockVars, threadVars, IInv, Typed, Merging,
            Continuations, Throws
    <2>2. counter' = counter /\ counter \in Nat
      BY <1>28
         DEF Closed, GoTo, GoToThen, Stays, infoVars, commitVars, optVars,
            closeVars, lockVars, threadVars, IInv, Typed
    <2>3. counter' \in Nat /\ counter <= counter'
      BY <2>2
    <2> QED
      BY <2>1, <2>3, ProcessIs, QuietKeeps
  <1>29. ASSUME NEW t \in Thread, Schedule(t)
        PROVE  RegInv(reg', counter') /\ ProcInv' /\ Comes
    <2>0. /\ counter \in Nat /\ RegInv(reg, counter) /\ mergeGen \in Nat
          /\ optimizeMaxNumSegments \in Nat
          /\ segmentInfos \in Seq(Info)
          /\ Names(segmentInfos) \subseteq 1..counter
      BY DEF IInv, Typed, AllNamed, Named
    <2>1. /\ UNCHANGED counter /\ SameRunning(reg, reg)
          /\ Stems(reg, reg, segmentInfos)
      BY <1>29 DEF Schedule, infoVars, SameRunning, Stems
    <2>2. CASE reg.pending = <<>>
      <3>1. UNCHANGED <<reg, merge>> /\ pc' = [pc EXCEPT ![t] = pc'[t]]
            /\ pc'[t] \notin Merging
        BY <1>29, <2>2, ProcessIs
           DEF Schedule, GoTo, IInv, Typed, Merging, Continuations
      <3>2. counter' \in Nat /\ counter <= counter'
        BY <2>0, <2>1
      <3> QED
        BY <3>1, <3>2, ProcessIs, QuietKeeps
    <2>3. CASE reg.pending # <<>>
      <3>1. 1 \in DOMAIN reg.pending
        BY <2>0, <2>3 DEF RegInv, RegTyped
      <3>2. /\ reg' = Started(reg, 1)
            /\ merge' = [merge EXCEPT ![t] = reg.pending[1]]
        BY <1>29, <2>3 DEF Schedule
      <3>3. pc' = [pc EXCEPT ![t] = pc'[t]] /\ pc'[t] \in Begins
        BY <1>29, <2>3, ProcessIs DEF Schedule, GoTo, IInv, Typed, Begins
      <3> QED
        BY <2>0, <2>1, <3>1, <3>2, <3>3, ProcessIs, StartKeeps
    <2> QED
      BY <2>2, <2>3
  <1>30. ASSUME NEW t \in Thread, NEW m \in MergeThread, StartThread(t, m)
        PROVE  RegInv(reg', counter') /\ ProcInv' /\ Comes
    <2>0. /\ t # m /\ t \in Process /\ m \in Process
      BY MergesAssumption, ProcessIs
    <2>1. /\ pc[t] = "stall" /\ pc[m] = "dead"
          /\ UNCHANGED <<reg, counter>>
          /\ merge' = [q \in Process |-> IF q = t THEN None
                                         ELSE IF q = m THEN merge[t] ELSE merge[q]]
          /\ pc' = [q \in Process |-> IF q = t THEN "schedule"
                                      ELSE IF q = m THEN "work" ELSE pc[q]]
      BY <1>30, <2>0 DEF StartThread, infoVars, IInv, Typed
    <2>2. \A q \in Process :
            /\ merge'[q] \in reg.running \cup {None}
            /\ pc'[q] \in Merging => merge'[q] # None
            /\ pc'[q] \in Begins => reg.merges[merge'[q]].info = None
            /\ pc'[q] \in Goes => \/ reg.merges[merge'[q]].aborted
                                  \/ reg.merges[merge'[q]].info # None
      <3>1. /\ merge[t] # None /\ merge[t] \in reg.running
            /\ reg.merges[merge[t]].aborted \/ reg.merges[merge[t]].info # None
        BY <2>0, <2>1 DEF IInv, ProcInv, MergeOf, Merging, Goes
      <3> TAKE q \in Process
      <3>2. CASE q = t
        BY <2>1, <3>2 DEF Merging, Begins, Goes
      <3>3. CASE q = m
        BY <2>0, <2>1, <3>1, <3>3 DEF Begins
      <3>4. CASE q # t /\ q # m
        BY <2>1, <3>4 DEF IInv, ProcInv, MergeOf
      <3> QED
        BY <3>2, <3>3, <3>4
    <2>3. \A q, s \in Process : q # s => merge'[q] = None \/ merge'[q] # merge'[s]
      <3>1. \A q, s \in Process : q # s => merge[q] = None \/ merge[q] # merge[s]
        BY DEF IInv, ProcInv
      <3> QED
        BY <2>0, <2>1, <3>1
    <2>4. ProcInv'
      BY <2>1, <2>2, <2>3 DEF ProcInv, MergeOf
    <2>5. GoesFrom
      <3>1. pc[t] \in Goes
        BY <2>1 DEF Goes
      <3>2. ASSUME NEW q \in Process, pc'[q] \in Goes
            PROVE  \E s \in Process : /\ pc[s] \in Goes
                                      /\ reg'.merges[merge'[q]].info = MergeOf(s).info
        <4>1. CASE q = m
          BY <2>0, <2>1, <3>1, <4>1 DEF MergeOf
        <4>2. CASE q # m
          <5>1. q # t
            BY <2>0, <2>1, <3>2 DEF Goes
          <5>2. pc[q] \in Goes /\ merge'[q] = merge[q]
            BY <2>1, <3>2, <4>2, <5>1
          <5> QED
            BY <2>1, <5>2 DEF MergeOf
        <4> QED
          BY <4>1, <4>2
      <3> QED
        BY <3>2 DEF GoesFrom
    <2> QED
      BY <2>1, <2>4, <2>5 DEF IInv, Comes, Stems
  <1>31. ASSUME NEW p \in Process, MergeInit(p)
        PROVE  RegInv(reg', counter') /\ ProcInv' /\ Comes
    <2>0. /\ counter \in Nat /\ RegInv(reg, counter)
          /\ pc[p] \in Merging => merge[p] \in reg.running /\ merge[p] # None
      BY DEF IInv, Typed, ProcInv
    <2>1. /\ pc[p] \in Begins /\ merge[p] \in reg.running /\ merge[p] # None
          /\ reg.merges[merge[p]].info = None
      BY <1>31, <2>0 DEF MergeInit, Begins, Merging, IInv, ProcInv, MergeOf
    <2>2. CASE /\ MergeOf(p).aborted /\ UNCHANGED <<reg, counter, merge>>
               /\ pc' = [pc EXCEPT ![p] = IF pc[p] = "scheduleInit"
                                          THEN "stall" ELSE "work"]
      <3>1. /\ pc' = [pc EXCEPT ![p] = pc'[p]] /\ pc'[p] \in {"stall", "work"}
            /\ merge' = [merge EXCEPT ![p] = merge'[p]]
        BY <2>2 DEF IInv, Typed
      <3>2. pc'[p] \notin Begins
        BY <3>1 DEF Begins
      <3>3. reg'.merges[merge'[p]].aborted
        BY <2>2 DEF MergeOf
      <3>4. /\ ProcInv'
            /\ \A q \in Process \ {p} : pc'[q] \in Goes =>
                   /\ pc[q] \in Goes
                   /\ reg'.merges[merge'[q]].info = MergeOf(q).info
        BY <2>1, <2>2, <3>1, <3>2, <3>3, ProcKeeps
      <3>5. reg'.merges[merge'[p]].info = None
        BY <2>1, <2>2
      <3>6. Comes
        BY <2>2, <3>4, <3>5 DEF Comes, GoesFrom, Stems
      <3> QED
        BY <2>0, <2>2, <3>4, <3>6
    <2>3. CASE /\ counter' = counter + 1 /\ UNCHANGED merge
               /\ reg' = WithName(reg, merge[p], counter + 1)
               /\ pc' = [pc EXCEPT ![p] = IF pc[p] = "scheduleInit"
                                          THEN "stall" ELSE "work"]
      <3>1. /\ RegInv(reg', counter')
            /\ SameMerges(reg, reg', reg.running \ {merge[p]})
            /\ reg'.running = reg.running
            /\ reg'.merges[merge[p]].info = counter + 1
            /\ Stems(reg, reg', segmentInfos)
        BY <2>0, <2>1, <2>3, NamedKeeps
      <3>2. /\ pc' = [pc EXCEPT ![p] = pc'[p]] /\ pc'[p] \in {"stall", "work"}
            /\ merge' = [merge EXCEPT ![p] = merge'[p]] /\ merge'[p] = merge[p]
        BY <2>3 DEF IInv, Typed
      <3>3. pc'[p] \notin Begins
        BY <3>2 DEF Begins
      <3>4. \A id \in reg.running \ {merge[p]} :
              /\ id \in reg'.running
              /\ reg'.merges[id].info = reg.merges[id].info
              /\ reg.merges[id].aborted => reg'.merges[id].aborted
        BY <3>1 DEF SameMerges
      <3>5. counter + 1 # None
        BY <2>0 DEF None
      <3>6. /\ ProcInv'
            /\ \A q \in Process \ {p} : pc'[q] \in Goes =>
                   /\ pc[q] \in Goes
                   /\ reg'.merges[merge'[q]].info = MergeOf(q).info
        BY <2>1, <3>1, <3>2, <3>3, <3>4, <3>5, ProcKeeps
      <3>7. GoesFrom
        <4>1. reg'.merges[merge'[p]].info = counter + 1 /\ MergeInit(p)
          BY <1>31, <3>1, <3>2
        <4> QED
          BY <3>6, <4>1 DEF GoesFrom
      <3> QED
        BY <3>1, <3>6, <3>7 DEF Comes
    <2>4. CASE /\ reg' = FinishedMerge(reg, merge[p]) /\ UNCHANGED counter
               /\ merge' = [merge EXCEPT ![p] = None]
               /\ pc' = [pc EXCEPT ![p] = Fails(p)]
      <3>1. pc' = [pc EXCEPT ![p] = pc'[p]] /\ pc'[p] \notin Merging
        BY <2>4 DEF IInv, Typed, Merging, Fails, Throws
      <3>2. /\ RegInv(reg', counter') /\ SameRunning(reg', reg')
            /\ Stems(reg, reg', segmentInfos)
        BY <2>0, <2>1, <2>4, FinishedKeeps DEF SameRunning
      <3>3. ProcInv' /\ GoesFrom
        BY <2>1, <2>4, <3>1, <3>2, EndKeeps
      <3> QED
        BY <3>2, <3>3 DEF Comes
    <2> QED
      BY <1>31, <2>2, <2>3, <2>4 DEF MergeInit, GoTo, WithName
  <1>32. ASSUME NEW p \in Process, MergeMiddle(p)
        PROVE  RegInv(reg', counter') /\ ProcInv' /\ Comes
    <2>0. /\ counter \in Nat /\ RegInv(reg, counter)
          /\ pc[p] \in Merging => merge[p] \in reg.running /\ merge[p] # None
      BY DEF IInv, Typed, ProcInv
    <2>1. /\ UNCHANGED <<reg, merge, counter>>
          /\ pc[p] \in {"work", "commitMerge"}
      BY <1>32 DEF MergeMiddle, infoVars, Stays
    <2>2. /\ pc' = [pc EXCEPT ![p] = pc'[p]]
          /\ pc'[p] \in {"commitMerge", "merged", "mergeFailed"}
          /\ pc'[p] = "commitMerge" => pc[p] = "work"
      BY <1>32 DEF MergeMiddle, GoTo, IInv, Typed
    <2>3. /\ merge' = [merge EXCEPT ![p] = merge'[p]]
          /\ merge[p] \in reg.running /\ merge[p] # None
      BY <2>0, <2>1 DEF Merging, IInv, Typed
    <2>4. pc'[p] \in Goes => \/ reg'.merges[merge'[p]].aborted
                             \/ reg'.merges[merge'[p]].info # None
      BY <2>1, <2>2 DEF Goes, IInv, ProcInv, MergeOf
    <2>5. pc'[p] \notin Begins
      BY <2>2 DEF Begins
    <2>6. /\ ProcInv'
          /\ \A q \in Process \ {p} : pc'[q] \in Goes =>
                 /\ pc[q] \in Goes
                 /\ reg'.merges[merge'[q]].info = MergeOf(q).info
      BY <2>1, <2>2, <2>3, <2>4, <2>5, ProcKeeps
    <2>7. /\ pc[p] \in Goes
          /\ reg'.merges[merge'[p]].info = MergeOf(p).info
      BY <2>1 DEF Goes, MergeOf
    <2>8. Comes
      BY <2>1, <2>6, <2>7 DEF Comes, GoesFrom, Stems
    <2> QED
      BY <2>0, <2>1, <2>6, <2>8
  <1>33. ASSUME NEW p \in Process, CommitMerge(p)
        PROVE  RegInv(reg', counter') /\ ProcInv' /\ Comes
    <2>0. /\ counter \in Nat /\ RegInv(reg, counter)
          /\ pc[p] \in Merging => merge[p] \in reg.running /\ merge[p] # None
      BY DEF IInv, Typed, ProcInv
    <2>1. /\ UNCHANGED <<reg, merge, counter>>
          /\ pc[p] \in {"work", "commitMerge"}
      BY <1>33 DEF CommitMerge, infoVars, Stays
    <2>2. /\ pc' = [pc EXCEPT ![p] = pc'[p]]
          /\ pc'[p] \in {"commitMerge", "merged", "mergeFailed"}
          /\ pc'[p] = "commitMerge" => pc[p] = "work"
      BY <1>33 DEF CommitMerge, GoTo, IInv, Typed
    <2>3. /\ merge' = [merge EXCEPT ![p] = merge'[p]]
          /\ merge[p] \in reg.running /\ merge[p] # None
      BY <2>0, <2>1 DEF Merging, IInv, Typed
    <2>4. pc'[p] \in Goes => \/ reg'.merges[merge'[p]].aborted
                             \/ reg'.merges[merge'[p]].info # None
      BY <2>1, <2>2 DEF Goes, IInv, ProcInv, MergeOf
    <2>5. pc'[p] \notin Begins
      BY <2>2 DEF Begins
    <2>6. /\ ProcInv'
          /\ \A q \in Process \ {p} : pc'[q] \in Goes =>
                 /\ pc[q] \in Goes
                 /\ reg'.merges[merge'[q]].info = MergeOf(q).info
      BY <2>1, <2>2, <2>3, <2>4, <2>5, ProcKeeps
    <2>7. /\ pc[p] \in Goes
          /\ reg'.merges[merge'[p]].info = MergeOf(p).info
      BY <2>1 DEF Goes, MergeOf
    <2>8. Comes
      BY <2>1, <2>6, <2>7 DEF Comes, GoesFrom, Stems
    <2> QED
      BY <2>0, <2>1, <2>6, <2>8
  <1>34. ASSUME NEW p \in Process, MergeDone(p)
        PROVE  RegInv(reg', counter') /\ ProcInv' /\ Comes
    <2>0. /\ counter \in Nat /\ RegInv(reg, counter)
          /\ pc[p] \in Merging => merge[p] \in reg.running /\ merge[p] # None
      BY DEF IInv, Typed, ProcInv
    <2> DEFINE r == FinishedMerge(reg, merge[p])
               max == MergeOf(p).max
    <2>1. /\ mergeGen \in Nat /\ optimizeMaxNumSegments \in Nat
          /\ segmentInfos \in Seq(Info)
          /\ Names(segmentInfos) \subseteq 1..counter
      BY DEF IInv, Typed, AllNamed, Named
    <2>2. merge[p] \in reg.running /\ merge[p] # None
      BY <1>34, <2>0 DEF MergeDone, Merging
    <2>3. max \in Nat
      BY <2>0, <2>2, RegIds DEF MergeOf
    <2>4. /\ UNCHANGED counter /\ merge' = [merge EXCEPT ![p] = None]
          /\ reg' = r \/ reg' = UpdatedMerges(r, max)
      BY <1>34 DEF MergeDone, infoVars
    <2>5. pc' = [pc EXCEPT ![p] = pc'[p]] /\ pc'[p] \notin Merging
      BY <1>34 DEF MergeDone, GoTo, IInv, Typed, Merging
    <2>6. /\ RegInv(r, counter) /\ SameRunning(r, r)
          /\ Stems(reg, r, segmentInfos) /\ Stems(r, r, segmentInfos)
      BY <2>0, <2>2, FinishedKeeps DEF SameRunning, Stems
    <2> HIDE DEF r, max
    <2>7. /\ RegInv(reg', counter) /\ SameRunning(r, reg')
          /\ Stems(r, reg', segmentInfos)
      BY <2>0, <2>1, <2>3, <2>4, <2>6, UpdatedKeeps
    <2>8. ProcInv' /\ GoesFrom
      BY <2>2, <2>4, <2>5, <2>7, EndKeeps DEF r
    <2> QED
      BY <2>4, <2>6, <2>7, <2>8, StemsThrough DEF Comes
  <1>35. ASSUME NEW p \in Process, MergeFailed(p)
        PROVE  RegInv(reg', counter') /\ ProcInv' /\ Comes
    <2>0. /\ counter \in Nat /\ RegInv(reg, counter)
          /\ pc[p] \in Merging => merge[p] \in reg.running /\ merge[p] # None
      BY DEF IInv, Typed, ProcInv
    <2>2. merge[p] \in reg.running /\ merge[p] # None
      BY <1>35, <2>0 DEF MergeFailed, Merging
    <2>4. /\ UNCHANGED counter /\ merge' = [merge EXCEPT ![p] = None]
          /\ reg' = FinishedMerge(reg, merge[p])
      BY <1>35 DEF MergeFailed, infoVars
    <2>5. pc' = [pc EXCEPT ![p] = pc'[p]] /\ pc'[p] \notin Merging
      BY <1>35 DEF MergeFailed, GoTo, IInv, Typed, Merging, Fails, Throws
    <2>7. /\ RegInv(reg', counter') /\ SameRunning(reg', reg')
          /\ Stems(reg, reg', segmentInfos)
      BY <2>0, <2>2, <2>4, FinishedKeeps DEF SameRunning
    <2>8. ProcInv' /\ GoesFrom
      BY <2>2, <2>4, <2>5, <2>7, EndKeeps
    <2> QED
      BY <2>7, <2>8 DEF Comes
  <1>36. ASSUME NEW m \in MergeThread, NextMerge(m)
        PROVE  RegInv(reg', counter') /\ ProcInv' /\ Comes
    <2>0. /\ counter \in Nat /\ RegInv(reg, counter) /\ mergeGen \in Nat
          /\ optimizeMaxNumSegments \in Nat
          /\ segmentInfos \in Seq(Info)
          /\ Names(segmentInfos) \subseteq 1..counter
      BY DEF IInv, Typed, AllNamed, Named
    <2>1. /\ UNCHANGED counter /\ SameRunning(reg, reg)
          /\ Stems(reg, reg, segmentInfos)
      BY <1>36 DEF NextMerge, infoVars, SameRunning, Stems
    <2>2. CASE reg.pending = <<>>
      <3>1. UNCHANGED <<reg, merge>> /\ pc' = [pc EXCEPT ![m] = pc'[m]]
            /\ pc'[m] \notin Merging
        BY <1>36, <2>2, ProcessIs
           DEF NextMerge, GoTo, IInv, Typed, Merging, Continuations
      <3>2. counter' \in Nat /\ counter <= counter'
        BY <2>0, <2>1
      <3> QED
        BY <3>1, <3>2, ProcessIs, QuietKeeps
    <2>3. CASE reg.pending # <<>>
      <3>1. 1 \in DOMAIN reg.pending
        BY <2>0, <2>3 DEF RegInv, RegTyped
      <3>2. /\ reg' = Started(reg, 1)
            /\ merge' = [merge EXCEPT ![m] = reg.pending[1]]
        BY <1>36, <2>3 DEF NextMerge
      <3>3. pc' = [pc EXCEPT ![m] = pc'[m]] /\ pc'[m] \in Begins
        BY <1>36, <2>3, ProcessIs DEF NextMerge, GoTo, IInv, Typed, Begins
      <3> QED
        BY <2>0, <2>1, <3>1, <3>2, <3>3, ProcessIs, StartKeeps
    <2> QED
      BY <2>2, <2>3
  <1>37. CASE UNCHANGED vars
    <2>1. UNCHANGED <<reg, counter, merge, pc>>
      BY <1>37 DEF vars, infoVars, threadVars
    <2> QED
      BY <2>1 DEF IInv, ProcInv, MergeOf, Comes, GoesFrom, Stems
  <1> QED
    BY <1>1, <1>2, <1>3, <1>4, <1>5, <1>6, <1>7, <1>8, <1>9, <1>10, <1>11,
       <1>12, <1>13, <1>14, <1>15, <1>16, <1>17, <1>18, <1>19, <1>20, <1>21,
       <1>22, <1>23, <1>24, <1>25, <1>26, <1>27, <1>28, <1>29, <1>30, <1>31,
       <1>32, <1>33, <1>34, <1>35, <1>36, <1>37
      DEF Next, CallStep, MergeStep, Process

\* A step lets nobody wait to write who does not read.
LEMMA UpgradingStep ==
    ASSUME IInv, [Next]_vars
    PROVE  Upgrading'
  <1>1. ASSUME NEW t \in Thread, Call(t)
        PROVE  Upgrading'
    BY <1>1, MergesAssumption
      DEF Call, GoTo, GoToThen, Stays, infoVars, commitVars, optVars,
         closeVars, lockVars, threadVars, IInv, Typed, Upgrading, Process
  <1>2. ASSUME NEW t \in Thread, AddDocument(t)
        PROVE  Upgrading'
    BY <1>2, MergesAssumption
      DEF AddDocument, GoTo, GoToThen, Stays, infoVars, commitVars, optVars,
         closeVars, lockVars, threadVars, IInv, Typed, Upgrading, Process
  <1>3. ASSUME NEW t \in Thread, Flush(t)
        PROVE  Upgrading'
    BY <1>3, MergesAssumption
      DEF Flush, GoTo, GoToThen, Stays, infoVars, commitVars, optVars,
         closeVars, lockVars, threadVars, IInv, Typed, Upgrading, Process
  <1>4. ASSUME NEW t \in Thread, UpdatePendingMerges(t)
        PROVE  Upgrading'
    BY <1>4, MergesAssumption
      DEF UpdatePendingMerges, GoTo, GoToThen, Stays, infoVars, commitVars,
         optVars, closeVars, lockVars, threadVars, IInv, Typed, Upgrading,
         Process
  <1>5. ASSUME NEW t \in Thread, Commit(t)
        PROVE  Upgrading'
    BY <1>5, MergesAssumption
      DEF Commit, GoTo, GoToThen, Stays, infoVars, commitVars, optVars,
         closeVars, lockVars, threadVars, IInv, Typed, Upgrading, Process
  <1>6. ASSUME NEW t \in Thread, Leave(t)
        PROVE  Upgrading'
    BY <1>6, MergesAssumption
      DEF Leave, GoTo, GoToThen, Stays, infoVars, commitVars, optVars,
         closeVars, lockVars, threadVars, IInv, Typed, Upgrading, Process
  <1>7. ASSUME NEW t \in Thread, OptimizeMark(t)
        PROVE  Upgrading'
    BY <1>7, MergesAssumption
      DEF OptimizeMark, GoTo, GoToThen, Stays, infoVars, commitVars, optVars,
         closeVars, lockVars, threadVars, IInv, Typed, Upgrading, Process
  <1>8. ASSUME NEW t \in Thread, OptimizeWait(t)
        PROVE  Upgrading'
    BY <1>8, MergesAssumption
      DEF OptimizeWait, GoTo, GoToThen, Stays, infoVars, commitVars, optVars,
         closeVars, lockVars, threadVars, IInv, Typed, Upgrading, Process
  <1>9. ASSUME NEW t \in Thread, PauseAllThreads(t)
        PROVE  Upgrading'
    BY <1>9, MergesAssumption
      DEF PauseAllThreads, GoTo, GoToThen, Stays, infoVars, commitVars,
         optVars, closeVars, lockVars, threadVars, IInv, Typed, Upgrading,
         Process
  <1>10. ASSUME NEW t \in Thread, AcquireRead(t)
        PROVE  Upgrading'
    BY <1>10, MergesAssumption, ZenonT(40)
      DEF AcquireRead, GoTo, GoToThen, Stays, infoVars, commitVars, optVars,
         closeVars, lockVars, threadVars, IInv, Typed, Upgrading, Process
  <1>11. ASSUME NEW t \in Thread, StartTransaction(t)
        PROVE  Upgrading'
    <2>1. /\ \A s \in Thread : s # t => pc'[s] = pc[s]
          /\ t \in Process
      BY <1>11 DEF IInv, Typed, StartTransaction, TakesWriteLock,
         UpgradeReadToWrite, AcquireWrite, TakesLock, GoTo, Process
    <2>2. CASE UNCHANGED <<readThreads, upgradeThreads>>
               /\ t \notin upgradeThreads
      BY <2>1, <2>2 DEF IInv, Upgrading
    <2>3. CASE /\ readThreads' = readThreads \ {t}
               /\ upgradeThreads' = upgradeThreads \ {t}
      BY <2>1, <2>3 DEF IInv, Upgrading
    <2>4. CASE /\ UNCHANGED readThreads /\ t \in readThreads
               /\ upgradeThreads' = upgradeThreads \cup {t}
               /\ pc'[t] = "acquireWrite"
      BY <2>1, <2>4 DEF IInv, Upgrading
    <2>5. CASE TakesWriteLock(t)
      <3>1. CASE t \in readThreads
        <4>1. pc' = [pc EXCEPT ![t] = "acquireWrite"] => pc'[t] = "acquireWrite"
          BY <2>1 DEF IInv, Typed
        <4> QED
          BY <2>3, <2>4, <2>5, <3>1, <4>1
             DEF TakesWriteLock, UpgradeReadToWrite, GoTo
      <3>2. CASE t \notin readThreads
        BY <2>2, <2>5, <3>2
           DEF IInv, Upgrading, TakesWriteLock, AcquireWrite
      <3> QED
        BY <3>1, <3>2
    <2>6. CASE pc[t] = "startTransaction" /\ UNCHANGED lockVars
      BY <2>2, <2>6 DEF IInv, Upgrading, lockVars
    <2> QED
      BY <1>11, <2>5, <2>6 DEF StartTransaction
  <1>12. ASSUME NEW t \in Thread, AddExternal(t)
        PROVE  Upgrading'
    BY <1>12, MergesAssumption
      DEF AddExternal, GoTo, GoToThen, Stays, infoVars, commitVars, optVars,
         closeVars, lockVars, threadVars, IInv, Typed, Upgrading, Process
  <1>13. ASSUME NEW t \in Thread, TransactionOpen(t)
        PROVE  Upgrading'
    BY <1>13, MergesAssumption
      DEF TransactionOpen, GoTo, GoToThen, Stays, infoVars, commitVars,
         optVars, closeVars, lockVars, threadVars, IInv, Typed, Upgrading,
         Process
  <1>14. ASSUME NEW t \in Thread, ResolveExternal(t)
        PROVE  Upgrading'
    BY <1>14, MergesAssumption
      DEF ResolveExternal, GoTo, GoToThen, Stays, infoVars, commitVars,
         optVars, closeVars, lockVars, threadVars, IInv, Typed, Upgrading,
         Process
  <1>15. ASSUME NEW t \in Thread, ReadersGet(t)
        PROVE  Upgrading'
    BY <1>15, MergesAssumption
      DEF ReadersGet, GoTo, GoToThen, Stays, infoVars, commitVars, optVars,
         closeVars, lockVars, threadVars, IInv, Typed, Upgrading, Process
  <1>16. ASSUME NEW t \in Thread, ReadersPut(t)
        PROVE  Upgrading'
    BY <1>16, MergesAssumption
      DEF ReadersPut, GoTo, GoToThen, Stays, infoVars, commitVars, optVars,
         closeVars, lockVars, threadVars, IInv, Typed, Upgrading, Process
  <1>17. ASSUME NEW t \in Thread, CommitTransaction(t)
        PROVE  Upgrading'
    BY <1>17, MergesAssumption
      DEF CommitTransaction, GoTo, GoToThen, Stays, infoVars, commitVars,
         optVars, closeVars, lockVars, threadVars, IInv, Typed, Upgrading,
         Process
  <1>18. ASSUME NEW t \in Thread, FinishMerges(t)
        PROVE  Upgrading'
    BY <1>18, MergesAssumption, ZenonT(40)
      DEF FinishMerges, MergesFinished, RolledBack, AllDeleted, GoTo,
         GoToThen, Stays, infoVars, commitVars, optVars, closeVars, lockVars,
         threadVars, IInv, Typed, Upgrading, Process
  <1>19. ASSUME NEW t \in Thread, FinishMergesWait(t)
        PROVE  Upgrading'
    BY <1>19, MergesAssumption, ZenonT(40)
      DEF FinishMergesWait, MergesFinished, RolledBack, AllDeleted, GoTo,
         GoToThen, Stays, infoVars, commitVars, optVars, closeVars, lockVars,
         threadVars, IInv, Typed, Upgrading, Process
  <1>20. ASSUME NEW t \in Thread, WaitForMerges(t)
        PROVE  Upgrading'
    BY <1>20, MergesAssumption
      DEF WaitForMerges, GoTo, GoToThen, Stays, infoVars, commitVars, optVars,
         closeVars, lockVars, threadVars, IInv, Typed, Upgrading, Process
  <1>21. ASSUME NEW t \in Thread, ShouldClose(t)
        PROVE  Upgrading'
    BY <1>21, MergesAssumption
      DEF ShouldClose, GoTo, GoToThen, Stays, infoVars, commitVars, optVars,
         closeVars, lockVars, threadVars, IInv, Typed, Upgrading, Process
  <1>22. ASSUME NEW t \in Thread, SyncThreads(t)
        PROVE  Upgrading'
    BY <1>22, MergesAssumption
      DEF SyncThreads, GoTo, GoToThen, Stays, infoVars, commitVars, optVars,
         closeVars, lockVars, threadVars, IInv, Typed, Upgrading, Process
  <1>23. ASSUME NEW t \in Thread, Revert(t)
        PROVE  Upgrading'
    BY <1>23, MergesAssumption
      DEF Revert, GoTo, GoToThen, Stays, infoVars, commitVars, optVars,
         closeVars, lockVars, threadVars, IInv, Typed, Upgrading, Process
  <1>24. ASSUME NEW t \in Thread, Recount(t)
        PROVE  Upgrading'
    BY <1>24, MergesAssumption
      DEF Recount, GoTo, GoToThen, Stays, infoVars, commitVars, optVars,
         closeVars, lockVars, threadVars, IInv, Typed, Upgrading, Process
  <1>25. ASSUME NEW t \in Thread, CloseInternal(t)
        PROVE  Upgrading'
    BY <1>25, MergesAssumption
      DEF CloseInternal, GoTo, GoToThen, Stays, infoVars, commitVars, optVars,
         closeVars, lockVars, threadVars, IInv, Typed, Upgrading, Process
  <1>26. ASSUME NEW t \in Thread, CloseMerges(t)
        PROVE  Upgrading'
    BY <1>26, MergesAssumption
      DEF CloseMerges, GoTo, GoToThen, Stays, infoVars, commitVars, optVars,
         closeVars, lockVars, threadVars, IInv, Typed, Upgrading, Process
  <1>27. ASSUME NEW t \in Thread, CloseStop(t)
        PROVE  Upgrading'
    BY <1>27, MergesAssumption
      DEF CloseStop, GoTo, GoToThen, Stays, infoVars, commitVars, optVars,
         closeVars, lockVars, threadVars, IInv, Typed, Upgrading, Process
  <1>28. ASSUME NEW t \in Thread, Closed(t)
        PROVE  Upgrading'
    BY <1>28, MergesAssumption
      DEF Closed, GoTo, GoToThen, Stays, infoVars, commitVars, optVars,
         closeVars, lockVars, threadVars, IInv, Typed, Upgrading, Process
  <1>29. ASSUME NEW t \in Thread, Schedule(t)
        PROVE  Upgrading'
    BY <1>29, MergesAssumption
      DEF Schedule, GoTo, GoToThen, Stays, infoVars, commitVars, optVars,
         closeVars, lockVars, threadVars, IInv, Typed, Upgrading, Process
  <1>30. ASSUME NEW t \in Thread, NEW m \in MergeThread, StartThread(t, m)
        PROVE  Upgrading'
    BY <1>30, MergesAssumption
      DEF StartThread, GoTo, GoToThen, Stays, infoVars, commitVars, optVars,
         closeVars, lockVars, threadVars, IInv, Typed, Upgrading, Process
  <1>31. ASSUME NEW p \in Process, MergeInit(p)
        PROVE  Upgrading'
    BY <1>31, MergesAssumption
      DEF MergeInit, Fails, Throws, GoTo, GoToThen, Stays, infoVars,
         commitVars, optVars, closeVars, lockVars, threadVars, IInv, Typed,
         Upgrading, Process
  <1>32. ASSUME NEW p \in Process, MergeMiddle(p)
        PROVE  Upgrading'
    BY <1>32, MergesAssumption
      DEF MergeMiddle, GoTo, GoToThen, Stays, infoVars, commitVars, optVars,
         closeVars, lockVars, threadVars, IInv, Typed, Upgrading, Process
  <1>33. ASSUME NEW p \in Process, CommitMerge(p)
        PROVE  Upgrading'
    BY <1>33, MergesAssumption
      DEF CommitMerge, GoTo, GoToThen, Stays, infoVars, commitVars, optVars,
         closeVars, lockVars, threadVars, IInv, Typed, Upgrading, Process
  <1>34. ASSUME NEW p \in Process, MergeDone(p)
        PROVE  Upgrading'
    BY <1>34, MergesAssumption
      DEF MergeDone, GoTo, GoToThen, Stays, infoVars, commitVars, optVars,
         closeVars, lockVars, threadVars, IInv, Typed, Upgrading, Process
  <1>35. ASSUME NEW p \in Process, MergeFailed(p)
        PROVE  Upgrading'
    BY <1>35, MergesAssumption
      DEF MergeFailed, Fails, Throws, GoTo, GoToThen, Stays, infoVars,
         commitVars, optVars, closeVars, lockVars, threadVars, IInv, Typed,
         Upgrading, Process
  <1>36. ASSUME NEW m \in MergeThread, NextMerge(m)
        PROVE  Upgrading'
    BY <1>36, MergesAssumption
      DEF NextMerge, GoTo, GoToThen, Stays, infoVars, commitVars, optVars,
         closeVars, lockVars, threadVars, IInv, Typed, Upgrading, Process
  <1>37. CASE UNCHANGED vars
    BY <1>37, MergesAssumption
      DEF vars, infoVars, commitVars, optVars, closeVars, lockVars,
         threadVars, IInv, Typed, Upgrading, Process
  <1> QED
    BY <1>1, <1>2, <1>3, <1>4, <1>5, <1>6, <1>7, <1>8, <1>9, <1>10, <1>11,
       <1>12, <1>13, <1>14, <1>15, <1>16, <1>17, <1>18, <1>19, <1>20, <1>21,
       <1>22, <1>23, <1>24, <1>25, <1>26, <1>27, <1>28, <1>29, <1>30, <1>31,
       <1>32, <1>33, <1>34, <1>35, <1>36, <1>37
      DEF Next, CallStep, MergeStep, Process

\* Some calls owe a resume no longer, and none owes one anew.
LEMMA PausedKeeps ==
    ASSUME IInv, \A s \in Thread : Owes(s)' => Owes(s),
           UNCHANGED pauseThreads
    PROVE  Paused'
  <1> DEFINE S == {s \in Thread : Owes(s)}
             T == {s \in Thread : Owes(s)'}
  <1>1. IsFiniteSet(S) /\ T \subseteq S
    BY MergesAssumption, FS_Subset
  <1>2. Cardinality(T) <= Cardinality(S) /\ Cardinality(S) \in Nat
        /\ Cardinality(T) \in Nat
    BY <1>1, FS_Subset, FS_CardinalityType
  <1> QED
    BY <1>2 DEF IInv, Paused

\* A call pauses the threads.
LEMMA PausedOne ==
    ASSUME IInv, NEW t \in Thread,
           \A s \in Thread : s # t => (Owes(s)' => Owes(s)),
           pauseThreads' = pauseThreads + 1
    PROVE  Paused'
  <1> DEFINE S == {s \in Thread : Owes(s)}
             T == {s \in Thread : Owes(s)'}
  <1>1. IsFiniteSet(S) /\ T \subseteq S \cup {t}
    BY MergesAssumption, FS_Subset
  <1>2. IsFiniteSet(S \cup {t}) /\ Cardinality(S \cup {t}) <= Cardinality(S) + 1
        /\ Cardinality(S) \in Nat
    <2> HIDE DEF S, T
    <2>1. /\ IsFiniteSet(S \cup {t}) /\ Cardinality(S) \in Nat
          /\ Cardinality(S \cup {t}) = IF t \in S THEN Cardinality(S)
                                       ELSE Cardinality(S) + 1
      BY <1>1, FS_AddElement, FS_CardinalityType
    <2> QED
      BY <2>1
  <1>3. Cardinality(T) <= Cardinality(S \cup {t})
        /\ Cardinality(S \cup {t}) \in Nat /\ Cardinality(T) \in Nat
    BY <1>1, <1>2, FS_Subset, FS_CardinalityType
  <1> QED
    BY <1>2, <1>3 DEF IInv, Paused

\* A call resumes them.
LEMMA PausedLess ==
    ASSUME IInv, NEW t \in Thread, Owes(t), ~Owes(t)',
           \A s \in Thread : s # t => (Owes(s)' => Owes(s)),
           pauseThreads' = pauseThreads - 1
    PROVE  Paused'
  <1> DEFINE S == {s \in Thread : Owes(s)}
             T == {s \in Thread : Owes(s)'}
  <1>1. IsFiniteSet(S) /\ t \in S /\ T \subseteq S \ {t}
    BY MergesAssumption, FS_Subset
  <1>2. IsFiniteSet(S \ {t}) /\ Cardinality(S \ {t}) = Cardinality(S) - 1
        /\ Cardinality(S) \in Nat
    BY <1>1, FS_RemoveElement, FS_CardinalityType
  <1>3. Cardinality(T) <= Cardinality(S \ {t})
        /\ Cardinality(S \ {t}) \in Nat /\ Cardinality(T) \in Nat
    BY <1>1, <1>2, FS_Subset, FS_CardinalityType
  <1> QED
    BY <1>2, <1>3 DEF IInv, Paused

\* Whoever pauses the indexing threads counts, and resumes them once.
LEMMA PausedStep ==
    ASSUME IInv, [Next]_vars
    PROVE  Paused'
  <1>1. ASSUME NEW t \in Thread, Call(t)
        PROVE  Paused'
    <2>1. UNCHANGED pauseThreads
      BY <1>1 DEF Call, closeVars
    <2>2. \A s \in Thread : Owes(s)' => Owes(s)
      BY <1>1, MergesAssumption
         DEF Call, GoTo, GoToThen, Stays, infoVars, commitVars, optVars,
            closeVars, lockVars, threadVars, IInv, Typed, Process, Owes,
            AddIndexes, Closing
    <2> QED
      BY <2>1, <2>2, PausedKeeps
  <1>2. ASSUME NEW t \in Thread, AddDocument(t)
        PROVE  Paused'
    <2>1. UNCHANGED pauseThreads
      BY <1>2 DEF AddDocument, closeVars
    <2>2. \A s \in Thread : Owes(s)' => Owes(s)
      BY <1>2, MergesAssumption
         DEF AddDocument, GoTo, GoToThen, Stays, infoVars, commitVars,
            optVars, closeVars, lockVars, threadVars, IInv, Typed, Process,
            Owes
    <2> QED
      BY <2>1, <2>2, PausedKeeps
  <1>3. ASSUME NEW t \in Thread, Flush(t)
        PROVE  Paused'
    <2>1. UNCHANGED pauseThreads
      BY <1>3 DEF Flush, closeVars
    <2>2. \A s \in Thread : Owes(s)' => Owes(s)
      BY <1>3, MergesAssumption
         DEF Flush, GoTo, GoToThen, Stays, infoVars, commitVars, optVars,
            closeVars, lockVars, threadVars, IInv, Typed, Process, Owes, Closing
    <2> QED
      BY <2>1, <2>2, PausedKeeps
  <1>4. ASSUME NEW t \in Thread, UpdatePendingMerges(t)
        PROVE  Paused'
    <2>1. UNCHANGED pauseThreads
      BY <1>4 DEF UpdatePendingMerges, closeVars
    <2>2. \A s \in Thread : Owes(s)' => Owes(s)
      BY <1>4, MergesAssumption
         DEF UpdatePendingMerges, GoTo, GoToThen, Stays, infoVars, commitVars,
            optVars, closeVars, lockVars, threadVars, IInv, Typed, Process,
            Owes
    <2> QED
      BY <2>1, <2>2, PausedKeeps
  <1>5. ASSUME NEW t \in Thread, Commit(t)
        PROVE  Paused'
    <2>1. UNCHANGED pauseThreads
      BY <1>5 DEF Commit, closeVars
    <2>2. \A s \in Thread : Owes(s)' => Owes(s)
      BY <1>5, MergesAssumption
         DEF Commit, GoTo, GoToThen, Stays, infoVars, commitVars, optVars,
            closeVars, lockVars, threadVars, IInv, Typed, Process, Owes
    <2> QED
      BY <2>1, <2>2, PausedKeeps
  <1>6. ASSUME NEW t \in Thread, Leave(t)
        PROVE  Paused'
    <2>1. \A s \in Thread : s # t => (Owes(s)' => Owes(s))
      BY <1>6 DEF Leave, IInv, Typed, Process, Owes
    <2>2. ~Owes(t)'
      <3>1. op'[t] = "none"
        BY <1>6 DEF Leave, IInv, Typed
      <3> QED
        BY <3>1 DEF Owes, AddIndexes, Closing
    <2>3. CASE Resumes(t)
      <3>1. Owes(t)
        BY <1>6, <2>3 DEF Leave, Resumes, Owes, AddIndexes, Closing
      <3>2. pauseThreads' = pauseThreads - 1
        BY <1>6, <2>3 DEF Leave
      <3> QED
        BY <2>1, <2>2, <3>1, <3>2, PausedLess
    <2>4. CASE ~Resumes(t)
      <3>1. pauseThreads' = pauseThreads
        BY <1>6, <2>4 DEF Leave, IInv, Paused
      <3> QED
        BY <2>1, <2>2, <3>1, PausedKeeps
    <2> QED
      BY <2>3, <2>4
  <1>7. ASSUME NEW t \in Thread, OptimizeMark(t)
        PROVE  Paused'
    <2>1. UNCHANGED pauseThreads
      BY <1>7 DEF OptimizeMark, closeVars
    <2>2. \A s \in Thread : Owes(s)' => Owes(s)
      BY <1>7, MergesAssumption
         DEF OptimizeMark, GoTo, GoToThen, Stays, infoVars, commitVars,
            optVars, closeVars, lockVars, threadVars, IInv, Typed, Process,
            Owes
    <2> QED
      BY <2>1, <2>2, PausedKeeps
  <1>8. ASSUME NEW t \in Thread, OptimizeWait(t)
        PROVE  Paused'
    <2>1. UNCHANGED pauseThreads
      BY <1>8 DEF OptimizeWait, closeVars
    <2>2. \A s \in Thread : Owes(s)' => Owes(s)
      BY <1>8, MergesAssumption
         DEF OptimizeWait, GoTo, GoToThen, Stays, infoVars, commitVars,
            optVars, closeVars, lockVars, threadVars, IInv, Typed, Process,
            Owes
    <2> QED
      BY <2>1, <2>2, PausedKeeps
  <1>9. ASSUME NEW t \in Thread, PauseAllThreads(t)
        PROVE  Paused'
    <2>1. \A s \in Thread : s # t => (Owes(s)' => Owes(s))
      BY <1>9
         DEF PauseAllThreads, IInv, Typed, Process, Owes, GoToThen
    <2>2. pauseThreads' = pauseThreads + 1
      BY <1>9 DEF PauseAllThreads
    <2> QED
      BY <2>1, <2>2, PausedOne
  <1>10. ASSUME NEW t \in Thread, AcquireRead(t)
        PROVE  Paused'
    <2>1. UNCHANGED pauseThreads
      BY <1>10 DEF AcquireRead, closeVars
    <2>2. \A s \in Thread : Owes(s)' => Owes(s)
      BY <1>10, MergesAssumption
         DEF AcquireRead, GoTo, GoToThen, Stays, infoVars, commitVars,
            optVars, closeVars, lockVars, threadVars, IInv, Typed, Process,
            Owes
    <2> QED
      BY <2>1, <2>2, PausedKeeps
  <1>11. ASSUME NEW t \in Thread, StartTransaction(t)
        PROVE  Paused'
    <2>1. UNCHANGED pauseThreads
      BY <1>11
         DEF StartTransaction, TakesWriteLock, UpgradeReadToWrite,
             AcquireWrite, TakesLock, closeVars
    <2>2. \A s \in Thread : Owes(s)' => Owes(s)
      BY <1>11, MergesAssumption, ZenonT(40)
         DEF StartTransaction, TakesWriteLock, UpgradeReadToWrite,
            AcquireWrite, TakesLock, GoTo, GoToThen, Stays, infoVars,
            commitVars, optVars, closeVars, lockVars, threadVars, IInv, Typed,
            Process, Owes
    <2> QED
      BY <2>1, <2>2, PausedKeeps
  <1>12. ASSUME NEW t \in Thread, AddExternal(t)
        PROVE  Paused'
    <2>1. UNCHANGED pauseThreads
      BY <1>12 DEF AddExternal, closeVars
    <2>2. \A s \in Thread : Owes(s)' => Owes(s)
      BY <1>12, MergesAssumption
         DEF AddExternal, GoTo, GoToThen, Stays, infoVars, commitVars,
            optVars, closeVars, lockVars, threadVars, IInv, Typed, Process,
            Owes
    <2> QED
      BY <2>1, <2>2, PausedKeeps
  <1>13. ASSUME NEW t \in Thread, TransactionOpen(t)
        PROVE  Paused'
    <2>1. UNCHANGED pauseThreads
      BY <1>13 DEF TransactionOpen, closeVars
    <2>2. \A s \in Thread : Owes(s)' => Owes(s)
      BY <1>13, MergesAssumption
         DEF TransactionOpen, GoTo, GoToThen, Stays, infoVars, commitVars,
            optVars, closeVars, lockVars, threadVars, IInv, Typed, Process,
            Owes
    <2> QED
      BY <2>1, <2>2, PausedKeeps
  <1>14. ASSUME NEW t \in Thread, ResolveExternal(t)
        PROVE  Paused'
    <2>1. UNCHANGED pauseThreads
      BY <1>14 DEF ResolveExternal, closeVars
    <2>2. \A s \in Thread : Owes(s)' => Owes(s)
      BY <1>14, MergesAssumption, ZenonT(60)
         DEF ResolveExternal, GoTo, GoToThen, Stays, infoVars, commitVars,
            optVars, closeVars, lockVars, threadVars, IInv, Typed, Process,
            Owes
    <2> QED
      BY <2>1, <2>2, PausedKeeps
  <1>15. ASSUME NEW t \in Thread, ReadersGet(t)
        PROVE  Paused'
    <2>1. UNCHANGED pauseThreads
      BY <1>15 DEF ReadersGet, closeVars
    <2>2. \A s \in Thread : Owes(s)' => Owes(s)
      BY <1>15, MergesAssumption
         DEF ReadersGet, GoTo, GoToThen, Stays, infoVars, commitVars, optVars,
            closeVars, lockVars, threadVars, IInv, Typed, Process, Owes
    <2> QED
      BY <2>1, <2>2, PausedKeeps
  <1>16. ASSUME NEW t \in Thread, ReadersPut(t)
        PROVE  Paused'
    <2>1. UNCHANGED pauseThreads
      BY <1>16 DEF ReadersPut, closeVars
    <2>2. \A s \in Thread : Owes(s)' => Owes(s)
      BY <1>16, MergesAssumption
         DEF ReadersPut, GoTo, GoToThen, Stays, infoVars, commitVars, optVars,
            closeVars, lockVars, threadVars, IInv, Typed, Process, Owes
    <2> QED
      BY <2>1, <2>2, PausedKeeps
  <1>17. ASSUME NEW t \in Thread, CommitTransaction(t)
        PROVE  Paused'
    <2>1. UNCHANGED pauseThreads
      BY <1>17 DEF CommitTransaction, closeVars
    <2>2. \A s \in Thread : Owes(s)' => Owes(s)
      BY <1>17, MergesAssumption
         DEF CommitTransaction, GoTo, GoToThen, Stays, infoVars, commitVars,
            optVars, closeVars, lockVars, threadVars, IInv, Typed, Process,
            Owes
    <2> QED
      BY <2>1, <2>2, PausedKeeps
  <1>18. ASSUME NEW t \in Thread, FinishMerges(t)
        PROVE  Paused'
    <2>1. \A s \in Thread : s # t => (Owes(s)' => Owes(s))
      BY <1>18
         DEF FinishMerges, MergesFinished, IInv, Typed, Process, Owes, GoTo,
             Stays
    <2>2. CASE pc[t] = "deleteAll"
      <3>1. pauseThreads' = pauseThreads + 1
        BY <1>18, <2>2 DEF FinishMerges
      <3> QED
        BY <2>1, <3>1, PausedOne
    <2>3. CASE pc[t] \in {"finishMerges", "rollbackTransaction"}
      <3>1. pauseThreads' = pauseThreads /\ UNCHANGED op
        BY <1>18, <2>3 DEF FinishMerges, IInv, Paused, Stays
      <3>2. Owes(t)' => Owes(t)
        BY <2>3, <3>1 DEF Owes, Closing
      <3> QED
        BY <2>1, <3>1, <3>2, PausedKeeps
    <2> QED
      BY <1>18, <2>2, <2>3 DEF FinishMerges
  <1>19. ASSUME NEW t \in Thread, FinishMergesWait(t)
        PROVE  Paused'
    <2>1. UNCHANGED pauseThreads
      BY <1>19
         DEF FinishMergesWait, MergesFinished, RolledBack, AllDeleted,
             closeVars
    <2>2. \A s \in Thread : Owes(s)' => Owes(s)
      BY <1>19, MergesAssumption, ZenonT(40)
         DEF FinishMergesWait, MergesFinished, RolledBack, AllDeleted, GoTo,
            GoToThen, Stays, infoVars, commitVars, optVars, closeVars,
            lockVars, threadVars, IInv, Typed, Process, Owes
    <2> QED
      BY <2>1, <2>2, PausedKeeps
  <1>20. ASSUME NEW t \in Thread, WaitForMerges(t)
        PROVE  Paused'
    <2>1. UNCHANGED pauseThreads
      BY <1>20 DEF WaitForMerges, closeVars
    <2>2. \A s \in Thread : Owes(s)' => Owes(s)
      BY <1>20, MergesAssumption
         DEF WaitForMerges, GoTo, GoToThen, Stays, infoVars, commitVars,
            optVars, closeVars, lockVars, threadVars, IInv, Typed, Process,
            Owes
    <2> QED
      BY <2>1, <2>2, PausedKeeps
  <1>21. ASSUME NEW t \in Thread, ShouldClose(t)
        PROVE  Paused'
    <2>1. UNCHANGED pauseThreads
      BY <1>21 DEF ShouldClose, closeVars
    <2>2. \A s \in Thread : Owes(s)' => Owes(s)
      BY <1>21, MergesAssumption
         DEF ShouldClose, GoTo, GoToThen, Stays, infoVars, commitVars,
            optVars, closeVars, lockVars, threadVars, IInv, Typed, Process,
            Owes
    <2> QED
      BY <2>1, <2>2, PausedKeeps
  <1>22. ASSUME NEW t \in Thread, SyncThreads(t)
        PROVE  Paused'
    <2>1. UNCHANGED pauseThreads
      BY <1>22 DEF SyncThreads, closeVars
    <2>2. \A s \in Thread : Owes(s)' => Owes(s)
      BY <1>22, MergesAssumption
         DEF SyncThreads, GoTo, GoToThen, Stays, infoVars, commitVars,
            optVars, closeVars, lockVars, threadVars, IInv, Typed, Process,
            Owes
    <2> QED
      BY <2>1, <2>2, PausedKeeps
  <1>23. ASSUME NEW t \in Thread, Revert(t)
        PROVE  Paused'
    <2>1. UNCHANGED pauseThreads
      BY <1>23 DEF Revert, closeVars
    <2>2. \A s \in Thread : Owes(s)' => Owes(s)
      BY <1>23, MergesAssumption
         DEF Revert, GoTo, GoToThen, Stays, infoVars, commitVars, optVars,
            closeVars, lockVars, threadVars, IInv, Typed, Process, Owes
    <2> QED
      BY <2>1, <2>2, PausedKeeps
  <1>24. ASSUME NEW t \in Thread, Recount(t)
        PROVE  Paused'
    <2>1. UNCHANGED pauseThreads
      BY <1>24 DEF Recount, closeVars
    <2>2. \A s \in Thread : Owes(s)' => Owes(s)
      BY <1>24, MergesAssumption
         DEF Recount, GoTo, GoToThen, Stays, infoVars, commitVars, optVars,
            closeVars, lockVars, threadVars, IInv, Typed, Process, Owes, Closing
    <2> QED
      BY <2>1, <2>2, PausedKeeps
  <1>25. ASSUME NEW t \in Thread, CloseInternal(t)
        PROVE  Paused'
    <2>1. \A s \in Thread : s # t => (Owes(s)' => Owes(s))
      BY <1>25
         DEF CloseInternal, IInv, Typed, Process, Owes, GoToThen
    <2>2. pauseThreads' = pauseThreads + 1
      BY <1>25 DEF CloseInternal
    <2> QED
      BY <2>1, <2>2, PausedOne
  <1>26. ASSUME NEW t \in Thread, CloseMerges(t)
        PROVE  Paused'
    <2>1. UNCHANGED pauseThreads
      BY <1>26 DEF CloseMerges, closeVars
    <2>2. \A s \in Thread : Owes(s)' => Owes(s)
      BY <1>26, MergesAssumption
         DEF CloseMerges, GoTo, GoToThen, Stays, infoVars, commitVars,
            optVars, closeVars, lockVars, threadVars, IInv, Typed, Process,
            Owes
    <2> QED
      BY <2>1, <2>2, PausedKeeps
  <1>27. ASSUME NEW t \in Thread, CloseStop(t)
        PROVE  Paused'
    <2>1. UNCHANGED pauseThreads
      BY <1>27 DEF CloseStop, closeVars
    <2>2. \A s \in Thread : Owes(s)' => Owes(s)
      BY <1>27, MergesAssumption
         DEF CloseStop, GoTo, GoToThen, Stays, infoVars, commitVars, optVars,
            closeVars, lockVars, threadVars, IInv, Typed, Process, Owes
    <2> QED
      BY <2>1, <2>2, PausedKeeps
  <1>28. ASSUME NEW t \in Thread, Closed(t)
        PROVE  Paused'
    <2>1. UNCHANGED pauseThreads
      BY <1>28 DEF Closed, closeVars
    <2>2. \A s \in Thread : Owes(s)' => Owes(s)
      BY <1>28, MergesAssumption
         DEF Closed, GoTo, GoToThen, Stays, infoVars, commitVars, optVars,
            closeVars, lockVars, threadVars, IInv, Typed, Process, Owes
    <2> QED
      BY <2>1, <2>2, PausedKeeps
  <1>29. ASSUME NEW t \in Thread, Schedule(t)
        PROVE  Paused'
    <2>1. UNCHANGED pauseThreads
      BY <1>29 DEF Schedule, closeVars
    <2>2. \A s \in Thread : Owes(s)' => Owes(s)
      BY <1>29, MergesAssumption
         DEF Schedule, GoTo, GoToThen, Stays, infoVars, commitVars, optVars,
            closeVars, lockVars, threadVars, IInv, Typed, Process, Owes, Closing
    <2> QED
      BY <2>1, <2>2, PausedKeeps
  <1>30. ASSUME NEW t \in Thread, NEW m \in MergeThread, StartThread(t, m)
        PROVE  Paused'
    <2>1. UNCHANGED pauseThreads
      BY <1>30 DEF StartThread, closeVars
    <2>2. \A s \in Thread : Owes(s)' => Owes(s)
      BY <1>30, MergesAssumption
         DEF StartThread, GoTo, GoToThen, Stays, infoVars, commitVars,
            optVars, closeVars, lockVars, threadVars, IInv, Typed, Process,
            Owes, AddIndexes, Closing
    <2> QED
      BY <2>1, <2>2, PausedKeeps
  <1>31. ASSUME NEW p \in Process, MergeInit(p)
        PROVE  Paused'
    <2>1. UNCHANGED pauseThreads
      BY <1>31 DEF MergeInit, Fails, Throws, closeVars
    <2>2. \A s \in Thread : Owes(s)' => Owes(s)
      BY <1>31, MergesAssumption
         DEF MergeInit, Fails, Throws, GoTo, GoToThen, Stays, infoVars,
            commitVars, optVars, closeVars, lockVars, threadVars, IInv, Typed,
            Process, Owes
    <2> QED
      BY <2>1, <2>2, PausedKeeps
  <1>32. ASSUME NEW p \in Process, MergeMiddle(p)
        PROVE  Paused'
    <2>1. UNCHANGED pauseThreads
      BY <1>32 DEF MergeMiddle, closeVars
    <2>2. \A s \in Thread : Owes(s)' => Owes(s)
      BY <1>32, MergesAssumption
         DEF MergeMiddle, GoTo, GoToThen, Stays, infoVars, commitVars,
            optVars, closeVars, lockVars, threadVars, IInv, Typed, Process,
            Owes
    <2> QED
      BY <2>1, <2>2, PausedKeeps
  <1>33. ASSUME NEW p \in Process, CommitMerge(p)
        PROVE  Paused'
    <2>1. UNCHANGED pauseThreads
      BY <1>33 DEF CommitMerge, closeVars
    <2>2. \A s \in Thread : Owes(s)' => Owes(s)
      BY <1>33, MergesAssumption
         DEF CommitMerge, GoTo, GoToThen, Stays, infoVars, commitVars,
            optVars, closeVars, lockVars, threadVars, IInv, Typed, Process,
            Owes
    <2> QED
      BY <2>1, <2>2, PausedKeeps
  <1>34. ASSUME NEW p \in Process, MergeDone(p)
        PROVE  Paused'
    <2>1. UNCHANGED pauseThreads
      BY <1>34 DEF MergeDone, closeVars
    <2>2. \A s \in Thread : Owes(s)' => Owes(s)
      BY <1>34, MergesAssumption
         DEF MergeDone, GoTo, GoToThen, Stays, infoVars, commitVars, optVars,
            closeVars, lockVars, threadVars, IInv, Typed, Process, Owes
    <2> QED
      BY <2>1, <2>2, PausedKeeps
  <1>35. ASSUME NEW p \in Process, MergeFailed(p)
        PROVE  Paused'
    <2>1. UNCHANGED pauseThreads
      BY <1>35 DEF MergeFailed, Fails, Throws, closeVars
    <2>2. \A s \in Thread : Owes(s)' => Owes(s)
      BY <1>35, MergesAssumption
         DEF MergeFailed, Fails, Throws, GoTo, GoToThen, Stays, infoVars,
            commitVars, optVars, closeVars, lockVars, threadVars, IInv, Typed,
            Process, Owes
    <2> QED
      BY <2>1, <2>2, PausedKeeps
  <1>36. ASSUME NEW m \in MergeThread, NextMerge(m)
        PROVE  Paused'
    <2>1. UNCHANGED pauseThreads
      BY <1>36 DEF NextMerge, closeVars
    <2>2. \A s \in Thread : Owes(s)' => Owes(s)
      BY <1>36, MergesAssumption
         DEF NextMerge, GoTo, GoToThen, Stays, infoVars, commitVars, optVars,
            closeVars, lockVars, threadVars, IInv, Typed, Process, Owes,
            AddIndexes, Closing
    <2> QED
      BY <2>1, <2>2, PausedKeeps
  <1>37. CASE UNCHANGED vars
    <2>1. UNCHANGED <<pauseThreads, op, pc>>
      BY <1>37 DEF vars, closeVars, threadVars
    <2> QED
      BY <2>1, PausedKeeps DEF Owes
  <1> QED
    BY <1>1, <1>2, <1>3, <1>4, <1>5, <1>6, <1>7, <1>8, <1>9, <1>10, <1>11,
       <1>12, <1>13, <1>14, <1>15, <1>16, <1>17, <1>18, <1>19, <1>20, <1>21,
       <1>22, <1>23, <1>24, <1>25, <1>26, <1>27, <1>28, <1>29, <1>30, <1>31,
       <1>32, <1>33, <1>34, <1>35, <1>36, <1>37
      DEF Next, CallStep, MergeStep, Process

\* A step that leaves the write lock alone, of one process.
LEMMA LockKeeps ==
    ASSUME IInv, NEW p \in Process,
           \A s \in Thread : s # p => pc'[s] = pc[s] /\ then'[s] = then[s],
           p \in Thread => InLock(p)',
           UNCHANGED writeThread, ~ExternalIn(localRollbackSegmentInfos)',
           ~ExternalIn(rollbackSegmentInfos)',
           \/ ExternalIn(segmentInfos)' => ExternalIn(segmentInfos)
           \/ writeThread = p /\ p \in Thread
    PROVE  Transactions'
  <1>1. ASSUME NEW s \in Thread, s # p PROVE InLock(s)'
    <2>1. Resolved(s) => InTransaction(s)
      BY DEF Resolved, InTransaction, OnlyTransaction, ThenTransaction
    <2>2. InLock(s) /\ pc'[s] = pc[s] /\ then'[s] = then[s]
      BY <1>1 DEF IInv, Transactions
    <2>3. /\ InTransaction(s)' <=> InTransaction(s)
          /\ Resolved(s)' <=> Resolved(s)
      BY <2>2 DEF InTransaction, Resolved
    <2>4. Resolved(s) => ~ExternalIn(segmentInfos)'
      BY <1>1, <2>1, <2>2 DEF InLock
    <2> QED
      BY <2>2, <2>3, <2>4 DEF InLock
  <1>2. p \in Thread => p # None
    BY MergesAssumption DEF None
  <1> QED
    BY <1>1, <1>2 DEF IInv, Transactions

\* A step that takes the lock, or lets go of it.
LEMMA LockPasses ==
    ASSUME IInv, NEW t \in Thread,
           \A s \in Thread : s # t => pc'[s] = pc[s] /\ then'[s] = then[s],
           \/ writeThread = t /\ writeThread' = None
           \/ writeThread = None /\ writeThread' = t,
           InLock(t)', UNCHANGED rollbackSegmentInfos,
           ~ExternalIn(localRollbackSegmentInfos)', ~ExternalIn(segmentInfos)'
    PROVE  Transactions'
  <1>1. ASSUME NEW s \in Thread, s # t PROVE InLock(s)'
    <2>1. InLock(s) /\ pc'[s] = pc[s] /\ then'[s] = then[s]
      BY <1>1 DEF IInv, Transactions
    <2>2. /\ InTransaction(s)' <=> InTransaction(s)
          /\ Resolved(s)' <=> Resolved(s)
      BY <2>1 DEF InTransaction, Resolved
    <2>3. writeThread # s /\ writeThread' # s
      BY <1>1, MergesAssumption DEF None
    <2> QED
      BY <2>1, <2>2, <2>3 DEF InLock
  <1> QED
    BY <1>1 DEF IInv, Transactions

\* A transaction is run by who has the lock, and external segments are there
\* only meanwhile.
LEMMA TransactionsStep ==
    ASSUME IInv, [Next]_vars
    PROVE  Transactions'
  <1>1. ASSUME NEW t \in Thread, Call(t)
        PROVE  Transactions'
    <2>0. InLock(t) /\ t \in Process
      BY DEF IInv, Transactions, Process
    <2>1. \A s \in Thread : s # t => pc'[s] = pc[s] /\ then'[s] = then[s]
      BY <1>1, MergesAssumption
         DEF Call, GoTo, GoToThen, Stays, AddIndexes, IInv, Typed, Process,
            threadVars
    <2>2. UNCHANGED <<writeThread, localRollbackSegmentInfos,
                      rollbackSegmentInfos>>
      BY <1>1
         DEF Call, GoTo, GoToThen, Stays, AddIndexes, infoVars, commitVars,
            lockVars
    <2>3. UNCHANGED segmentInfos
      BY <1>1
         DEF Call, GoTo, GoToThen, Stays, AddIndexes, infoVars, commitVars,
            lockVars
    <2>4. InLock(t)'
      BY <1>1, <2>0, <2>2, <2>3, MergesAssumption
         DEF Call, GoTo, GoToThen, Stays, AddIndexes, infoVars, commitVars,
            lockVars, IInv, Typed, InLock, InTransaction, Resolved,
            OnlyTransaction, ThenTransaction, InScheduler, Process, threadVars
    <2> QED
      BY <2>0, <2>1, <2>2, <2>3, <2>4, LockKeeps DEF IInv, Transactions
  <1>2. ASSUME NEW t \in Thread, AddDocument(t)
        PROVE  Transactions'
    <2>0. InLock(t) /\ t \in Process
      BY DEF IInv, Transactions, Process
    <2>1. \A s \in Thread : s # t => pc'[s] = pc[s] /\ then'[s] = then[s]
      BY <1>2, MergesAssumption
         DEF AddDocument, GoTo, GoToThen, Stays, IInv, Typed, Process,
            threadVars
    <2>2. UNCHANGED <<writeThread, localRollbackSegmentInfos,
                      rollbackSegmentInfos>>
      BY <1>2
         DEF AddDocument, GoTo, GoToThen, Stays, infoVars, commitVars,
            lockVars
    <2>3. UNCHANGED segmentInfos
      BY <1>2
         DEF AddDocument, GoTo, GoToThen, Stays, infoVars, commitVars,
            lockVars
    <2>4. InLock(t)'
      BY <1>2, <2>0, <2>2, <2>3, MergesAssumption, SMTT(30)
         DEF AddDocument, GoTo, GoToThen, Stays, infoVars, commitVars,
            lockVars, IInv, Typed, InLock, InTransaction, Resolved,
            OnlyTransaction, ThenTransaction, InScheduler, Process, threadVars
    <2> QED
      BY <2>0, <2>1, <2>2, <2>3, <2>4, LockKeeps DEF IInv, Transactions
  <1>3. ASSUME NEW t \in Thread, Flush(t)
        PROVE  Transactions'
    <2>0. InLock(t) /\ t \in Process
      BY DEF IInv, Transactions, Process
    <2>1. \A s \in Thread : s # t => pc'[s] = pc[s] /\ then'[s] = then[s]
      BY <1>3, MergesAssumption
         DEF Flush, GoTo, GoToThen, Stays, IInv, Typed, Process, threadVars
    <2>2. UNCHANGED <<writeThread, localRollbackSegmentInfos,
                      rollbackSegmentInfos>>
      BY <1>3
         DEF Flush, GoTo, GoToThen, Stays, infoVars, commitVars, lockVars
    <2> DEFINE new == [name |-> counter + 1, ext |-> FALSE,
                        docs |-> [i \in 1..buffered |-> added + i]]
    <2>3. segmentInfos' \in {segmentInfos, Append(segmentInfos, new)}
      BY <1>3 DEF Flush, infoVars
    <2>4. ~ExternalIn(Append(segmentInfos, new)) \/ ExternalIn(segmentInfos)
      <3>1. counter \in Nat /\ buffered \in Nat /\ added \in Nat
            /\ segmentInfos \in Seq(Info)
        BY DEF IInv, Typed, AllNamed, Named
      <3>2. [i \in 1..buffered |-> added + i] \in Seq(Nat)
        BY <3>1, NewDocs
      <3>3. new \in Info /\ ~new.ext
        BY <3>1, <3>2 DEF Info
      <3> HIDE DEF new
      <3> DEFINE one == <<new>>
      <3>4. one \in Seq(Info) /\ ~ExternalIn(one)
        BY <3>3, OneInfo
      <3>5. Append(segmentInfos, new) = segmentInfos \o one
        BY <3>1, <3>3
      <3> HIDE DEF one
      <3> QED
        BY <3>1, <3>4, <3>5, ConcatInfos
    <2> HIDE DEF new
    <2>5. ExternalIn(segmentInfos)' => ExternalIn(segmentInfos)
      BY <2>3, <2>4
    <2>6. writeThread # t /\ then[t] \notin ThenTransaction
      BY <1>3, <2>0
         DEF Flush, InLock, InTransaction, OnlyTransaction, InScheduler
    <2>7. InLock(t)'
      BY <1>3, <2>2, <2>6, MergesAssumption, ZenonT(40)
         DEF Flush, GoTo, Stays, IInv, Typed, InLock, InTransaction, Resolved,
            OnlyTransaction, ThenTransaction, InScheduler, Process,
            threadVars, Continuations
    <2> QED
      BY <2>0, <2>1, <2>2, <2>5, <2>7, LockKeeps DEF IInv, Transactions
  <1>4. ASSUME NEW t \in Thread, UpdatePendingMerges(t)
        PROVE  Transactions'
    <2>0. InLock(t) /\ t \in Process
      BY DEF IInv, Transactions, Process
    <2>1. \A s \in Thread : s # t => pc'[s] = pc[s] /\ then'[s] = then[s]
      BY <1>4, MergesAssumption
         DEF UpdatePendingMerges, GoTo, GoToThen, Stays, IInv, Typed, Process,
            threadVars
    <2>2. UNCHANGED <<writeThread, localRollbackSegmentInfos,
                      rollbackSegmentInfos>>
      BY <1>4
         DEF UpdatePendingMerges, GoTo, GoToThen, Stays, infoVars, commitVars,
            lockVars
    <2>3. UNCHANGED segmentInfos
      BY <1>4
         DEF UpdatePendingMerges, GoTo, GoToThen, Stays, infoVars, commitVars,
            lockVars
    <2>4. InLock(t)'
      BY <1>4, <2>0, <2>2, <2>3, MergesAssumption
         DEF UpdatePendingMerges, GoTo, GoToThen, Stays, infoVars, commitVars,
            lockVars, IInv, Typed, InLock, InTransaction, Resolved,
            OnlyTransaction, ThenTransaction, InScheduler, Process, threadVars
    <2> QED
      BY <2>0, <2>1, <2>2, <2>3, <2>4, LockKeeps DEF IInv, Transactions
  <1>5. ASSUME NEW t \in Thread, Commit(t)
        PROVE  Transactions'
    <2>0. InLock(t) /\ t \in Process
      BY DEF IInv, Transactions, Process
    <2>1. \A s \in Thread : s # t => pc'[s] = pc[s] /\ then'[s] = then[s]
      BY <1>5, MergesAssumption
         DEF Commit, GoTo, GoToThen, Stays, IInv, Typed, Process, threadVars
    <2>2. UNCHANGED <<writeThread, localRollbackSegmentInfos, segmentInfos>>
      BY <1>5
         DEF Commit, GoTo, GoToThen, Stays, infoVars, commitVars, lockVars
    <2>3. writeThread # t
      BY <1>5, <2>0
         DEF Commit, InLock, InTransaction, OnlyTransaction, InScheduler
    <2>4. ~ExternalIn(segmentInfos)
      BY <1>5, <2>3 DEF Commit, MayRead, IInv, Transactions
    <2>5. ~ExternalIn(rollbackSegmentInfos)'
      BY <1>5, <2>4 DEF Commit, commitVars, IInv, Transactions
    <2>6. InLock(t)'
      BY <1>5, <2>0, <2>2, <2>4, MergesAssumption
         DEF Commit, GoTo, GoToThen, Stays, infoVars, commitVars, lockVars,
            IInv, Typed, InLock, InTransaction, Resolved, OnlyTransaction,
            ThenTransaction, InScheduler, Process, threadVars
    <2> QED
      BY <2>0, <2>1, <2>2, <2>5, <2>6, LockKeeps DEF IInv, Transactions
  <1>6. ASSUME NEW t \in Thread, Leave(t)
        PROVE  Transactions'
    <2>0. InLock(t) /\ t \in Process
      BY DEF IInv, Transactions, Process
    <2>1. \A s \in Thread : s # t => pc'[s] = pc[s] /\ then'[s] = then[s]
      BY <1>6, MergesAssumption
         DEF Leave, GoTo, GoToThen, Stays, IInv, Typed, Process, threadVars
    <2>2. UNCHANGED <<writeThread, localRollbackSegmentInfos,
                      rollbackSegmentInfos>>
      BY <1>6
         DEF Leave, GoTo, GoToThen, Stays, infoVars, commitVars, lockVars
    <2>3. UNCHANGED segmentInfos
      BY <1>6
         DEF Leave, GoTo, GoToThen, Stays, infoVars, commitVars, lockVars
    <2>4. InLock(t)'
      BY <1>6, <2>0, <2>2, <2>3, MergesAssumption
         DEF Leave, GoTo, GoToThen, Stays, infoVars, commitVars, lockVars,
            IInv, Typed, InLock, InTransaction, Resolved, OnlyTransaction,
            ThenTransaction, InScheduler, Process, threadVars
    <2> QED
      BY <2>0, <2>1, <2>2, <2>3, <2>4, LockKeeps DEF IInv, Transactions
  <1>7. ASSUME NEW t \in Thread, OptimizeMark(t)
        PROVE  Transactions'
    <2>0. InLock(t) /\ t \in Process
      BY DEF IInv, Transactions, Process
    <2>1. \A s \in Thread : s # t => pc'[s] = pc[s] /\ then'[s] = then[s]
      BY <1>7, MergesAssumption
         DEF OptimizeMark, GoTo, GoToThen, Stays, IInv, Typed, Process,
            threadVars
    <2>2. UNCHANGED <<writeThread, localRollbackSegmentInfos,
                      rollbackSegmentInfos>>
      BY <1>7
         DEF OptimizeMark, GoTo, GoToThen, Stays, infoVars, commitVars,
            lockVars
    <2>3. UNCHANGED segmentInfos
      BY <1>7
         DEF OptimizeMark, GoTo, GoToThen, Stays, infoVars, commitVars,
            lockVars
    <2>4. InLock(t)'
      BY <1>7, <2>0, <2>2, <2>3, MergesAssumption
         DEF OptimizeMark, GoTo, GoToThen, Stays, infoVars, commitVars,
            lockVars, IInv, Typed, InLock, InTransaction, Resolved,
            OnlyTransaction, ThenTransaction, InScheduler, Process, threadVars
    <2> QED
      BY <2>0, <2>1, <2>2, <2>3, <2>4, LockKeeps DEF IInv, Transactions
  <1>8. ASSUME NEW t \in Thread, OptimizeWait(t)
        PROVE  Transactions'
    <2>0. InLock(t) /\ t \in Process
      BY DEF IInv, Transactions, Process
    <2>1. \A s \in Thread : s # t => pc'[s] = pc[s] /\ then'[s] = then[s]
      BY <1>8, MergesAssumption
         DEF OptimizeWait, GoTo, GoToThen, Stays, IInv, Typed, Process,
            threadVars
    <2>2. UNCHANGED <<writeThread, localRollbackSegmentInfos,
                      rollbackSegmentInfos>>
      BY <1>8
         DEF OptimizeWait, GoTo, GoToThen, Stays, infoVars, commitVars,
            lockVars
    <2>3. UNCHANGED segmentInfos
      BY <1>8
         DEF OptimizeWait, GoTo, GoToThen, Stays, infoVars, commitVars,
            lockVars
    <2>4. InLock(t)'
      BY <1>8, <2>0, <2>2, <2>3, MergesAssumption
         DEF OptimizeWait, GoTo, GoToThen, Stays, infoVars, commitVars,
            lockVars, IInv, Typed, InLock, InTransaction, Resolved,
            OnlyTransaction, ThenTransaction, InScheduler, Process, threadVars
    <2> QED
      BY <2>0, <2>1, <2>2, <2>3, <2>4, LockKeeps DEF IInv, Transactions
  <1>9. ASSUME NEW t \in Thread, PauseAllThreads(t)
        PROVE  Transactions'
    <2>0. InLock(t) /\ t \in Process
      BY DEF IInv, Transactions, Process
    <2>1. \A s \in Thread : s # t => pc'[s] = pc[s] /\ then'[s] = then[s]
      BY <1>9, MergesAssumption
         DEF PauseAllThreads, GoTo, GoToThen, Stays, IInv, Typed, Process,
            threadVars
    <2>2. UNCHANGED <<writeThread, localRollbackSegmentInfos,
                      rollbackSegmentInfos>>
      BY <1>9
         DEF PauseAllThreads, GoTo, GoToThen, Stays, infoVars, commitVars,
            lockVars
    <2>3. UNCHANGED segmentInfos
      BY <1>9
         DEF PauseAllThreads, GoTo, GoToThen, Stays, infoVars, commitVars,
            lockVars
    <2>4. InLock(t)'
      BY <1>9, <2>0, <2>2, <2>3, MergesAssumption, ZenonT(40)
         DEF PauseAllThreads, GoTo, GoToThen, Stays, infoVars, commitVars,
            lockVars, IInv, Typed, InLock, InTransaction, Resolved,
            OnlyTransaction, ThenTransaction, InScheduler, Process, threadVars
    <2> QED
      BY <2>0, <2>1, <2>2, <2>3, <2>4, LockKeeps DEF IInv, Transactions
  <1>10. ASSUME NEW t \in Thread, AcquireRead(t)
        PROVE  Transactions'
    <2>0. InLock(t) /\ t \in Process
      BY DEF IInv, Transactions, Process
    <2>1. \A s \in Thread : s # t => pc'[s] = pc[s] /\ then'[s] = then[s]
      BY <1>10, MergesAssumption
         DEF AcquireRead, GoTo, GoToThen, Stays, IInv, Typed, Process,
            threadVars
    <2>2. UNCHANGED <<writeThread, localRollbackSegmentInfos,
                      rollbackSegmentInfos>>
      BY <1>10
         DEF AcquireRead, GoTo, GoToThen, Stays, infoVars, commitVars,
            lockVars
    <2>3. UNCHANGED segmentInfos
      BY <1>10
         DEF AcquireRead, GoTo, GoToThen, Stays, infoVars, commitVars,
            lockVars
    <2>4. InLock(t)'
      BY <1>10, <2>0, <2>2, <2>3, MergesAssumption
         DEF AcquireRead, GoTo, GoToThen, Stays, infoVars, commitVars,
            lockVars, IInv, Typed, InLock, InTransaction, Resolved,
            OnlyTransaction, ThenTransaction, InScheduler, Process, threadVars
    <2> QED
      BY <2>0, <2>1, <2>2, <2>3, <2>4, LockKeeps DEF IInv, Transactions
  <1>11. ASSUME NEW t \in Thread, StartTransaction(t)
        PROVE  Transactions'
    <2>0. InLock(t) /\ t \in Process
      BY DEF IInv, Transactions, Process
    <2>1. \A s \in Thread : s # t => pc'[s] = pc[s] /\ then'[s] = then[s]
      BY <1>11, MergesAssumption, ZenonT(40)
         DEF StartTransaction, TakesWriteLock, UpgradeReadToWrite,
            AcquireWrite, TakesLock, GoTo, GoToThen, Stays, IInv, Typed,
            Process, threadVars
    <2>2. UNCHANGED <<segmentInfos, rollbackSegmentInfos, then>>
      BY <1>11
         DEF StartTransaction, infoVars, commitVars
    <2>3. \/ /\ UNCHANGED <<writeThread, localRollbackSegmentInfos>>
             /\ pc'[t] \in {"throw", "startWait", "acquireWrite"}
          \/ writeThread = None /\ TakesLock(t)
      BY <1>11, MergesAssumption
         DEF StartTransaction, TakesWriteLock, UpgradeReadToWrite,
            AcquireWrite, GoTo, lockVars, IInv, Typed, Process
    <2>4. /\ writeThread # t
          /\ pc[t] \in {"throw", "return"} \/ then[t] \notin ThenTransaction
      BY <1>11, <2>0
         DEF StartTransaction, InLock, InTransaction, OnlyTransaction,
             InScheduler
    <2>5. CASE /\ UNCHANGED <<writeThread, localRollbackSegmentInfos>>
               /\ pc'[t] \in {"throw", "startWait", "acquireWrite"}
      <3>1. InLock(t)'
        BY <1>11, <2>2, <2>4, <2>5
           DEF StartTransaction, InLock, InTransaction, Resolved, OnlyTransaction,
               ThenTransaction, InScheduler
      <3> QED
        BY <2>0, <2>1, <2>2, <2>5, <3>1, LockKeeps DEF IInv, Transactions
    <2>6. CASE writeThread = None /\ TakesLock(t)
      <3>1. ~ExternalIn(segmentInfos)' /\ ~ExternalIn(localRollbackSegmentInfos)'
        BY <2>2, <2>6 DEF TakesLock, IInv, Transactions
      <3>2. pc'[t] = "addExternal" /\ writeThread' = t
        BY <2>0, <2>6 DEF TakesLock, GoTo, IInv, Typed
      <3>3. InLock(t)'
        BY <3>1, <3>2 DEF InLock, InTransaction, OnlyTransaction
      <3> QED
        BY <2>1, <2>2, <2>6, <3>1, <3>2, <3>3, LockPasses
    <2> QED
      BY <2>3, <2>5, <2>6
  <1>12. ASSUME NEW t \in Thread, AddExternal(t)
        PROVE  Transactions'
    <2>0. InLock(t) /\ t \in Process
      BY DEF IInv, Transactions, Process
    <2>1. \A s \in Thread : s # t => pc'[s] = pc[s] /\ then'[s] = then[s]
      BY <1>12, MergesAssumption
         DEF AddExternal, GoTo, GoToThen, Stays, IInv, Typed, Process,
            threadVars
    <2>2. UNCHANGED <<writeThread, localRollbackSegmentInfos,
                      rollbackSegmentInfos>>
      BY <1>12
         DEF AddExternal, GoTo, GoToThen, Stays, infoVars, commitVars,
            lockVars
    <2>3. writeThread = t
      BY <1>12, <2>0 DEF AddExternal, InLock, InTransaction, OnlyTransaction
    <2>4. \/ pc'[t] = "rollbackTransaction"
          \/ pc'[t] = "update" /\ then'[t] = "txResolve"
      BY <1>12, <2>0 DEF AddExternal, GoTo, GoToThen, IInv, Typed
    <2>5. InLock(t)'
      BY <2>2, <2>3, <2>4
         DEF InLock, InTransaction, Resolved, OnlyTransaction, ThenTransaction,
             InScheduler
    <2> QED
      BY <2>0, <2>1, <2>2, <2>3, <2>5, LockKeeps DEF IInv, Transactions
  <1>13. ASSUME NEW t \in Thread, TransactionOpen(t)
        PROVE  Transactions'
    <2>0. InLock(t) /\ t \in Process
      BY DEF IInv, Transactions, Process
    <2>1. \A s \in Thread : s # t => pc'[s] = pc[s] /\ then'[s] = then[s]
      BY <1>13, MergesAssumption
         DEF TransactionOpen, GoTo, GoToThen, Stays, IInv, Typed, Process,
            threadVars
    <2>2. UNCHANGED <<writeThread, localRollbackSegmentInfos,
                      rollbackSegmentInfos>>
      BY <1>13
         DEF TransactionOpen, GoTo, GoToThen, Stays, infoVars, commitVars,
            lockVars
    <2>3. UNCHANGED segmentInfos
      BY <1>13
         DEF TransactionOpen, GoTo, GoToThen, Stays, infoVars, commitVars,
            lockVars
    <2>4. InLock(t)'
      BY <1>13, <2>0, <2>2, <2>3, MergesAssumption
         DEF TransactionOpen, GoTo, GoToThen, Stays, infoVars, commitVars,
            lockVars, IInv, Typed, InLock, InTransaction, Resolved,
            OnlyTransaction, ThenTransaction, InScheduler, Process, threadVars
    <2> QED
      BY <2>0, <2>1, <2>2, <2>3, <2>4, LockKeeps DEF IInv, Transactions
  <1>14. ASSUME NEW t \in Thread, ResolveExternal(t)
        PROVE  Transactions'
    <2>0. InLock(t) /\ t \in Process
      BY DEF IInv, Transactions, Process
    <2>1. \A s \in Thread : s # t => pc'[s] = pc[s] /\ then'[s] = then[s]
      BY <1>14, MergesAssumption
         DEF ResolveExternal, GoTo, GoToThen, Stays, IInv, Typed, Process,
            threadVars
    <2>2. UNCHANGED <<writeThread, localRollbackSegmentInfos,
                      rollbackSegmentInfos>>
      BY <1>14
         DEF ResolveExternal, GoTo, GoToThen, Stays, infoVars, commitVars,
            lockVars
    <2>3. UNCHANGED segmentInfos
      BY <1>14
         DEF ResolveExternal, GoTo, GoToThen, Stays, infoVars, commitVars,
            lockVars
    <2>4. InLock(t)'
      BY <1>14, <2>0, <2>2, <2>3, MergesAssumption
         DEF ResolveExternal, GoTo, GoToThen, Stays, infoVars, commitVars,
            lockVars, IInv, Typed, InLock, InTransaction, Resolved,
            OnlyTransaction, ThenTransaction, InScheduler, Process, threadVars
    <2> QED
      BY <2>0, <2>1, <2>2, <2>3, <2>4, LockKeeps DEF IInv, Transactions
  <1>15. ASSUME NEW t \in Thread, ReadersGet(t)
        PROVE  Transactions'
    <2>0. InLock(t) /\ t \in Process
      BY DEF IInv, Transactions, Process
    <2>1. \A s \in Thread : s # t => pc'[s] = pc[s] /\ then'[s] = then[s]
      BY <1>15, MergesAssumption
         DEF ReadersGet, GoTo, GoToThen, Stays, IInv, Typed, Process,
            threadVars
    <2>2. UNCHANGED <<writeThread, localRollbackSegmentInfos,
                      rollbackSegmentInfos>>
      BY <1>15
         DEF ReadersGet, GoTo, GoToThen, Stays, infoVars, commitVars, lockVars
    <2>3. UNCHANGED segmentInfos
      BY <1>15
         DEF ReadersGet, GoTo, GoToThen, Stays, infoVars, commitVars, lockVars
    <2>4. InLock(t)'
      BY <1>15, <2>0, <2>2, <2>3, MergesAssumption
         DEF ReadersGet, GoTo, GoToThen, Stays, infoVars, commitVars,
            lockVars, IInv, Typed, InLock, InTransaction, Resolved,
            OnlyTransaction, ThenTransaction, InScheduler, Process, threadVars
    <2> QED
      BY <2>0, <2>1, <2>2, <2>3, <2>4, LockKeeps DEF IInv, Transactions
  <1>16. ASSUME NEW t \in Thread, ReadersPut(t)
        PROVE  Transactions'
    <2>0. InLock(t) /\ t \in Process
      BY DEF IInv, Transactions, Process
    <2>1. \A s \in Thread : s # t => pc'[s] = pc[s] /\ then'[s] = then[s]
      BY <1>16, MergesAssumption
         DEF ReadersPut, GoTo, GoToThen, Stays, IInv, Typed, Process,
            threadVars
    <2>2. UNCHANGED <<writeThread, localRollbackSegmentInfos,
                      rollbackSegmentInfos, then>>
      BY <1>16
         DEF ReadersPut, GoTo, GoToThen, Stays, infoVars, commitVars, lockVars
    <2>3. writeThread = t
      BY <1>16, <2>0 DEF ReadersPut, InLock, InTransaction, OnlyTransaction
    <2>4. CASE pc'[t] = "rollbackTransaction"
      <3>1. InLock(t)'
        BY <2>2, <2>3, <2>4
           DEF InLock, InTransaction, Resolved, OnlyTransaction, InScheduler
      <3> QED
        BY <2>0, <2>1, <2>2, <2>3, <3>1, LockKeeps DEF IInv, Transactions
    <2> DEFINE docs == existing[t] \o [k \in 1..Sum(External) |-> added + k]
               new == [name |-> counter + 1, ext |-> FALSE, docs |-> docs]
    <2>5. CASE pc'[t] = "commitTransaction" /\ segmentInfos' = <<new>>
      <3>1. /\ counter \in Nat /\ added \in Nat
            /\ existing[t] \in Seq(Nat) /\ Sum(External) \in Nat
        BY MergesAssumption, SumType DEF IInv, Typed
      <3>2. [k \in 1..Sum(External) |-> added + k] \in Seq(Nat)
        BY <3>1, NewDocs
      <3>3. docs \in Seq(Nat)
        BY <3>1, <3>2
      <3> HIDE DEF docs
      <3>4. new \in Info /\ ~new.ext
        BY <3>1, <3>3 DEF Info
      <3> HIDE DEF new
      <3>5. ~ExternalIn(segmentInfos)'
        BY <2>5, <3>4, OneInfo
      <3>6. InLock(t)'
        BY <2>2, <2>3, <2>5, <3>5
           DEF InLock, InTransaction, Resolved, OnlyTransaction, InScheduler
      <3> QED
        BY <2>0, <2>1, <2>2, <2>3, <3>6, LockKeeps DEF IInv, Transactions
    <2>6. \/ pc'[t] = "rollbackTransaction"
          \/ pc'[t] = "commitTransaction" /\ segmentInfos' = <<new>>
      BY <1>16, <2>0 DEF ReadersPut, GoTo, IInv, Typed
    <2> QED
      BY <2>4, <2>5, <2>6
  <1>17. ASSUME NEW t \in Thread, CommitTransaction(t)
        PROVE  Transactions'
    <2>0. InLock(t) /\ t \in Process
      BY DEF IInv, Transactions, Process
    <2>1. \A s \in Thread : s # t => pc'[s] = pc[s] /\ then'[s] = then[s]
      BY <1>17, MergesAssumption
         DEF CommitTransaction, GoTo, GoToThen, Stays, IInv, Typed, Process,
            threadVars
    <2>2. /\ UNCHANGED <<segmentInfos, rollbackSegmentInfos, then>>
          /\ writeThread' = None /\ localRollbackSegmentInfos' = <<>>
      BY <1>17 DEF CommitTransaction, commitVars
    <2>3. writeThread = t /\ ~ExternalIn(segmentInfos)
      BY <1>17, <2>0
         DEF CommitTransaction, InLock, InTransaction, Resolved,
             OnlyTransaction
    <2>4. pc'[t] = "return"
      BY <1>17, <2>0 DEF CommitTransaction, GoTo, IInv, Typed
    <2>5. ~ExternalIn(localRollbackSegmentInfos)' /\ ~ExternalIn(segmentInfos)'
      BY <2>2, <2>3, NoInfos
    <2>6. InLock(t)'
      BY <2>2, <2>4, <2>5, MergesAssumption
         DEF InLock, InTransaction, Resolved, OnlyTransaction, InScheduler, None
    <2> QED
      BY <2>1, <2>2, <2>3, <2>5, <2>6, LockPasses
  <1>18. ASSUME NEW t \in Thread, FinishMerges(t)
        PROVE  Transactions'
    <2>0. InLock(t) /\ t \in Process
      BY DEF IInv, Transactions, Process
    <2>1. \A s \in Thread : s # t => pc'[s] = pc[s] /\ then'[s] = then[s]
      BY <1>18, MergesAssumption
         DEF FinishMerges, MergesFinished, RolledBack, AllDeleted, GoTo,
            GoToThen, Stays, IInv, Typed, Process, threadVars
    <2>2. /\ UNCHANGED <<rollbackSegmentInfos, then>>
      BY <1>18 DEF FinishMerges, commitVars
    <2>3. CASE MergesFinished(t) /\ writeThread = t
      <3>1. /\ segmentInfos' = localRollbackSegmentInfos
            /\ writeThread' = None /\ localRollbackSegmentInfos' = <<>>
        BY <2>3 DEF MergesFinished, RolledBack
      <3>2. pc'[t] = "throw"
        BY <2>0, <2>3 DEF MergesFinished, GoTo, IInv, Typed
      <3>3. ~ExternalIn(localRollbackSegmentInfos)' /\ ~ExternalIn(segmentInfos)'
        BY <3>1, NoInfos DEF IInv, Transactions
      <3>4. InLock(t)'
        BY <3>1, <3>2, <3>3, MergesAssumption
           DEF InLock, InTransaction, Resolved, OnlyTransaction, InScheduler, None
      <3> QED
        BY <2>1, <2>2, <2>3, <3>1, <3>3, <3>4, LockPasses
    <2>4. CASE MergesFinished(t) /\ writeThread # t
      <3>1. /\ UNCHANGED <<writeThread, localRollbackSegmentInfos>>
            /\ segmentInfos' \in {segmentInfos, <<>>}
        BY <2>4 DEF MergesFinished, AllDeleted, infoVars
      <3>2. pc'[t] \in {"return", "sync", "closeStop"}
        BY <2>0, <2>4 DEF MergesFinished, GoTo, IInv, Typed
      <3>3. ExternalIn(segmentInfos)' => ExternalIn(segmentInfos)
        BY <3>1, NoInfos
      <3>4. then[t] \notin ThenTransaction
        BY <1>18, <2>0, <2>4 DEF FinishMerges, InLock
      <3>5. InLock(t)'
        BY <2>2, <2>4, <3>1, <3>2, <3>4
           DEF InLock, InTransaction, Resolved, OnlyTransaction, InScheduler
      <3> QED
        BY <2>0, <2>1, <2>2, <3>1, <3>3, <3>5, LockKeeps DEF IInv, Transactions
    <2>5. CASE /\ UNCHANGED <<segmentInfos, writeThread, localRollbackSegmentInfos>>
               /\ pc'[t] \in {"finishWait", "finishRead"}
      <3>1. then[t] \in ThenTransaction => writeThread = t
        BY <1>18, <2>0 DEF FinishMerges, InLock
      <3>2. InLock(t)'
        BY <2>2, <2>5, <3>1
           DEF InLock, InTransaction, Resolved, OnlyTransaction, InScheduler
      <3> QED
        BY <2>0, <2>1, <2>2, <2>5, <3>2, LockKeeps DEF IInv, Transactions
    <2>6. \/ MergesFinished(t)
          \/ /\ UNCHANGED <<segmentInfos, writeThread, localRollbackSegmentInfos>>
             /\ pc'[t] \in {"finishWait", "finishRead"}
      BY <1>18, <2>0 DEF FinishMerges, infoVars, GoTo, IInv, Typed
    <2> QED
      BY <2>3, <2>4, <2>5, <2>6
  <1>19. ASSUME NEW t \in Thread, FinishMergesWait(t)
        PROVE  Transactions'
    <2>0. InLock(t) /\ t \in Process
      BY DEF IInv, Transactions, Process
    <2>1. \A s \in Thread : s # t => pc'[s] = pc[s] /\ then'[s] = then[s]
      BY <1>19, MergesAssumption, ZenonT(40)
         DEF FinishMergesWait, MergesFinished, RolledBack, AllDeleted, GoTo,
            GoToThen, Stays, IInv, Typed, Process, threadVars
    <2>2. /\ UNCHANGED <<rollbackSegmentInfos, then>>
      BY <1>19 DEF FinishMergesWait, commitVars
    <2>3. CASE MergesFinished(t) /\ writeThread = t
      <3>1. /\ segmentInfos' = localRollbackSegmentInfos
            /\ writeThread' = None /\ localRollbackSegmentInfos' = <<>>
        BY <2>3 DEF MergesFinished, RolledBack
      <3>2. pc'[t] = "throw"
        BY <2>0, <2>3 DEF MergesFinished, GoTo, IInv, Typed
      <3>3. ~ExternalIn(localRollbackSegmentInfos)' /\ ~ExternalIn(segmentInfos)'
        BY <3>1, NoInfos DEF IInv, Transactions
      <3>4. InLock(t)'
        BY <3>1, <3>2, <3>3, MergesAssumption
           DEF InLock, InTransaction, Resolved, OnlyTransaction, InScheduler, None
      <3> QED
        BY <2>1, <2>2, <2>3, <3>1, <3>3, <3>4, LockPasses
    <2>4. CASE MergesFinished(t) /\ writeThread # t
      <3>1. /\ UNCHANGED <<writeThread, localRollbackSegmentInfos>>
            /\ segmentInfos' \in {segmentInfos, <<>>}
        BY <2>4 DEF MergesFinished, AllDeleted, infoVars
      <3>2. pc'[t] \in {"return", "sync", "closeStop"}
        BY <2>0, <2>4 DEF MergesFinished, GoTo, IInv, Typed
      <3>3. ExternalIn(segmentInfos)' => ExternalIn(segmentInfos)
        BY <3>1, NoInfos
      <3>4. then[t] \notin ThenTransaction
        BY <1>19, <2>0, <2>4 DEF FinishMergesWait, InLock
      <3>5. InLock(t)'
        BY <2>2, <2>4, <3>1, <3>2, <3>4
           DEF InLock, InTransaction, Resolved, OnlyTransaction, InScheduler
      <3> QED
        BY <2>0, <2>1, <2>2, <3>1, <3>3, <3>5, LockKeeps DEF IInv, Transactions
    <2>5. CASE /\ UNCHANGED <<segmentInfos, writeThread, localRollbackSegmentInfos>>
               /\ pc'[t] \in {"finishWait", "finishRead"}
      <3>1. then[t] \in ThenTransaction => writeThread = t
        BY <1>19, <2>0 DEF FinishMergesWait, InLock
      <3>2. InLock(t)'
        BY <2>2, <2>5, <3>1
           DEF InLock, InTransaction, Resolved, OnlyTransaction, InScheduler
      <3> QED
        BY <2>0, <2>1, <2>2, <2>5, <3>2, LockKeeps DEF IInv, Transactions
    <2>6. \/ MergesFinished(t)
          \/ /\ UNCHANGED <<segmentInfos, writeThread, localRollbackSegmentInfos>>
             /\ pc'[t] \in {"finishWait", "finishRead"}
      BY <1>19, <2>0 DEF FinishMergesWait, infoVars, GoTo, IInv, Typed
    <2> QED
      BY <2>3, <2>4, <2>5, <2>6
  <1>20. ASSUME NEW t \in Thread, WaitForMerges(t)
        PROVE  Transactions'
    <2>0. InLock(t) /\ t \in Process
      BY DEF IInv, Transactions, Process
    <2>1. \A s \in Thread : s # t => pc'[s] = pc[s] /\ then'[s] = then[s]
      BY <1>20, MergesAssumption
         DEF WaitForMerges, GoTo, GoToThen, Stays, IInv, Typed, Process,
            threadVars
    <2>2. UNCHANGED <<writeThread, localRollbackSegmentInfos,
                      rollbackSegmentInfos>>
      BY <1>20
         DEF WaitForMerges, GoTo, GoToThen, Stays, infoVars, commitVars,
            lockVars
    <2>3. UNCHANGED segmentInfos
      BY <1>20
         DEF WaitForMerges, GoTo, GoToThen, Stays, infoVars, commitVars,
            lockVars
    <2>4. InLock(t)'
      BY <1>20, <2>0, <2>2, <2>3, MergesAssumption
         DEF WaitForMerges, GoTo, GoToThen, Stays, infoVars, commitVars,
            lockVars, IInv, Typed, InLock, InTransaction, Resolved,
            OnlyTransaction, ThenTransaction, InScheduler, Process, threadVars
    <2> QED
      BY <2>0, <2>1, <2>2, <2>3, <2>4, LockKeeps DEF IInv, Transactions
  <1>21. ASSUME NEW t \in Thread, ShouldClose(t)
        PROVE  Transactions'
    <2>0. InLock(t) /\ t \in Process
      BY DEF IInv, Transactions, Process
    <2>1. \A s \in Thread : s # t => pc'[s] = pc[s] /\ then'[s] = then[s]
      BY <1>21, MergesAssumption
         DEF ShouldClose, GoTo, GoToThen, Stays, IInv, Typed, Process,
            threadVars
    <2>2. UNCHANGED <<writeThread, localRollbackSegmentInfos,
                      rollbackSegmentInfos>>
      BY <1>21
         DEF ShouldClose, GoTo, GoToThen, Stays, infoVars, commitVars,
            lockVars
    <2>3. UNCHANGED segmentInfos
      BY <1>21
         DEF ShouldClose, GoTo, GoToThen, Stays, infoVars, commitVars,
            lockVars
    <2>4. InLock(t)'
      BY <1>21, <2>0, <2>2, <2>3, MergesAssumption
         DEF ShouldClose, GoTo, GoToThen, Stays, infoVars, commitVars,
            lockVars, IInv, Typed, InLock, InTransaction, Resolved,
            OnlyTransaction, ThenTransaction, InScheduler, Process, threadVars
    <2> QED
      BY <2>0, <2>1, <2>2, <2>3, <2>4, LockKeeps DEF IInv, Transactions
  <1>22. ASSUME NEW t \in Thread, SyncThreads(t)
        PROVE  Transactions'
    <2>0. InLock(t) /\ t \in Process
      BY DEF IInv, Transactions, Process
    <2>1. \A s \in Thread : s # t => pc'[s] = pc[s] /\ then'[s] = then[s]
      BY <1>22, MergesAssumption
         DEF SyncThreads, GoTo, GoToThen, Stays, IInv, Typed, Process,
            threadVars
    <2>2. UNCHANGED <<writeThread, localRollbackSegmentInfos,
                      rollbackSegmentInfos>>
      BY <1>22
         DEF SyncThreads, GoTo, GoToThen, Stays, infoVars, commitVars,
            lockVars
    <2>3. UNCHANGED segmentInfos
      BY <1>22
         DEF SyncThreads, GoTo, GoToThen, Stays, infoVars, commitVars,
            lockVars
    <2>4. InLock(t)'
      BY <1>22, <2>0, <2>2, <2>3, MergesAssumption
         DEF SyncThreads, GoTo, GoToThen, Stays, infoVars, commitVars,
            lockVars, IInv, Typed, InLock, InTransaction, Resolved,
            OnlyTransaction, ThenTransaction, InScheduler, Process, threadVars
    <2> QED
      BY <2>0, <2>1, <2>2, <2>3, <2>4, LockKeeps DEF IInv, Transactions
  <1>23. ASSUME NEW t \in Thread, Revert(t)
        PROVE  Transactions'
    <2>0. InLock(t) /\ t \in Process
      BY DEF IInv, Transactions, Process
    <2>1. \A s \in Thread : s # t => pc'[s] = pc[s] /\ then'[s] = then[s]
      BY <1>23, MergesAssumption
         DEF Revert, GoTo, GoToThen, Stays, IInv, Typed, Process, threadVars
    <2>2. UNCHANGED <<writeThread, localRollbackSegmentInfos,
                      rollbackSegmentInfos>>
      BY <1>23
         DEF Revert, GoTo, GoToThen, Stays, infoVars, commitVars, lockVars
    <2>3. ~ExternalIn(segmentInfos)'
      BY <1>23 DEF Revert, IInv, Transactions
    <2>4. InLock(t)'
      BY <1>23, <2>0, <2>2, <2>3, MergesAssumption
         DEF Revert, GoTo, GoToThen, Stays, infoVars, commitVars, lockVars,
            IInv, Typed, InLock, InTransaction, Resolved, OnlyTransaction,
            ThenTransaction, InScheduler, Process, threadVars
    <2> QED
      BY <2>0, <2>1, <2>2, <2>3, <2>4, LockKeeps DEF IInv, Transactions
  <1>24. ASSUME NEW t \in Thread, Recount(t)
        PROVE  Transactions'
    <2>0. InLock(t) /\ t \in Process
      BY DEF IInv, Transactions, Process
    <2>1. \A s \in Thread : s # t => pc'[s] = pc[s] /\ then'[s] = then[s]
      BY <1>24, MergesAssumption
         DEF Recount, GoTo, GoToThen, Stays, IInv, Typed, Process, threadVars
    <2>2. UNCHANGED <<writeThread, localRollbackSegmentInfos,
                      rollbackSegmentInfos>>
      BY <1>24
         DEF Recount, GoTo, GoToThen, Stays, infoVars, commitVars, lockVars
    <2>3. UNCHANGED segmentInfos
      BY <1>24
         DEF Recount, GoTo, GoToThen, Stays, infoVars, commitVars, lockVars
    <2>4. InLock(t)'
      BY <1>24, <2>0, <2>2, <2>3, MergesAssumption
         DEF Recount, GoTo, GoToThen, Stays, infoVars, commitVars, lockVars,
            IInv, Typed, InLock, InTransaction, Resolved, OnlyTransaction,
            ThenTransaction, InScheduler, Process, threadVars
    <2> QED
      BY <2>0, <2>1, <2>2, <2>3, <2>4, LockKeeps DEF IInv, Transactions
  <1>25. ASSUME NEW t \in Thread, CloseInternal(t)
        PROVE  Transactions'
    <2>0. InLock(t) /\ t \in Process
      BY DEF IInv, Transactions, Process
    <2>1. \A s \in Thread : s # t => pc'[s] = pc[s] /\ then'[s] = then[s]
      BY <1>25, MergesAssumption
         DEF CloseInternal, GoTo, GoToThen, Stays, IInv, Typed, Process,
            threadVars
    <2>2. UNCHANGED <<writeThread, localRollbackSegmentInfos,
                      rollbackSegmentInfos>>
      BY <1>25
         DEF CloseInternal, GoTo, GoToThen, Stays, infoVars, commitVars,
            lockVars
    <2>3. UNCHANGED segmentInfos
      BY <1>25
         DEF CloseInternal, GoTo, GoToThen, Stays, infoVars, commitVars,
            lockVars
    <2>4. InLock(t)'
      BY <1>25, <2>0, <2>2, <2>3, MergesAssumption
         DEF CloseInternal, GoTo, GoToThen, Stays, infoVars, commitVars,
            lockVars, IInv, Typed, InLock, InTransaction, Resolved,
            OnlyTransaction, ThenTransaction, InScheduler, Process, threadVars
    <2> QED
      BY <2>0, <2>1, <2>2, <2>3, <2>4, LockKeeps DEF IInv, Transactions
  <1>26. ASSUME NEW t \in Thread, CloseMerges(t)
        PROVE  Transactions'
    <2>0. InLock(t) /\ t \in Process
      BY DEF IInv, Transactions, Process
    <2>1. \A s \in Thread : s # t => pc'[s] = pc[s] /\ then'[s] = then[s]
      BY <1>26, MergesAssumption
         DEF CloseMerges, GoTo, GoToThen, Stays, IInv, Typed, Process,
            threadVars
    <2>2. UNCHANGED <<writeThread, localRollbackSegmentInfos,
                      rollbackSegmentInfos>>
      BY <1>26
         DEF CloseMerges, GoTo, GoToThen, Stays, infoVars, commitVars,
            lockVars
    <2>3. UNCHANGED segmentInfos
      BY <1>26
         DEF CloseMerges, GoTo, GoToThen, Stays, infoVars, commitVars,
            lockVars
    <2>4. InLock(t)'
      BY <1>26, <2>0, <2>2, <2>3, MergesAssumption
         DEF CloseMerges, GoTo, GoToThen, Stays, infoVars, commitVars,
            lockVars, IInv, Typed, InLock, InTransaction, Resolved,
            OnlyTransaction, ThenTransaction, InScheduler, Process, threadVars
    <2> QED
      BY <2>0, <2>1, <2>2, <2>3, <2>4, LockKeeps DEF IInv, Transactions
  <1>27. ASSUME NEW t \in Thread, CloseStop(t)
        PROVE  Transactions'
    <2>0. InLock(t) /\ t \in Process
      BY DEF IInv, Transactions, Process
    <2>1. \A s \in Thread : s # t => pc'[s] = pc[s] /\ then'[s] = then[s]
      BY <1>27, MergesAssumption
         DEF CloseStop, GoTo, GoToThen, Stays, IInv, Typed, Process,
            threadVars
    <2>2. UNCHANGED <<writeThread, localRollbackSegmentInfos,
                      rollbackSegmentInfos>>
      BY <1>27
         DEF CloseStop, GoTo, GoToThen, Stays, infoVars, commitVars, lockVars
    <2>3. UNCHANGED segmentInfos
      BY <1>27
         DEF CloseStop, GoTo, GoToThen, Stays, infoVars, commitVars, lockVars
    <2>4. InLock(t)'
      BY <1>27, <2>0, <2>2, <2>3, MergesAssumption
         DEF CloseStop, GoTo, GoToThen, Stays, infoVars, commitVars, lockVars,
            IInv, Typed, InLock, InTransaction, Resolved, OnlyTransaction,
            ThenTransaction, InScheduler, Process, threadVars
    <2> QED
      BY <2>0, <2>1, <2>2, <2>3, <2>4, LockKeeps DEF IInv, Transactions
  <1>28. ASSUME NEW t \in Thread, Closed(t)
        PROVE  Transactions'
    <2>0. InLock(t) /\ t \in Process
      BY DEF IInv, Transactions, Process
    <2>1. \A s \in Thread : s # t => pc'[s] = pc[s] /\ then'[s] = then[s]
      BY <1>28, MergesAssumption
         DEF Closed, GoTo, GoToThen, Stays, IInv, Typed, Process, threadVars
    <2>2. UNCHANGED <<writeThread, localRollbackSegmentInfos,
                      rollbackSegmentInfos>>
      BY <1>28
         DEF Closed, GoTo, GoToThen, Stays, infoVars, commitVars, lockVars
    <2>3. UNCHANGED segmentInfos
      BY <1>28
         DEF Closed, GoTo, GoToThen, Stays, infoVars, commitVars, lockVars
    <2>4. InLock(t)'
      BY <1>28, <2>0, <2>2, <2>3, MergesAssumption
         DEF Closed, GoTo, GoToThen, Stays, infoVars, commitVars, lockVars,
            IInv, Typed, InLock, InTransaction, Resolved, OnlyTransaction,
            ThenTransaction, InScheduler, Process, threadVars
    <2> QED
      BY <2>0, <2>1, <2>2, <2>3, <2>4, LockKeeps DEF IInv, Transactions
  <1>29. ASSUME NEW t \in Thread, Schedule(t)
        PROVE  Transactions'
    <2>0. InLock(t) /\ t \in Process
      BY DEF IInv, Transactions, Process
    <2>1. \A s \in Thread : s # t => pc'[s] = pc[s] /\ then'[s] = then[s]
      BY <1>29, MergesAssumption
         DEF Schedule, GoTo, GoToThen, Stays, Continuations, IInv, Typed,
            Process, threadVars
    <2>2. UNCHANGED <<writeThread, localRollbackSegmentInfos,
                      rollbackSegmentInfos>>
      BY <1>29
         DEF Schedule, GoTo, GoToThen, Stays, Continuations, infoVars,
            commitVars, lockVars
    <2>3. UNCHANGED segmentInfos
      BY <1>29
         DEF Schedule, GoTo, GoToThen, Stays, Continuations, infoVars,
            commitVars, lockVars
    <2>4. InLock(t)'
      BY <1>29, <2>0, <2>2, <2>3, MergesAssumption, ZenonT(40)
         DEF Schedule, GoTo, GoToThen, Stays, Continuations, infoVars,
            commitVars, lockVars, IInv, Typed, InLock, InTransaction,
            Resolved, OnlyTransaction, ThenTransaction, InScheduler, Process,
            threadVars
    <2> QED
      BY <2>0, <2>1, <2>2, <2>3, <2>4, LockKeeps DEF IInv, Transactions
  <1>30. ASSUME NEW t \in Thread, NEW m \in MergeThread, StartThread(t, m)
        PROVE  Transactions'
    <2>0. InLock(t) /\ t \in Process /\ m \notin Thread /\ m # t
      BY MergesAssumption DEF IInv, Transactions, Process
    <2>1. /\ \A s \in Thread : s # t => pc'[s] = pc[s] /\ then'[s] = then[s]
          /\ pc[t] = "stall" /\ pc'[t] = "schedule" /\ UNCHANGED then
      BY <1>30, <2>0, MergesAssumption
         DEF StartThread, IInv, Typed, Process
    <2>2. UNCHANGED <<writeThread, localRollbackSegmentInfos,
                      rollbackSegmentInfos, segmentInfos>>
      BY <1>30 DEF StartThread, infoVars, commitVars, lockVars
    <2>3. InLock(t)'
      BY <2>0, <2>1, <2>2
         DEF InLock, InTransaction, Resolved, OnlyTransaction, InScheduler
    <2> QED
      BY <2>0, <2>1, <2>2, <2>3, LockKeeps DEF IInv, Transactions
  <1>31. ASSUME NEW p \in Process, MergeInit(p)
        PROVE  Transactions'
    <2>0. p \in Thread => InLock(p)
      BY DEF IInv, Transactions
    <2>1. \A s \in Thread : s # p => pc'[s] = pc[s] /\ then'[s] = then[s]
      BY <1>31, MergesAssumption
         DEF MergeInit, Fails, Throws, GoTo, GoToThen, Stays, IInv, Typed,
            Process, threadVars
    <2>2. UNCHANGED <<writeThread, localRollbackSegmentInfos,
                      rollbackSegmentInfos, segmentInfos, then>>
      BY <1>31
         DEF MergeInit, commitVars, lockVars
    <2>3. /\ pc[p] \in {"scheduleInit", "init"}
          /\ p \in Thread =>
                \/ pc'[p] = (IF pc[p] = "scheduleInit" THEN "stall" ELSE "work")
                \/ pc'[p] = Throws(p)
      BY <1>31, MergesAssumption DEF MergeInit, GoTo, Fails, IInv, Typed
    <2>4. p \in Thread => InLock(p)'
      BY <2>0, <2>2, <2>3
         DEF InLock, InTransaction, Resolved, OnlyTransaction, ThenTransaction,
             InScheduler, Throws
    <2> QED
      BY <2>1, <2>2, <2>4, LockKeeps DEF IInv, Transactions
  <1>32. ASSUME NEW p \in Process, MergeMiddle(p)
        PROVE  Transactions'
    <2>0. p \in Thread => InLock(p)
      BY DEF IInv, Transactions
    <2>1. \A s \in Thread : s # p => pc'[s] = pc[s] /\ then'[s] = then[s]
      BY <1>32, MergesAssumption
         DEF MergeMiddle, GoTo, GoToThen, Stays, IInv, Typed, Process,
            threadVars
    <2>2. UNCHANGED <<writeThread, localRollbackSegmentInfos,
                      rollbackSegmentInfos>>
      BY <1>32
         DEF MergeMiddle, GoTo, GoToThen, Stays, infoVars, commitVars,
            lockVars
    <2>3. UNCHANGED segmentInfos
      BY <1>32
         DEF MergeMiddle, GoTo, GoToThen, Stays, infoVars, commitVars,
            lockVars
    <2>4. p \in Thread => InLock(p)'
      BY <1>32, <2>0, <2>2, <2>3, MergesAssumption
         DEF MergeMiddle, GoTo, GoToThen, Stays, infoVars, commitVars,
            lockVars, IInv, Typed, InLock, InTransaction, Resolved,
            OnlyTransaction, ThenTransaction, InScheduler, Process, threadVars
    <2> QED
      BY <2>0, <2>1, <2>2, <2>3, <2>4, LockKeeps DEF IInv, Transactions
  <1>33. ASSUME NEW p \in Process, CommitMerge(p)
        PROVE  Transactions'
    <2>0. p \in Thread => InLock(p)
      BY DEF IInv, Transactions
    <2>1. \A s \in Thread : s # p => pc'[s] = pc[s] /\ then'[s] = then[s]
      BY <1>33, MergesAssumption
         DEF CommitMerge, GoTo, GoToThen, Stays, IInv, Typed, Process,
            threadVars
    <2>2. UNCHANGED <<writeThread, localRollbackSegmentInfos,
                      rollbackSegmentInfos, then>>
      BY <1>33
         DEF CommitMerge, commitVars, lockVars
    <2>3. ExternalIn(segmentInfos)' => ExternalIn(segmentInfos)
      <3>1. CASE UNCHANGED segmentInfos
        BY <3>1
      <3>2. CASE /\ pc[p] = "commitMerge" /\ ~MergeOf(p).aborted
                 /\ Contiguous(MergeOf(p).segs, segmentInfos)
                 /\ segmentInfos' = WithMerged(segmentInfos, MergeOf(p))
        BY <3>2, MergeIsNamed, WithMergedIs DEF IInv, AllNamed, Named
      <3> QED
        BY <1>33, <3>1, <3>2 DEF CommitMerge
    <2>4. pc[p] = "commitMerge" /\ pc'[p] \in {"merged", "mergeFailed"}
      BY <1>33 DEF CommitMerge, GoTo, IInv, Typed
    <2>5. p \in Thread => InLock(p)'
      BY <2>0, <2>2, <2>3, <2>4
         DEF InLock, InTransaction, Resolved, OnlyTransaction, ThenTransaction,
             InScheduler
    <2> QED
      BY <2>1, <2>2, <2>3, <2>5, LockKeeps DEF IInv, Transactions
  <1>34. ASSUME NEW p \in Process, MergeDone(p)
        PROVE  Transactions'
    <2>0. p \in Thread => InLock(p)
      BY DEF IInv, Transactions
    <2>1. \A s \in Thread : s # p => pc'[s] = pc[s] /\ then'[s] = then[s]
      BY <1>34, MergesAssumption
         DEF MergeDone, GoTo, GoToThen, Stays, IInv, Typed, Process,
            threadVars
    <2>2. UNCHANGED <<writeThread, localRollbackSegmentInfos,
                      rollbackSegmentInfos>>
      BY <1>34
         DEF MergeDone, GoTo, GoToThen, Stays, infoVars, commitVars, lockVars
    <2>3. UNCHANGED segmentInfos
      BY <1>34
         DEF MergeDone, GoTo, GoToThen, Stays, infoVars, commitVars, lockVars
    <2>4. p \in Thread => InLock(p)'
      BY <1>34, <2>0, <2>2, <2>3, MergesAssumption
         DEF MergeDone, GoTo, GoToThen, Stays, infoVars, commitVars, lockVars,
            IInv, Typed, InLock, InTransaction, Resolved, OnlyTransaction,
            ThenTransaction, InScheduler, Process, threadVars
    <2> QED
      BY <2>0, <2>1, <2>2, <2>3, <2>4, LockKeeps DEF IInv, Transactions
  <1>35. ASSUME NEW p \in Process, MergeFailed(p)
        PROVE  Transactions'
    <2>0. p \in Thread => InLock(p)
      BY DEF IInv, Transactions
    <2>1. \A s \in Thread : s # p => pc'[s] = pc[s] /\ then'[s] = then[s]
      BY <1>35, MergesAssumption
         DEF MergeFailed, Fails, Throws, GoTo, GoToThen, Stays, IInv, Typed,
            Process, threadVars
    <2>2. UNCHANGED <<writeThread, localRollbackSegmentInfos,
                      rollbackSegmentInfos>>
      BY <1>35
         DEF MergeFailed, Fails, Throws, GoTo, GoToThen, Stays, infoVars,
            commitVars, lockVars
    <2>3. UNCHANGED segmentInfos
      BY <1>35
         DEF MergeFailed, Fails, Throws, GoTo, GoToThen, Stays, infoVars,
            commitVars, lockVars
    <2>4. p \in Thread => InLock(p)'
      BY <1>35, <2>0, <2>2, <2>3, MergesAssumption
         DEF MergeFailed, Fails, Throws, GoTo, GoToThen, Stays, infoVars,
            commitVars, lockVars, IInv, Typed, InLock, InTransaction,
            Resolved, OnlyTransaction, ThenTransaction, InScheduler, Process,
            threadVars
    <2> QED
      BY <2>0, <2>1, <2>2, <2>3, <2>4, LockKeeps DEF IInv, Transactions
  <1>36. ASSUME NEW m \in MergeThread, NextMerge(m)
        PROVE  Transactions'
    <2>0. m \in Process /\ m \notin Thread
      BY MergesAssumption DEF Process
    <2>1. \A s \in Thread : s # m => pc'[s] = pc[s] /\ then'[s] = then[s]
      BY <1>36, MergesAssumption
         DEF NextMerge, GoTo, GoToThen, Stays, IInv, Typed, Process,
            threadVars
    <2>2. UNCHANGED <<writeThread, localRollbackSegmentInfos,
                      rollbackSegmentInfos>>
      BY <1>36
         DEF NextMerge, GoTo, GoToThen, Stays, infoVars, commitVars, lockVars
    <2>3. UNCHANGED segmentInfos
      BY <1>36
         DEF NextMerge, GoTo, GoToThen, Stays, infoVars, commitVars, lockVars
    <2> QED
      BY <2>0, <2>1, <2>2, <2>3, LockKeeps DEF IInv, Transactions
  <1>37. CASE UNCHANGED vars
    BY <1>37, MergesAssumption
      DEF vars, infoVars, commitVars, optVars, closeVars, lockVars,
         threadVars, IInv, Typed, Transactions, InLock, InTransaction,
         Resolved, OnlyTransaction, ThenTransaction, InScheduler, Process
  <1> QED
    BY <1>1, <1>2, <1>3, <1>4, <1>5, <1>6, <1>7, <1>8, <1>9, <1>10, <1>11,
       <1>12, <1>13, <1>14, <1>15, <1>16, <1>17, <1>18, <1>19, <1>20, <1>21,
       <1>22, <1>23, <1>24, <1>25, <1>26, <1>27, <1>28, <1>29, <1>30, <1>31,
       <1>32, <1>33, <1>34, <1>35, <1>36, <1>37
      DEF Next, CallStep, MergeStep, Process

-----------------------------------------------------------------------------
(***************************************************************************)
(* The theorems.                                                           *)
(***************************************************************************)
\* The registry with no merge.
LEMMA NoMergesInv ==
    ASSUME NEW n \in Nat
    PROVE  RegInv(NoMerges, n)
  <1>1. /\ NoMerges.merges = <<>> /\ DOMAIN NoMerges.merges = {}
        /\ NoMerges.pending = <<>> /\ NoMerges.running = {}
        /\ NoMerges.merging = {}
    BY DEF NoMerges
  <1>2. RegTyped(NoMerges)
    <2>1. NoMerges.merges \in [{} -> Merge]
      BY <1>1
    <2>2. <<>> \in Seq({})
      OBVIOUS
    <2> QED
      BY <1>1, <2>1, <2>2 DEF RegTyped, NoMerges
  <1>3. RegQueued(NoMerges)
    BY <1>1 DEF RegQueued, ToSet
  <1> QED
    BY <1>1, <1>2, <1>3 DEF RegInv, RegNamed, RegMerging, RegDisjoint

\* The writer is opened on the segments of the last commit.
LEMMA InitInv ==
    ASSUME Init
    PROVE  IInv
  <1>1. /\ segmentInfos \in Seq(Info) /\ Names(segmentInfos) = 1..Existing
        /\ ~ExternalIn(segmentInfos)
    <2> DEFINE info(i) == [name |-> i, docs |-> <<i>>, ext |-> FALSE]
    <2>1. ASSUME NEW i \in 1..Existing
          PROVE  info(i) \in Info /\ info(i).name = i /\ ~info(i).ext
      <3>1. i \in Nat /\ <<i>> \in Seq(Nat)
        BY MergesAssumption
      <3> QED
        BY <3>1 DEF Info
    <2> HIDE DEF info
    <2>2. segmentInfos = [i \in 1..Existing |-> info(i)] /\ Existing \in Nat
      BY MergesAssumption DEF Init, info
    <2>3. segmentInfos \in Seq(Info)
      BY <2>1, <2>2
    <2>4. Names(segmentInfos) = 1..Existing /\ ~ExternalIn(segmentInfos)
      BY <2>1, <2>2 DEF Names, ExternalIn
    <2> QED
      BY <2>3, <2>4
  <1>2. Typed
    <2>1. /\ {counter, buffered, added, mergeGen, optimizeMaxNumSegments}
                \subseteq Nat
          /\ {dirty, mergeExceptions, stopMerges, closing, closed, docClosed}
                \subseteq BOOLEAN
          /\ writeThread \in Thread \cup {None}
      <3>1. /\ counter = Existing /\ added = Existing /\ Existing \in Nat
            /\ buffered = 0 /\ mergeGen = 0 /\ optimizeMaxNumSegments = 0
            /\ writeThread = None
            /\ ~dirty /\ ~mergeExceptions /\ ~stopMerges /\ ~closing /\ ~closed
            /\ ~docClosed
        BY MergesAssumption DEF Init
      <3>2. /\ {dirty, mergeExceptions, stopMerges} \subseteq BOOLEAN
            /\ {closing, closed, docClosed} \subseteq BOOLEAN
        BY DEF Init
      <3> QED
        BY <3>1, <3>2
    <2>5. calls \in 0..MaxCalls
      BY MergesAssumption DEF Init
    <2>4. /\ pc = [p \in Process |-> pc[p]]
          /\ merge = [p \in Process |-> merge[p]]
      BY DEF Init
    <2>2. /\ op \in [Thread -> Calls \cup {"none"}]
          /\ then \in [Thread -> Continuations]
      BY DEF Init, Continuations
    <2>3. existing \in [Thread -> Seq(Nat)]
      BY DEF Init
    <2> QED
      BY <2>1, <2>2, <2>3, <2>4, <2>5 DEF Typed
  <1>3. AllNamed
    <2>1. counter = Existing /\ rollbackSegmentInfos = segmentInfos
          /\ localRollbackSegmentInfos = <<>>
      BY DEF Init
    <2> QED
      BY <1>1, <2>1, NoInfos DEF AllNamed, Named
  <1>4. RegInv(reg, counter)
    BY MergesAssumption, NoMergesInv DEF Init
  <1>5. ProcInv
    <2>1. /\ \A p \in Process : merge[p] = None /\ pc[p] \in {"idle", "dead"}
      BY DEF Init
    <2> QED
      BY <2>1 DEF ProcInv, Merging, Begins, Goes
  <1>6. Upgrading
    BY DEF Init, Upgrading
  <1>7. Paused
    <2>1. pauseThreads = 0 /\ \A t \in Thread : op[t] = "none"
      BY DEF Init
    <2>2. {t \in Thread : Owes(t)} = {}
      BY <2>1 DEF Owes, AddIndexes, Closing
    <2>3. Cardinality({}) = 0
      BY FS_EmptySet
    <2> QED
      BY <2>1, <2>2, <2>3 DEF Paused
  <1>8. Transactions
    <2>1. /\ writeThread = None /\ rollbackSegmentInfos = segmentInfos
          /\ localRollbackSegmentInfos = <<>>
          /\ \A t \in Thread : pc[t] = "idle" /\ then[t] = "return"
      BY DEF Init, Process
    <2>2. \A t \in Thread : InLock(t)
      BY <2>1, MergesAssumption
         DEF InLock, InTransaction, Resolved, OnlyTransaction, ThenTransaction,
             InScheduler, None
    <2> QED
      BY <1>1, <2>1, <2>2, NoInfos DEF Transactions
  <1> QED
    BY <1>2, <1>3, <1>4, <1>5, <1>6, <1>7, <1>8 DEF IInv

\* A pending sequence without repetition is as long as it has elements.
LEMMA LenIsCardinality ==
    ASSUME NEW S, NEW s \in Seq(S),
           \A i, j \in DOMAIN s : s[i] = s[j] => i = j
    PROVE  Len(s) = Cardinality(ToSet(s))
  <1>1. Len(s) \in Nat /\ DOMAIN s = 1..Len(s)
    OBVIOUS
  <1>2. s \in Bijection(1..Len(s), ToSet(s))
    <2>1. s \in [1..Len(s) -> ToSet(s)]
      BY <1>1 DEF ToSet
    <2>2. s \in Injection(1..Len(s), ToSet(s))
      BY <1>1, <2>1 DEF Injection, IsInjective
    <2>3. s \in Surjection(1..Len(s), ToSet(s))
      BY <1>1, <2>1 DEF Surjection, ToSet
    <2> QED
      BY <2>2, <2>3 DEF Bijection
  <1>3. ExistsBijection(1..Len(s), ToSet(s))
    BY <1>2 DEF ExistsBijection
  <1> QED
    BY <1>1, <1>3, FS_CountingElements

\* The inductive invariant holds in every state that the calls and the merge
\* threads reach together: of the registry and of who runs which merge, of the
\* names of segments, of the lock that addIndexes takes and of who is to resume
\* the indexing threads.
THEOREM Invariant == Spec => []IInv
  <1>1. Init => IInv
    BY InitInv
  <1>2. IInv /\ [Next]_vars => IInv'
    <2> SUFFICES ASSUME IInv, [Next]_vars PROVE IInv'
      OBVIOUS
    <2>1. Typed'
      BY TypedStep
    <2>2. AllNamed'
      BY NamedStep
    <2>3. RegInv(reg', counter') /\ ProcInv'
      BY RegStep
    <2>4. Upgrading'
      BY UpgradingStep
    <2>5. Paused'
      BY PausedStep
    <2>6. Transactions'
      BY TransactionsStep
    <2> QED
      BY <2>1, <2>2, <2>3, <2>4, <2>5, <2>6 DEF IInv
  <1> QED
    BY <1>1, <1>2, PTL DEF Spec

\* registerMerge, mergeInit, mergeFinish, finishMerges and
\* resolveExternalSegments keep pendingMerges, runningMerges and
\* mergingSegments consistent, whichever threads run them and in whatever
\* order: a merge is in one of the two, once, its segments are reserved until
\* it has finished, and no segment is in two merges.
THEOREM RegistryIsConsistent == Spec => []RegistryConsistent
  <1>1. IInv => RegistryConsistent
    <2> SUFFICES ASSUME IInv PROVE RegistryConsistent
      OBVIOUS
    <2>1. RegInv(reg, counter) /\ ProcInv
      BY DEF IInv
    <2>2. Len(reg.pending) = Cardinality(ToSet(reg.pending))
      BY <2>1, LenIsCardinality DEF RegInv, RegTyped, RegQueued
    <2> QED
      BY <2>1, <2>2
         DEF RegInv, RegQueued, RegMerging, RegDisjoint, ProcInv,
             RegistryConsistent
  <1> QED
    BY <1>1, Invariant, PTL

\* The types of the variables; no name of a segment is used that was not given
\* to one, and a call that upgrades its lock in upgradeReadToWrite still reads.
THEOREM TypeCorrect == Spec => []TypeOK
  <1>1. IInv => TypeOK
    <2> SUFFICES ASSUME IInv PROVE TypeOK
      OBVIOUS
    <2>1. counter \in Nat /\ RegInv(reg, counter) /\ ProcInv /\ Typed /\ AllNamed
          /\ Upgrading /\ Paused
      BY DEF IInv, Typed
    <2>2. /\ {segmentInfos, rollbackSegmentInfos, localRollbackSegmentInfos}
                \subseteq Infos
          /\ Names(segmentInfos) \subseteq 1..counter
      BY <2>1 DEF AllNamed, Named, Infos, Info
    <2>3. reg.merging \subseteq 1..counter
      <3>1. ASSUME NEW id \in DOMAIN reg.merges
            PROVE  /\ Names(reg.merges[id].segs) \subseteq 1..counter
                   /\ reg.merges[id].info # None
                         => reg.merges[id].info \in 1..counter
        BY <2>1 DEF RegInv, RegNamed, None
      <3> QED
        BY <2>1, <3>1 DEF RegInv, RegMerging
    <2>4. merge \in [Process -> Nat]
      <3>1. ASSUME NEW p \in Process PROVE merge[p] \in Nat
        <4>1. merge[p] \in reg.running \cup {None}
          BY <2>1 DEF ProcInv
        <4>2. CASE merge[p] \in reg.running
          BY <2>1, <4>2, RegIds
        <4> QED
          BY <4>1, <4>2 DEF None
      <3>2. merge = [p \in Process |-> merge[p]]
        BY <2>1 DEF Typed
      <3> QED
        BY <3>1, <3>2
    <2> QED
      BY <2>1, <2>2, <2>3, <2>4 DEF Typed, Upgrading, Paused, TypeOK
  <1> QED
    BY <1>1, Invariant, PTL

\* Whoever adds segments of another directory has the write lock until all of
\* them were copied or are gone, so that no commit, which waits for the lock,
\* has any: what startCommit asserts of hasExternalSegments.
THEOREM NoExternalCommitted == Spec => []NoExternal
  <1>1. IInv => NoExternal
    BY DEF IInv, Transactions, NoExternal
  <1> QED
    BY <1>1, Invariant, PTL
===============================================================================
