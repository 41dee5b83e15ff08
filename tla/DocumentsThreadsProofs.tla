------------------------ MODULE DocumentsThreadsProofs ------------------------
(***************************************************************************)
(* Proofs about WaitQueue and DocumentsThreads, for any number of threads, *)
(* of calls and of thread states, and for a ring of any size: first the    *)
(* ring by itself, then the threads that share it.                         *)
(***************************************************************************)
EXTENDS DocumentsThreads, WellFoundedInduction, FiniteSetTheorems,
        SequenceTheorems, TLAPS

-----------------------------------------------------------------------------
(***************************************************************************)
(* The ring: add puts a document in the place its number stands for and    *)
(* nowhere else, whether the ring wraps around, grows or writes what       *)
(* waits; and the counters stay exact.  The queues these proofs are about: *)
(***************************************************************************)
RingOf(n) == [waiting: [0..n - 1 -> Int], nextWriteDocID: Nat,
              nextWriteLoc: 0..n - 1, numWaiting: Int, waitingBytes: Int]

\* A queue, of whichever size
Ring == UNION {RingOf(n) : n \in Nat \ {0}}

Used(q) == {i \in DOMAIN q.waiting : q.waiting[i] # NoDoc}

\* The slots whose documents take memory
Heavy(q) == {i \in DOMAIN q.waiting :
               q.waiting[i] # NoDoc /\ q.waiting[i] # SkipDoc}

\* The counters of a queue agree with its slots
Counted(q) == /\ q.numWaiting = Cardinality(Used(q))
              /\ q.waitingBytes = Cardinality(Heavy(q))

\* The slot of the next document is free
NextFree(q) == q.waiting[q.nextWriteLoc] = NoDoc

\* The document with a number, where s has been written and q waits
ContentOf(s, q, id) == IF id < Len(s) THEN s[id + 1] ELSE WaitingDoc(q, id)

-----------------------------------------------------------------------------
\* A set of natural numbers that is not empty has a least element.
LEMMA LeastNat ==
    ASSUME NEW S \in SUBSET Nat, S # {}
    PROVE  \E m \in S : \A k \in S : m <= k
<1> DEFINE R == {ss \in Nat \X Nat : ss[1] < ss[2]}
<1>1. IsWellFoundedOn(R, Nat)
  BY NatLessThanWellFounded, Zenon DEF OpToRel
<1>2. \A x, y \in Nat : x < y => <<x, y>> \in R
  OBVIOUS
<1> HIDE DEF R
<1>3. PICK m \in S : \A y \in S : <<y, m>> \notin R
  BY <1>1, WFMin, Zenon
<1>4. \A y \in S : ~(y < m)
  BY <1>2, <1>3
<1> QED
  BY <1>4

\* The size of a queue is that of its ring.
LEMMA RingSize ==
    ASSUME NEW q \in Ring
    PROVE  /\ Size(q) \in Nat \ {0}
           /\ q \in RingOf(Size(q))
           /\ DOMAIN q.waiting = 0..Size(q) - 1
<1>1. PICK n \in Nat \ {0} : q \in RingOf(n)
  BY DEF Ring
<1>2. DOMAIN q.waiting = 0..n - 1
  BY <1>1 DEF RingOf
<1>3. Cardinality(0..n - 1) = n
  BY FS_Interval
<1> QED
  BY <1>1, <1>2, <1>3 DEF Size

\* Conversely, a record of this type is a queue.
LEMMA RingIntro ==
    ASSUME NEW n \in Nat \ {0}, NEW q \in RingOf(n)
    PROVE  q \in Ring /\ Size(q) = n
<1>1. DOMAIN q.waiting = 0..n - 1
  BY DEF RingOf
<1>2. Cardinality(0..n - 1) = n
  BY FS_Interval
<1> QED
  BY <1>1, <1>2 DEF Ring, Size

\* Slot turns the numbers from the next one on into the slots of the ring,
\* each into one of its own.
LEMMA Slots ==
    ASSUME NEW q \in Ring
    PROVE  /\ \A g \in 0..Size(q) : Slot(q, g) \in 0..Size(q) - 1
           /\ Slot(q, 0) = q.nextWriteLoc
           /\ \A g, h \in 0..Size(q) - 1 : Slot(q, g) = Slot(q, h) => g = h
           /\ \A i \in 0..Size(q) - 1 : \E g \in 0..Size(q) - 1 : Slot(q, g) = i
<1> USE RingSize
<1>1. q.nextWriteLoc \in 0..Size(q) - 1
  BY DEF RingOf
<1>2. ASSUME NEW i \in 0..Size(q) - 1
      PROVE  \E g \in 0..Size(q) - 1 : Slot(q, g) = i
  <2>1. CASE i >= q.nextWriteLoc
    <3>1. i - q.nextWriteLoc \in 0..Size(q) - 1 /\ Slot(q, i - q.nextWriteLoc) = i
      BY <1>1, <2>1 DEF Slot
    <3> QED
      BY <3>1
  <2>2. CASE i < q.nextWriteLoc
    <3> DEFINE g == i - q.nextWriteLoc + Size(q)
    <3>1. g \in 0..Size(q) - 1 /\ Slot(q, g) = i
      BY <1>1, <2>2 DEF Slot
    <3> QED
      BY <3>1
  <2> QED
    BY <1>1, <2>1, <2>2
<1>3. \A g \in 0..Size(q) : Slot(q, g) \in 0..Size(q) - 1
  BY <1>1 DEF Slot
<1>4. Slot(q, 0) = q.nextWriteLoc
  BY <1>1 DEF Slot
<1>5. \A g, h \in 0..Size(q) - 1 : Slot(q, g) = Slot(q, h) => g = h
  BY <1>1 DEF Slot
<1> QED
  BY <1>2, <1>3, <1>4, <1>5

\* What Behind returns: the documents up to the first empty slot, or all
\* that the ring holds.
LEMMA BehindRun ==
    ASSUME NEW q \in Ring
    PROVE  LET n == Len(Behind(q))
           IN  /\ n \in 0..Size(q) - 1
               /\ Behind(q) = [j \in 1..n |-> q.waiting[Slot(q, j)]]
               /\ Behind(q) \in Seq(Int)
               /\ \A j \in 1..n : q.waiting[Slot(q, j)] # NoDoc
               /\ n # Size(q) - 1 => q.waiting[Slot(q, n + 1)] = NoDoc
<1> USE RingSize
<1> DEFINE full(k) == \A j \in 1..k : q.waiting[Slot(q, j)] # NoDoc
           last(k) == full(k) /\ (k = Size(q) - 1 \/ ~full(k + 1))
           n == CHOOSE k \in 0..Size(q) - 1 : last(k)
           S == {k \in 0..Size(q) - 1 : k = Size(q) - 1 \/ ~full(k + 1)}
<1>1. \E k \in 0..Size(q) - 1 : last(k)
  <2>1. S \in SUBSET Nat /\ Size(q) - 1 \in S
    OBVIOUS
  <2>2. PICK m \in S : \A k \in S : m <= k
    BY <2>1, LeastNat
  <2>3. ASSUME NEW j \in 1..m PROVE q.waiting[Slot(q, j)] # NoDoc
    <3>1. j - 1 \in 0..Size(q) - 1 /\ j - 1 \notin S
      BY <2>2
    <3>2. full(j - 1 + 1)
      BY <3>1
    <3> QED
      BY <3>2
  <2> QED
    BY <2>2, <2>3
<1> HIDE DEF last
<1>2. n \in 0..Size(q) - 1 /\ last(n)
  BY <1>1
<1>3. Behind(q) = [j \in 1..n |-> q.waiting[Slot(q, j)]]
  BY DEF Behind, last
<1> HIDE DEF n
<1>4. Len(Behind(q)) = n
  BY <1>2, <1>3
<1>5. \A j \in 1..n : Slot(q, j) \in 0..Size(q) - 1
  BY <1>2, Slots, SMTT(30)
<1>6. Behind(q) \in Seq(Int)
  BY <1>2, <1>3, <1>5 DEF RingOf
<1> QED
  BY <1>2, <1>3, <1>4, <1>6 DEF last

-----------------------------------------------------------------------------
(***************************************************************************)
(* writeDocument.                                                          *)
(***************************************************************************)
\* The slots of the next documents are as many as the documents.
LEMMA SlotsCount ==
    ASSUME NEW q \in Ring, NEW taken \in 0..Size(q) - 1
    PROVE  LET slots == {Slot(q, j) : j \in 1..taken}
           IN  /\ slots \subseteq 0..Size(q) - 1
               /\ IsFiniteSet(slots) /\ Cardinality(slots) = taken
<1> DEFINE slots == {Slot(q, j) : j \in 1..taken}
           f == [j \in 1..taken |-> Slot(q, j)]
<1>1. Size(q) \in Nat \ {0}
  BY RingSize
<1>2. slots \subseteq 0..Size(q) - 1
  BY <1>1, Slots
<1>3. f \in Bijection(1..taken, slots)
  <2>1. \A i, j \in 1..taken : Slot(q, i) = Slot(q, j) => i = j
    BY <1>1, Slots
  <2>2. f \in Injection(1..taken, slots)
    BY <2>1 DEF Injection, IsInjective
  <2>3. f \in Surjection(1..taken, slots)
    BY DEF Surjection
  <2> QED
    BY <2>2, <2>3 DEF Bijection
<1>4. IsFiniteSet(1..taken) /\ Cardinality(1..taken) = taken
  BY <1>1, FS_Interval
<1>5. ExistsBijection(1..taken, slots)
  BY <1>3 DEF ExistsBijection
<1> HIDE DEF slots, f
<1>6. IsFiniteSet(slots) /\ Cardinality(slots) = taken
  BY <1>4, <1>5, FS_Bijection
<1> QED
  BY <1>2, <1>6 DEF slots

\* The slots in use are finitely many.
LEMMA UsedFinite ==
    ASSUME NEW q \in Ring
    PROVE  /\ IsFiniteSet(Used(q)) /\ IsFiniteSet(Heavy(q))
           /\ Cardinality(Used(q)) \in Nat /\ Cardinality(Heavy(q)) \in Nat
<1>1. Size(q) \in Nat \ {0} /\ DOMAIN q.waiting = 0..Size(q) - 1
  BY RingSize
<1>2. IsFiniteSet(DOMAIN q.waiting)
  BY <1>1, FS_Interval
<1>3. Used(q) \in SUBSET DOMAIN q.waiting /\ Heavy(q) \in SUBSET DOMAIN q.waiting
  BY DEF Used, Heavy
<1> QED
  BY <1>2, <1>3, FS_Subset, FS_CardinalityType

\* The documents that writeDocument takes off the ring leave the rest where
\* it is, the counters exact and the slot of the next document free.
LEMMA AdvanceRing ==
    ASSUME NEW q \in Ring, Counted(q), NextFree(q),
           NEW taken \in 0..Size(q) - 1, NEW written \in Nat,
           \A j \in 1..taken : q.waiting[Slot(q, j)] # NoDoc,
           \/ written = taken
           \/ /\ written = taken + 1
              /\ \/ taken = Size(q) - 1
                 \/ q.waiting[Slot(q, taken + 1)] = NoDoc
    PROVE  LET a == Advance(q, taken, written)
           IN  /\ a \in Ring /\ Size(a) = Size(q)
               /\ Counted(a) /\ NextFree(a)
               /\ a.nextWriteDocID = q.nextWriteDocID + written
               /\ a.nextWriteLoc = Slot(q, written)
               /\ \A g \in 0..Size(q) - 1 :
                     a.waiting[Slot(q, g)] =
                        IF g \in 1..taken THEN NoDoc ELSE q.waiting[Slot(q, g)]
<1> DEFINE a == Advance(q, taken, written)
           slots == {Slot(q, j) : j \in 1..taken}
           heavy == {i \in slots : q.waiting[i] # SkipDoc}
<1>1. /\ Size(q) \in Nat \ {0} /\ q \in RingOf(Size(q))
      /\ DOMAIN q.waiting = 0..Size(q) - 1
  BY RingSize
<1>2. /\ slots \subseteq 0..Size(q) - 1 /\ IsFiniteSet(slots)
      /\ Cardinality(slots) = taken
  BY SlotsCount
<1>3. /\ a.waiting = [i \in DOMAIN q.waiting |->
                        IF i \in slots THEN NoDoc ELSE q.waiting[i]]
      /\ a.nextWriteDocID = q.nextWriteDocID + written
      /\ a.nextWriteLoc = Slot(q, written)
      /\ a.numWaiting = q.numWaiting - taken
      /\ a.waitingBytes = q.waitingBytes - Cardinality(heavy)
  BY DEF Advance
<1>4. Slot(q, written) \in 0..Size(q) - 1
  <2> written \in 0..Size(q)
    BY <1>1
  <2> QED
    BY Slots
<1>5. \A i \in slots : i \in Used(q)
  BY <1>1, <1>2 DEF Used
<1>6. heavy = Heavy(q) \cap slots /\ slots = Used(q) \cap slots
  BY <1>5 DEF Used, Heavy
<1>7. Used(a) = Used(q) \ slots /\ Heavy(a) = Heavy(q) \ slots
  BY <1>3 DEF Used, Heavy
<1>8. /\ Cardinality(Used(a)) = Cardinality(Used(q)) - taken
      /\ Cardinality(Heavy(a)) = Cardinality(Heavy(q)) - Cardinality(heavy)
      /\ Cardinality(Used(a)) \in Nat /\ Cardinality(Heavy(a)) \in Nat
  <2> HIDE DEF slots, heavy, a
  <2>1. IsFiniteSet(Used(q)) /\ IsFiniteSet(Heavy(q))
    BY UsedFinite
  <2>2. IsFiniteSet(Used(a)) /\ IsFiniteSet(Heavy(a))
    BY <1>7, <2>1, FS_Difference
  <2> QED
    BY <1>2, <1>6, <1>7, <2>1, <2>2, FS_Difference, FS_CardinalityType, ZenonT(60)
<1>9. Counted(a)
  BY <1>3, <1>8 DEF Counted
<1>10. a \in RingOf(Size(q))
  <2>1. a.waiting \in [0..Size(q) - 1 -> Int]
    BY <1>1, <1>3 DEF RingOf, NoDoc
  <2>2. a.numWaiting \in Int /\ a.waitingBytes \in Int
    BY <1>8, <1>9 DEF Counted
  <2>3. a.nextWriteDocID \in Nat
    BY <1>1, <1>3 DEF RingOf
  <2>4. a = [waiting |-> a.waiting, nextWriteDocID |-> a.nextWriteDocID,
             nextWriteLoc |-> a.nextWriteLoc, numWaiting |-> a.numWaiting,
             waitingBytes |-> a.waitingBytes]
    BY DEF Advance
  <2> HIDE DEF a
  <2> QED
    BY <1>3, <1>4, <2>1, <2>2, <2>3, <2>4 DEF RingOf
<1>11. a \in Ring /\ Size(a) = Size(q)
  BY <1>1, <1>10, RingIntro
<1>12. \A g \in 0..Size(q) - 1 :
          a.waiting[Slot(q, g)] =
             IF g \in 1..taken THEN NoDoc ELSE q.waiting[Slot(q, g)]
  <2> TAKE g \in 0..Size(q) - 1
  <2>1. g \in 0..Size(q) /\ 1..taken \subseteq 0..Size(q) - 1
    BY <1>1
  <2>2. Slot(q, g) \in DOMAIN q.waiting
    <3> HIDE DEF a, slots, heavy
    <3> QED
      BY <1>1, <2>1, Slots
  <2>3. \A j \in 1..taken : Slot(q, g) = Slot(q, j) => g = j
    <3> HIDE DEF a, slots, heavy
    <3> QED
      BY <2>1, Slots
  <2>4. Slot(q, g) \in slots <=> g \in 1..taken
    BY <2>3
  <2> QED
    BY <1>3, <2>2, <2>4
<1>13. NextFree(a)
  <2>1. SUFFICES a.waiting[Slot(q, written)] = NoDoc
    BY <1>3 DEF NextFree
  <2>2. q.waiting[Slot(q, 0)] = NoDoc
    BY Slots DEF NextFree
  <2> HIDE DEF a, slots, heavy
  <2>3. CASE written = taken
    <3>1. written \in 0..Size(q) - 1
      BY <1>1, <2>3
    <3> QED
      BY <1>12, <2>2, <2>3, <3>1
  <2>4. CASE /\ written = taken + 1 /\ taken # Size(q) - 1
             /\ q.waiting[Slot(q, taken + 1)] = NoDoc
    <3>1. written \in 0..Size(q) - 1 /\ written \notin 1..taken
      BY <1>1, <2>4
    <3>2. q.waiting[Slot(q, written)] = NoDoc
      BY <2>4
    <3> QED
      BY <1>12, <3>1, <3>2
  <2>5. CASE written = taken + 1 /\ taken = Size(q) - 1
    <3>1. Slot(q, written) = Slot(q, 0)
      BY <1>1, <2>5, SMTT(30) DEF Slot, RingOf
    <3>2. 0 \in 0..Size(q) - 1 /\ 0 \notin 1..taken
      BY <1>1
    <3> QED
      BY <1>12, <2>2, <3>1, <3>2
  <2> QED
    BY <2>3, <2>4, <2>5
<1> QED
  BY <1>3, <1>9, <1>11, <1>12, <1>13

\* A document behind those that were written is where it was.
LEMMA AdvanceContent ==
    ASSUME NEW q \in Ring, Counted(q), NextFree(q),
           NEW taken \in 0..Size(q) - 1,
           \A j \in 1..taken : q.waiting[Slot(q, j)] # NoDoc,
           taken = Size(q) - 1 \/ q.waiting[Slot(q, taken + 1)] = NoDoc,
           NEW id \in Nat, id > q.nextWriteDocID + taken
    PROVE  WaitingDoc(Advance(q, taken, taken + 1), id) = WaitingDoc(q, id)
<1> DEFINE a == Advance(q, taken, taken + 1)
           n == Size(q)
           gap == id - q.nextWriteDocID
           gapA == id - a.nextWriteDocID
<1>1. n \in Nat \ {0} /\ q \in RingOf(n)
  BY RingSize
<1>2. /\ a \in Ring /\ Size(a) = n /\ a.nextWriteDocID = q.nextWriteDocID + (taken + 1)
      /\ a.nextWriteLoc = Slot(q, taken + 1)
      /\ \A g \in 0..n - 1 :
            a.waiting[Slot(q, g)] =
               IF g \in 1..taken THEN NoDoc ELSE q.waiting[Slot(q, g)]
  <2>1. taken + 1 \in Nat
    BY <1>1
  <2> QED
    BY <2>1, AdvanceRing
<1> HIDE DEF a
<1>3. q.nextWriteDocID \in Nat /\ q.nextWriteLoc \in 0..n - 1
  BY <1>1 DEF RingOf
<1>4. gapA = gap - taken - 1 /\ gap \in Nat /\ gap >= taken + 1
  BY <1>2, <1>3
<1>5. ASSUME gap = taken + 1
      PROVE  WaitingDoc(a, id) = WaitingDoc(q, id)
  <2>1. WaitingDoc(a, id) = NoDoc
    BY <1>2, <1>4, <1>5 DEF WaitingDoc
  <2>2. WaitingDoc(q, id) = NoDoc
    BY <1>1, <1>4, <1>5 DEF WaitingDoc
  <2> QED
    BY <2>1, <2>2
<1>6. ASSUME gap # taken + 1 /\ gap < n
      PROVE  WaitingDoc(a, id) = WaitingDoc(q, id)
  <2>1. Slot(a, gapA) = Slot(q, gap)
    BY <1>1, <1>2, <1>3, <1>4, <1>6 DEF Slot
  <2>2. gapA \in 1..n - 1 /\ gap \in 1..n - 1
    BY <1>1, <1>4, <1>6
  <2>3. WaitingDoc(a, id) = a.waiting[Slot(q, gap)]
    BY <1>2, <2>1, <2>2 DEF WaitingDoc
  <2>4. WaitingDoc(q, id) = q.waiting[Slot(q, gap)]
    BY <2>2 DEF WaitingDoc
  <2> QED
    BY <1>2, <1>4, <2>2, <2>3, <2>4
<1>7. ASSUME gap # taken + 1 /\ gap >= n
      PROVE  WaitingDoc(a, id) = WaitingDoc(q, id)
  <2>1. WaitingDoc(q, id) = NoDoc
    BY <1>1, <1>4, <1>7 DEF WaitingDoc
  <2>2. CASE gapA \in 1..n - 1
    <3>1. gap - n \in 0..taken
      BY <1>1, <1>4, <1>7, <2>2
    <3>2. Slot(a, gapA) = Slot(q, gap - n)
      <4>1. /\ Slot(a, gapA) = LET loc == Slot(q, taken + 1) + gapA
                                IN  IF loc >= n THEN loc - n ELSE loc
            /\ Slot(q, taken + 1) = LET loc == q.nextWriteLoc + taken + 1
                                    IN  IF loc >= n THEN loc - n ELSE loc
            /\ Slot(q, gap - n) = LET loc == q.nextWriteLoc + (gap - n)
                                  IN  IF loc >= n THEN loc - n ELSE loc
        BY <1>1, <1>2, <1>3 DEF Slot
      <4> HIDE DEF n, gap, gapA
      <4> QED
        BY <1>1, <1>3, <1>4, <1>7, <2>2, <3>1, <4>1
    <3>3. a.waiting[Slot(q, gap - n)] = NoDoc
      <4>1. CASE gap - n = 0
        <5>1. q.waiting[Slot(q, 0)] = NoDoc
          BY Slots DEF NextFree
        <5>2. 0 \in 0..n - 1 /\ 0 \notin 1..taken
          BY <1>1
        <5> QED
          BY <1>2, <4>1, <5>1, <5>2
      <4>2. CASE gap - n \in 1..taken
        BY <1>1, <1>2, <4>2
      <4> QED
        BY <3>1, <4>1, <4>2
    <3> QED
      BY <1>2, <2>1, <2>2, <3>2, <3>3 DEF WaitingDoc
  <2>3. CASE gapA \notin 1..n - 1
    <3>1. WaitingDoc(a, id) = NoDoc
      BY <1>2, <2>3 DEF WaitingDoc
    <3> QED
      BY <2>1, <3>1
  <2> QED
    BY <2>2, <2>3
<1>8. WaitingDoc(a, id) = WaitingDoc(q, id)
  BY <1>1, <1>4, <1>5, <1>6, <1>7
<1> QED
  BY <1>8 DEF a

-----------------------------------------------------------------------------
(***************************************************************************)
(* Growing the ring.                                                       *)
(***************************************************************************)
\* As many numbers stand for slots of a set as the set has slots.
LEMMA Turned ==
    ASSUME NEW q \in Ring, NEW U \in SUBSET (0..Size(q) - 1)
    PROVE  Cardinality({g \in 0..Size(q) - 1 : Slot(q, g) \in U}) = Cardinality(U)
<1> DEFINE G == {g \in 0..Size(q) - 1 : Slot(q, g) \in U}
           f == [g \in G |-> Slot(q, g)]
<1>1. Size(q) \in Nat \ {0}
  BY RingSize
<1>2. f \in Injection(G, U)
  <2>1. \A g, h \in G : Slot(q, g) = Slot(q, h) => g = h
    BY Slots
  <2> QED
    BY <2>1 DEF Injection, IsInjective
<1>3. f \in Surjection(G, U)
  <2>1. \A i \in U : \E g \in G : Slot(q, g) = i
    BY Slots
  <2> QED
    BY <2>1 DEF Surjection
<1>4. ExistsBijection(G, U)
  BY <1>2, <1>3 DEF Bijection, ExistsBijection
<1>5. IsFiniteSet(0..Size(q) - 1)
  BY <1>1, FS_Interval
<1>6. IsFiniteSet(G)
  BY <1>5, FS_Subset
<1> HIDE DEF G, f
<1>7. Cardinality(G) = Cardinality(U)
  BY <1>4, <1>6, FS_Bijection
<1> QED
  BY <1>7 DEF G

\* The ring that add makes has a slot for the document, and every document
\* that waits keeps its place behind the next one.
LEMMA GrowRing ==
    ASSUME NEW q \in Ring, Counted(q), NextFree(q), NEW gap \in Nat
    PROVE  LET g == Grow(q, gap)
           IN  /\ g \in Ring /\ gap < Size(g) /\ Size(q) <= Size(g)
               /\ Counted(g) /\ NextFree(g)
               /\ g.nextWriteDocID = q.nextWriteDocID
               /\ \A h \in 0..Size(g) - 1 :
                     g.waiting[Slot(g, h)] =
                        IF h < Size(q) THEN q.waiting[Slot(q, h)] ELSE NoDoc
<1> DEFINE g == Grow(q, gap)
           n == Size(q)
           m == GetNextSize(gap)
<1>1. n \in Nat \ {0} /\ q \in RingOf(n) /\ DOMAIN q.waiting = 0..n - 1
  BY RingSize
<1>2. CASE gap < n
  <2>1. g = q
    BY <1>2 DEF Grow
  <2>2. \A h \in 0..n - 1 : h < n
    BY <1>1
  <2> QED
    BY <1>1, <1>2, <2>1, <2>2
<1>3. CASE ~(gap < n)
  <2>1. m \in Nat \ {0} /\ m > gap /\ n < m /\ n <= m
    <3>1. gap \div 8 \in Nat
      OBVIOUS
    <3> QED
      BY <1>1, <1>3, <3>1 DEF GetNextSize
  <2>2. g = [q EXCEPT !.waiting = [i \in 0..m - 1 |->
                                     IF i < n THEN q.waiting[Slot(q, i)]
                                     ELSE NoDoc],
                      !.nextWriteLoc = 0]
    BY <1>3 DEF Grow
  <2> HIDE DEF g, m
  <2>3. /\ g.waiting = [i \in 0..m - 1 |->
                          IF i < n THEN q.waiting[Slot(q, i)] ELSE NoDoc]
        /\ g.nextWriteLoc = 0
        /\ g.nextWriteDocID = q.nextWriteDocID
        /\ g.numWaiting = q.numWaiting
        /\ g.waitingBytes = q.waitingBytes
    BY <1>1, <2>2 DEF RingOf
  <2>4. \A i \in 0..n - 1 : Slot(q, i) \in 0..n - 1
    <3>1. 0..n - 1 \subseteq 0..n
      BY <1>1
    <3> QED
      BY <3>1, Slots
  <2>5. g \in RingOf(m)
    <3>1. g.waiting \in [0..m - 1 -> Int]
      <4>1. \A i \in 0..m - 1 :
               (IF i < n THEN q.waiting[Slot(q, i)] ELSE NoDoc) \in Int
        <5> TAKE i \in 0..m - 1
        <5>1. i < n => i \in 0..n - 1
          BY <1>1, <2>1
        <5>2. q.waiting \in [0..n - 1 -> Int]
          BY <1>1 DEF RingOf
        <5>3. i < n => q.waiting[Slot(q, i)] \in Int
          BY <2>4, <5>1, <5>2
        <5> HIDE DEF n
        <5> QED
          BY <5>3 DEF NoDoc
      <4> QED
        BY <2>3, <4>1
    <3>2. g = [waiting |-> g.waiting, nextWriteDocID |-> g.nextWriteDocID,
               nextWriteLoc |-> g.nextWriteLoc, numWaiting |-> g.numWaiting,
               waitingBytes |-> g.waitingBytes]
      BY <1>1, <2>2 DEF RingOf
    <3>3. /\ q.nextWriteDocID \in Nat /\ q.numWaiting \in Int
          /\ q.waitingBytes \in Int /\ 0 \in 0..m - 1
      BY <1>1, <2>1 DEF RingOf
    <3> QED
      BY <2>3, <3>1, <3>2, <3>3 DEF RingOf
  <2>6. g \in Ring /\ Size(g) = m
    BY <2>1, <2>5, RingIntro
  <2>7. \A h \in 0..m - 1 : Slot(g, h) = h
    BY <2>1, <2>3, <2>6 DEF Slot
  <2>8. \A h \in 0..m - 1 :
           g.waiting[Slot(g, h)] = IF h < n THEN q.waiting[Slot(q, h)] ELSE NoDoc
    BY <2>3, <2>7
  <2>9. NextFree(g)
    <3>1. Slot(q, 0) = q.nextWriteLoc
      BY Slots
    <3>2. 0 \in 0..m - 1 /\ 0 < n
      BY <1>1, <2>1
    <3> QED
      BY <2>3, <3>1, <3>2 DEF NextFree
  <2>10. /\ Used(q) \in SUBSET (0..n - 1) /\ Heavy(q) \in SUBSET (0..n - 1)
         /\ Used(g) = {h \in 0..n - 1 : Slot(q, h) \in Used(q)}
         /\ Heavy(g) = {h \in 0..n - 1 : Slot(q, h) \in Heavy(q)}
    <3>1. DOMAIN g.waiting = 0..m - 1 /\ 0..n - 1 \subseteq 0..m - 1
      BY <1>1, <2>1, <2>3
    <3>2. \A h \in 0..m - 1 : h < n <=> h \in 0..n - 1
      BY <1>1, <2>1
    <3> HIDE DEF n
    <3> QED
      BY <1>1, <2>3, <2>4, <3>1, <3>2 DEF Used, Heavy
  <2>11. Counted(g)
    BY <2>3, <2>10, Turned DEF Counted
  <2> QED
    BY <2>1, <2>3, <2>6, <2>8, <2>9, <2>11 DEF g
<1> QED
  BY <1>2, <1>3

\* A document that is not the next one is put where its number says, and
\* every other one is found where it was.
LEMMA ParkRing ==
    ASSUME NEW q \in Ring, Counted(q), NextFree(q), NEW d \in Int, d # NoDoc,
           NEW id \in Nat, id > q.nextWriteDocID, WaitingDoc(q, id) = NoDoc
    PROVE  LET p == Park(q, id, d)
           IN  /\ p \in Ring /\ Counted(p) /\ NextFree(p)
               /\ p.nextWriteDocID = q.nextWriteDocID
               /\ \A j \in Nat : WaitingDoc(p, j) =
                                   IF j = id THEN d ELSE WaitingDoc(q, j)
<1> DEFINE p   == Park(q, id, d)
           gap == id - q.nextWriteDocID
           g   == Grow(q, gap)
           i   == Slot(g, gap)
           n   == Size(q)
           m   == Size(g)
<1>1. n \in Nat \ {0} /\ q \in RingOf(n)
  BY RingSize
<1>2. q.nextWriteDocID \in Nat /\ gap \in Nat \ {0}
  BY <1>1 DEF RingOf
<1> HIDE DEF gap
<1>3. /\ g \in Ring /\ gap < m /\ n <= m /\ Counted(g) /\ NextFree(g)
      /\ g.nextWriteDocID = q.nextWriteDocID
      /\ \A h \in 0..m - 1 :
            g.waiting[Slot(g, h)] = IF h < n THEN q.waiting[Slot(q, h)] ELSE NoDoc
  BY <1>2, GrowRing
<1> HIDE DEF g
<1>4. m \in Nat \ {0} /\ g \in RingOf(m) /\ DOMAIN g.waiting = 0..m - 1
  BY <1>3, RingSize
<1>5. gap \in 1..m - 1 /\ gap \in 0..m /\ i \in 0..m - 1
  <2>1. gap \in 1..m - 1 /\ gap \in 0..m
    BY <1>2, <1>3, <1>4
  <2> QED
    BY <1>3, <2>1, Slots
<1>6. g.waiting[i] = NoDoc
  <2>1. gap < n => gap \in 1..n - 1
    BY <1>1, <1>2
  <2>2. gap < n => q.waiting[Slot(q, gap)] = NoDoc
    BY <2>1 DEF WaitingDoc, gap
  <2>3. gap \in 0..m - 1
    BY <1>4, <1>5
  <2> QED
    BY <1>3, <2>2, <2>3
<1>7. g.nextWriteLoc # i
  <2>1. Slot(g, 0) = g.nextWriteLoc /\ 0 \in 0..m - 1 /\ gap \in 0..m - 1
    BY <1>3, <1>4, <1>5, Slots
  <2>2. gap # 0
    BY <1>2
  <2> QED
    BY <1>3, <2>1, <2>2, Slots
<1>8. p = [g EXCEPT !.waiting[i] = d, !.numWaiting = @ + 1,
                    !.waitingBytes = @ + SizeInBytes(d)]
  BY DEF Park, g, gap
<1> HIDE DEF p, i, m, n
<1>9. /\ p.waiting = [g.waiting EXCEPT ![i] = d]
      /\ p.nextWriteDocID = g.nextWriteDocID
      /\ p.nextWriteLoc = g.nextWriteLoc
      /\ p.numWaiting = g.numWaiting + 1
      /\ p.waitingBytes = g.waitingBytes + SizeInBytes(d)
  BY <1>4, <1>8 DEF RingOf
<1>10. p \in RingOf(m)
  <2>1. p = [waiting |-> p.waiting, nextWriteDocID |-> p.nextWriteDocID,
             nextWriteLoc |-> p.nextWriteLoc, numWaiting |-> p.numWaiting,
             waitingBytes |-> p.waitingBytes]
    BY <1>4, <1>8 DEF RingOf
  <2>2. p.waiting \in [0..m - 1 -> Int]
    BY <1>4, <1>9 DEF RingOf
  <2>3. /\ g.nextWriteDocID \in Nat /\ g.nextWriteLoc \in 0..m - 1
        /\ g.numWaiting + 1 \in Int /\ g.waitingBytes + SizeInBytes(d) \in Int
    BY <1>4 DEF RingOf, SizeInBytes
  <2> QED
    BY <1>9, <2>1, <2>2, <2>3 DEF RingOf
<1>11. p \in Ring /\ Size(p) = m
  BY <1>4, <1>10, RingIntro
<1>12. \A h \in 0..m : Slot(p, h) = Slot(g, h)
  BY <1>9, <1>11 DEF Slot, m
<1>13. Counted(p)
  <2>1. /\ Used(p) = Used(g) \cup {i} /\ i \notin Used(g)
        /\ d # SkipDoc => Heavy(p) = Heavy(g) \cup {i} /\ i \notin Heavy(g)
        /\ d = SkipDoc => Heavy(p) = Heavy(g)
    BY <1>4, <1>5, <1>6, <1>9 DEF Used, Heavy
  <2>2. /\ IsFiniteSet(Used(g)) /\ IsFiniteSet(Heavy(g))
        /\ Cardinality(Used(g)) \in Nat /\ Cardinality(Heavy(g)) \in Nat
    BY <1>3, UsedFinite
  <2>3. Cardinality(Used(p)) = Cardinality(Used(g)) + 1
    BY <2>1, <2>2, FS_AddElement
  <2>4. Cardinality(Heavy(p)) = Cardinality(Heavy(g)) + SizeInBytes(d)
    BY <2>1, <2>2, FS_AddElement DEF SizeInBytes
  <2> QED
    BY <1>3, <1>9, <2>3, <2>4 DEF Counted
<1>14. NextFree(p)
  BY <1>3, <1>4, <1>5, <1>7, <1>9 DEF NextFree
<1>15. ASSUME NEW j \in Nat
       PROVE  WaitingDoc(p, j) = IF j = id THEN d ELSE WaitingDoc(q, j)
  <2> DEFINE h == j - q.nextWriteDocID
  <2>1. h \in Int /\ (j = id <=> h = gap)
    BY <1>2 DEF gap
  <2>2. WaitingDoc(p, j) = IF h \in 1..m - 1 THEN p.waiting[Slot(p, h)] ELSE NoDoc
    BY <1>3, <1>9, <1>11 DEF WaitingDoc
  <2>3. WaitingDoc(q, j) = IF h \in 1..n - 1 THEN q.waiting[Slot(q, h)] ELSE NoDoc
    BY DEF WaitingDoc, n
  <2> HIDE DEF h
  <2>4. CASE h = gap
    <3>1. p.waiting[Slot(p, h)] = d
      BY <1>4, <1>5, <1>9, <1>12, <2>4 DEF i, RingOf
    <3> QED
      BY <1>5, <2>1, <2>2, <2>4, <3>1
  <2>5. CASE h # gap /\ h \in 1..m - 1
    <3>1. h \in 0..m - 1 /\ h \in 0..m /\ gap \in 0..m - 1
      BY <1>4, <1>5, <2>5
    <3>2. Slot(g, h) # i /\ Slot(g, h) \in 0..m - 1
      BY <1>3, <2>5, <3>1, Slots DEF i, m
    <3>3. p.waiting[Slot(p, h)] = g.waiting[Slot(g, h)]
      BY <1>4, <1>9, <1>12, <3>1, <3>2 DEF RingOf
    <3>4. g.waiting[Slot(g, h)] = IF h < n THEN q.waiting[Slot(q, h)] ELSE NoDoc
      BY <1>3, <3>1 DEF m, n
    <3>5. h < n <=> h \in 1..n - 1
      BY <1>1, <2>1, <2>5
    <3> QED
      BY <2>1, <2>2, <2>3, <2>5, <3>3, <3>4, <3>5
  <2>6. CASE h # gap /\ h \notin 1..m - 1
    <3>1. h \notin 1..n - 1
      BY <1>1, <1>3, <1>4, <2>6 DEF m, n
    <3> QED
      BY <2>1, <2>2, <2>3, <2>6, <3>1
  <2> QED
    BY <2>4, <2>5, <2>6
<1> QED
  BY <1>3, <1>9, <1>11, <1>13, <1>14, <1>15 DEF p

-----------------------------------------------------------------------------
(***************************************************************************)
(* add.                                                                    *)
(***************************************************************************)
\* What is written is behind what was in the store.
LEMMA Written ==
    ASSUME NEW s \in Seq(Int), NEW out \in Seq(Int)
    PROVE  /\ s \o out \in Seq(Int) /\ Len(s \o out) = Len(s) + Len(out)
           /\ \A j \in 1..Len(s) : (s \o out)[j] = s[j]
           /\ \A k \in 1..Len(out) : (s \o out)[Len(s) + k] = out[k]
  OBVIOUS

\* The document that add was given takes the place of its number, among
\* those that are written and those that wait; all others stay as they were.
THEOREM AddedContent ==
    ASSUME NEW q \in Ring, Counted(q), NextFree(q),
           NEW s \in Seq(Int), Len(s) = q.nextWriteDocID,
           NEW d \in Int, d # NoDoc,
           NEW id \in Nat, id >= Len(s), ContentOf(s, q, id) = NoDoc
    PROVE  LET a == Added(q, id, d)
           IN  /\ a.queue \in Ring /\ Counted(a.queue) /\ NextFree(a.queue)
               /\ s \o a.out \in Seq(Int)
               /\ Len(s \o a.out) = a.queue.nextWriteDocID
               /\ \A j \in Nat : ContentOf(s \o a.out, a.queue, j) =
                                   IF j = id THEN d ELSE ContentOf(s, q, j)
               /\ \A j \in Nat : j >= Len(s) /\ j < Len(s \o a.out) =>
                                   j = id \/ ContentOf(s, q, j) # NoDoc
<1> DEFINE a == Added(q, id, d)
           b == Behind(q)
           n == Len(b)
<1>1. q.nextWriteDocID \in Nat /\ Size(q) \in Nat \ {0}
  BY RingSize DEF RingOf
<1>2. CASE id = q.nextWriteDocID
  <2>1. a.queue = Advance(q, n, n + 1) /\ a.out = <<d>> \o b
    BY <1>2 DEF Added
  <2>2. /\ n \in 0..Size(q) - 1 /\ n + 1 \in Nat /\ b \in Seq(Int)
        /\ b = [j \in 1..n |-> q.waiting[Slot(q, j)]]
        /\ \A j \in 1..n : q.waiting[Slot(q, j)] # NoDoc
        /\ n = Size(q) - 1 \/ q.waiting[Slot(q, n + 1)] = NoDoc
    BY <1>1, BehindRun
  <2> HIDE DEF a, b, n
  <2>3. /\ a.queue \in Ring /\ Counted(a.queue) /\ NextFree(a.queue)
        /\ a.queue.nextWriteDocID = q.nextWriteDocID + (n + 1)
    BY <2>1, <2>2, AdvanceRing
  <2>4. /\ a.out \in Seq(Int) /\ Len(a.out) = n + 1 /\ a.out[1] = d
        /\ \A j \in 1..n : a.out[j + 1] = q.waiting[Slot(q, j)]
    <3>1. Len(b) = n /\ \A j \in 1..n : b[j] = q.waiting[Slot(q, j)]
      BY <2>2 DEF n
    <3> QED
      BY <2>1, <2>2, <3>1
  <2> DEFINE w == s \o a.out
  <2>5. /\ w \in Seq(Int) /\ Len(w) = Len(s) + Len(a.out)
        /\ \A j \in 1..Len(s) : w[j] = s[j]
        /\ \A k \in 1..Len(a.out) : w[Len(s) + k] = a.out[k]
    BY <2>4, Written, Zenon
  <2> HIDE DEF w
  <2>6. /\ Len(w) = a.queue.nextWriteDocID /\ Len(w) = id + (n + 1)
        /\ Len(s) = id /\ Len(a.out) = n + 1 /\ n \in Nat /\ n < Size(q)
    BY <1>1, <1>2, <2>2, <2>3, <2>4, <2>5
  <2>7. ASSUME NEW j \in Nat
        PROVE  /\ ContentOf(w, a.queue, j) = IF j = id THEN d ELSE ContentOf(s, q, j)
               /\ j >= Len(s) /\ j < Len(w) => j = id \/ ContentOf(s, q, j) # NoDoc
    <3>1. CASE j < id
      <4>1. /\ j + 1 \in 1..Len(s) /\ j < Len(s) /\ j < Len(w) /\ j # id
            /\ ~(j >= Len(s))
        BY <2>6, <3>1
      <4>2. w[j + 1] = s[j + 1]
        BY <2>5, <4>1
      <4> QED
        BY <4>1, <4>2 DEF ContentOf
    <3>2. CASE j = id
      <4>1. 1 \in 1..Len(a.out) /\ j + 1 = Len(s) + 1 /\ j < Len(w)
        BY <2>6, <3>2
      <4>2. w[j + 1] = d
        BY <2>4, <2>5, <4>1
      <4> QED
        BY <3>2, <4>1, <4>2 DEF ContentOf
    <3>3. CASE j > id /\ j <= id + n
      <4> DEFINE k == j - id
      <4>1. k \in 1..n /\ k \in 1..Size(q) - 1
        BY <1>1, <2>6, <3>3
      <4>2. /\ k + 1 \in 1..Len(a.out) /\ j + 1 = Len(s) + (k + 1)
            /\ j < Len(w) /\ ~(j < Len(s)) /\ j # id
        BY <2>6, <3>3
      <4>3. j - q.nextWriteDocID = k
        BY <1>2
      <4> HIDE DEF k
      <4>4. ContentOf(s, q, j) = q.waiting[Slot(q, k)]
        BY <4>1, <4>2, <4>3 DEF ContentOf, WaitingDoc
      <4>5. w[j + 1] = a.out[k + 1]
        <5>1. w[Len(s) + (k + 1)] = a.out[k + 1]
          BY <2>5, <4>2
        <5> QED
          BY <4>2, <5>1
      <4> QED
        BY <2>2, <2>4, <4>1, <4>2, <4>4, <4>5 DEF ContentOf
    <3>4. CASE j > id + n
      <4>1. ~(j < Len(s)) /\ ~(j < Len(w)) /\ j # id
        BY <2>6, <3>4
      <4>2. j > q.nextWriteDocID + n
        BY <1>2, <3>4
      <4>3. WaitingDoc(a.queue, j) = WaitingDoc(q, j)
        BY <2>1, <2>2, <4>2, AdvanceContent
      <4> QED
        BY <4>1, <4>3 DEF ContentOf
    <3> QED
      BY <2>6, <3>1, <3>2, <3>3, <3>4
  <2> QED
    BY <2>3, <2>5, <2>6, <2>7 DEF a, w
<1>3. CASE id # q.nextWriteDocID
  <2>1. a.queue = Park(q, id, d) /\ a.out = <<>>
    BY <1>3 DEF Added
  <2> HIDE DEF a
  <2>2. id > q.nextWriteDocID /\ WaitingDoc(q, id) = NoDoc
    BY <1>1, <1>3 DEF ContentOf
  <2>3. /\ a.queue \in Ring /\ Counted(a.queue) /\ NextFree(a.queue)
        /\ a.queue.nextWriteDocID = q.nextWriteDocID
        /\ \A j \in Nat : WaitingDoc(a.queue, j) =
                            IF j = id THEN d ELSE WaitingDoc(q, j)
    BY <2>1, <2>2, ParkRing
  <2>4. s \o a.out = s
    BY <2>1
  <2> QED
    BY <1>1, <2>2, <2>3, <2>4 DEF ContentOf, a
<1> QED
  BY <1>2, <1>3

\* Nothing else comes into the ring.
LEMMA AddedValues ==
    ASSUME NEW q \in Ring, Counted(q), NextFree(q), NEW V, NoDoc \in V,
           \A i \in DOMAIN q.waiting : q.waiting[i] \in V,
           NEW d \in V, NEW id \in Nat, id >= q.nextWriteDocID
    PROVE  LET a == Added(q, id, d).queue
           IN  \A i \in DOMAIN a.waiting : a.waiting[i] \in V
<1> DEFINE a == Added(q, id, d).queue
<1>1. CASE id = q.nextWriteDocID
  BY <1>1 DEF Added, Advance
<1>2. CASE id # q.nextWriteDocID
  <2> DEFINE gap == id - q.nextWriteDocID
             g   == Grow(q, gap)
  <2>1. gap \in Nat
    BY <1>2, RingSize DEF RingOf
  <2> HIDE DEF gap
  <2>2. g \in Ring /\ Size(q) <= Size(g) /\ Size(q) \in Nat
    BY <2>1, GrowRing, RingSize
  <2>3. ASSUME NEW i \in DOMAIN g.waiting
        PROVE  g.waiting[i] \in V
    <3>1. i \in 0..Size(g) - 1 /\ Size(g) \in Nat
      BY <2>2, RingSize
    <3>2. PICK h \in 0..Size(g) - 1 : Slot(g, h) = i
      BY <2>2, <3>1, Slots
    <3>3. g.waiting[i] = IF h < Size(q) THEN q.waiting[Slot(q, h)] ELSE NoDoc
      BY <2>1, <3>2, GrowRing
    <3>4. ASSUME h < Size(q) PROVE Slot(q, h) \in DOMAIN q.waiting
      <4>1. h \in 0..Size(q)
        BY <2>2, <3>1, <3>4
      <4>2. Slot(q, h) \in 0..Size(q) - 1
        BY <4>1, Slots
      <4> QED
        BY <4>2, RingSize
    <3> QED
      BY <3>3, <3>4
  <2> HIDE DEF g
  <2>4. a = [g EXCEPT !.waiting[Slot(g, gap)] = d, !.numWaiting = @ + 1,
                      !.waitingBytes = @ + SizeInBytes(d)]
    BY <1>2 DEF Added, Park, g, gap
  <2>5. a.waiting = [g.waiting EXCEPT ![Slot(g, gap)] = d]
    <3>1. g \in RingOf(Size(g))
      BY <2>2, RingSize
    <3> QED
      BY <2>4, <3>1 DEF RingOf
  <2> QED
    BY <2>3, <2>5
<1> QED
  BY <1>1, <1>2

\* When the write of a document throws, the documents before it are off the
\* ring, and nothing new is in it.
LEMMA FailedRing ==
    ASSUME NEW q \in Ring, Counted(q), NextFree(q),
           NEW d, NEW id, NEW a \in AddFailures(q, id, d)
    PROVE  /\ a.queue \in Ring /\ Counted(a.queue) /\ NextFree(a.queue)
           /\ DOMAIN a.queue.waiting = DOMAIN q.waiting
           /\ \A i \in DOMAIN q.waiting : a.queue.waiting[i] \in {NoDoc, q.waiting[i]}
<1>1. PICK n \in 0..Len(Behind(q)) : a.queue = Advance(q, n, n)
  BY DEF AddFailures
<1>2. /\ Len(Behind(q)) \in 0..Size(q) - 1
      /\ \A j \in 1..Len(Behind(q)) : q.waiting[Slot(q, j)] # NoDoc
  BY BehindRun
<1>3. /\ n \in 0..Size(q) - 1 /\ n \in Nat
      /\ \A j \in 1..n : q.waiting[Slot(q, j)] # NoDoc
  BY <1>2, RingSize
<1>4. a.queue \in Ring /\ Counted(a.queue) /\ NextFree(a.queue)
  BY <1>1, <1>3, AdvanceRing
<1> QED
  BY <1>1, <1>4 DEF Advance

-----------------------------------------------------------------------------
(***************************************************************************)
(* The other operations.                                                   *)
(***************************************************************************)
\* In an empty ring no document waits.
LEMMA EmptyContent ==
    ASSUME NEW q \in Ring, Used(q) = {}, NEW id \in Nat
    PROVE  WaitingDoc(q, id) = NoDoc /\ NextFree(q)
<1>1. /\ Size(q) \in Nat \ {0} /\ DOMAIN q.waiting = 0..Size(q) - 1
      /\ q.nextWriteLoc \in 0..Size(q) - 1
  BY RingSize DEF RingOf
<1>2. \A g \in 1..Size(q) - 1 : Slot(q, g) \in DOMAIN q.waiting
  BY <1>1, Slots, SMTT(30)
<1> QED
  BY <1>1, <1>2 DEF WaitingDoc, NextFree, Used

\* A ring in which no document waits is empty.
LEMMA ContentEmpty ==
    ASSUME NEW q \in Ring, NextFree(q),
           \A id \in Nat : WaitingDoc(q, id) = NoDoc
    PROVE  Used(q) = {}
<1>1. /\ Size(q) \in Nat \ {0} /\ DOMAIN q.waiting = 0..Size(q) - 1
      /\ q.nextWriteDocID \in Nat
  BY RingSize DEF RingOf
<1>2. ASSUME NEW i \in DOMAIN q.waiting
      PROVE  q.waiting[i] = NoDoc
  <2>1. PICK g \in 0..Size(q) - 1 : Slot(q, g) = i
    BY <1>1, Slots
  <2>2. CASE g = 0
    BY <2>1, <2>2, Slots DEF NextFree
  <2>3. CASE g # 0
    <3> DEFINE id == q.nextWriteDocID + g
    <3>1. id \in Nat /\ id - q.nextWriteDocID = g /\ g \in 1..Size(q) - 1
      BY <1>1, <2>3
    <3> HIDE DEF id
    <3>2. WaitingDoc(q, id) = q.waiting[i]
      BY <2>1, <3>1 DEF WaitingDoc
    <3> QED
      BY <3>1, <3>2
  <2> QED
    BY <2>2, <2>3
<1> QED
  BY <1>2 DEF Used

\* A new queue is empty, and so is an aborted one; neither reset nor abort
\* disturbs the counters.
LEMMA NewRing ==
    ASSUME NEW n \in Nat \ {0}
    PROVE  LET q == NewQueue(n)
           IN  /\ q \in Ring /\ Counted(q) /\ Used(q) = {}
               /\ q.nextWriteDocID = 0
<1> DEFINE q == NewQueue(n)
<1>1. q \in RingOf(n)
  BY DEF RingOf, NewQueue, NoDoc
<1>2. Used(q) = {} /\ Heavy(q) = {} /\ q.nextWriteDocID = 0
      /\ q.numWaiting = 0 /\ q.waitingBytes = 0
  BY DEF NewQueue, Used, Heavy
<1>3. Counted(q)
  BY <1>2, FS_EmptySet DEF Counted
<1> QED
  BY <1>1, <1>2, <1>3, RingIntro

LEMMA AbortedRing ==
    ASSUME NEW q \in Ring
    PROVE  LET a == Aborted(q)
           IN  /\ a \in Ring /\ Counted(a) /\ Used(a) = {}
               /\ a.nextWriteDocID = q.nextWriteDocID
<1> DEFINE a == Aborted(q)
           w == [i \in DOMAIN q.waiting |-> NoDoc]
<1>1. /\ q \in RingOf(Size(q)) /\ Size(q) \in Nat \ {0}
      /\ DOMAIN q.waiting = 0..Size(q) - 1
  BY RingSize
<1>2. w \in [0..Size(q) - 1 -> Int] /\ \A i \in DOMAIN w : w[i] = NoDoc
  BY <1>1 DEF NoDoc
<1>3. a = [q EXCEPT !.waiting = w, !.numWaiting = 0, !.waitingBytes = 0]
  BY DEF Aborted
<1> HIDE DEF w, a
<1>4. /\ a \in RingOf(Size(q)) /\ a.waiting = w /\ a.numWaiting = 0
      /\ a.waitingBytes = 0 /\ a.nextWriteDocID = q.nextWriteDocID
  <2>1. a = [waiting |-> w, nextWriteDocID |-> q.nextWriteDocID,
             nextWriteLoc |-> q.nextWriteLoc, numWaiting |-> 0,
             waitingBytes |-> 0]
    BY <1>1, <1>3 DEF RingOf
  <2>2. q.nextWriteDocID \in Nat /\ q.nextWriteLoc \in 0..Size(q) - 1
    BY <1>1 DEF RingOf
  <2> QED
    BY <1>2, <2>1, <2>2 DEF RingOf
<1>5. Used(a) = {} /\ Heavy(a) = {}
  BY <1>2, <1>4 DEF Used, Heavy
<1>6. Counted(a)
  BY <1>4, <1>5, FS_EmptySet DEF Counted
<1> QED
  BY <1>1, <1>4, <1>5, <1>6, RingIntro DEF a

LEMMA ResetRing ==
    ASSUME NEW q \in Ring, Counted(q)
    PROVE  LET r == Reset(q)
           IN  /\ r \in Ring /\ Counted(r) /\ Used(r) = Used(q)
               /\ r.nextWriteDocID = 0 /\ r.waiting = q.waiting
<1> DEFINE r == Reset(q)
<1>1. q \in RingOf(Size(q)) /\ Size(q) \in Nat \ {0}
  BY RingSize
<1>2. /\ r \in RingOf(Size(q)) /\ r.waiting = q.waiting /\ r.nextWriteDocID = 0
      /\ r.numWaiting = q.numWaiting /\ r.waitingBytes = q.waitingBytes
  BY <1>1 DEF RingOf, Reset
<1> HIDE DEF r
<1>3. Used(r) = Used(q) /\ Heavy(r) = Heavy(q) /\ Counted(r)
  BY <1>2 DEF Used, Heavy, Counted
<1> QED
  BY <1>1, <1>2, <1>3, RingIntro DEF r

-----------------------------------------------------------------------------
(***************************************************************************)
(* The inductive invariant.                                                *)
(***************************************************************************)
\* A thread that has a document in hand; its thread state is not idle.
Active(t) == pc[t] \in {"process", "finish", "queue", "failed"}

\* A thread whose document is not in the queue yet
Working(t) == pc[t] \in {"process", "finish", "failed"}

\* A thread that aborts all documents
Aborts(t) == pc[t] \in {"abort", "skipAbort"}

\* A thread that will get a number for its document
Starts(t) == pc[t] = "ready" /\ op[t] \in {"add", "update"}

\* The types of what is not counted
Kinds ==
    /\ threadStates \in Seq(ThreadState)
    /\ Len(threadStates) <= MAX_THREAD_STATE
    /\ threadBindings \in [Thread -> 0..Len(threadStates)]
    /\ pc \in [Thread -> PCs] /\ op \in [Thread -> Calls \cup {"none"}]
    /\ state \in [Thread -> 0..MAX_THREAD_STATE]
    /\ nextDocID \in Nat /\ deletes \in Nat /\ started \in Nat
    /\ ixLock \in Thread \cup {None} /\ calls \in 0..MaxCalls

Flags == /\ flushPending \in BOOLEAN /\ aborting \in BOOLEAN
         /\ bufferIsFull \in BOOLEAN /\ docClosed \in BOOLEAN
         /\ closing \in BOOLEAN /\ closed \in BOOLEAN

\* A thread that works with a thread state has one; a thread that has a
\* document in hand has it to itself.
Owners ==
    /\ \A t \in Thread :
          /\ Active(t) \/ pc[t] = "return" \/ Starts(t) =>
                state[t] \in DOMAIN threadStates
          /\ Active(t) => ~threadStates[state[t]].isIdle
    /\ \A t, u \in Thread :
          Active(t) /\ Active(u) /\ state[t] = state[u] => t = u

\* The threads that have the others pause for what they do under a lock, and
\* those that close the writer
Pauses == {t \in Thread : pc[t] \in {"abort", "skipAbort", "wipe", "flushing"}}
Closes == {t \in Thread : op[t] = "close"}

\* Every pause has a thread that will end it, but for that of the last close.
PausesCounted ==
    pauseThreads = Cardinality(Pauses) + Cardinality(Closes)
                     + (IF closed THEN 1 ELSE 0)

\* One thread closes the writer, and none adds documents from then on.
Closing ==
    /\ \A t \in Closes :
          /\ pc[t] \in {"drain", "flush", "flushing", "flushed", "flushFailed"}
          /\ closing /\ ~closed
          /\ pc[t] # "drain" => docClosed
    /\ \A t, u \in Closes : t = u
    /\ docClosed => \A t \in Thread : ~Active(t)
    /\ closed => docClosed

\* The ring is one that the lemmas about rings speak of.
RingKept ==
    /\ waitQueue \in Ring /\ Counted(waitQueue) /\ NextFree(waitQueue)
    /\ \A i \in DOMAIN waitQueue.waiting :
          waitQueue.waiting[i] \in {NoDoc, SkipDoc} \cup 1..started

\* The documents that got numbers
Numbered ==
    /\ docs \in Seq(Int) /\ Len(docs) = nextDocID
    /\ \A i \in 1..nextDocID : docs[i] \in 1..started
    /\ deletedDocIDs \subseteq 0..nextDocID
    /\ \A t \in Thread : Active(t) => nextDocID > 0
    /\ bufferIsFull => nextDocID > 0

\* Under every number is nothing, where a thread is at work on the document,
\* or the document that got the number, or skipDocWriter where it failed.
Documents ==
    /\ store \in Seq(Int) /\ Len(store) = waitQueue.nextWriteDocID
    /\ \A id \in Nat : id < Len(store) => Content(id) # NoDoc
    /\ \A id \in Nat : Content(id) # NoDoc =>
          /\ id < nextDocID
          /\ Content(id) = IF id \in deletedDocIDs THEN SkipDoc ELSE docs[id + 1]
    /\ \A id \in deletedDocIDs : id < nextDocID /\ Content(id) # NoDoc
    /\ \A t \in Thread : Working(t) =>
          DocID(t) \in Nat /\ DocID(t) < nextDocID /\ Content(DocID(t)) = NoDoc
    /\ \A t, u \in Thread : Working(t) /\ Working(u) /\ DocID(t) = DocID(u) => t = u
    /\ \A id \in Nat : id < nextDocID /\ Content(id) = NoDoc =>
          \E t \in Thread : Working(t) /\ DocID(t) = id

\* A thread is about to discard everything; once it is, nothing waits, and
\* nothing comes in.
Aborting ==
    /\ aborting => \E t \in Thread : pc[t] = "failed" \/ Aborts(t)
    /\ \A t \in Thread : Aborts(t) =>
          /\ Used(waitQueue) = {}
          /\ ~aborting => \A u \in Thread : ~Active(u)

\* A thread that is on its way to the flush that is pending
Due(t) ==
    \/ pc[t] \in {"flush", "flushing", "flushed", "flushFailed", "wipe",
                  "abort", "skipAbort"}
    \/ /\ pc[t] \in {"process", "finish", "queue", "failed", "return"}
       /\ threadStates[state[t]].doFlushAfter

\* The last flush, that of close, leaves nothing that could make another
\* flush pending, unless a thread is still about to discard everything.
LastFlush ==
    /\ closed \/ (\E t \in Closes : pc[t] = "flushed") =>
          (\E t \in Thread : Aborts(t)) \/ (~bufferIsFull /\ deletes = 0)
    /\ closed /\ flushPending => \E t \in Thread : Aborts(t)

\* A document is started in a call of its own.
StartsCounted ==
    started + Cardinality({t \in Thread : Starts(t)}) <= calls

IInv ==
    /\ Kinds /\ Flags /\ Owners /\ PausesCounted /\ Closing /\ StartsCounted
    /\ RingKept /\ Numbered /\ (~aborting => Documents) /\ Aborting
    /\ LastFlush /\ FlushIsDue

-----------------------------------------------------------------------------
(***************************************************************************)
(* Types and thread states.                                                *)
(***************************************************************************)
\* A state that the fewest threads use exists.
LEMMA MinExists ==
    ASSUME threadStates \in Seq(ThreadState), threadStates # <<>>
    PROVE  MinThreadState \in DOMAIN threadStates
<1> DEFINE n(s) == threadStates[s].numThreads
           D == DOMAIN threadStates
           N == {n(s) : s \in D}
<1>1. D = 1..Len(threadStates) /\ 1 \in D /\ D \in SUBSET Nat
  <2>1. Len(threadStates) \in Nat \ {0}
    OBVIOUS
  <2> QED
    BY <2>1
<1>2. \A s \in D : n(s) \in Nat
  <2>1. \A s \in D : threadStates[s] \in ThreadState
    OBVIOUS
  <2> QED
    BY <2>1 DEF ThreadState
<1> HIDE DEF n, D
<1>3. PICK m \in N : \A k \in N : m <= k
  <2>1. N \in SUBSET Nat /\ N # {}
    BY <1>1, <1>2
  <2> QED
    BY <2>1, LeastNat
<1> DEFINE S == {s \in D : n(s) = m}
<1>4. S \in SUBSET Nat /\ S # {}
  BY <1>1, <1>3
<1>5. PICK s \in S : \A r \in S : s <= r
  BY <1>4, LeastNat
<1>6. s \in D /\ \A r \in D : n(s) < n(r) \/ (n(s) = n(r) /\ s <= r)
  <2>1. s \in D /\ n(s) = m
    BY <1>5
  <2>2. ASSUME NEW r \in D PROVE n(s) < n(r) \/ (n(s) = n(r) /\ s <= r)
    <3>1. m <= n(r) /\ n(r) \in Nat /\ m \in Nat
      BY <1>2, <1>3
    <3>2. n(r) = m => s <= r
      BY <1>5
    <3> QED
      BY <2>1, <3>1, <3>2
  <2> QED
    BY <2>1, <2>2
<1> QED
  BY <1>6 DEF MinThreadState, n, D

\* What a change of one thread state leaves.
LEMMA OneState ==
    ASSUME NEW ts \in Seq(ThreadState), NEW s \in DOMAIN ts,
           NEW v \in ThreadState
    PROVE  LET new == [ts EXCEPT ![s] = v]
           IN  /\ new \in Seq(ThreadState) /\ Len(new) = Len(ts)
               /\ DOMAIN new = DOMAIN ts /\ new[s] = v
               /\ \A r \in DOMAIN ts : r # s => new[r] = ts[r]
<1> DEFINE new == [ts EXCEPT ![s] = v]
<1>1. new \in Seq(ThreadState) /\ Len(new) = Len(ts)
  BY ExceptSeq
<1> QED
  BY <1>1

LEMMA KindsInit ==
    ASSUME Init PROVE Kinds /\ Flags /\ Owners
<1> USE DocumentsAssumption
<1>1. Kinds
  <2>1. /\ threadStates \in Seq(ThreadState) /\ Len(threadStates) = 0
        /\ threadBindings \in [Thread -> 0..0]
        /\ pc \in [Thread -> PCs] /\ op \in [Thread -> Calls \cup {"none"}]
    BY DEF Init, PCs, None
  <2>2. state \in [Thread -> 0..MAX_THREAD_STATE]
    BY DEF Init, None
  <2> QED
    BY <2>1, <2>2 DEF Init, Kinds
<1>2. Flags
  BY DEF Init, Flags
<1>3. Owners
  BY DEF Init, Owners, Active, Starts
<1> QED
  BY <1>1, <1>2, <1>3

\* A thread that is done with its document lets go of its state, and may
\* have to flush.
LEMMA IdleState ==
    ASSUME Kinds, NEW s \in DOMAIN threadStates, NEW f \in BOOLEAN,
           \/ threadStates' = [threadStates EXCEPT ![s].isIdle = TRUE]
           \/ threadStates' = [threadStates EXCEPT ![s].isIdle = TRUE,
                                                   ![s].doFlushAfter = f]
    PROVE  /\ threadStates' \in Seq(ThreadState)
           /\ Len(threadStates') = Len(threadStates)
           /\ DOMAIN threadStates' = DOMAIN threadStates
           /\ \A r \in DOMAIN threadStates :
                 /\ r # s => threadStates'[r] = threadStates[r]
                 /\ threadStates'[r].docID = threadStates[r].docID
<1>1. threadStates \in Seq(ThreadState) /\ threadStates[s] \in ThreadState
  BY DEF Kinds
<1>2. CASE threadStates' = [threadStates EXCEPT ![s].isIdle = TRUE]
  <2> DEFINE v == [threadStates[s] EXCEPT !.isIdle = TRUE]
  <2>1. v \in ThreadState /\ v.docID = threadStates[s].docID
    BY <1>1 DEF ThreadState
  <2>2. threadStates' = [threadStates EXCEPT ![s] = v]
    BY <1>2
  <2> HIDE DEF v
  <2> QED
    BY <1>1, <2>1, <2>2, OneState
<1>3. CASE threadStates' = [threadStates EXCEPT ![s].isIdle = TRUE,
                                                ![s].doFlushAfter = f]
  <2> DEFINE v == [threadStates[s] EXCEPT !.isIdle = TRUE, !.doFlushAfter = f]
  <2>1. v \in ThreadState /\ v.docID = threadStates[s].docID
    BY <1>1 DEF ThreadState
  <2>2. threadStates' = [threadStates EXCEPT ![s] = v]
    BY <1>1, <1>3
  <2> HIDE DEF v
  <2> QED
    BY <1>1, <2>1, <2>2, OneState
<1> QED
  BY <1>2, <1>3

\* doAfterFlush resets the thread states, and leaves them idle or not.
LEMMA AfterFlush ==
    ASSUME Kinds, NEW q, DoAfterFlush(q)
    PROVE  /\ threadStates' \in Seq(ThreadState)
           /\ Len(threadStates') = Len(threadStates)
           /\ DOMAIN threadStates' = DOMAIN threadStates
           /\ threadBindings' \in [Thread -> 0..Len(threadStates')]
           /\ \A s \in DOMAIN threadStates :
                 /\ threadStates'[s].isIdle = threadStates[s].isIdle
                 /\ threadStates'[s].docID = threadStates[s].docID
<1> DEFINE v(s) == [threadStates[s] EXCEPT !.numThreads = 0,
                                           !.doFlushAfter = FALSE]
           n == Len(threadStates)
<1>1. /\ threadStates \in Seq(ThreadState) /\ n \in Nat
      /\ DOMAIN threadStates = 1..n
  BY DEF Kinds
<1>2. ASSUME NEW s \in 1..n
      PROVE  /\ v(s) \in ThreadState /\ v(s).docID = threadStates[s].docID
             /\ v(s).isIdle = threadStates[s].isIdle
  <2>1. threadStates[s] \in ThreadState
    BY <1>1
  <2> QED
    BY <2>1 DEF ThreadState
<1>3. threadStates' = [s \in 1..n |-> v(s)]
  BY <1>1 DEF DoAfterFlush
<1> HIDE DEF v, n
<1>4. /\ threadStates' \in Seq(ThreadState) /\ Len(threadStates') = n
      /\ DOMAIN threadStates' = 1..n
  BY <1>1, <1>2, <1>3
<1>5. threadBindings' \in [Thread -> 0..Len(threadStates')]
  <2>1. threadBindings' = [u \in Thread |-> 0]
    BY Zenon DEF DoAfterFlush, None
  <2> QED
    BY <1>1, <1>4, <2>1
<1> QED
  BY <1>1, <1>2, <1>3, <1>4, <1>5 DEF n

LEMMA GoesIdle ==
    ASSUME Kinds, Flags, NEW t \in Thread, NEW s \in DOMAIN threadStates,
           GoIdle(t, s)
    PROVE  /\ \E f \in BOOLEAN :
                 /\ threadStates' = [threadStates EXCEPT ![s].isIdle = TRUE,
                                                         ![s].doFlushAfter = f]
                 /\ threadStates[s].doFlushAfter => f
                 /\ flushPending' => flushPending \/ f
           /\ flushPending' \in BOOLEAN
           /\ pc' = [pc EXCEPT ![t] = "return"]
<1> DEFINE full == bufferIsFull /\ ~flushPending
           f == threadStates[s].doFlushAfter \/ full
<1>1. threadStates \in Seq(ThreadState) /\ threadStates[s] \in ThreadState
  BY DEF Kinds
<1>2. threadStates' = [threadStates EXCEPT ![s].isIdle = TRUE,
                                           ![s].doFlushAfter = @ \/ full]
  BY DEF GoIdle
<1>3. threadStates' = [threadStates EXCEPT ![s].isIdle = TRUE,
                                           ![s].doFlushAfter = f]
  BY <1>1, <1>2 DEF ThreadState
<1>4. f \in BOOLEAN /\ (threadStates[s].doFlushAfter => f)
  BY Zenon
<1>5. flushPending' = (flushPending \/ full)
  BY DEF GoIdle
<1>6. (flushPending' => flushPending \/ f) /\ flushPending' \in BOOLEAN
  BY <1>5, Zenon
<1>7. pc' = [pc EXCEPT ![t] = "return"]
  BY DEF GoIdle, GoTo
<1> QED
  BY <1>3, <1>4, <1>6, <1>7

LEMMA FlagsStep ==
    ASSUME Kinds, Flags, Owners, NEW t \in Thread, Call(t) \/ Step(t)
    PROVE  Flags'
<1>1. ASSUME NEW o \in Calls, Bind(t, o)
      PROVE  Flags'
  BY <1>1 DEF Flags, Bind, flagVars, writerVars
<1>2. CASE CallDelete(t) \/ CallCommit(t) \/ CallDeleteAll(t) \/ CallClose(t)
  BY <1>2 DEF Flags, CallDelete, CallCommit, CallDeleteAll, CallClose,
              flagVars, writerVars
<1>3. CASE GetThreadState(t)
  BY <1>3 DEF Flags, GetThreadState, flagVars, writerVars
<1>4. CASE ProcessDocument(t)
  BY <1>4 DEF Flags, ProcessDocument, writerVars
<1>5. CASE DropDocument(t)
  BY <1>5 DEF Flags, DropDocument, flagVars, writerVars
<1>6. CASE FinishDocument(t)
  BY <1>6 DEF Flags, FinishDocument, GoIdle, writerVars
<1>7. CASE WaitForWaitQueue(t)
  BY <1>7 DEF Flags, WaitForWaitQueue, GoIdle, writerVars
<1>8. CASE SkipDocument(t)
  BY <1>8 DEF Flags, SkipDocument, writerVars
<1>9. CASE StartAbort(t)
  BY <1>9 DEF Flags, StartAbort, writerVars
<1>10. CASE Abort(t)
  BY <1>10 DEF Flags, Abort, DoAfterFlush, writerVars
<1>11. CASE DeleteAbortedFiles(t)
  BY <1>11 DEF Flags, DeleteAbortedFiles, flagVars, writerVars
<1>12. CASE ReturnDocument(t)
  BY <1>12 DEF Flags, ReturnDocument, writerVars
<1>13. CASE BufferDelete(t)
  BY <1>13 DEF Flags, BufferDelete, writerVars
<1>14. CASE DeleteAll(t)
  BY <1>14 DEF Flags, DeleteAll, DoAfterFlush
<1>15. CASE CloseDocWriter(t)
  BY <1>15 DEF Flags, CloseDocWriter, flagVars
<1>16. CASE StartFlush(t)
  BY <1>16 DEF Flags, StartFlush
<1>17. CASE SkipFlush(t)
  BY <1>17 DEF Flags, SkipFlush, writerVars
<1>18. CASE Flush(t)
  BY <1>18 DEF Flags, Flush, DoAfterFlush, writerVars
<1>19. CASE EndFlush(t)
  BY <1>19 DEF Flags, EndFlush
<1> QED
  BY <1>1, <1>2, <1>3, <1>4, <1>5, <1>6, <1>7, <1>8, <1>9, <1>10, <1>11,
     <1>12, <1>13, <1>14, <1>15, <1>16, <1>17, <1>18, <1>19 DEF Call, Step

\* What the steps do to the states of the threads.
LEMMA StatesStep ==
    ASSUME Kinds, Flags, Owners, NEW t \in Thread, Call(t) \/ Step(t)
    PROVE  /\ threadStates' \in Seq(ThreadState)
           /\ Len(threadStates') <= MAX_THREAD_STATE
           /\ Len(threadStates) <= Len(threadStates')
           /\ DOMAIN threadStates \subseteq DOMAIN threadStates'
           /\ threadBindings' \in [Thread -> 0..Len(threadStates')]
           /\ state' \in [Thread -> 0..MAX_THREAD_STATE]
           /\ Starts(t)' => state'[t] \in DOMAIN threadStates'
<1> USE DocumentsAssumption
<1> DEFINE Good ==
      /\ threadStates' \in Seq(ThreadState)
      /\ Len(threadStates') <= MAX_THREAD_STATE
      /\ Len(threadStates) <= Len(threadStates')
      /\ DOMAIN threadStates \subseteq DOMAIN threadStates'
      /\ threadBindings' \in [Thread -> 0..Len(threadStates')]
<1>1. /\ threadStates \in Seq(ThreadState) /\ Len(threadStates) \in Nat
      /\ Len(threadStates) <= MAX_THREAD_STATE
      /\ DOMAIN threadStates = 1..Len(threadStates)
      /\ threadBindings \in [Thread -> 0..Len(threadStates)]
      /\ state \in [Thread -> 0..MAX_THREAD_STATE]
      /\ \A s \in DOMAIN threadStates : threadStates[s] \in ThreadState
  BY DEF Kinds
<1>2. ASSUME UNCHANGED stateVars PROVE Good
  BY <1>1, <1>2 DEF stateVars
<1>3. ASSUME NEW s \in DOMAIN threadStates, NEW f \in BOOLEAN,
             \/ threadStates' = [threadStates EXCEPT ![s].isIdle = TRUE]
             \/ threadStates' = [threadStates EXCEPT ![s].isIdle = TRUE,
                                                     ![s].doFlushAfter = f],
             UNCHANGED threadBindings
      PROVE  Good
  <2> HIDE DEF Good
  <2>1. /\ threadStates' \in Seq(ThreadState)
        /\ Len(threadStates') = Len(threadStates)
        /\ DOMAIN threadStates' = DOMAIN threadStates
    BY <1>3, IdleState, Zenon
  <2> QED
    BY <1>1, <1>3, <2>1 DEF Good
<1>4. ASSUME NEW q, DoAfterFlush(q) PROVE Good
  BY <1>1, <1>4, AfterFlush
<1>5. ASSUME GoIdle(t, state[t]), state[t] \in DOMAIN threadStates,
             UNCHANGED threadBindings
      PROVE  Good
  BY <1>3, <1>5, GoesIdle
<1>6. ASSUME UNCHANGED state, ~Starts(t)'
      PROVE  /\ state' \in [Thread -> 0..MAX_THREAD_STATE]
             /\ Starts(t)' => state'[t] \in DOMAIN threadStates'
  BY <1>1, <1>6
<1>7. ASSUME Leave(t)
      PROVE  /\ state' \in [Thread -> 0..MAX_THREAD_STATE] /\ ~Starts(t)'
  BY <1>1, <1>7 DEF Leave, None, Starts, Kinds
<1>8. ASSUME NEW p \in PCs \ {"ready"}, GoTo(t, p)
      PROVE  ~Starts(t)'
  <2>1. pc'[t] = p
    BY <1>8 DEF GoTo, Kinds
  <2> QED
    BY <1>8, <2>1 DEF Starts
<1> HIDE DEF Good
<1>9. ASSUME NEW o \in Calls, Bind(t, o)
      PROVE  Good /\ state' \in [Thread -> 0..MAX_THREAD_STATE]
                  /\ state'[t] \in DOMAIN threadStates'
  <2>1. CASE threadBindings[t] # None
    <3>1. /\ threadBindings' = [threadBindings EXCEPT ![t] = threadBindings[t]]
          /\ state' = [state EXCEPT ![t] = threadBindings[t]]
          /\ threadStates' = threadStates
      BY <1>9, <2>1 DEF Bind
    <3> QED
      BY <1>1, <2>1, <3>1 DEF Good, None
  <2>2. CASE /\ threadBindings[t] = None /\ threadStates # <<>>
             /\ \/ threadStates[MinThreadState].numThreads = 0
                \/ Len(threadStates) >= MAX_THREAD_STATE
    <3> DEFINE m == MinThreadState
               v == [threadStates[m] EXCEPT !.numThreads = @ + 1]
    <3>1. m \in DOMAIN threadStates
      BY <1>1, <2>2, MinExists
    <3>2. /\ threadBindings' = [threadBindings EXCEPT ![t] = m]
          /\ state' = [state EXCEPT ![t] = m]
          /\ threadStates' = [threadStates EXCEPT ![m].numThreads = @ + 1]
      BY <1>9, <2>2 DEF Bind
    <3> HIDE DEF m
    <3>3. v \in ThreadState
      <4>1. threadStates[m] \in ThreadState
        BY <1>1, <3>1
      <4> QED
        BY <4>1 DEF ThreadState
    <3>4. threadStates' = [threadStates EXCEPT ![m] = v]
      BY <3>2
    <3> HIDE DEF v
    <3>5. /\ threadStates' \in Seq(ThreadState)
          /\ Len(threadStates') = Len(threadStates)
          /\ DOMAIN threadStates' = DOMAIN threadStates
      BY <1>1, <3>1, <3>3, <3>4, OneState
    <3> QED
      BY <1>1, <3>1, <3>2, <3>5 DEF Good
  <2>3. CASE /\ threadBindings[t] = None
             /\ ~(/\ threadStates # <<>>
                  /\ \/ threadStates[MinThreadState].numThreads = 0
                     \/ Len(threadStates) >= MAX_THREAD_STATE)
    <3> DEFINE n == Len(threadStates)
    <3>1. /\ threadBindings' = [threadBindings EXCEPT ![t] = n + 1]
          /\ state' = [state EXCEPT ![t] = n + 1]
          /\ threadStates' = Append(threadStates, NewThreadState)
      BY <1>9, <2>3, Zenon DEF Bind
    <3>2. n + 1 <= MAX_THREAD_STATE
      <4>1. CASE threadStates = <<>>
        BY <4>1
      <4>2. CASE threadStates # <<>>
        BY <1>1, <2>3, <4>2
      <4> QED
        BY <4>1, <4>2
    <3>3. /\ threadStates' \in Seq(ThreadState) /\ Len(threadStates') = n + 1
          /\ DOMAIN threadStates' = 1..n + 1
      BY <1>1, <3>1 DEF NewThreadState, ThreadState
    <3> QED
      BY <1>1, <3>1, <3>2, <3>3 DEF Good
  <2> QED
    BY <2>1, <2>2, <2>3
<1>10. CASE \E o \in Calls : Bind(t, o)
  BY <1>9, <1>10 DEF Good
<1>11. CASE CallDelete(t)
  BY <1>1, <1>2, <1>11 DEF Good, CallDelete, Begin, None, Starts, Kinds
<1>12. CASE CallCommit(t) \/ CallDeleteAll(t) \/ CallClose(t)
  <2>1. UNCHANGED stateVars /\ UNCHANGED state
    BY <1>12 DEF CallCommit, CallDeleteAll, CallClose
  <2>2. ~Starts(t)'
    BY <1>12 DEF CallCommit, CallDeleteAll, CallClose, Begin, Starts, Kinds
  <2> QED
    BY <1>2, <1>6, <2>1, <2>2 DEF Good
<1>13. CASE GetThreadState(t)
  <2>1. UNCHANGED state /\ UNCHANGED threadBindings /\ ~Starts(t)'
    BY <1>13 DEF GetThreadState, GoTo, Starts, Kinds
  <2>2. CASE docClosed
    BY <1>2, <1>6, <1>13, <2>1, <2>2 DEF GetThreadState, stateVars, Good
  <2>3. CASE ~docClosed
    <3> DEFINE s == state[t]
    <3>1. s \in DOMAIN threadStates
      BY <1>13 DEF GetThreadState, Owners, Starts
    <3>2. PICK f \in BOOLEAN :
             threadStates' = [threadStates EXCEPT ![s].isIdle = FALSE,
                                ![s].docID = nextDocID, ![s].doFlushAfter = f]
      <4> DEFINE del == deletes + (IF op[t] = "update" THEN 1 ELSE 0)
                 forDeletes == /\ op[t] = "update"
                               /\ bufferIsFull \/ del >= MaxBufferedDeletes
                 forDocs == ~forDeletes /\ nextDocID + 1 >= MaxBufferedDocs
      <4>1. threadStates' = [threadStates EXCEPT ![s].isIdle = FALSE,
                  ![s].docID = nextDocID,
                  ![s].doFlushAfter = IF op[t] = "update"
                                      THEN forDeletes \/ forDocs
                                      ELSE @ \/ forDocs]
        BY <1>13, <2>3 DEF GetThreadState
      <4> HIDE DEF forDeletes, forDocs
      <4>2. CASE op[t] = "update"
        <5> DEFINE g == forDeletes \/ forDocs
        <5>1. g \in BOOLEAN
          OBVIOUS
        <5>2. threadStates' = [threadStates EXCEPT ![s].isIdle = FALSE,
                                ![s].docID = nextDocID, ![s].doFlushAfter = g]
          BY <4>1, <4>2
        <5> QED
          BY <5>1, <5>2
      <4>3. CASE op[t] # "update"
        <5> DEFINE g == threadStates[s].doFlushAfter \/ forDocs
        <5>1. g \in BOOLEAN
          OBVIOUS
        <5>2. threadStates' = [threadStates EXCEPT ![s].isIdle = FALSE,
                                ![s].docID = nextDocID, ![s].doFlushAfter = g]
          BY <1>1, <3>1, <4>1, <4>3 DEF ThreadState
        <5> QED
          BY <5>1, <5>2
      <4> QED
        BY <4>2, <4>3
    <3> DEFINE v == [threadStates[s] EXCEPT !.isIdle = FALSE,
                       !.docID = nextDocID, !.doFlushAfter = f]
    <3>3. v \in ThreadState
      BY <1>1, <3>1 DEF ThreadState, Kinds
    <3>4. threadStates' = [threadStates EXCEPT ![s] = v]
      BY <1>1, <3>1, <3>2
    <3> HIDE DEF v, s
    <3>5. /\ threadStates' \in Seq(ThreadState)
          /\ Len(threadStates') = Len(threadStates)
          /\ DOMAIN threadStates' = DOMAIN threadStates
      BY <1>1, <3>1, <3>3, <3>4, OneState
    <3> QED
      BY <1>1, <1>6, <2>1, <3>5 DEF Good
  <2> QED
    BY <2>2, <2>3

<1>14. CASE ProcessDocument(t) \/ CloseDocWriter(t) \/ SkipFlush(t)
  <2>1. UNCHANGED stateVars /\ UNCHANGED state /\ ~Starts(t)'
    BY <1>14 DEF ProcessDocument, CloseDocWriter, SkipFlush, stateVars, GoTo,
                 Starts, Kinds
  <2> QED
    BY <1>2, <1>6, <2>1 DEF Good
<1>15. CASE DropDocument(t) \/ SkipDocument(t) \/ StartAbort(t)
  <2>1. state[t] \in DOMAIN threadStates
    BY <1>15 DEF DropDocument, SkipDocument, StartAbort, Owners, Active
  <2>2. /\ \/ threadStates' = [threadStates EXCEPT ![state[t]].isIdle = TRUE]
           \/ threadStates' = [threadStates EXCEPT ![state[t]].isIdle = TRUE,
                                          ![state[t]].doFlushAfter = FALSE]
        /\ UNCHANGED threadBindings /\ UNCHANGED state
    BY <1>15 DEF DropDocument, SkipDocument, StartAbort
  <2>3. ~Starts(t)'
    BY <1>15 DEF DropDocument, SkipDocument, StartAbort, GoTo, Starts, Kinds
  <2>4. Good
    BY <1>3, <2>1, <2>2
  <2> QED
    BY <1>6, <2>2, <2>3, <2>4 DEF Good
<1>16. CASE FinishDocument(t)
  <2>1. state[t] \in DOMAIN threadStates
    BY <1>16 DEF FinishDocument, Owners, Active
  <2>2. /\ UNCHANGED threadBindings /\ UNCHANGED state
        /\ GoIdle(t, state[t]) \/ UNCHANGED threadStates
    BY <1>16 DEF FinishDocument
  <2>3. ~Starts(t)'
    BY <1>16 DEF FinishDocument, GoIdle, GoTo, Starts, Kinds
  <2>4. Good
    BY <1>2, <1>5, <2>1, <2>2 DEF stateVars
  <2> QED
    BY <1>6, <2>2, <2>3, <2>4 DEF Good
<1>17. CASE WaitForWaitQueue(t)
  <2>1. /\ state[t] \in DOMAIN threadStates /\ GoIdle(t, state[t])
        /\ UNCHANGED threadBindings /\ UNCHANGED state
    BY <1>17 DEF WaitForWaitQueue, Owners, Active
  <2>2. ~Starts(t)'
    BY <1>17 DEF WaitForWaitQueue, GoIdle, GoTo, Starts, Kinds
  <2>3. Good
    BY <1>5, <2>1
  <2> QED
    BY <1>6, <2>1, <2>2, <2>3 DEF Good
<1>18. CASE Abort(t) \/ DeleteAll(t)
  <2>1. Good
    BY <1>4, <1>18 DEF Abort, DeleteAll
  <2>2. Leave(t) \/ (GoTo(t, "error") /\ UNCHANGED state)
    BY <1>18 DEF Abort, DeleteAll
  <2> QED
    BY <1>6, <1>7, <1>8, <2>1, <2>2 DEF Good, PCs
<1>19. CASE \/ DeleteAbortedFiles(t) \/ ReturnDocument(t) \/ BufferDelete(t)
            \/ StartFlush(t) \/ EndFlush(t)
  <2>1. UNCHANGED stateVars
    BY <1>19 DEF DeleteAbortedFiles, ReturnDocument, BufferDelete, StartFlush,
                 EndFlush
  <2>2. \/ Leave(t)
        \/ (GoTo(t, "flush") \/ GoTo(t, "flushing")) /\ UNCHANGED state
    BY <1>19 DEF DeleteAbortedFiles, ReturnDocument, BufferDelete, StartFlush,
                 EndFlush
  <2> QED
    BY <1>2, <1>6, <1>7, <1>8, <2>1, <2>2 DEF Good, PCs
<1>20. CASE Flush(t)
  <2>1. Good
    BY <1>2, <1>4, <1>20 DEF Flush
  <2>2. (GoTo(t, "flushed") \/ GoTo(t, "flushFailed")) /\ UNCHANGED state
    BY <1>20 DEF Flush
  <2> QED
    BY <1>6, <1>8, <2>1, <2>2 DEF Good, PCs
<1> QED
  BY <1>9, <1>11, <1>12, <1>13, <1>14, <1>15, <1>16, <1>17, <1>18, <1>19,
     <1>20 DEF Call, Step, Good

\* A step changes the control of its own thread only.
LEMMA ControlStep ==
    ASSUME Kinds, NEW t \in Thread, Call(t) \/ Step(t)
    PROVE  /\ pc' \in [Thread -> PCs] /\ op' \in [Thread -> Calls \cup {"none"}]
           /\ \A u \in Thread \ {t} : /\ pc'[u] = pc[u] /\ op'[u] = op[u]
                                      /\ state'[u] = state[u]
<1> DEFINE Own == /\ pc' \in [Thread -> PCs]
                  /\ op' \in [Thread -> Calls \cup {"none"}]
                  /\ \A u \in Thread \ {t} : /\ pc'[u] = pc[u] /\ op'[u] = op[u]
                                             /\ state'[u] = state[u]
<1> SUFFICES Own
  OBVIOUS
<1>1. /\ pc \in [Thread -> PCs] /\ op \in [Thread -> Calls \cup {"none"}]
      /\ state \in [Thread -> 0..MAX_THREAD_STATE]
  BY DEF Kinds
<1>2. ASSUME NEW p \in PCs, GoTo(t, p), UNCHANGED <<op, state>>
      PROVE  Own
  BY <1>1, <1>2 DEF GoTo
<1>3. ASSUME Leave(t) PROVE Own
  BY <1>1, <1>3 DEF Leave, PCs
<1>4. ASSUME NEW p \in PCs, NEW o \in Calls, Begin(t, o, p),
             UNCHANGED state \/ (\E s : state' = [state EXCEPT ![t] = s])
      PROVE  Own
  BY <1>1, <1>4 DEF Begin
<1> HIDE DEF Own
<1>5. CASE \E o \in Calls : Bind(t, o)
  <2>1. PICK o \in Calls : Bind(t, o)
    BY <1>5
  <2>2. Begin(t, o, "ready") /\ \E s : state' = [state EXCEPT ![t] = s]
    BY <2>1 DEF Bind
  <2> QED
    BY <1>4, <2>2 DEF PCs
<1>6. CASE CallDelete(t)
  BY <1>4, <1>6 DEF CallDelete, MayCall, PCs
<1>7. CASE CallCommit(t) \/ CallDeleteAll(t) \/ CallClose(t)
  BY <1>4, <1>7 DEF CallCommit, CallDeleteAll, CallClose, MayCall, PCs
<1>8. CASE \/ GetThreadState(t) \/ ProcessDocument(t) \/ DropDocument(t)
           \/ SkipDocument(t) \/ StartAbort(t) \/ CloseDocWriter(t)
           \/ SkipFlush(t) \/ Flush(t)
  <2>1. (\E p \in PCs : GoTo(t, p)) /\ UNCHANGED <<op, state>>
    <3>1. PCs = {"idle", "ready", "process", "finish", "queue", "failed",
                 "abort", "skipAbort", "error", "return", "flush", "flushing",
                 "flushed", "flushFailed", "wipe", "drain"}
      BY DEF PCs
    <3> QED
      BY <1>8, <3>1 DEF GetThreadState, ProcessDocument, DropDocument,
         SkipDocument, StartAbort, CloseDocWriter, SkipFlush, Flush
  <2> QED
    BY <1>2, <2>1
<1>9. CASE FinishDocument(t) \/ WaitForWaitQueue(t)
  <2>1. (\E p \in PCs : GoTo(t, p)) /\ UNCHANGED <<op, state>>
    BY <1>9 DEF FinishDocument, WaitForWaitQueue, GoIdle, PCs
  <2> QED
    BY <1>2, <2>1
<1>10. CASE Abort(t) \/ DeleteAll(t)
  BY <1>2, <1>3, <1>10 DEF Abort, DeleteAll, PCs
<1>11. CASE \/ DeleteAbortedFiles(t) \/ ReturnDocument(t) \/ BufferDelete(t)
            \/ StartFlush(t) \/ EndFlush(t)
  BY <1>2, <1>3, <1>11 DEF DeleteAbortedFiles, ReturnDocument, BufferDelete,
     StartFlush, EndFlush, PCs
<1> QED
  BY <1>5, <1>6, <1>7, <1>8, <1>9, <1>10, <1>11 DEF Call, Step

LEMMA KindsStep ==
    ASSUME Kinds, Flags, Owners, NEW t \in Thread, Call(t) \/ Step(t)
    PROVE  Kinds'
<1>1. /\ threadStates' \in Seq(ThreadState)
      /\ Len(threadStates') <= MAX_THREAD_STATE
      /\ threadBindings' \in [Thread -> 0..Len(threadStates')]
      /\ state' \in [Thread -> 0..MAX_THREAD_STATE]
  BY StatesStep
<1>2. pc' \in [Thread -> PCs] /\ op' \in [Thread -> Calls \cup {"none"}]
  BY ControlStep
<1>3. /\ nextDocID' \in Nat /\ deletes' \in Nat /\ started' \in Nat
      /\ ixLock' \in Thread \cup {None} /\ calls' \in 0..MaxCalls
  <2> DEFINE Same == UNCHANGED <<nextDocID, deletes, started, ixLock, calls>>
             Good == /\ nextDocID' \in Nat /\ deletes' \in Nat /\ started' \in Nat
                     /\ ixLock' \in Thread \cup {None} /\ calls' \in 0..MaxCalls
  <2>1. /\ nextDocID \in Nat /\ deletes \in Nat /\ started \in Nat
        /\ ixLock \in Thread \cup {None} /\ calls \in 0..MaxCalls
        /\ MaxCalls \in Nat
    BY DocumentsAssumption DEF Kinds
  <2>2. ASSUME NEW o, NEW p, MayCall(t, o), Begin(t, o, p)
        PROVE  calls' \in 0..MaxCalls
    BY <2>1, <2>2 DEF MayCall, Begin
  <2>3. CASE Call(t)
    <3>1. calls' \in 0..MaxCalls
      BY <2>2, <2>3, Zenon DEF Call, Bind, CallDelete, CallCommit,
                               CallDeleteAll, CallClose
    <3> QED
      BY <2>1, <2>3, <3>1 DEF Call, Bind, CallDelete, CallCommit,
         CallDeleteAll, CallClose, bufferVars, writerVars
  <2>4. CASE GetThreadState(t) \/ BufferDelete(t) \/ SkipDocument(t)
    BY <2>1, <2>4 DEF GetThreadState, BufferDelete, SkipDocument, bufferVars,
                      writerVars
  <2>5. CASE Abort(t) \/ DeleteAll(t) \/ Flush(t)
    <3>1. nextDocID' = 0 \/ nextDocID' = nextDocID
      BY <2>5, Zenon DEF Abort, DeleteAll, Flush, DoAfterFlush, bufferVars
    <3> QED
      BY <2>1, <2>5, <3>1 DEF Abort, DeleteAll, Flush, writerVars
  <2>6. CASE \/ ProcessDocument(t) \/ DropDocument(t) \/ FinishDocument(t)
             \/ WaitForWaitQueue(t) \/ StartAbort(t) \/ DeleteAbortedFiles(t)
             \/ ReturnDocument(t) \/ CloseDocWriter(t) \/ StartFlush(t)
             \/ SkipFlush(t) \/ EndFlush(t)
    BY <2>1, <2>6 DEF ProcessDocument, DropDocument, FinishDocument,
       WaitForWaitQueue, StartAbort, DeleteAbortedFiles, ReturnDocument,
       CloseDocWriter, StartFlush, SkipFlush, EndFlush, bufferVars, writerVars
  <2> QED
    BY <2>3, <2>4, <2>5, <2>6 DEF Step
<1> QED
  BY <1>1, <1>2, <1>3 DEF Kinds

\* The states of the threads with a document in hand: the others' stay as
\* they are, and the thread that gets one is alone with it.
LEMMA OwnStep ==
    ASSUME Kinds, Flags, Owners, NEW t \in Thread, Call(t) \/ Step(t)
    PROVE  /\ \A u \in Thread \ {t} : Active(u) =>
                 /\ ~threadStates'[state[u]].isIdle
                 /\ threadStates'[state[u]].docID = threadStates[state[u]].docID
           /\ Active(t)' =>
                 /\ state'[t] = state[t] /\ state[t] \in DOMAIN threadStates
                 /\ ~threadStates'[state[t]].isIdle
                 /\ \A u \in Thread \ {t} : Active(u) => state[u] # state[t]
                 /\ threadStates'[state[t]].docID =
                       IF Active(t) THEN threadStates[state[t]].docID
                       ELSE nextDocID
                 /\ Active(t) \/ GetThreadState(t)
           /\ pc'[t] = "return" => /\ state'[t] = state[t]
                                   /\ state[t] \in DOMAIN threadStates
<1> DEFINE Theirs == \A u \in Thread \ {t} : Active(u) =>
                 /\ ~threadStates'[state[u]].isIdle
                 /\ threadStates'[state[u]].docID = threadStates[state[u]].docID
           Mine == Active(t)' =>
                 /\ state'[t] = state[t] /\ state[t] \in DOMAIN threadStates
                 /\ ~threadStates'[state[t]].isIdle
                 /\ \A u \in Thread \ {t} : Active(u) => state[u] # state[t]
                 /\ threadStates'[state[t]].docID =
                       IF Active(t) THEN threadStates[state[t]].docID
                       ELSE nextDocID
                 /\ Active(t) \/ GetThreadState(t)
           Returned == pc'[t] = "return" => /\ state'[t] = state[t]
                                            /\ state[t] \in DOMAIN threadStates
           Good == Theirs /\ Mine /\ Returned
<1> SUFFICES Good
  OBVIOUS
<1>1. /\ threadStates \in Seq(ThreadState)
      /\ DOMAIN threadStates = 1..Len(threadStates)
      /\ \A s \in DOMAIN threadStates : threadStates[s] \in ThreadState
      /\ pc \in [Thread -> PCs]
  BY DEF Kinds
<1>2. \A u \in Thread : Active(u) => /\ state[u] \in DOMAIN threadStates
                                     /\ ~threadStates[state[u]].isIdle
  BY DEF Owners
<1>3. ASSUME UNCHANGED threadStates PROVE Theirs
  BY <1>2, <1>3
<1>4. ASSUME NEW p \in PCs, GoTo(t, p),
             p \notin {"process", "finish", "queue", "failed", "return"}
      PROVE  Mine /\ Returned
  <2>1. pc'[t] = p
    BY <1>1, <1>4 DEF GoTo
  <2> QED
    BY <1>4, <2>1 DEF Active
<1>5. ASSUME Leave(t) PROVE Mine /\ Returned
  <2>1. pc'[t] = "idle"
    BY <1>1, <1>5 DEF Leave
  <2> QED
    BY <2>1 DEF Active
<1>6. ASSUME NEW o, NEW p \in PCs, Begin(t, o, p),
             p \in {"ready", "flush", "wipe", "drain"}
      PROVE  Mine /\ Returned
  <2>1. pc'[t] = p
    BY <1>1, <1>6 DEF Begin
  <2> QED
    BY <1>6, <2>1 DEF Active
<1>7. ASSUME NEW q, DoAfterFlush(q) PROVE Theirs
  BY <1>2, <1>7, AfterFlush
<1>8. ASSUME Active(t), NEW f \in BOOLEAN,
             \/ threadStates' = [threadStates EXCEPT ![state[t]].isIdle = TRUE]
             \/ threadStates' = [threadStates EXCEPT ![state[t]].isIdle = TRUE,
                                               ![state[t]].doFlushAfter = f]
      PROVE  Theirs
  <2>1. \A r \in DOMAIN threadStates :
           r # state[t] => threadStates'[r] = threadStates[r]
    BY <1>2, <1>8, IdleState, Zenon
  <2>2. \A u \in Thread \ {t} : Active(u) => state[u] # state[t]
    BY <1>8 DEF Owners
  <2> QED
    BY <1>2, <2>1, <2>2
<1>9. ASSUME UNCHANGED threadStates, Active(t), UNCHANGED state
      PROVE  Good
  BY <1>2, <1>3, <1>9 DEF Owners
<1> HIDE DEF Theirs, Mine, Returned
<1>10. CASE \E o \in Calls : Bind(t, o)
  <2>1. PICK o \in Calls : Bind(t, o)
    BY <1>10
  <2>2. Mine /\ Returned
    BY <1>6, <2>1 DEF Bind, PCs
  <2>3. Theirs
    <3>1. \/ UNCHANGED threadStates
          \/ /\ threadStates # <<>>
             /\ threadStates' = [threadStates EXCEPT
                                   ![MinThreadState].numThreads = @ + 1]
          \/ threadStates' = Append(threadStates, NewThreadState)
      BY <2>1, Zenon DEF Bind
    <3>2. CASE /\ threadStates # <<>>
               /\ threadStates' = [threadStates EXCEPT
                                     ![MinThreadState].numThreads = @ + 1]
      <4> DEFINE m == MinThreadState
      <4>1. m \in DOMAIN threadStates
        BY <1>1, <3>2, MinExists
      <4>2. threadStates' = [threadStates EXCEPT ![m].numThreads = @ + 1]
        BY <3>2
      <4> HIDE DEF m
      <4>3. \A s \in DOMAIN threadStates :
               /\ threadStates'[s].isIdle = threadStates[s].isIdle
               /\ threadStates'[s].docID = threadStates[s].docID
        BY <1>1, <4>1, <4>2 DEF ThreadState
      <4> QED
        BY <1>2, <4>3 DEF Theirs
    <3>3. CASE threadStates' = Append(threadStates, NewThreadState)
      <4>1. \A s \in DOMAIN threadStates : threadStates'[s] = threadStates[s]
        BY <1>1, <3>3
      <4> QED
        BY <1>2, <4>1 DEF Theirs
    <3> QED
      BY <1>3, <3>1, <3>2, <3>3
  <2> QED
    BY <2>2, <2>3
<1>11. CASE CallDelete(t) \/ CallCommit(t) \/ CallDeleteAll(t) \/ CallClose(t)
  BY <1>3, <1>6, <1>11 DEF CallDelete, CallCommit, CallDeleteAll, CallClose,
     stateVars, PCs
<1>12. CASE GetThreadState(t)
  <2>1. CASE docClosed
    <3>1. UNCHANGED threadStates /\ GoTo(t, "error")
      BY <1>12, <2>1 DEF GetThreadState
    <3> QED
      BY <1>3, <1>4, <3>1 DEF PCs
  <2>2. CASE ~docClosed
    <3>1. state[t] \in DOMAIN threadStates /\ threadStates[state[t]].isIdle
      <4>1. state[t] \in DOMAIN threadStates
        BY <1>12 DEF GetThreadState, Owners, Starts
      <4>2. state[t] # None
        BY <1>1, <4>1 DEF None
      <4> QED
        BY <1>12, <2>2, <4>1, <4>2 DEF GetThreadState, WaitReady
    <3>2. /\ threadStates'[state[t]].isIdle = FALSE
          /\ threadStates'[state[t]].docID = nextDocID
          /\ \A r \in DOMAIN threadStates :
                r # state[t] => threadStates'[r] = threadStates[r]
          /\ UNCHANGED state /\ GoTo(t, "process")
      <4>1. \E f : threadStates' = [threadStates EXCEPT ![state[t]].isIdle = FALSE,
                          ![state[t]].docID = nextDocID,
                          ![state[t]].doFlushAfter = f]
        BY <1>1, <1>12, <2>2, <3>1 DEF GetThreadState
      <4>2. UNCHANGED state /\ GoTo(t, "process")
        BY <1>12, <2>2 DEF GetThreadState
      <4> QED
        BY <1>1, <3>1, <4>1, <4>2 DEF ThreadState
    <3>3. \A u \in Thread : Active(u) => state[u] # state[t]
      BY <1>2, <3>1
    <3>4. Theirs
      BY <1>2, <3>2, <3>3 DEF Theirs
    <3>5. Mine /\ Returned
      <4>1. pc[t] = "ready" /\ pc'[t] = "process"
        BY <1>1, <1>12, <3>2 DEF GetThreadState, GoTo
      <4> QED
        BY <1>12, <3>1, <3>2, <3>3, <4>1 DEF Mine, Returned, Active
    <3> QED
      BY <3>4, <3>5
  <2> QED
    BY <2>1, <2>2
<1>13. CASE ProcessDocument(t)
  BY <1>9, <1>13 DEF ProcessDocument, stateVars, Active
<1>14. CASE DropDocument(t)
  <2>1. /\ Active(t) /\ pc'[t] = "return" /\ UNCHANGED state
        /\ threadStates' = [threadStates EXCEPT ![state[t]].isIdle = TRUE]
    BY <1>1, <1>14 DEF DropDocument, Active, GoTo
  <2>2. Mine /\ Returned
    BY <1>2, <2>1 DEF Mine, Returned, Active
  <2> QED
    BY <1>8, <2>1, <2>2
<1>15. ASSUME Active(t), GoIdle(t, state[t]), UNCHANGED state
       PROVE  Good
  <2>1. PICK f \in BOOLEAN :
           threadStates' = [threadStates EXCEPT ![state[t]].isIdle = TRUE,
                                                ![state[t]].doFlushAfter = f]
    BY <1>2, <1>15, GoesIdle
  <2>2. pc'[t] = "return"
    BY <1>1, <1>15 DEF GoIdle, GoTo
  <2>3. Mine /\ Returned
    BY <1>2, <1>15, <2>2 DEF Mine, Returned, Active
  <2> QED
    BY <1>8, <1>15, <2>1, <2>3
<1>16. CASE FinishDocument(t)
  <2>1. Active(t) /\ UNCHANGED state
    BY <1>16 DEF FinishDocument, Active
  <2>2. GoIdle(t, state[t]) \/ UNCHANGED threadStates
    BY <1>16 DEF FinishDocument
  <2> QED
    BY <1>9, <1>15, <2>1, <2>2
<1>17. CASE WaitForWaitQueue(t)
  BY <1>15, <1>17 DEF WaitForWaitQueue, Active
<1>18. CASE SkipDocument(t) \/ StartAbort(t)
  <2>1. /\ \/ threadStates' = [threadStates EXCEPT ![state[t]].isIdle = TRUE]
           \/ threadStates' = [threadStates EXCEPT ![state[t]].isIdle = TRUE,
                                          ![state[t]].doFlushAfter = FALSE]
        /\ GoTo(t, "error") \/ GoTo(t, "skipAbort") \/ GoTo(t, "abort")
        /\ Active(t)
    BY <1>18 DEF SkipDocument, StartAbort, Active
  <2> QED
    BY <1>4, <1>8, <2>1 DEF PCs
<1>19. CASE Abort(t) \/ DeleteAll(t)
  <2>1. (\E q : DoAfterFlush(q)) /\ (Leave(t) \/ GoTo(t, "error"))
    BY <1>19 DEF Abort, DeleteAll
  <2> QED
    BY <1>4, <1>5, <1>7, <2>1 DEF PCs
<1>20. CASE \/ DeleteAbortedFiles(t) \/ ReturnDocument(t) \/ BufferDelete(t)
            \/ StartFlush(t) \/ EndFlush(t) \/ CloseDocWriter(t)
            \/ SkipFlush(t)
  <2>1. /\ UNCHANGED threadStates
        /\ Leave(t) \/ GoTo(t, "flush") \/ GoTo(t, "flushing") \/ GoTo(t, "flushed")
    BY <1>20 DEF DeleteAbortedFiles, ReturnDocument, BufferDelete, StartFlush,
                 EndFlush, CloseDocWriter, SkipFlush, stateVars
  <2> QED
    BY <1>3, <1>4, <1>5, <2>1 DEF PCs
<1>21. CASE Flush(t)
  <2>1. /\ UNCHANGED threadStates \/ \E q : DoAfterFlush(q)
        /\ GoTo(t, "flushed") \/ GoTo(t, "flushFailed")
    BY <1>21 DEF Flush, stateVars
  <2> QED
    BY <1>3, <1>4, <1>7, <2>1 DEF PCs
<1> QED
  BY <1>10, <1>11, <1>12, <1>13, <1>14, <1>16, <1>17, <1>18, <1>19, <1>20,
     <1>21 DEF Call, Step

LEMMA OwnersStep ==
    ASSUME Kinds, Flags, Owners, NEW t \in Thread, Call(t) \/ Step(t)
    PROVE  Owners'
<1>1. /\ \A u \in Thread \ {t} : /\ pc'[u] = pc[u] /\ op'[u] = op[u]
                                 /\ state'[u] = state[u]
      /\ DOMAIN threadStates \subseteq DOMAIN threadStates'
      /\ Starts(t)' => state'[t] \in DOMAIN threadStates'
  BY ControlStep, StatesStep
<1>2. ASSUME NEW u \in Thread
      PROVE  /\ Active(u)' \/ pc'[u] = "return" \/ Starts(u)' =>
                   state'[u] \in DOMAIN threadStates'
             /\ Active(u)' => ~threadStates'[state'[u]].isIdle
  <2>1. CASE u = t
    BY <1>1, <2>1, OwnStep
  <2>2. CASE u # t
    <3>1. (Active(u)' <=> Active(u)) /\ (Starts(u)' <=> Starts(u))
      BY <1>1, <2>2 DEF Active, Starts
    <3> QED
      BY <1>1, <2>2, <3>1, OwnStep DEF Owners
  <2> QED
    BY <2>1, <2>2
<1>3. ASSUME NEW u \in Thread, NEW w \in Thread,
             Active(u)', Active(w)', state'[u] = state'[w]
      PROVE  u = w
  <2>1. \A x \in Thread \ {t} : (Active(x)' <=> Active(x)) /\ state'[x] = state[x]
    BY <1>1 DEF Active
  <2>2. Active(t)' => state'[t] = state[t] /\
                      \A x \in Thread \ {t} : Active(x) => state[x] # state[t]
    BY OwnStep
  <2> QED
    BY <1>3, <2>1, <2>2 DEF Owners
<1> QED
  BY <1>2, <1>3 DEF Owners

-----------------------------------------------------------------------------
(***************************************************************************)
(* Closing and pauses.                                                     *)
(***************************************************************************)
\* No thread has a document in hand when all states are idle.
LEMMA IdleThreads ==
    ASSUME Owners, AllThreadsIdle
    PROVE  \A t \in Thread : ~Active(t)
BY DEF Owners, AllThreadsIdle

LEMMA ClosingStep ==
    ASSUME Kinds, Flags, Owners, Closing, NEW t \in Thread, Call(t) \/ Step(t)
    PROVE  Closing'
<1> USE DEF Closes
<1>1. /\ pc \in [Thread -> PCs] /\ op \in [Thread -> Calls \cup {"none"}]
      /\ \A u \in Thread \ {t} : pc'[u] = pc[u] /\ op'[u] = op[u]
      /\ \A u \in Thread \ {t} : Active(u)' <=> Active(u)
  BY ControlStep DEF Kinds, Active
<1>2. Active(t)' => Active(t) \/ GetThreadState(t)
  BY OwnStep
<1>3. ASSUME UNCHANGED <<closing, closed, docClosed>>,
             t \in Closes' => t \in Closes /\ pc'[t] \in
                {"drain", "flush", "flushing", "flushed", "flushFailed"}
                /\ (pc'[t] # "drain" => docClosed),
             docClosed => ~Active(t)'
      PROVE  Closing'
  BY <1>1, <1>3 DEF Closing
<1>4. ASSUME t \notin Closes, UNCHANGED op PROVE t \notin Closes'
  BY <1>4
<1>5. CASE \E o \in Calls : Bind(t, o)
  <2>1. op'[t] \in {"add", "update"} /\ pc'[t] = "ready"
        /\ UNCHANGED <<closing, closed, docClosed>>
    BY <1>1, <1>5 DEF Bind, Begin, writerVars
  <2> QED
    BY <1>3, <2>1 DEF Active
<1>6. CASE CallDelete(t) \/ CallCommit(t) \/ CallDeleteAll(t)
  <2>1. /\ op'[t] # "close" /\ pc'[t] \in {"ready", "flush", "wipe"}
        /\ UNCHANGED <<closing, closed, docClosed>>
    BY <1>1, <1>6 DEF CallDelete, CallCommit, CallDeleteAll, Begin, writerVars
  <2> QED
    BY <1>3, <2>1 DEF Active
<1>7. CASE CallClose(t)
  <2>1. /\ op'[t] = "close" /\ pc'[t] = "drain" /\ closing' = TRUE
        /\ UNCHANGED <<closed, docClosed>> /\ ~closing /\ ~closed
    BY <1>1, <1>7 DEF CallClose, Begin, MayCall
  <2> QED
    BY <1>1, <2>1 DEF Closing, Active
<1>8. CASE GetThreadState(t)
  <2>1. /\ UNCHANGED <<closing, closed, docClosed>> /\ UNCHANGED op
        /\ op[t] \in {"add", "update"}
    BY <1>8 DEF GetThreadState, writerVars
  <2>2. docClosed => pc'[t] = "error"
    BY <1>1, <1>8 DEF GetThreadState, GoTo
  <2> QED
    BY <1>3, <2>1, <2>2 DEF Active
<1>9. CASE \/ ProcessDocument(t) \/ DropDocument(t) \/ FinishDocument(t)
           \/ WaitForWaitQueue(t) \/ SkipDocument(t) \/ StartAbort(t)
  <2>1. Active(t) /\ UNCHANGED <<closing, closed, docClosed>> /\ UNCHANGED op
    BY <1>9 DEF ProcessDocument, DropDocument, FinishDocument,
       WaitForWaitQueue, SkipDocument, StartAbort, writerVars, Active
  <2>2. t \notin Closes /\ ~docClosed
    BY <2>1 DEF Closing, Active
  <2> QED
    BY <1>3, <2>1, <2>2
<1>10. CASE Abort(t) \/ DeleteAll(t) \/ DeleteAbortedFiles(t) \/ ReturnDocument(t)
            \/ BufferDelete(t)
  <2>1. /\ pc[t] \in {"abort", "skipAbort", "wipe", "error", "return", "ready"}
        /\ UNCHANGED <<closing, closed, docClosed>>
        /\ UNCHANGED op \/ Leave(t)
    BY <1>10 DEF Abort, DeleteAll, DeleteAbortedFiles, ReturnDocument,
                 BufferDelete, writerVars
  <2>2. t \notin Closes
    BY <2>1 DEF Closing
  <2>3. t \notin Closes'
    BY <1>1, <2>1, <2>2 DEF Leave
  <2>4. ~Active(t)'
    BY <1>2, <1>10, <2>1 DEF Active, Abort, DeleteAll, DeleteAbortedFiles,
       ReturnDocument, BufferDelete, GetThreadState, Leave, GoTo, Kinds
  <2> QED
    BY <1>3, <2>1, <2>3, <2>4
<1>11. CASE CloseDocWriter(t)
  <2>1. /\ pc'[t] = "flush" /\ docClosed' = TRUE
        /\ UNCHANGED <<closing, closed, op>> /\ AllThreadsIdle
    BY <1>1, <1>11 DEF CloseDocWriter, GoTo
  <2>2. \A u \in Thread : ~Active(u)
    BY <2>1, IdleThreads
  <2>3. \A u \in Thread : ~Active(u)'
    BY <1>1, <2>1, <2>2 DEF Active
  <2> QED
    BY <1>1, <2>1, <2>3 DEF Closing
<1>12. CASE StartFlush(t) \/ SkipFlush(t) \/ Flush(t)
  <2>1. /\ UNCHANGED <<closing, closed, docClosed>>
        /\ pc[t] \in {"flush", "flushing"}
        /\ \/ /\ UNCHANGED op
              /\ pc'[t] \in {"flushing", "flushed", "flushFailed"}
           \/ Leave(t) /\ pc'[t] = "idle" /\ op'[t] = "none"
    BY <1>1, <1>12 DEF StartFlush, SkipFlush, Flush, writerVars, GoTo, Leave
  <2>2. t \in Closes' => t \in Closes /\ docClosed
    BY <1>1, <2>1 DEF Closing
  <2> QED
    BY <1>3, <2>1, <2>2 DEF Active
<1>13. CASE EndFlush(t)
  <2>1. /\ pc[t] \in {"flushed", "flushFailed"} /\ UNCHANGED docClosed
        /\ pc'[t] = "idle" /\ op'[t] = "none"
    BY <1>1, <1>13 DEF EndFlush, Leave
  <2>2. CASE op[t] # "close"
    <3>1. UNCHANGED <<closing, closed>>
      BY <1>13, <2>2 DEF EndFlush
    <3> QED
      BY <1>3, <2>1, <3>1 DEF Active
  <2>3. CASE op[t] = "close"
    <3>1. \A u \in Thread : op'[u] # "close"
      BY <1>1, <2>1, <2>3 DEF Closing
    <3>2. docClosed
      BY <2>1, <2>3 DEF Closing
    <3> QED
      BY <1>1, <2>1, <3>1, <3>2 DEF Closing, Active
  <2> QED
    BY <2>2, <2>3
<1> QED
  BY <1>5, <1>6, <1>7, <1>8, <1>9, <1>10, <1>11, <1>12, <1>13 DEF Call, Step

\* 1 if t is in S, else 0
In(t, S) == IF t \in S THEN 1 ELSE 0

\* How one thread changes the size of a set of threads.
LEMMA CountStep ==
    ASSUME NEW S \in SUBSET Thread, NEW R \in SUBSET Thread, NEW t \in Thread,
           R \ {t} = S \ {t}
    PROVE  /\ Cardinality(S) \in Nat /\ Cardinality(R) \in Nat
           /\ Cardinality(R) = Cardinality(S) - In(t, S) + In(t, R)
<1>1. IsFiniteSet(S) /\ IsFiniteSet(R) /\ IsFiniteSet(S \ {t})
  BY DocumentsAssumption, FS_Subset
<1>2. /\ Cardinality(S) \in Nat /\ Cardinality(R) \in Nat
      /\ Cardinality(S \ {t}) \in Nat
  BY <1>1, FS_CardinalityType
<1>3. ASSUME NEW T \in SUBSET Thread, IsFiniteSet(T)
      PROVE  Cardinality(T) = Cardinality(T \ {t}) + In(t, T)
  <2>1. CASE t \in T
    <3>1. t \notin T \ {t} /\ (T \ {t}) \cup {t} = T /\ IsFiniteSet(T \ {t})
      BY <1>3, <2>1, FS_Subset
    <3>2. Cardinality(T) = Cardinality(T \ {t}) + 1
      BY <3>1, FS_AddElement
    <3> QED
      BY <2>1, <3>2 DEF In
  <2>2. CASE t \notin T
    <3>1. T \ {t} = T /\ Cardinality(T) \in Nat
      BY <1>3, <2>2, FS_CardinalityType
    <3>2. Cardinality(T) = Cardinality(T \ {t})
      BY <3>1, Zenon
    <3>3. In(t, T) = 0
      BY <2>2 DEF In
    <3> QED
      BY <3>1, <3>2, <3>3
  <2> QED
    BY <2>1, <2>2
<1>4. /\ Cardinality(S) = Cardinality(S \ {t}) + In(t, S)
      /\ Cardinality(R) = Cardinality(S \ {t}) + In(t, R)
  BY <1>1, <1>3
<1> QED
  BY <1>2, <1>4 DEF In

\* A step changes the number of pauses as it changes pauseThreads.
LEMMA PausesStep ==
    ASSUME Kinds, Flags, Owners, Closing, PausesCounted,
           NEW t \in Thread, Call(t) \/ Step(t)
    PROVE  PausesCounted'
<1> DEFINE P  == Cardinality(Pauses)
           C  == Cardinality(Closes)
           dP == In(t, Pauses') - In(t, Pauses)
           dC == In(t, Closes') - In(t, Closes)
           E  == IF closed THEN 1 ELSE 0
<1>1. /\ pc \in [Thread -> PCs] /\ op \in [Thread -> Calls \cup {"none"}]
      /\ \A u \in Thread \ {t} : pc'[u] = pc[u] /\ op'[u] = op[u]
  BY ControlStep DEF Kinds
<1>2. /\ P \in Nat /\ C \in Nat /\ P' = P + dP /\ C' = C + dC
  <2>1. /\ Pauses \in SUBSET Thread /\ Pauses' \in SUBSET Thread
        /\ Closes \in SUBSET Thread /\ Closes' \in SUBSET Thread
        /\ Pauses' \ {t} = Pauses \ {t} /\ Closes' \ {t} = Closes \ {t}
    BY <1>1 DEF Pauses, Closes
  <2>2. /\ P \in Nat /\ P' \in Nat /\ P' = P - In(t, Pauses) + In(t, Pauses')
    BY <2>1, CountStep
  <2>3. /\ C \in Nat /\ C' \in Nat /\ C' = C - In(t, Closes) + In(t, Closes')
    BY <2>1, CountStep
  <2> QED
    BY <2>2, <2>3 DEF In
<1>3. pauseThreads = P + C + E
  BY DEF PausesCounted
<1> SUFFICES P' + C' + E' = pauseThreads'
  BY DEF PausesCounted
<1> HIDE DEF P, C
<1>4. /\ t \in Pauses <=> pc[t] \in {"abort", "skipAbort", "wipe", "flushing"}
      /\ t \in Pauses' <=> pc'[t] \in {"abort", "skipAbort", "wipe", "flushing"}
      /\ t \in Closes <=> op[t] = "close"
      /\ t \in Closes' <=> op'[t] = "close"
  BY DEF Pauses, Closes
<1>5. ASSUME dP + dC + E' - E = 0, UNCHANGED pauseThreads
      PROVE  P' + C' + E' = pauseThreads'
  BY <1>2, <1>3, <1>5 DEF In
<1>6. ASSUME dP + dC + E' - E = 1, pauseThreads' = pauseThreads + 1
      PROVE  P' + C' + E' = pauseThreads'
  BY <1>2, <1>3, <1>6 DEF In
<1>7. ASSUME dP + dC + E' - E = -1, pauseThreads' = pauseThreads - 1
      PROVE  P' + C' + E' = pauseThreads'
  BY <1>2, <1>3, <1>7 DEF In
<1>8. ASSUME Leave(t) PROVE t \notin Pauses' /\ t \notin Closes'
  BY <1>1, <1>4, <1>8 DEF Leave
<1>9. ASSUME NEW p, GoTo(t, p) PROVE pc'[t] = p
  BY <1>1, <1>9 DEF GoTo
<1>10. ASSUME NEW p, NEW o, MayCall(t, o), Begin(t, o, p)
       PROVE  /\ pc'[t] = p /\ op'[t] = o
              /\ t \notin Pauses /\ t \notin Closes
  BY <1>1, <1>4, <1>10 DEF MayCall, Begin, Closing
<1>11. CASE \E o \in Calls : Bind(t, o)
  <2>1. /\ pc'[t] = "ready" /\ op'[t] \in {"add", "update"}
        /\ t \notin Pauses /\ t \notin Closes
    BY <1>10, <1>11 DEF Bind
  <2>2. UNCHANGED pauseThreads /\ UNCHANGED closed
    BY <1>11 DEF Bind, flagVars, writerVars
  <2> QED
    BY <1>4, <1>5, <2>1, <2>2 DEF In
<1>12. CASE CallDelete(t) \/ CallCommit(t)
  <2>1. /\ pc'[t] \in {"ready", "flush"} /\ op'[t] # "close"
        /\ t \notin Pauses /\ t \notin Closes
    BY <1>10, <1>12 DEF CallDelete, CallCommit
  <2>2. UNCHANGED pauseThreads /\ UNCHANGED closed
    BY <1>12 DEF CallDelete, CallCommit, flagVars, writerVars
  <2> QED
    BY <1>4, <1>5, <2>1, <2>2 DEF In
<1>13. CASE CallDeleteAll(t) \/ CallClose(t)
  <2>1. /\ t \notin Pauses /\ t \notin Closes
        /\ \/ pc'[t] = "wipe" /\ op'[t] = "deleteAll"
           \/ pc'[t] = "drain" /\ op'[t] = "close"
    BY <1>10, <1>13 DEF CallDeleteAll, CallClose
  <2>2. pauseThreads' = pauseThreads + 1 /\ UNCHANGED closed
    BY <1>13 DEF CallDeleteAll, CallClose
  <2> QED
    BY <1>4, <1>6, <2>1, <2>2 DEF In
<1>14. CASE \/ GetThreadState(t) \/ ProcessDocument(t) \/ DropDocument(t)
            \/ FinishDocument(t) \/ WaitForWaitQueue(t) \/ CloseDocWriter(t)
  <2>1. /\ UNCHANGED pauseThreads /\ UNCHANGED closed /\ UNCHANGED op
        /\ pc[t] \in {"ready", "process", "finish", "queue", "drain"}
    BY <1>14 DEF GetThreadState, ProcessDocument, DropDocument, FinishDocument,
       WaitForWaitQueue, CloseDocWriter, flagVars, writerVars
  <2>2. pc'[t] \notin {"abort", "skipAbort", "wipe", "flushing"}
    BY <1>9, <1>14 DEF GetThreadState, ProcessDocument, DropDocument,
       FinishDocument, WaitForWaitQueue, CloseDocWriter, GoIdle
  <2> QED
    BY <1>4, <1>5, <2>1, <2>2 DEF In
<1>15. CASE SkipDocument(t) \/ StartAbort(t)
  <2>1. /\ pc[t] = "failed" /\ UNCHANGED op /\ UNCHANGED closed
        /\ \/ pc'[t] \in {"abort", "skipAbort"} /\ pauseThreads' = pauseThreads + 1
           \/ pc'[t] = "error" /\ UNCHANGED pauseThreads
    BY <1>9, <1>15 DEF SkipDocument, StartAbort, writerVars
  <2> QED
    BY <1>4, <1>5, <1>6, <2>1 DEF In
<1>16. CASE Abort(t) \/ DeleteAll(t)
  <2>1. /\ pc[t] \in {"abort", "skipAbort", "wipe"}
        /\ pauseThreads' = pauseThreads - 1 /\ UNCHANGED closed
        /\ Leave(t) \/ (GoTo(t, "error") /\ UNCHANGED op)
    BY <1>16 DEF Abort, DeleteAll, writerVars
  <2>2. t \notin Closes /\ t \in Pauses
    BY <1>4, <2>1 DEF Closing
  <2>3. t \notin Closes' /\ t \notin Pauses'
    BY <1>4, <1>8, <1>9, <2>1, <2>2
  <2> QED
    BY <1>7, <2>1, <2>2, <2>3 DEF In
<1>17. CASE DeleteAbortedFiles(t) \/ ReturnDocument(t) \/ BufferDelete(t)
  <2>1. /\ pc[t] \in {"error", "return", "ready"}
        /\ UNCHANGED pauseThreads /\ UNCHANGED closed
        /\ Leave(t) \/ (GoTo(t, "flush") /\ UNCHANGED op)
    BY <1>17 DEF DeleteAbortedFiles, ReturnDocument, BufferDelete, flagVars,
                 writerVars
  <2>2. t \notin Closes /\ t \notin Pauses
    BY <1>4, <2>1 DEF Closing
  <2>3. t \notin Closes' /\ t \notin Pauses'
    BY <1>4, <1>8, <1>9, <2>1, <2>2
  <2> QED
    BY <1>5, <2>1, <2>2, <2>3 DEF In
<1>18. CASE StartFlush(t)
  <2>1. pc[t] = "flush" /\ UNCHANGED closed /\ t \notin Pauses
    BY <1>4, <1>18 DEF StartFlush
  <2>2. CASE closed
    <3>1. t \notin Closes
      BY <2>2 DEF Closing
    <3>2. Leave(t) /\ UNCHANGED pauseThreads
      BY <1>18, <2>2 DEF StartFlush
    <3> QED
      BY <1>5, <1>8, <2>1, <3>1, <3>2 DEF In
  <2>3. CASE ~closed
    <3>1. /\ pc'[t] = "flushing" /\ pauseThreads' = pauseThreads + 1
          /\ UNCHANGED op
      BY <1>9, <1>18, <2>3 DEF StartFlush
    <3> QED
      BY <1>4, <1>6, <2>1, <3>1 DEF In
  <2> QED
    BY <2>2, <2>3
<1>19. CASE SkipFlush(t) \/ Flush(t)
  <2>1. /\ pc[t] = "flushing" /\ pc'[t] \in {"flushed", "flushFailed"}
        /\ pauseThreads' = pauseThreads - 1 /\ UNCHANGED op /\ UNCHANGED closed
    BY <1>9, <1>19 DEF SkipFlush, Flush, writerVars
  <2> QED
    BY <1>4, <1>7, <2>1 DEF In
<1>20. CASE EndFlush(t)
  <2>1. /\ pc[t] \in {"flushed", "flushFailed"} /\ t \notin Pauses
        /\ t \notin Pauses' /\ t \notin Closes'
    BY <1>4, <1>8, <1>20 DEF EndFlush
  <2>2. CASE op[t] # "close"
    <3>1. UNCHANGED pauseThreads /\ UNCHANGED closed
      BY <1>20, <2>2 DEF EndFlush
    <3> QED
      BY <1>4, <1>5, <2>1, <2>2, <3>1 DEF In
  <2>3. CASE op[t] = "close"
    <3>1. ~closed /\ t \in Closes
      BY <1>4, <2>3 DEF Closing
    <3>2. CASE pc[t] = "flushed"
      <4>1. closed' = TRUE /\ UNCHANGED pauseThreads
        BY <1>20, <2>3, <3>2 DEF EndFlush
      <4> QED
        BY <1>5, <2>1, <3>1, <4>1 DEF In
    <3>3. CASE pc[t] = "flushFailed"
      <4>1. closed' = FALSE /\ pauseThreads' = pauseThreads - 1
        BY <1>20, <2>3, <3>3 DEF EndFlush
      <4> QED
        BY <1>7, <2>1, <3>1, <4>1 DEF In
    <3> QED
      BY <2>1, <3>2, <3>3
  <2> QED
    BY <2>2, <2>3
<1> QED
  BY <1>11, <1>12, <1>13, <1>14, <1>15, <1>16, <1>17, <1>18, <1>19, <1>20
     DEF Call, Step

-----------------------------------------------------------------------------
(***************************************************************************)
(* The documents.                                                          *)
(***************************************************************************)
LEMMA ContentIs ==
    \A id : Content(id) = ContentOf(store, waitQueue, id)
BY DEF Content, ContentOf

\* Only documents with numbers are in the store.
LEMMA StoreBound ==
    ASSUME Kinds, Documents
    PROVE  Len(store) <= nextDocID
<1>1. Len(store) \in Nat /\ nextDocID \in Nat
  BY DEF Kinds, Documents
<1>2. CASE Len(store) = 0
  BY <1>1, <1>2
<1>3. CASE Len(store) # 0
  <2> DEFINE id == Len(store) - 1
  <2>1. id \in Nat /\ id < Len(store)
    BY <1>1, <1>3
  <2>2. id < nextDocID
    BY <2>1 DEF Documents
  <2> QED
    BY <1>1, <2>2
<1> QED
  BY <1>2, <1>3

\* When no thread has a document in hand, all documents are in the store.
LEMMA AllWritten ==
    ASSUME Kinds, RingKept, Documents, \A t \in Thread : ~Active(t)
    PROVE  /\ Len(store) = nextDocID /\ Used(waitQueue) = {}
           /\ \A id \in Nat : id < nextDocID => Content(id) # NoDoc
<1>1. Len(store) \in Nat /\ nextDocID \in Nat /\ Len(store) <= nextDocID
  BY StoreBound DEF Kinds, Documents
<1>2. \A id \in Nat : id < nextDocID => Content(id) # NoDoc
  BY DEF Documents, Active, Working
<1>3. WaitingDoc(waitQueue, Len(store)) = NoDoc
  BY <1>1 DEF Documents, WaitingDoc
<1>4. Len(store) = nextDocID
  <2>1. Content(Len(store)) = NoDoc
    BY <1>1, <1>3 DEF Content
  <2> QED
    BY <1>1, <1>2, <2>1
<1>5. ASSUME NEW id \in Nat PROVE WaitingDoc(waitQueue, id) = NoDoc
  <2>1. CASE id < Len(store)
    BY <1>1, <2>1 DEF Documents, WaitingDoc
  <2>2. CASE ~(id < Len(store))
    <3>1. Content(id) = WaitingDoc(waitQueue, id)
      BY <2>2 DEF Content
    <3> QED
      BY <1>4, <2>2, <3>1 DEF Documents
  <2> QED
    BY <2>1, <2>2
<1>6. Used(waitQueue) = {}
  BY <1>5, ContentEmpty DEF RingKept
<1> QED
  BY <1>2, <1>4, <1>6

\* Where the buffer and its threads are as they were, so is what they hold.
LEMMA DocumentsFrame ==
    ASSUME Documents, UNCHANGED bufferVars,
           \A u \in Thread : /\ Working(u)' <=> Working(u)
                             /\ Working(u) => DocID(u)' = DocID(u)
    PROVE  Documents'
<1>1. \A id : Content(id)' = Content(id)
  BY DEF bufferVars, Content
<1>2. /\ store' = store /\ waitQueue' = waitQueue /\ nextDocID' = nextDocID
      /\ docs' = docs /\ deletedDocIDs' = deletedDocIDs
  BY DEF bufferVars
<1> QED
  BY <1>1, <1>2 DEF Documents

\* doAfterFlush of an empty queue empties the buffer.
LEMMA DocumentsReset ==
    ASSUME Kinds, NEW q \in Ring, Counted(q), Used(q) = {}, DoAfterFlush(q),
           \A u \in Thread : ~Active(u)', started' = started
    PROVE  /\ RingKept' /\ Documents' /\ Numbered' /\ Used(waitQueue') = {}
           /\ \A id \in Nat : Content(id)' = NoDoc
<1>1. /\ waitQueue' = Reset(q) /\ nextDocID' = 0 /\ docs' = <<>>
      /\ store' = <<>> /\ deletedDocIDs' = {} /\ bufferIsFull' = FALSE
  BY Zenon DEF DoAfterFlush
<1>2. /\ waitQueue' \in Ring /\ Counted(waitQueue') /\ Used(waitQueue') = {}
      /\ waitQueue'.nextWriteDocID = 0
  BY <1>1, ResetRing
<1>3. /\ \A id \in Nat : WaitingDoc(waitQueue', id) = NoDoc
      /\ NextFree(waitQueue')
  BY <1>2, EmptyContent
<1>4. \A id \in Nat : Content(id)' = NoDoc
  <2>1. \A id \in Nat : ~(id < Len(store'))
    BY <1>1
  <2> QED
    BY <1>3, <2>1 DEF Content
<1>5. RingKept'
  BY <1>2, <1>3 DEF RingKept, Used
<1>6. Documents'
  BY <1>1, <1>2, <1>4 DEF Documents, Active, Working
<1>7. Numbered'
  BY <1>1 DEF Numbered
<1> QED
  BY <1>2, <1>4, <1>5, <1>6, <1>7

\* A document that is handed to the queue, or skipped, is under its number.
LEMMA HandedIn ==
    ASSUME Kinds, RingKept, Numbered, Documents, NEW t \in Thread, Working(t),
           NEW d,
           \/ d = MyDoc(t) /\ UNCHANGED deletedDocIDs
           \/ d = SkipDoc /\ deletedDocIDs' = deletedDocIDs \cup {DocID(t)},
           waitQueue' = Added(waitQueue, DocID(t), d).queue,
           store' = store \o Added(waitQueue, DocID(t), d).out,
           UNCHANGED <<nextDocID, docs, started>>,
           \A u \in Thread : /\ Working(u)' <=> Working(u) /\ u # t
                             /\ Working(u)' => DocID(u)' = DocID(u)
    PROVE  /\ RingKept' /\ Documents'
           /\ \A j \in Nat : Content(j)' = IF j = DocID(t) THEN d ELSE Content(j)
<1> DEFINE id == DocID(t)
           a  == Added(waitQueue, id, d)
<1>1. /\ id \in Nat /\ id < nextDocID /\ Content(id) = NoDoc
      /\ id \notin deletedDocIDs
  BY DEF Documents
<1>2. /\ nextDocID \in Nat /\ started \in Nat /\ docs \in Seq(Int)
      /\ store \in Seq(Int) /\ Len(store) = waitQueue.nextWriteDocID
      /\ Len(store) \in Nat
  BY DEF Kinds, Numbered, Documents
<1>3. d \in {SkipDoc} \cup 1..started /\ d \in Int /\ d # NoDoc
  <2>1. MyDoc(t) \in 1..started
    <3>1. id + 1 \in 1..nextDocID
      BY <1>1, <1>2
    <3> QED
      BY <3>1 DEF Numbered, MyDoc
  <2> QED
    BY <1>2, <2>1 DEF SkipDoc, NoDoc
<1> HIDE DEF id
<1>4. id >= Len(store)
  BY <1>1, <1>2 DEF Documents
<1>5. /\ a.queue \in Ring /\ Counted(a.queue) /\ NextFree(a.queue)
      /\ store \o a.out \in Seq(Int)
      /\ Len(store \o a.out) = a.queue.nextWriteDocID
      /\ \A j \in Nat : ContentOf(store \o a.out, a.queue, j) =
                          IF j = id THEN d ELSE ContentOf(store, waitQueue, j)
      /\ \A j \in Nat : j >= Len(store) /\ j < Len(store \o a.out) =>
                          j = id \/ ContentOf(store, waitQueue, j) # NoDoc
  <2>1. ContentOf(store, waitQueue, id) = NoDoc
    BY <1>1, ContentIs
  <2>2. waitQueue \in Ring /\ Counted(waitQueue) /\ NextFree(waitQueue)
    BY DEF RingKept
  <2> QED
    BY <1>1, <1>2, <1>3, <1>4, <2>1, <2>2, AddedContent
<1>6. \A i \in DOMAIN a.queue.waiting :
         a.queue.waiting[i] \in {NoDoc, SkipDoc} \cup 1..started
  <2> DEFINE V == {NoDoc, SkipDoc} \cup 1..started
  <2>1. /\ waitQueue \in Ring /\ Counted(waitQueue) /\ NextFree(waitQueue)
        /\ \A i \in DOMAIN waitQueue.waiting : waitQueue.waiting[i] \in V
        /\ id >= waitQueue.nextWriteDocID /\ d \in V /\ NoDoc \in V
    BY <1>2, <1>3, <1>4 DEF RingKept
  <2> HIDE DEF V
  <2>2. \A i \in DOMAIN a.queue.waiting : a.queue.waiting[i] \in V
    BY <1>1, <2>1, AddedValues
  <2> QED
    BY <2>2 DEF V
<1>7. waitQueue' = a.queue /\ store' = store \o a.out
  BY DEF id
<1> HIDE DEF a
<1>8. RingKept'
  BY <1>5, <1>6, <1>7 DEF RingKept
<1>9. \A j \in Nat : Content(j)' = IF j = id THEN d ELSE Content(j)
  <2>1. \A j : Content(j)' = ContentOf(store', waitQueue', j)
    BY DEF Content, ContentOf
  <2> QED
    BY <1>5, <1>7, <2>1, ContentIs
<1>10. Documents'
  <2>1. store' \in Seq(Int) /\ Len(store') = waitQueue'.nextWriteDocID
    BY <1>5, <1>7
  <2>2. ASSUME NEW j \in Nat
        PROVE  /\ j < Len(store') => Content(j)' # NoDoc
               /\ Content(j)' # NoDoc =>
                    /\ j < nextDocID'
                    /\ Content(j)' = IF j \in deletedDocIDs' THEN SkipDoc
                                     ELSE docs'[j + 1]
    <3>1. CASE j = id
      <4>1. Content(j)' = d
        BY <1>9, <3>1
      <4>2. d = IF j \in deletedDocIDs' THEN SkipDoc ELSE docs'[j + 1]
        BY <1>1, <3>1 DEF MyDoc, id
      <4> QED
        BY <1>1, <1>3, <3>1, <4>1, <4>2
    <3>2. CASE j # id
      <4>1. Content(j)' = Content(j) /\ (j \in deletedDocIDs' <=> j \in deletedDocIDs)
        BY <1>9, <3>2 DEF id
      <4>2. j < Len(store') => Content(j) # NoDoc
        <5>1. CASE j < Len(store)
          BY <5>1 DEF Documents
        <5>2. CASE j >= Len(store)
          BY <1>5, <1>7, <3>2, <5>2, ContentIs
        <5> QED
          BY <1>2, <5>1, <5>2
      <4> QED
        BY <4>1, <4>2 DEF Documents
    <3> QED
      BY <3>1, <3>2
  <2>3. \A j \in deletedDocIDs' : j < nextDocID' /\ Content(j)' # NoDoc
    <3>1. deletedDocIDs' \subseteq deletedDocIDs \cup {id}
      BY DEF id
    <3>2. \A j \in deletedDocIDs : j < nextDocID /\ Content(j) # NoDoc /\ j \in Nat
      BY <1>2 DEF Documents, Numbered
    <3> QED
      BY <1>1, <1>3, <1>9, <3>1, <3>2
  <2>4. ASSUME NEW u \in Thread, Working(u)'
        PROVE  /\ DocID(u)' = DocID(u) /\ Working(u) /\ u # t
               /\ DocID(u)' \in Nat /\ DocID(u)' < nextDocID'
               /\ Content(DocID(u))' = NoDoc
    <3>1. DocID(u)' = DocID(u) /\ Working(u) /\ u # t
      BY <2>4
    <3>2. /\ DocID(u) \in Nat /\ DocID(u) < nextDocID /\ DocID(u) # id
          /\ Content(DocID(u)) = NoDoc
      BY <3>1 DEF Documents, id
    <3>3. PICK n \in Nat : n = DocID(u)
      BY <3>2
    <3>4. Content(n)' = NoDoc
      BY <1>9, <3>2, <3>3
    <3>5. Content(DocID(u))' = NoDoc
      BY <3>1, <3>3, <3>4 DEF Content
    <3> QED
      BY <3>1, <3>2, <3>5
  <2>5. \A u, w \in Thread : Working(u)' /\ Working(w)' /\ DocID(u)' = DocID(w)' => u = w
    BY <2>4 DEF Documents
  <2>6. ASSUME NEW j \in Nat, j < nextDocID', Content(j)' = NoDoc
        PROVE  \E u \in Thread : Working(u)' /\ DocID(u)' = j
    <3>1. j # id /\ Content(j) = NoDoc
      BY <1>3, <1>9, <2>6
    <3>2. PICK u \in Thread : Working(u) /\ DocID(u) = j
      BY <2>6, <3>1 DEF Documents
    <3>3. u # t
      BY <3>1, <3>2 DEF id
    <3> QED
      BY <3>2, <3>3
  <2> QED
    BY <2>1, <2>2, <2>3, <2>4, <2>5, <2>6 DEF Documents
<1> QED
  BY <1>8, <1>9, <1>10 DEF id

\* The numbers the threads work on.
LEMMA WorkStep ==
    ASSUME Kinds, Flags, Owners, NEW t \in Thread, Call(t) \/ Step(t)
    PROVE  /\ \A u \in Thread \ {t} : /\ Working(u)' <=> Working(u)
                                      /\ Active(u)' <=> Active(u)
                                      /\ Active(u) => DocID(u)' = DocID(u)
           /\ Active(t)' /\ Active(t) => DocID(t)' = DocID(t)
           /\ Active(t)' /\ ~Active(t) => /\ GetThreadState(t)
                                          /\ DocID(t)' = nextDocID
<1>1. \A u \in Thread \ {t} : pc'[u] = pc[u] /\ state'[u] = state[u]
  BY ControlStep
<1>2. \A u \in Thread \ {t} : /\ Working(u)' <=> Working(u)
                              /\ Active(u)' <=> Active(u)
  BY <1>1 DEF Working, Active
<1>3. \A u \in Thread \ {t} : Active(u) => DocID(u)' = DocID(u)
  BY <1>1, OwnStep DEF DocID
<1>4. /\ Active(t)' /\ Active(t) => DocID(t)' = DocID(t)
      /\ Active(t)' /\ ~Active(t) => GetThreadState(t) /\ DocID(t)' = nextDocID
  BY OwnStep DEF DocID
<1> QED
  BY <1>2, <1>3, <1>4

\* Where no thread got a document or let go of one, the documents stay.
LEMMA DocumentsStay ==
    ASSUME Kinds, Flags, Owners, Documents, NEW t \in Thread,
           Call(t) \/ Step(t), UNCHANGED bufferVars, Working(t)' <=> Working(t)
    PROVE  Documents'
<1>1. \A u \in Thread : /\ Working(u)' <=> Working(u)
                        /\ Working(u) => DocID(u)' = DocID(u)
  BY WorkStep DEF Working, Active
<1> QED
  BY <1>1, DocumentsFrame

\* getThreadState gives the next number.
LEMMA NewDocument ==
    ASSUME Kinds, Flags, Owners, Numbered, Documents, NEW t \in Thread,
           GetThreadState(t), ~docClosed
    PROVE  /\ Documents'
           /\ docs' = Append(docs, started + 1) /\ nextDocID' = nextDocID + 1
           /\ Content(nextDocID) = NoDoc
           /\ \A id \in Nat : Content(id)' = Content(id)
<1>1. /\ UNCHANGED <<waitQueue, store, deletedDocIDs>>
      /\ docs' = Append(docs, started + 1) /\ nextDocID' = nextDocID + 1
      /\ pc[t] = "ready" /\ pc'[t] = "process"
  BY DEF GetThreadState, GoTo, Kinds
<1>2. nextDocID \in Nat /\ docs \in Seq(Int) /\ Len(docs) = nextDocID
  BY DEF Kinds, Numbered
<1>3. \A id \in Nat : Content(id)' = Content(id)
  BY <1>1 DEF Content
<1>4. Content(nextDocID) = NoDoc
  BY <1>2 DEF Documents
<1>5. /\ \A u \in Thread \ {t} : /\ Working(u)' <=> Working(u)
                                 /\ Working(u) => DocID(u)' = DocID(u)
      /\ ~Working(t) /\ Working(t)' /\ DocID(t)' = nextDocID
  <2>1. Step(t) /\ ~Active(t) /\ Active(t)' /\ ~Working(t) /\ Working(t)'
    BY <1>1 DEF Step, Active, Working
  <2> QED
    BY <2>1, WorkStep DEF Active, Working
<1>6. ASSUME NEW id \in Nat
      PROVE  /\ id < Len(store') => Content(id)' # NoDoc
             /\ Content(id)' # NoDoc =>
                  /\ id < nextDocID'
                  /\ Content(id)' = IF id \in deletedDocIDs' THEN SkipDoc
                                    ELSE docs'[id + 1]
  <2>1. id < nextDocID => docs'[id + 1] = docs[id + 1] /\ id < nextDocID'
    BY <1>1, <1>2
  <2> QED
    BY <1>1, <1>3, <2>1 DEF Documents
<1>7. \A id \in deletedDocIDs' : id < nextDocID' /\ Content(id)' # NoDoc
  BY <1>1, <1>2, <1>3 DEF Documents, Numbered
<1>8. ASSUME NEW u \in Thread, Working(u)'
      PROVE  /\ DocID(u)' \in Nat /\ DocID(u)' < nextDocID'
             /\ Content(DocID(u))' = NoDoc
             /\ DocID(u)' = nextDocID => u = t
             /\ u # t => Working(u) /\ DocID(u)' = DocID(u)
  <2>1. CASE u = t
    <3>1. DocID(u)' = nextDocID
      BY <1>5, <2>1
    <3>2. PICK n \in Nat : n = nextDocID
      BY <1>2
    <3>3. Content(n)' = NoDoc
      BY <1>3, <1>4, <3>2
    <3>4. Content(DocID(u))' = NoDoc
      BY <3>1, <3>2, <3>3 DEF Content
    <3> QED
      BY <1>1, <1>2, <2>1, <3>1, <3>4
  <2>2. CASE u # t
    <3>1. Working(u) /\ DocID(u)' = DocID(u)
      BY <1>5, <1>8, <2>2
    <3>2. PICK n \in Nat : n = DocID(u) /\ n < nextDocID /\ Content(n) = NoDoc
      BY <3>1 DEF Documents
    <3>3. Content(n)' = NoDoc
      BY <1>3, <3>2
    <3>4. Content(DocID(u))' = NoDoc
      BY <3>1, <3>2, <3>3 DEF Content
    <3> QED
      BY <1>1, <1>2, <3>1, <3>2, <3>4
  <2> QED
    BY <2>1, <2>2
<1>9. ASSUME NEW u \in Thread, NEW w \in Thread,
             Working(u)', Working(w)', DocID(u)' = DocID(w)'
      PROVE  u = w
  <2>1. CASE u = t \/ w = t
    BY <1>5, <1>8, <1>9, <2>1
  <2>2. CASE u # t /\ w # t
    BY <1>8, <1>9, <2>2 DEF Documents
  <2> QED
    BY <2>1, <2>2
<1>10. ASSUME NEW id \in Nat, id < nextDocID', Content(id)' = NoDoc
       PROVE  \E u \in Thread : Working(u)' /\ DocID(u)' = id
  <2>1. CASE id = nextDocID
    BY <1>5, <2>1
  <2>2. CASE id # nextDocID
    <3>1. id < nextDocID /\ Content(id) = NoDoc
      BY <1>1, <1>2, <1>3, <1>10, <2>2
    <3>2. PICK u \in Thread : Working(u) /\ DocID(u) = id
      BY <3>1 DEF Documents
    <3> QED
      BY <1>5, <3>2
  <2> QED
    BY <2>1, <2>2
<1>11. store' \in Seq(Int) /\ Len(store') = waitQueue'.nextWriteDocID
  BY <1>1 DEF Documents
<1>12. Documents'
  BY <1>6, <1>7, <1>8, <1>9, <1>10, <1>11 DEF Documents
<1> QED
  BY <1>1, <1>3, <1>4, <1>12

\* Where neither the buffer nor who works on it changes, it stays well formed.
LEMMA BufferStays ==
    ASSUME Kinds, Flags, Owners, RingKept, Numbered, ~aborting => Documents,
           NEW t \in Thread, Call(t) \/ Step(t),
           UNCHANGED bufferVars, UNCHANGED started,
           Active(t)' => Active(t), bufferIsFull' => bufferIsFull \/ Active(t),
           ~aborting' => ~aborting /\ (Working(t)' <=> Working(t))
    PROVE  RingKept' /\ Numbered' /\ (~aborting' => Documents')
<1>1. /\ waitQueue' = waitQueue /\ nextDocID' = nextDocID /\ docs' = docs
      /\ deletedDocIDs' = deletedDocIDs
  BY DEF bufferVars
<1>2. RingKept'
  BY <1>1 DEF RingKept
<1>3. \A u \in Thread : Active(u)' => Active(u)
  BY WorkStep
<1>4. Numbered'
  BY <1>1, <1>3 DEF Numbered
<1>5. ~aborting' => Documents'
  BY DocumentsStay
<1> QED
  BY <1>2, <1>4, <1>5

\* A ring that lost documents is well formed, as long as the documents are
\* about to be discarded.
LEMMA BufferLost ==
    ASSUME Kinds, Flags, Owners, RingKept, Numbered,
           NEW t \in Thread, Call(t) \/ Step(t), Active(t)' => Active(t),
           UNCHANGED <<nextDocID, docs, deletedDocIDs, bufferIsFull, started>>,
           waitQueue' \in Ring, Counted(waitQueue'), NextFree(waitQueue'),
           \A i \in DOMAIN waitQueue'.waiting :
              /\ i \in DOMAIN waitQueue.waiting
              /\ waitQueue'.waiting[i] \in {NoDoc, waitQueue.waiting[i]},
           aborting'
    PROVE  RingKept' /\ Numbered' /\ (~aborting' => Documents')
<1>1. RingKept'
  BY DEF RingKept
<1>2. \A u \in Thread : Active(u)' => Active(u)
  BY WorkStep
<1>3. Numbered'
  BY <1>2 DEF Numbered
<1> QED
  BY <1>1, <1>3

\* The documents in the buffer are numbered, each is where it belongs.
LEMMA BufferStep ==
    ASSUME Kinds, Flags, Owners, RingKept, Numbered, Aborting,
           ~aborting => Documents, NEW t \in Thread, Call(t) \/ Step(t)
    PROVE  RingKept' /\ Numbered' /\ (~aborting' => Documents')
<1> DEFINE Good == RingKept' /\ Numbered' /\ (~aborting' => Documents')
           Same == /\ UNCHANGED bufferVars /\ UNCHANGED started
                   /\ Active(t)' => Active(t)
                   /\ bufferIsFull' => bufferIsFull \/ Active(t)
                   /\ ~aborting' => ~aborting /\ (Working(t)' <=> Working(t))
<1>1. Same => Good
  BY BufferStays
<1>2. ASSUME NEW o \in Calls, Bind(t, o) PROVE Same
  BY <1>2 DEF Bind, Begin, MayCall, Kinds, Active, Working, flagVars
<1>3. CASE CallDelete(t) \/ CallCommit(t) \/ CallDeleteAll(t) \/ CallClose(t)
  <2>1. UNCHANGED <<bufferVars, started, bufferIsFull, aborting>>
    BY <1>3 DEF CallDelete, CallCommit, CallDeleteAll, CallClose, flagVars
  <2>2. pc[t] = "idle" /\ pc'[t] \in {"ready", "flush", "wipe", "drain"}
    BY <1>3 DEF CallDelete, CallCommit, CallDeleteAll, CallClose, Begin,
                MayCall, Kinds
  <2>3. Same
    BY <2>1, <2>2 DEF Active, Working
  <2> QED
    BY <1>1, <2>3
<1>4. CASE GetThreadState(t)
  <2>1. pc[t] = "ready"
    BY <1>4 DEF GetThreadState
  <2>2. CASE docClosed
    <3>1. Same
      BY <1>4, <2>1, <2>2 DEF GetThreadState, GoTo, Kinds, Active, Working,
                              flagVars
    <3> QED
      BY <1>1, <3>1
  <2>3. CASE ~docClosed
    <3>1. /\ UNCHANGED <<waitQueue, deletedDocIDs, aborting, bufferIsFull>>
          /\ started' = started + 1 /\ ~aborting /\ nextDocID' = nextDocID + 1
          /\ docs' = Append(docs, started + 1)
      BY <1>4, <2>3 DEF GetThreadState, WaitReady
    <3>2. Documents'
      BY <1>4, <2>3, <3>1, NewDocument
    <3>3. RingKept'
      <4>1. 1..started \subseteq 1..started' /\ started \in Nat
        BY <3>1 DEF Kinds
      <4> QED
        BY <3>1, <4>1 DEF RingKept
    <3>4. Numbered'
      <4>1. started \in Nat /\ nextDocID \in Nat /\ docs \in Seq(Int)
            /\ Len(docs) = nextDocID
        BY DEF Kinds, Numbered
      <4>2. docs' \in Seq(Int) /\ Len(docs') = nextDocID'
        BY <3>1, <4>1
      <4>3. \A i \in 1..nextDocID' : docs'[i] \in 1..started'
        BY <3>1, <4>1 DEF Numbered
      <4>4. deletedDocIDs' \subseteq 0..nextDocID' /\ nextDocID' > 0
        BY <3>1, <4>1 DEF Numbered
      <4> QED
        BY <4>2, <4>3, <4>4 DEF Numbered
    <3> QED
      BY <3>2, <3>3, <3>4
  <2> QED
    BY <2>2, <2>3
<1>5. CASE ProcessDocument(t)
  <2>1. pc[t] = "process" /\ pc'[t] \in {"finish", "failed"}
    BY <1>5 DEF ProcessDocument, GoTo, Kinds
  <2>2. UNCHANGED <<bufferVars, started>> /\ (~aborting' => ~aborting)
    BY <1>5 DEF ProcessDocument
  <2>3. Same
    BY <2>1, <2>2 DEF Active, Working
  <2> QED
    BY <1>1, <2>3
<1>6. CASE DropDocument(t)
  <2>1. Same
    BY <1>6 DEF DropDocument, GoTo, Kinds, Active, Working, flagVars
  <2> QED
    BY <1>1, <2>1
<1>7. CASE FinishDocument(t)
  <2>1. pc[t] = "finish" /\ ~aborting /\ Working(t) /\ Active(t)
    BY <1>7 DEF FinishDocument, Working, Active
  <2>2. UNCHANGED <<nextDocID, docs, deletedDocIDs, bufferIsFull, started>>
    BY <1>7 DEF FinishDocument
  <2>3. CASE aborting'
    <3>1. PICK a \in AddFailures(waitQueue, DocID(t), MyDoc(t)) :
             waitQueue' = a.queue
      BY <1>7, <2>1, <2>3 DEF FinishDocument
    <3>2. waitQueue \in Ring /\ Counted(waitQueue) /\ NextFree(waitQueue)
      BY DEF RingKept
    <3>3. /\ waitQueue' \in Ring /\ Counted(waitQueue') /\ NextFree(waitQueue')
          /\ DOMAIN waitQueue'.waiting = DOMAIN waitQueue.waiting
          /\ \A i \in DOMAIN waitQueue.waiting :
                waitQueue'.waiting[i] \in {NoDoc, waitQueue.waiting[i]}
      BY <3>1, <3>2, FailedRing
    <3> QED
      BY <2>1, <2>2, <2>3, <3>3, BufferLost
  <2>4. CASE ~aborting'
    <3>1. /\ waitQueue' = Added(waitQueue, DocID(t), MyDoc(t)).queue
          /\ store' = store \o Added(waitQueue, DocID(t), MyDoc(t)).out
          /\ pc'[t] \in {"queue", "return"}
      BY <1>7, <2>1, <2>4 DEF FinishDocument, GoTo, GoIdle, Kinds
    <3>2. ~Working(t)'
      BY <3>1 DEF Working
    <3>3. \A u \in Thread : /\ Working(u)' <=> Working(u) /\ u # t
                            /\ Working(u)' => DocID(u)' = DocID(u)
      BY <3>2, WorkStep DEF Working, Active
    <3>4. RingKept' /\ Documents'
      BY <2>1, <2>2, <3>1, <3>3, HandedIn
    <3>5. \A u \in Thread : Active(u)' => Active(u)
      BY <2>1, WorkStep
    <3>6. Numbered'
      BY <2>2, <3>5 DEF Numbered
    <3> QED
      BY <3>4, <3>6
  <2> QED
    BY <2>3, <2>4
<1>8. CASE WaitForWaitQueue(t)
  <2>1. Same
    BY <1>8 DEF WaitForWaitQueue, GoIdle, GoTo, Kinds, Active, Working
  <2> QED
    BY <1>1, <2>1
<1>9. CASE SkipDocument(t)
  <2>1. pc[t] = "failed" /\ ~aborting /\ Working(t) /\ Active(t)
    BY <1>9 DEF SkipDocument, Working, Active
  <2>2. UNCHANGED <<nextDocID, docs, bufferIsFull, started>>
    BY <1>9 DEF SkipDocument
  <2>3. CASE aborting'
    <3>1. PICK a \in AddFailures(waitQueue, DocID(t), SkipDoc) :
             waitQueue' = Aborted(a.queue) /\ UNCHANGED deletedDocIDs
      BY <1>9, <2>1, <2>3 DEF SkipDocument
    <3>2. waitQueue \in Ring /\ Counted(waitQueue) /\ NextFree(waitQueue)
      BY DEF RingKept
    <3>3. /\ a.queue \in Ring
          /\ DOMAIN a.queue.waiting = DOMAIN waitQueue.waiting
      BY <3>2, FailedRing
    <3>4. waitQueue' \in Ring /\ Counted(waitQueue') /\ Used(waitQueue') = {}
      BY <3>1, <3>3, AbortedRing
    <3>5. NextFree(waitQueue')
      BY <3>4, EmptyContent
    <3>6. \A i \in DOMAIN waitQueue'.waiting :
             i \in DOMAIN waitQueue.waiting /\ waitQueue'.waiting[i] = NoDoc
      BY <3>1, <3>3 DEF Aborted
    <3> QED
      BY <2>1, <2>2, <2>3, <3>1, <3>4, <3>5, <3>6, BufferLost
  <2>4. CASE ~aborting'
    <3>1. /\ waitQueue' = Added(waitQueue, DocID(t), SkipDoc).queue
          /\ store' = store \o Added(waitQueue, DocID(t), SkipDoc).out
          /\ deletedDocIDs' = deletedDocIDs \cup {DocID(t)}
          /\ pc'[t] = "error"
      BY <1>9, <2>1, <2>4 DEF SkipDocument, GoTo, Kinds
    <3>2. ~Working(t)'
      BY <3>1 DEF Working
    <3>3. \A u \in Thread : /\ Working(u)' <=> Working(u) /\ u # t
                            /\ Working(u)' => DocID(u)' = DocID(u)
      BY <3>2, WorkStep DEF Working, Active
    <3>4. RingKept' /\ Documents'
      BY <2>1, <2>2, <3>1, <3>3, HandedIn
    <3>5. \A u \in Thread : Active(u)' => Active(u)
      BY <2>1, WorkStep
    <3>6. Numbered'
      <4>1. DocID(t) \in 0..nextDocID
        BY <2>1 DEF Documents, Kinds
      <4> QED
        BY <2>2, <3>1, <3>5, <4>1 DEF Numbered
    <3> QED
      BY <3>4, <3>6
  <2> QED
    BY <2>3, <2>4
<1>10. CASE StartAbort(t)
  <2>1. /\ waitQueue' = Aborted(waitQueue) /\ aborting' /\ Active(t)
        /\ UNCHANGED <<nextDocID, docs, deletedDocIDs, bufferIsFull, started>>
    BY <1>10 DEF StartAbort, Active
  <2>2. waitQueue' \in Ring /\ Counted(waitQueue') /\ Used(waitQueue') = {}
    BY <2>1, AbortedRing DEF RingKept
  <2>3. NextFree(waitQueue')
    BY <2>2, EmptyContent
  <2>4. \A i \in DOMAIN waitQueue'.waiting :
           i \in DOMAIN waitQueue.waiting /\ waitQueue'.waiting[i] = NoDoc
    BY <2>1 DEF Aborted
  <2> QED
    BY <2>1, <2>2, <2>3, <2>4, BufferLost
<1>11. CASE Abort(t)
  <2>1. /\ DoAfterFlush(waitQueue) /\ started' = started /\ Aborts(t)
        /\ AllThreadsIdle
    BY <1>11 DEF Abort, Aborts
  <2>2. \A u \in Thread : ~Active(u)'
    BY <2>1, IdleThreads, WorkStep DEF Aborts, GetThreadState
  <2> QED
    BY <2>1, <2>2, DocumentsReset DEF Aborting, RingKept
<1>12. CASE DeleteAbortedFiles(t)
  <2>1. Same
    BY <1>12 DEF DeleteAbortedFiles, Leave, Kinds, Active, Working, flagVars
  <2> QED
    BY <1>1, <2>1
<1>13. CASE ReturnDocument(t)
  <2>1. pc[t] = "return" /\ pc'[t] \in {"idle", "flush"}
    BY <1>13 DEF ReturnDocument, GoTo, Leave, Kinds
  <2>2. UNCHANGED <<bufferVars, started, aborting, bufferIsFull>>
    BY <1>13 DEF ReturnDocument
  <2>3. Same
    BY <2>1, <2>2 DEF Active, Working
  <2> QED
    BY <1>1, <2>3
<1>14. CASE BufferDelete(t)
  <2>1. pc[t] = "ready" /\ pc'[t] \in {"idle", "flush"}
    BY <1>14 DEF BufferDelete, GoTo, Leave, Kinds
  <2>2. UNCHANGED <<bufferVars, started, aborting, bufferIsFull>>
    BY <1>14 DEF BufferDelete
  <2>3. Same
    BY <2>1, <2>2 DEF Active, Working
  <2> QED
    BY <1>1, <2>3
<1>15. CASE DeleteAll(t)
  <2>1. /\ DoAfterFlush(Aborted(waitQueue)) /\ started' = started
        /\ AllThreadsIdle /\ pc[t] = "wipe"
    BY <1>15 DEF DeleteAll
  <2>2. \A u \in Thread : ~Active(u)'
    BY <2>1, IdleThreads, WorkStep DEF GetThreadState
  <2>3. /\ Aborted(waitQueue) \in Ring /\ Counted(Aborted(waitQueue))
        /\ Used(Aborted(waitQueue)) = {}
    BY AbortedRing DEF RingKept
  <2> QED
    BY <2>1, <2>2, <2>3, DocumentsReset
<1>16. CASE CloseDocWriter(t)
  <2>1. Same
    BY <1>16 DEF CloseDocWriter, GoTo, Kinds, Active, Working, flagVars
  <2> QED
    BY <1>1, <2>1
<1>17. CASE StartFlush(t)
  <2>1. pc[t] = "flush" /\ pc'[t] \in {"idle", "flushing"}
    BY <1>17 DEF StartFlush, GoTo, Leave, Kinds
  <2>2. UNCHANGED <<bufferVars, started, aborting, bufferIsFull>>
    BY <1>17 DEF StartFlush
  <2>3. Same
    BY <2>1, <2>2 DEF Active, Working
  <2> QED
    BY <1>1, <2>3
<1>18. CASE SkipFlush(t)
  <2>1. Same
    BY <1>18 DEF SkipFlush, GoTo, Kinds, Active, Working
  <2> QED
    BY <1>1, <2>1
<1>19. CASE Flush(t)
  <2>1. /\ pc[t] = "flushing" /\ ~aborting /\ started' = started
        /\ aborting' = aborting /\ pc'[t] \in {"flushed", "flushFailed"}
    BY <1>19 DEF Flush, GoTo, Kinds
  <2>2. \A u \in Thread : ~Active(u)
    BY <1>19, IdleThreads DEF Flush
  <2>3. CASE UNCHANGED <<bufferVars, bufferIsFull>>
    <3>1. Same
      BY <2>1, <2>3 DEF Active, Working
    <3> QED
      BY <1>1, <3>1
  <2>4. CASE DoAfterFlush(waitQueue)
    <3>1. \A u \in Thread : ~Active(u)'
      BY <2>1, <2>2, WorkStep DEF GetThreadState
    <3>2. Used(waitQueue) = {}
      BY <2>1, <2>2, AllWritten
    <3> QED
      BY <2>1, <2>4, <3>1, <3>2, DocumentsReset DEF RingKept
  <2> QED
    BY <1>19, <2>3, <2>4 DEF Flush
<1>20. CASE EndFlush(t)
  <2>1. Same
    BY <1>20 DEF EndFlush, Leave, Kinds, Active, Working
  <2> QED
    BY <1>1, <2>1
<1> QED
  BY <1>1, <1>2, <1>3, <1>4, <1>5, <1>6, <1>7, <1>8, <1>9, <1>10, <1>11,
     <1>12, <1>13, <1>14, <1>15, <1>16, <1>17, <1>18, <1>19, <1>20
     DEF Call, Step

\* While a thread has the others pause, pauseThreads says so.
LEMMA Paused ==
    ASSUME PausesCounted, NEW u \in Thread, u \in Pauses \/ u \in Closes
    PROVE  pauseThreads # 0
<1> USE DocumentsAssumption
<1>1. IsFiniteSet(Pauses) /\ IsFiniteSet(Closes)
  <2>1. Pauses \subseteq Thread /\ Closes \subseteq Thread
    BY DEF Pauses, Closes
  <2> QED
    BY <2>1, FS_Subset
<1>2. Cardinality(Pauses) \in Nat /\ Cardinality(Closes) \in Nat
  BY <1>1, FS_CardinalityType
<1>3. Cardinality(Pauses) # 0 \/ Cardinality(Closes) # 0
  BY <1>1, FS_EmptySet
<1> QED
  BY <1>2, <1>3 DEF PausesCounted

\* No thread gets a document while another discards them all.
LEMMA NoneStarts ==
    ASSUME Kinds, Flags, Owners, PausesCounted, NEW t \in Thread,
           Call(t) \/ Step(t), NEW u \in Thread, Aborts(u)
    PROVE  \A w \in Thread : Active(w)' => Active(w)
<1>1. ASSUME GetThreadState(t), Active(t)'
      PROVE  FALSE
  <2>1. u \in Pauses
    BY DEF Pauses, Aborts
  <2>2. pauseThreads # 0
    BY <2>1, Paused
  <2>3. docClosed
    BY <1>1, <2>2 DEF GetThreadState, WaitReady
  <2>4. pc'[t] = "error"
    BY <1>1, <2>3 DEF GetThreadState, GoTo, Kinds
  <2> QED
    BY <1>1, <2>4 DEF Active
<1> QED
  BY <1>1, WorkStep

\* Nothing comes into a queue whose documents are being discarded.
LEMMA StaysEmpty ==
    ASSUME RingKept, NEW t \in Thread, Call(t) \/ Step(t),
           Used(waitQueue) = {}, ~aborting => ~Active(t)
    PROVE  Used(waitQueue') = {}
<1>1. CASE waitQueue' = waitQueue
  BY <1>1
<1>2. CASE waitQueue' = Aborted(waitQueue)
  BY <1>2, AbortedRing DEF RingKept
<1>3. CASE waitQueue' = Reset(waitQueue)
  BY <1>3, ResetRing DEF RingKept
<1>4. CASE waitQueue' = Reset(Aborted(waitQueue))
  BY <1>4, ResetRing, AbortedRing DEF RingKept
<1>5. ASSUME NEW o \in Calls, Bind(t, o) PROVE waitQueue' = waitQueue
  BY <1>5 DEF Bind, bufferVars
<1>6. CASE \/ CallDelete(t) \/ CallCommit(t) \/ CallDeleteAll(t) \/ CallClose(t)
           \/ ReturnDocument(t) \/ BufferDelete(t) \/ CloseDocWriter(t)
           \/ StartFlush(t) \/ SkipFlush(t) \/ EndFlush(t)
           \/ DeleteAbortedFiles(t) \/ ProcessDocument(t) \/ DropDocument(t)
           \/ WaitForWaitQueue(t)
  BY <1>1, <1>6
     DEF CallDelete, CallCommit, CallDeleteAll, CallClose, ReturnDocument,
         BufferDelete, CloseDocWriter, StartFlush, SkipFlush, EndFlush,
         DeleteAbortedFiles, ProcessDocument, DropDocument, WaitForWaitQueue,
         bufferVars
<1>7. CASE GetThreadState(t)
  BY <1>1, <1>7 DEF GetThreadState, bufferVars
<1>8. CASE FinishDocument(t) \/ SkipDocument(t)
  BY <1>8 DEF FinishDocument, SkipDocument, Active
<1>9. CASE StartAbort(t)
  BY <1>2, <1>9 DEF StartAbort
<1>10. CASE Abort(t)
  BY <1>3, <1>10 DEF Abort, DoAfterFlush
<1>11. CASE DeleteAll(t)
  BY <1>4, <1>11 DEF DeleteAll, DoAfterFlush
<1>12. CASE Flush(t)
  BY <1>1, <1>3, <1>12 DEF Flush, DoAfterFlush, bufferVars
<1> QED
  BY <1>1, <1>5, <1>6, <1>7, <1>8, <1>9, <1>10, <1>11, <1>12 DEF Call, Step

\* Whether the buffered documents are lost.
LEMMA AbortingFlag ==
    ASSUME Kinds, Flags, Owners, NEW t \in Thread, Call(t) \/ Step(t)
    PROVE  /\ aborting' /\ ~aborting => pc'[t] = "failed" \/ Aborts(t)'
           /\ aborting /\ ~aborting' => AllThreadsIdle /\ (Abort(t) \/ DeleteAll(t))
           /\ aborting /\ pc[t] = "failed" => Aborts(t)'
           /\ aborting' /\ Aborts(t) => Aborts(t)'
           /\ Aborts(t)' => aborting' /\ (~Aborts(t) => StartAbort(t) \/ SkipDocument(t))
<1>1. ASSUME NEW o \in Calls, Bind(t, o)
      PROVE  aborting' = aborting /\ pc[t] = "idle" /\ pc'[t] = "ready"
  BY <1>1 DEF Bind, Begin, MayCall, Kinds, flagVars
<1>2. CASE CallDelete(t) \/ CallCommit(t) \/ CallDeleteAll(t) \/ CallClose(t)
  <2>1. aborting' = aborting
    BY <1>2 DEF CallDelete, CallCommit, CallDeleteAll, CallClose, flagVars
  <2>2. pc[t] = "idle" /\ pc'[t] \in {"ready", "flush", "wipe", "drain"}
    BY <1>2 DEF CallDelete, CallCommit, CallDeleteAll, CallClose, Begin,
                MayCall, Kinds
  <2> QED
    BY <2>1, <2>2 DEF Aborts
<1>3. CASE GetThreadState(t)
  <2>1. aborting' = aborting /\ pc[t] = "ready" /\ pc'[t] \in {"process", "error"}
    BY <1>3 DEF GetThreadState, GoTo, Kinds, flagVars
  <2> QED
    BY <2>1 DEF Aborts
<1>4. CASE ProcessDocument(t)
  <2>1. /\ pc[t] = "process" /\ pc'[t] \in {"finish", "failed"}
        /\ aborting' = aborting \/ (aborting' = TRUE /\ pc'[t] = "failed")
    BY <1>4 DEF ProcessDocument, GoTo, Kinds
  <2> QED
    BY <2>1 DEF Aborts
<1>5. CASE DropDocument(t)
  BY <1>5 DEF DropDocument, GoTo, Kinds, Aborts, flagVars
<1>6. CASE FinishDocument(t)
  <2>1. /\ pc[t] = "finish" /\ ~aborting
        /\ \/ pc'[t] \in {"queue", "return"} /\ aborting' = aborting
           \/ pc'[t] = "failed"
    BY <1>6 DEF FinishDocument, GoTo, GoIdle, Kinds
  <2> QED
    BY <2>1 DEF Aborts
<1>7. CASE WaitForWaitQueue(t)
  BY <1>7 DEF WaitForWaitQueue, GoTo, GoIdle, Kinds, Aborts
<1>8. CASE SkipDocument(t)
  <2>1. /\ pc[t] = "failed" /\ ~aborting
        /\ \/ pc'[t] = "error" /\ aborting' = aborting
           \/ pc'[t] = "skipAbort" /\ aborting' = TRUE
    BY <1>8 DEF SkipDocument, GoTo, Kinds
  <2> QED
    BY <1>8, <2>1 DEF Aborts
<1>9. CASE StartAbort(t)
  <2>1. pc[t] = "failed" /\ aborting /\ aborting' = aborting /\ pc'[t] = "abort"
    BY <1>9 DEF StartAbort, GoTo, Kinds
  <2> QED
    BY <1>9, <2>1 DEF Aborts
<1>10. CASE Abort(t)
  <2>1. /\ AllThreadsIdle /\ aborting' = FALSE /\ pc'[t] \in {"idle", "error"}
        /\ pc[t] # "failed"
    BY <1>10 DEF Abort, GoTo, Leave, Kinds
  <2> QED
    BY <1>10, <2>1 DEF Aborts
<1>11. CASE DeleteAbortedFiles(t)
  BY <1>11 DEF DeleteAbortedFiles, Leave, Kinds, Aborts, flagVars
<1>12. CASE ReturnDocument(t)
  <2>1. /\ aborting' = aborting /\ pc[t] = "return"
        /\ pc'[t] \in {"idle", "flush"}
    BY <1>12 DEF ReturnDocument, GoTo, Leave, Kinds
  <2> QED
    BY <2>1 DEF Aborts
<1>13. CASE BufferDelete(t)
  <2>1. aborting' = aborting /\ pc[t] = "ready" /\ pc'[t] \in {"idle", "flush"}
    BY <1>13 DEF BufferDelete, GoTo, Leave, Kinds
  <2> QED
    BY <2>1 DEF Aborts
<1>14. CASE DeleteAll(t)
  <2>1. AllThreadsIdle /\ aborting' = FALSE /\ pc[t] = "wipe" /\ pc'[t] = "idle"
    BY <1>14 DEF DeleteAll, Leave, Kinds
  <2> QED
    BY <1>14, <2>1 DEF Aborts
<1>15. CASE CloseDocWriter(t)
  BY <1>15 DEF CloseDocWriter, GoTo, Kinds, Aborts, flagVars
<1>16. CASE StartFlush(t)
  <2>1. /\ aborting' = aborting /\ pc[t] = "flush"
        /\ pc'[t] \in {"idle", "flushing"}
    BY <1>16 DEF StartFlush, GoTo, Leave, Kinds
  <2> QED
    BY <2>1 DEF Aborts
<1>17. CASE SkipFlush(t)
  BY <1>17 DEF SkipFlush, GoTo, Kinds, Aborts
<1>18. CASE Flush(t)
  <2>1. /\ aborting' = aborting /\ pc[t] = "flushing"
        /\ pc'[t] \in {"flushed", "flushFailed"}
    BY <1>18 DEF Flush, GoTo, Kinds
  <2> QED
    BY <2>1 DEF Aborts
<1>19. CASE EndFlush(t)
  BY <1>19 DEF EndFlush, Leave, Kinds, Aborts
<1> QED
  BY <1>1, <1>2, <1>3, <1>4, <1>5, <1>6, <1>7, <1>8, <1>9, <1>10, <1>11,
     <1>12, <1>13, <1>14, <1>15, <1>16, <1>17, <1>18, <1>19
     DEF Call, Step, Aborts

\* Documents are discarded while nobody adds to them.
LEMMA AbortingStep ==
    ASSUME Kinds, Flags, Owners, PausesCounted, RingKept, Aborting,
           NEW t \in Thread, Call(t) \/ Step(t)
    PROVE  Aborting'
<1>1. aborting' => \E w \in Thread : pc'[w] = "failed" \/ Aborts(w)'
  <2>1. CASE aborting /\ aborting'
    <3>1. PICK w \in Thread : pc[w] = "failed" \/ Aborts(w)
      BY <2>1 DEF Aborting
    <3>2. CASE w = t
      BY <2>1, <3>1, <3>2, AbortingFlag
    <3>3. CASE w # t
      <4>1. pc'[w] = pc[w]
        BY <3>3, ControlStep
      <4> QED
        BY <3>1, <4>1 DEF Aborts
    <3> QED
      BY <3>2, <3>3
  <2>2. CASE ~aborting /\ aborting'
    BY <2>2, AbortingFlag
  <2> QED
    BY <2>1, <2>2
<1>2. ASSUME NEW u \in Thread, Aborts(u)'
      PROVE  Used(waitQueue') = {} /\ (~aborting' => \A w \in Thread : ~Active(w)')
  <2>1. CASE Aborts(u)
    <3>1. Used(waitQueue) = {} /\ (~aborting => \A w \in Thread : ~Active(w))
      BY <2>1 DEF Aborting
    <3>2. Used(waitQueue') = {}
      BY <3>1, StaysEmpty
    <3>3. \A w \in Thread : Active(w)' => Active(w)
      BY <2>1, NoneStarts
    <3>4. ~aborting' => \A w \in Thread : ~Active(w)
      BY <3>1, AbortingFlag, IdleThreads
    <3> QED
      BY <3>2, <3>3, <3>4
  <2>2. CASE ~Aborts(u)
    <3>1. u = t
      BY <1>2, <2>2, ControlStep DEF Aborts
    <3>2. aborting' /\ (StartAbort(t) \/ SkipDocument(t))
      BY <1>2, <2>2, <3>1, AbortingFlag
    <3>3. Used(waitQueue') = {}
      <4>1. CASE StartAbort(t)
        BY <4>1, AbortedRing DEF StartAbort, RingKept
      <4>2. CASE SkipDocument(t)
        <5>1. PICK a \in AddFailures(waitQueue, DocID(t), SkipDoc) :
                 waitQueue' = Aborted(a.queue)
          BY <3>2, <4>2 DEF SkipDocument
        <5>2. a.queue \in Ring
          BY FailedRing DEF RingKept
        <5> QED
          BY <5>1, <5>2, AbortedRing
      <4> QED
        BY <3>2, <4>1, <4>2
    <3> QED
      BY <3>2, <3>3
  <2> QED
    BY <2>1, <2>2
<1> QED
  BY <1>1, <1>2 DEF Aborting

-----------------------------------------------------------------------------
(***************************************************************************)
(* The pending flush.                                                      *)
(***************************************************************************)
\* What happens to doFlushAfter when a thread lets go of its state.
LEMMA IdleFlag ==
    ASSUME Kinds, NEW s \in DOMAIN threadStates, NEW f \in BOOLEAN
    PROVE  /\ threadStates' = [threadStates EXCEPT ![s].isIdle = TRUE] =>
                 \A r \in DOMAIN threadStates :
                    threadStates'[r].doFlushAfter = threadStates[r].doFlushAfter
           /\ threadStates' = [threadStates EXCEPT ![s].isIdle = TRUE,
                                                   ![s].doFlushAfter = f] =>
                 \A r \in DOMAIN threadStates :
                    threadStates'[r].doFlushAfter =
                       IF r = s THEN f ELSE threadStates[r].doFlushAfter
<1> DEFINE v == [threadStates[s] EXCEPT !.isIdle = TRUE]
           w == [threadStates[s] EXCEPT !.isIdle = TRUE, !.doFlushAfter = f]
<1>1. threadStates \in Seq(ThreadState) /\ threadStates[s] \in ThreadState
  BY DEF Kinds
<1>2. /\ v \in ThreadState /\ v.doFlushAfter = threadStates[s].doFlushAfter
      /\ w \in ThreadState /\ w.doFlushAfter = f
  BY <1>1 DEF ThreadState
<1>3. threadStates' = [threadStates EXCEPT ![s].isIdle = TRUE] =>
         threadStates' = [threadStates EXCEPT ![s] = v]
  OBVIOUS
<1>4. threadStates' = [threadStates EXCEPT ![s].isIdle = TRUE,
                                           ![s].doFlushAfter = f] =>
         threadStates' = [threadStates EXCEPT ![s] = w]
  BY <1>1
<1> HIDE DEF v, w
<1>5. /\ threadStates' = [threadStates EXCEPT ![s] = v] =>
            \A r \in DOMAIN threadStates :
               threadStates'[r].doFlushAfter = threadStates[r].doFlushAfter
      /\ threadStates' = [threadStates EXCEPT ![s] = w] =>
            \A r \in DOMAIN threadStates :
               threadStates'[r].doFlushAfter =
                  IF r = s THEN f ELSE threadStates[r].doFlushAfter
  BY <1>1, <1>2, OneState
<1> QED
  BY <1>3, <1>4, <1>5

\* As long as a flush is pending, no thread state forgets that it has to.
LEMMA FlagKept ==
    ASSUME Kinds, Flags, Owners, NEW t \in Thread, Call(t) \/ Step(t),
           flushPending, flushPending', NEW s \in DOMAIN threadStates,
           threadStates[s].doFlushAfter
    PROVE  threadStates'[s].doFlushAfter
<1>1. CASE threadStates' = threadStates
  BY <1>1
<1>2. ASSUME NEW o \in Calls, Bind(t, o)
      PROVE  threadStates'[s].doFlushAfter
  <2>1. threadStates \in Seq(ThreadState)
    BY DEF Kinds
  <2>2. CASE threadStates' = Append(threadStates, NewThreadState)
    BY <2>1, <2>2
  <2>3. CASE threadStates' =
                [threadStates EXCEPT ![MinThreadState].numThreads = @ + 1]
    <3>1. threadStates[s] \in ThreadState
      BY <2>1
    <3> QED
      BY <2>1, <2>3, <3>1 DEF ThreadState
  <2> QED
    BY <1>1, <1>2, <2>2, <2>3 DEF Bind
<1>3. CASE CallDelete(t) \/ CallCommit(t) \/ CallDeleteAll(t) \/ CallClose(t)
  BY <1>1, <1>3 DEF CallDelete, CallCommit, CallDeleteAll, CallClose, stateVars
<1>4. CASE GetThreadState(t)
  BY <1>1, <1>4 DEF GetThreadState, WaitReady
<1>5. CASE ProcessDocument(t)
  BY <1>1, <1>5 DEF ProcessDocument, stateVars
<1>6. ASSUME Active(t), GoIdle(t, state[t])
      PROVE  threadStates'[s].doFlushAfter
  <2>1. state[t] \in DOMAIN threadStates
    BY <1>6 DEF Owners
  <2>2. PICK f \in BOOLEAN :
           /\ threadStates' = [threadStates EXCEPT ![state[t]].isIdle = TRUE,
                                                   ![state[t]].doFlushAfter = f]
           /\ threadStates[state[t]].doFlushAfter => f
    BY <1>6, <2>1, GoesIdle
  <2> QED
    BY <2>1, <2>2, IdleFlag
<1>7. ASSUME Active(t),
             threadStates' = [threadStates EXCEPT ![state[t]].isIdle = TRUE]
      PROVE  threadStates'[s].doFlushAfter
  <2>1. state[t] \in DOMAIN threadStates
    BY <1>7 DEF Owners
  <2> QED
    BY <1>7, <2>1, IdleFlag
<1>8. CASE DropDocument(t)
  BY <1>7, <1>8 DEF DropDocument, Active
<1>9. CASE FinishDocument(t)
  BY <1>1, <1>6, <1>9 DEF FinishDocument, Active
<1>10. CASE WaitForWaitQueue(t)
  BY <1>6, <1>10 DEF WaitForWaitQueue, Active
<1>11. CASE SkipDocument(t)
  <2>1. Active(t) /\ state[t] \in DOMAIN threadStates
    BY <1>11 DEF SkipDocument, Active, Owners
  <2>2. CASE threadStates' = [threadStates EXCEPT ![state[t]].isIdle = TRUE]
    BY <1>7, <2>1, <2>2
  <2>3. CASE /\ threadStates' = [threadStates EXCEPT
                                   ![state[t]].isIdle = TRUE,
                                   ![state[t]].doFlushAfter = FALSE]
             /\ flushPending' =
                   (flushPending /\ ~threadStates[state[t]].doFlushAfter)
    <3>1. s # state[t]
      BY <2>3
    <3> QED
      BY <2>1, <2>3, <3>1, IdleFlag
  <2> QED
    BY <1>11, <2>2, <2>3 DEF SkipDocument
<1>12. CASE StartAbort(t)
  BY <1>7, <1>12 DEF StartAbort, Active
<1>13. CASE \/ DeleteAbortedFiles(t) \/ ReturnDocument(t) \/ BufferDelete(t)
            \/ CloseDocWriter(t) \/ StartFlush(t) \/ SkipFlush(t) \/ EndFlush(t)
  BY <1>1, <1>13 DEF DeleteAbortedFiles, ReturnDocument, BufferDelete,
                     CloseDocWriter, StartFlush, SkipFlush, EndFlush, stateVars
<1>14. CASE Abort(t) \/ DeleteAll(t)
  BY <1>14 DEF Abort, DeleteAll, DoAfterFlush
<1>15. CASE Flush(t)
  BY <1>1, <1>15 DEF Flush, DoAfterFlush, stateVars
<1> QED
  BY <1>2, <1>3, <1>4, <1>5, <1>8, <1>9, <1>10, <1>11, <1>12, <1>13, <1>14,
     <1>15 DEF Call, Step

\* Nothing brings a flush about once DocumentsWriter is closed.
LEMMA QuietStep ==
    ASSUME Kinds, Flags, Owners, Closing, docClosed, NEW t \in Thread,
           Call(t) \/ Step(t)
    PROVE  /\ bufferIsFull' => bufferIsFull
           /\ deletes = 0 => deletes' = 0
           /\ flushPending' => flushPending \/ bufferIsFull \/ deletes # 0
<1> USE DocumentsAssumption
<1> DEFINE Quiet == /\ bufferIsFull' => bufferIsFull
                    /\ deletes = 0 => deletes' = 0
                    /\ flushPending' => flushPending \/ bufferIsFull \/ deletes # 0
<1>1. ~Active(t)
  BY DEF Closing
<1>2. ASSUME NEW o \in Calls, Bind(t, o) PROVE Quiet
  BY <1>2 DEF Bind, flagVars
<1>3. CASE CallDelete(t) \/ CallCommit(t) \/ CallDeleteAll(t) \/ CallClose(t)
  <2>1. UNCHANGED <<bufferIsFull, deletes, flushPending>>
    BY <1>3 DEF CallDelete, CallCommit, CallDeleteAll, CallClose, flagVars
  <2> QED
    BY <2>1
<1>4. CASE GetThreadState(t)
  BY <1>4 DEF GetThreadState, flagVars
<1>5. CASE \/ ProcessDocument(t) \/ DropDocument(t) \/ FinishDocument(t)
           \/ WaitForWaitQueue(t) \/ SkipDocument(t) \/ StartAbort(t)
  BY <1>1, <1>5 DEF ProcessDocument, DropDocument, FinishDocument,
                    WaitForWaitQueue, SkipDocument, StartAbort, Active
<1>6. CASE Abort(t) \/ DeleteAll(t)
  BY <1>6 DEF Abort, DeleteAll, DoAfterFlush
<1>7. CASE DeleteAbortedFiles(t) \/ CloseDocWriter(t)
  BY <1>7 DEF DeleteAbortedFiles, CloseDocWriter, flagVars
<1>8. CASE ReturnDocument(t)
  <2>1. bufferIsFull' = bufferIsFull /\ deletes' = deletes
    BY <1>8 DEF ReturnDocument
  <2>2. flushPending' => flushPending \/ TimeToFlushDeletes
    BY <1>8, Zenon DEF ReturnDocument
  <2>3. TimeToFlushDeletes => bufferIsFull \/ deletes >= MaxBufferedDeletes
    BY DEF TimeToFlushDeletes, DeletesFull
  <2>4. deletes >= MaxBufferedDeletes => deletes # 0
    BY DEF Kinds
  <2> QED
    BY <2>1, <2>2, <2>3, <2>4
<1>9. CASE BufferDelete(t)
  BY <1>9 DEF BufferDelete
<1>10. CASE StartFlush(t) \/ SkipFlush(t) \/ EndFlush(t)
  <2>1. /\ UNCHANGED <<bufferIsFull, deletes>>
        /\ flushPending' = flushPending \/ flushPending' = FALSE
    BY <1>10 DEF StartFlush, SkipFlush, EndFlush
  <2> QED
    BY <2>1
<1>11. CASE Flush(t)
  BY <1>11 DEF Flush, DoAfterFlush
<1> QED
  BY <1>2, <1>3, <1>4, <1>5, <1>6, <1>7, <1>8, <1>9, <1>10, <1>11
     DEF Call, Step

\* How the last flush comes to its end.
LEMMA LastSteps ==
    ASSUME Kinds, Flags, Owners, NEW t \in Thread, Call(t) \/ Step(t)
    PROVE  /\ closed' /\ ~closed => /\ op[t] = "close" /\ pc[t] = "flushed"
                                    /\ ~flushPending'
           /\ op'[t] = "close" /\ pc'[t] = "flushed" =>
                 op[t] = "close" /\ (SkipFlush(t) \/ Flush(t))
           /\ Aborts(t) /\ ~Aborts(t)' =>
                 ~bufferIsFull' /\ deletes' = 0 /\ ~flushPending'
<1> DEFINE Good ==
      /\ closed' /\ ~closed => /\ op[t] = "close" /\ pc[t] = "flushed"
                               /\ ~flushPending'
      /\ op'[t] = "close" /\ pc'[t] = "flushed" =>
            op[t] = "close" /\ (SkipFlush(t) \/ Flush(t))
      /\ Aborts(t) /\ ~Aborts(t)' =>
            ~bufferIsFull' /\ deletes' = 0 /\ ~flushPending'
<1>1. ASSUME closed' = closed, pc'[t] # "flushed", ~Aborts(t) PROVE Good
  BY <1>1
<1>2. ASSUME NEW o \in Calls, Bind(t, o) PROVE Good
  BY <1>1, <1>2 DEF Bind, Begin, MayCall, Kinds, Aborts, writerVars
<1>3. CASE CallDelete(t) \/ CallCommit(t) \/ CallDeleteAll(t) \/ CallClose(t)
  <2>1. pc[t] = "idle" /\ pc'[t] \in {"ready", "flush", "wipe", "drain"}
    BY <1>3 DEF CallDelete, CallCommit, CallDeleteAll, CallClose, Begin,
                MayCall, Kinds
  <2>2. closed' = closed
    BY <1>3 DEF CallDelete, CallCommit, CallDeleteAll, CallClose, writerVars
  <2> QED
    BY <1>1, <2>1, <2>2 DEF Aborts
<1>4. CASE GetThreadState(t)
  BY <1>1, <1>4 DEF GetThreadState, GoTo, Kinds, Aborts, writerVars
<1>5. CASE ProcessDocument(t) \/ DropDocument(t) \/ WaitForWaitQueue(t)
  <2>1. pc[t] \in {"process", "finish", "queue"} /\ closed' = closed
    BY <1>5 DEF ProcessDocument, DropDocument, WaitForWaitQueue, writerVars
  <2>2. pc'[t] \in {"finish", "failed", "return"}
    BY <1>5 DEF ProcessDocument, DropDocument, WaitForWaitQueue, GoIdle, GoTo,
                Kinds
  <2> QED
    BY <1>1, <2>1, <2>2 DEF Aborts
<1>6. CASE FinishDocument(t)
  <2>1. /\ pc[t] = "finish" /\ closed' = closed
        /\ pc'[t] \in {"queue", "return", "failed"}
    BY <1>6 DEF FinishDocument, GoIdle, GoTo, Kinds, writerVars
  <2> QED
    BY <1>1, <2>1 DEF Aborts
<1>7. CASE SkipDocument(t) \/ StartAbort(t)
  <2>1. /\ pc[t] = "failed" /\ closed' = closed
        /\ pc'[t] \in {"error", "skipAbort", "abort"}
    BY <1>7 DEF SkipDocument, StartAbort, GoTo, Kinds, writerVars
  <2> QED
    BY <1>1, <2>1 DEF Aborts
<1>8. CASE Abort(t)
  <2>1. /\ pc'[t] # "flushed" /\ closed' = closed /\ deletes' = 0
        /\ flushPending' = FALSE /\ bufferIsFull' = FALSE
    BY <1>8 DEF Abort, DoAfterFlush, Leave, GoTo, Kinds, writerVars
  <2> QED
    BY <2>1
<1>9. CASE DeleteAbortedFiles(t)
  BY <1>1, <1>9 DEF DeleteAbortedFiles, Leave, Kinds, Aborts, writerVars
<1>10. CASE ReturnDocument(t) \/ BufferDelete(t)
  <2>1. pc[t] \in {"return", "ready"} /\ closed' = closed
    BY <1>10 DEF ReturnDocument, BufferDelete, writerVars
  <2>2. pc'[t] \in {"flush", "idle"}
    BY <1>10 DEF ReturnDocument, BufferDelete, GoTo, Leave, Kinds
  <2> QED
    BY <1>1, <2>1, <2>2 DEF Aborts
<1>11. CASE DeleteAll(t)
  BY <1>1, <1>11 DEF DeleteAll, Leave, Kinds, Aborts
<1>12. CASE CloseDocWriter(t)
  BY <1>1, <1>12 DEF CloseDocWriter, GoTo, Kinds, Aborts
<1>13. CASE StartFlush(t)
  <2>1. pc[t] = "flush" /\ closed' = closed /\ pc'[t] \in {"flushing", "idle"}
    BY <1>13 DEF StartFlush, GoTo, Leave, Kinds
  <2> QED
    BY <1>1, <2>1 DEF Aborts
<1>14. CASE SkipFlush(t) \/ Flush(t)
  <2>1. pc[t] = "flushing" /\ closed' = closed /\ op' = op
    BY <1>14 DEF SkipFlush, Flush, writerVars
  <2> QED
    BY <1>14, <2>1 DEF Aborts
<1>15. CASE EndFlush(t)
  <2>1. /\ pc[t] \in {"flushed", "flushFailed"} /\ pc'[t] = "idle"
        /\ flushPending' = FALSE
    BY <1>15 DEF EndFlush, Leave, Kinds
  <2>2. closed' /\ ~closed => op[t] = "close" /\ pc[t] = "flushed"
    BY <1>15, Zenon DEF EndFlush
  <2> QED
    BY <2>1, <2>2 DEF Aborts
<1> QED
  BY <1>2, <1>3, <1>4, <1>5, <1>6, <1>7, <1>8, <1>9, <1>10, <1>11, <1>12,
     <1>13, <1>14, <1>15 DEF Call, Step

LEMMA LastFlushStep ==
    ASSUME Kinds, Flags, Owners, Closing, Numbered, Aborting, LastFlush,
           NEW t \in Thread, Call(t) \/ Step(t)
    PROVE  LastFlush'
<1> DEFINE P == closed \/ (\E u \in Closes : pc[u] = "flushed")
           A == \E u \in Thread : Aborts(u)
           Z == ~bufferIsFull /\ deletes = 0
<1>1. A => A' \/ (Z' /\ ~flushPending')
  <2>1. ASSUME NEW w \in Thread, Aborts(w) PROVE A' \/ (Z' /\ ~flushPending')
    <3>1. CASE w # t
      BY <2>1, <3>1, ControlStep DEF Aborts
    <3>2. CASE w = t
      BY <2>1, <3>2, LastSteps
    <3> QED
      BY <3>1, <3>2
  <2> QED
    BY <2>1
<1>2. P => docClosed
  BY DEF Closing
<1>3. P => /\ Z => Z'
           /\ flushPending' => flushPending \/ bufferIsFull \/ deletes # 0
  BY <1>2, QuietStep
<1>4. P' => A' \/ Z'
  <2>1. CASE P
    BY <1>1, <1>3, <2>1 DEF LastFlush
  <2>2. CASE ~P /\ P'
    <3>1. PICK w \in Thread : op'[w] = "close" /\ pc'[w] = "flushed"
      <4>1. ~closed'
        BY <2>2, LastSteps DEF Closes
      <4> QED
        BY <2>2, <4>1 DEF Closes
    <3>2. w = t
      BY <2>2, <3>1, ControlStep DEF Closes
    <3>3. op[t] = "close" /\ (SkipFlush(t) \/ Flush(t))
      BY <3>1, <3>2, LastSteps
    <3>4. CASE SkipFlush(t)
      <4>1. aborting /\ \A u \in Thread : ~Active(u)
        BY <3>4, IdleThreads DEF SkipFlush
      <4>2. A
        BY <4>1 DEF Aborting, Active
      <4> QED
        BY <1>1, <4>2
    <3>5. CASE Flush(t)
      <4>1. pc'[t] = "flushed" /\ pc'[t] # "flushFailed" /\ AppliesDeletes(t)
        BY <3>1, <3>2, <3>3 DEF AppliesDeletes
      <4>2. deletes' = 0
        BY <3>5, <4>1 DEF Flush, GoTo, Kinds
      <4>3. ~bufferIsFull'
        <5>1. CASE bufferIsFull' = FALSE
          BY <5>1
        <5>2. CASE bufferIsFull' = bufferIsFull /\ nextDocID = 0
          BY <5>2 DEF Numbered
        <5> QED
          BY <3>5, <5>1, <5>2 DEF Flush, DoAfterFlush
      <4> QED
        BY <4>2, <4>3
    <3> QED
      BY <3>3, <3>4, <3>5
  <2> QED
    BY <2>1, <2>2
<1>5. closed' /\ flushPending' => A'
  <2>1. CASE closed
    BY <1>1, <1>3, <2>1 DEF LastFlush
  <2>2. CASE ~closed
    BY <2>2, LastSteps
  <2> QED
    BY <2>1, <2>2
<1> QED
  BY <1>4, <1>5 DEF LastFlush

\* A thread that will flush goes on to it until no flush is pending; and a
\* thread that makes a flush pending will flush.
LEMMA OwnDue ==
    ASSUME Kinds, Flags, Owners, NEW t \in Thread, Call(t) \/ Step(t),
           flushPending', ~flushPending \/ Due(t)
    PROVE  Due(t)' \/ (StartFlush(t) /\ closed)
<1> DEFINE Old(p) == p \in {"flush", "flushing", "flushed", "flushFailed",
                            "wipe", "abort", "skipAbort"}
           Has == {"process", "finish", "queue", "failed", "return"}
<1>1. ASSUME Old(pc'[t]) PROVE Due(t)'
  BY <1>1 DEF Due
<1>2. ASSUME ~flushPending, flushPending' = flushPending PROVE FALSE
  BY <1>2
<1>3. ASSUME pc[t] \in Has, flushPending PROVE threadStates[state[t]].doFlushAfter
  BY <1>3 DEF Due
<1>4. ASSUME NEW o \in Calls, Bind(t, o) PROVE FALSE
  BY <1>4, <1>2 DEF Bind, MayCall, Due, flagVars
<1>5. CASE CallDelete(t) \/ CallCommit(t) \/ CallDeleteAll(t) \/ CallClose(t)
  <2>1. pc[t] = "idle" /\ flushPending' = flushPending
    BY <1>5 DEF CallDelete, CallCommit, CallDeleteAll, CallClose, MayCall,
                flagVars
  <2> QED
    BY <2>1, <1>2 DEF Due
<1>6. CASE GetThreadState(t)
  <2>1. pc[t] = "ready" /\ Starts(t)
    BY <1>6 DEF GetThreadState, Starts
  <2>2. ~flushPending
    BY <2>1 DEF Due
  <2>3. CASE docClosed
    <3>1. flushPending' = flushPending
      BY <1>6, <2>3 DEF GetThreadState, flagVars
    <3> QED
      BY <2>2, <3>1, <1>2
  <2>4. CASE ~docClosed
    <3> DEFINE s   == state[t]
               del == deletes + (IF op[t] = "update" THEN 1 ELSE 0)
               forDeletes == /\ op[t] = "update"
                             /\ bufferIsFull \/ del >= MaxBufferedDeletes
               forDocs == ~forDeletes /\ nextDocID + 1 >= MaxBufferedDocs
               flag == IF op[t] = "update" THEN forDeletes \/ forDocs
                       ELSE threadStates[s].doFlushAfter \/ forDocs
               v == [threadStates[s] EXCEPT !.isIdle = FALSE,
                                            !.docID = nextDocID,
                                            !.doFlushAfter = flag]
    <3>1. /\ s \in DOMAIN threadStates /\ threadStates[s] \in ThreadState
          /\ threadStates \in Seq(ThreadState)
      BY <2>1 DEF Owners, Kinds
    <3>2. threadStates' = [threadStates EXCEPT ![s].isIdle = FALSE,
                             ![s].docID = nextDocID, ![s].doFlushAfter = flag]
      BY <1>6, <2>4, <3>1, SMTT(30) DEF GetThreadState, ThreadState
    <3>3. flushPending' = (forDeletes \/ forDocs)
      BY <1>6, <2>4, Zenon DEF GetThreadState
    <3>4. flag
      <4>1. forDeletes \/ forDocs
        BY <3>3
      <4> HIDE DEF forDocs
      <4>2. CASE op[t] = "update"
        BY <4>1, <4>2, Zenon
      <4>3. CASE op[t] # "update"
        BY <4>1, <4>3, Zenon
      <4> QED
        BY <4>2, <4>3
    <3>5. threadStates' = [threadStates EXCEPT ![s] = v]
      BY <3>1, <3>2 DEF ThreadState
    <3>6. v.doFlushAfter = flag
      BY <3>1 DEF ThreadState
    <3> HIDE DEF v, flag
    <3>7. threadStates'[s].doFlushAfter
      BY <3>1, <3>4, <3>5, <3>6
    <3>8. pc'[t] = "process" /\ state' = state
      BY <1>6, <2>4 DEF GetThreadState, GoTo, Kinds
    <3> QED
      BY <3>7, <3>8 DEF Due
  <2> QED
    BY <2>3, <2>4
<1>7. CASE ProcessDocument(t)
  <2>1. /\ pc[t] = "process" /\ pc'[t] \in {"finish", "failed"} /\ state' = state
        /\ threadStates' = threadStates /\ flushPending' = flushPending
    BY <1>7 DEF ProcessDocument, GoTo, Kinds, stateVars
  <2> QED
    BY <2>1, <1>2, <1>3 DEF Due
<1>8. ASSUME Active(t), GoIdle(t, state[t]), state' = state
      PROVE  Due(t)'
  <2>1. state[t] \in DOMAIN threadStates
    BY <1>8 DEF Owners
  <2>2. PICK f \in BOOLEAN :
           /\ threadStates' = [threadStates EXCEPT ![state[t]].isIdle = TRUE,
                                                   ![state[t]].doFlushAfter = f]
           /\ threadStates[state[t]].doFlushAfter => f
           /\ flushPending' => flushPending \/ f
    BY <1>8, <2>1, GoesIdle
  <2>3. f
    BY <1>3, <1>8, <2>2 DEF Active
  <2>4. threadStates'[state[t]].doFlushAfter
    BY <2>1, <2>2, <2>3, IdleFlag
  <2>5. pc'[t] = "return"
    BY <1>8 DEF GoIdle, GoTo, Kinds
  <2> QED
    BY <1>8, <2>4, <2>5 DEF Due
<1>9. ASSUME pc[t] \in Has, pc'[t] \in Has, state' = state,
             flushPending' = flushPending, state[t] \in DOMAIN threadStates
      PROVE  Due(t)'
  <2>1. threadStates[state[t]].doFlushAfter /\ flushPending
    BY <1>2, <1>3, <1>9
  <2>2. threadStates'[state[t]].doFlushAfter
    BY <1>9, <2>1, FlagKept
  <2> QED
    BY <1>9, <2>2 DEF Due
<1>10. Active(t) => pc[t] \in Has /\ state[t] \in DOMAIN threadStates
  BY DEF Active, Owners
<1>11. CASE DropDocument(t)
  <2>1. /\ pc[t] = "finish" /\ pc'[t] = "return" /\ state' = state
        /\ flushPending' = flushPending
    BY <1>11 DEF DropDocument, GoTo, Kinds, flagVars
  <2> QED
    BY <2>1, <1>9, <1>10 DEF Active
<1>12. CASE FinishDocument(t)
  <2>1. pc[t] = "finish" /\ state' = state /\ Active(t)
    BY <1>12 DEF FinishDocument, Active
  <2>2. CASE GoIdle(t, state[t])
    BY <1>8, <2>1, <2>2
  <2>3. CASE pc'[t] \in {"queue", "failed"} /\ flushPending' = flushPending
    BY <1>9, <1>10, <2>1, <2>3
  <2> QED
    BY <1>12, <2>2, <2>3 DEF FinishDocument, GoTo, Kinds
<1>13. CASE WaitForWaitQueue(t)
  BY <1>8, <1>13 DEF WaitForWaitQueue, Active
<1>14. CASE SkipDocument(t)
  <2>1. pc[t] = "failed"
    BY <1>14 DEF SkipDocument
  <2>2. CASE pc'[t] = "skipAbort"
    BY <1>1, <2>2
  <2>3. CASE flushPending' =
                (flushPending /\ ~threadStates[state[t]].doFlushAfter)
    BY <1>3, <2>1, <2>3
  <2> QED
    BY <1>14, <2>2, <2>3 DEF SkipDocument, GoTo, Kinds
<1>15. CASE StartAbort(t)
  BY <1>1, <1>15 DEF StartAbort, GoTo, Kinds
<1>16. CASE DeleteAbortedFiles(t) \/ CloseDocWriter(t)
  <2>1. pc[t] \in {"error", "drain"} /\ flushPending' = flushPending
    BY <1>16 DEF DeleteAbortedFiles, CloseDocWriter, flagVars
  <2> QED
    BY <2>1, <1>2 DEF Due
<1>17. CASE Abort(t) \/ DeleteAll(t) \/ EndFlush(t)
  BY <1>17 DEF Abort, DeleteAll, DoAfterFlush, EndFlush
<1>18. CASE ReturnDocument(t)
  <2>1. pc[t] = "return" /\ pc'[t] \in {"idle", "flush"}
    BY <1>18 DEF ReturnDocument, GoTo, Leave, Kinds
  <2>2. CASE pc'[t] = "flush"
    BY <1>1, <2>2
  <2>3. CASE pc'[t] = "idle"
    <3>1. ~threadStates[state[t]].doFlushAfter /\ flushPending' = flushPending
      BY <1>18, <2>3 DEF ReturnDocument, GoTo, Leave, Kinds
    <3> QED
      BY <2>1, <3>1, <1>2, <1>3
  <2> QED
    BY <2>1, <2>2, <2>3
<1>19. CASE BufferDelete(t)
  <2>1. pc[t] = "ready" /\ ~flushPending
    BY <1>19 DEF BufferDelete, Due
  <2>2. pc'[t] = "flush" \/ flushPending' = flushPending
    BY <1>19 DEF BufferDelete, GoTo, Kinds
  <2> QED
    BY <1>1, <1>2, <2>1, <2>2
<1>20. CASE StartFlush(t)
  BY <1>1, <1>20 DEF StartFlush, GoTo, Kinds
<1>21. CASE SkipFlush(t) \/ Flush(t)
  <2>1. pc'[t] \in {"flushed", "flushFailed"}
    BY <1>21 DEF SkipFlush, Flush, GoTo, Kinds
  <2> QED
    BY <1>1, <2>1
<1> QED
  BY <1>4, <1>5, <1>6, <1>7, <1>11, <1>12, <1>13, <1>14, <1>15, <1>16, <1>17,
     <1>18, <1>19, <1>20, <1>21 DEF Call, Step

LEMMA DueIs ==
    FlushIsDue <=> (flushPending => \E t \in Thread : Due(t))
BY DEF FlushIsDue, Due

LEMMA FlushIsDueStep ==
    ASSUME Kinds, Flags, Owners, LastFlush, FlushIsDue,
           NEW t \in Thread, Call(t) \/ Step(t)
    PROVE  FlushIsDue'
<1> SUFFICES ASSUME flushPending' PROVE \E u \in Thread : Due(u)'
  BY DEF FlushIsDue, Due
<1>1. CASE ~flushPending \/ Due(t)
  <2>1. CASE Due(t)'
    BY <2>1
  <2>2. CASE StartFlush(t) /\ closed
    <3>1. flushPending /\ pc[t] = "flush"
      BY <2>2 DEF StartFlush
    <3>2. PICK w \in Thread : Aborts(w)
      BY <2>2, <3>1 DEF LastFlush
    <3>3. w # t
      BY <3>1, <3>2 DEF Aborts
    <3>4. pc'[w] = pc[w]
      BY <3>3, ControlStep
    <3> QED
      BY <3>2, <3>4 DEF Aborts, Due
  <2> QED
    BY <1>1, <2>1, <2>2, OwnDue
<1>2. CASE flushPending /\ ~Due(t)
  <2>1. PICK u \in Thread : Due(u)
    BY <1>2, DueIs
  <2>2. u # t /\ pc'[u] = pc[u] /\ state'[u] = state[u]
    BY <1>2, <2>1, ControlStep
  <2>3. CASE /\ pc[u] \in {"process", "finish", "queue", "failed", "return"}
             /\ threadStates[state[u]].doFlushAfter
    <3>1. state[u] \in DOMAIN threadStates
      BY <2>3 DEF Owners, Active
    <3>2. threadStates'[state[u]].doFlushAfter
      BY <1>2, <2>3, <3>1, FlagKept
    <3> QED
      BY <2>2, <2>3, <3>2 DEF Due
  <2> QED
    BY <2>1, <2>2, <2>3 DEF Due
<1> QED
  BY <1>1, <1>2

-----------------------------------------------------------------------------
(***************************************************************************)
(* The whole invariant.                                                    *)
(***************************************************************************)
\* The documents that are started, and the calls that may start one.
LEMMA StartingStep ==
    ASSUME Kinds, Flags, Owners, NEW t \in Thread, Call(t) \/ Step(t)
    PROVE  \/ started' = started /\ calls' = calls + 1 /\ ~Starts(t)
           \/ /\ started' \in {started, started + 1} /\ calls' = calls
              /\ Starts(t) /\ ~Starts(t)'
           \/ started' = started /\ calls' = calls /\ ~Starts(t)'
<1> DEFINE Same == started' = started /\ calls' = calls /\ pc'[t] # "ready"
<1>1. Same => started' = started /\ calls' = calls /\ ~Starts(t)'
  BY DEF Starts
<1>2. ASSUME \/ \E o \in Calls : Bind(t, o)
             \/ CallDelete(t) \/ CallCommit(t) \/ CallDeleteAll(t) \/ CallClose(t)
      PROVE  started' = started /\ calls' = calls + 1 /\ ~Starts(t)
  BY <1>2 DEF Bind, CallDelete, CallCommit, CallDeleteAll, CallClose, MayCall,
              Begin, Starts
<1>3. ASSUME GetThreadState(t)
      PROVE  /\ started' \in {started, started + 1} /\ calls' = calls
             /\ Starts(t) /\ ~Starts(t)'
  BY <1>3 DEF GetThreadState, Starts, GoTo, Kinds
<1>4. ASSUME ProcessDocument(t) \/ DropDocument(t) \/ FinishDocument(t)
      PROVE  Same
  BY <1>4 DEF ProcessDocument, DropDocument, FinishDocument, GoIdle, GoTo, Kinds
<1>5. ASSUME WaitForWaitQueue(t) \/ SkipDocument(t) \/ StartAbort(t) PROVE Same
  BY <1>5 DEF WaitForWaitQueue, SkipDocument, StartAbort, GoIdle, GoTo, Kinds
<1>6. ASSUME Abort(t) \/ DeleteAbortedFiles(t) \/ ReturnDocument(t) PROVE Same
  BY <1>6 DEF Abort, DeleteAbortedFiles, ReturnDocument, Leave, GoTo, Kinds
<1>7. ASSUME BufferDelete(t) \/ DeleteAll(t) \/ CloseDocWriter(t) PROVE Same
  BY <1>7 DEF BufferDelete, DeleteAll, CloseDocWriter, Leave, GoTo, Kinds
<1>8. ASSUME StartFlush(t) \/ SkipFlush(t) \/ Flush(t) \/ EndFlush(t) PROVE Same
  BY <1>8 DEF StartFlush, SkipFlush, Flush, EndFlush, Leave, GoTo, Kinds
<1> QED
  BY <1>1, <1>2, <1>3, <1>4, <1>5, <1>6, <1>7, <1>8 DEF Call, Step

LEMMA StartsStep ==
    ASSUME Kinds, Flags, Owners, StartsCounted, NEW t \in Thread,
           Call(t) \/ Step(t)
    PROVE  StartsCounted'
<1> DEFINE S == {u \in Thread : Starts(u)}
           R == {u \in Thread : Starts(u)'}
<1>1. R \ {t} = S \ {t}
  BY ControlStep DEF Starts
<1>2. S \in SUBSET Thread /\ R \in SUBSET Thread
  OBVIOUS
<1>3. In(t, S) = (IF Starts(t) THEN 1 ELSE 0) /\ In(t, R) = (IF Starts(t)' THEN 1 ELSE 0)
  BY DEF In
<1>4. started + Cardinality(S) <= calls
  BY DEF StartsCounted
<1>5. StartsCounted' <=> started' + Cardinality(R) <= calls'
  BY DEF StartsCounted
<1> HIDE DEF S, R
<1>6. /\ Cardinality(S) \in Nat /\ Cardinality(R) \in Nat
      /\ Cardinality(R) = Cardinality(S) - In(t, S) + In(t, R)
  BY <1>1, <1>2, CountStep
<1>7. started \in Nat /\ calls \in Int
  BY DEF Kinds
<1> QED
  BY <1>3, <1>4, <1>5, <1>6, <1>7, StartingStep

\* No document is started that no call asked for.
LEMMA StartBound ==
    ASSUME Kinds, StartsCounted, NEW t \in Thread, Starts(t)
    PROVE  started + 1 \in 1..MaxCalls
<1> USE DocumentsAssumption
<1> DEFINE S == {u \in Thread : Starts(u)}
<1>1. IsFiniteSet(S) /\ S # {}
  BY FS_Subset
<1>2. Cardinality(S) \in Nat /\ Cardinality(S) # 0
  BY <1>1, FS_CardinalityType, FS_EmptySet
<1>3. started + Cardinality(S) <= calls
  BY DEF StartsCounted
<1> HIDE DEF S
<1> QED
  BY <1>2, <1>3 DEF Kinds

LEMMA InvInit ==
    Init => IInv
<1> USE DocumentsAssumption
<1> SUFFICES ASSUME Init PROVE IInv
  OBVIOUS
<1>1. Kinds /\ Flags /\ Owners
  BY KindsInit
<1>2. \A t \in Thread : pc[t] = "idle" /\ op[t] = "none"
  BY DEF Init
<1>3. PausesCounted
  <2>1. Pauses = {} /\ Closes = {}
    BY <1>2 DEF Pauses, Closes
  <2> QED
    BY <2>1, FS_EmptySet DEF PausesCounted, Init
<1>4. Closing
  BY <1>2 DEF Closing, Closes, Active, Init
<1>5. StartsCounted
  <2>1. {t \in Thread : Starts(t)} = {}
    BY <1>2 DEF Starts
  <2> QED
    BY <2>1, FS_EmptySet, SMTT(30) DEF StartsCounted, Init
<1>6. /\ waitQueue \in Ring /\ Counted(waitQueue) /\ Used(waitQueue) = {}
      /\ waitQueue.nextWriteDocID = 0
  BY NewRing DEF Init
<1>7. /\ \A id \in Nat : WaitingDoc(waitQueue, id) = NoDoc
      /\ NextFree(waitQueue)
  BY <1>6, EmptyContent
<1>8. RingKept
  BY <1>6, <1>7 DEF RingKept, Used
<1>9. store = <<>> /\ docs = <<>> /\ deletedDocIDs = {} /\ nextDocID = 0
  BY DEF Init
<1>10. \A id \in Nat : Content(id) = NoDoc
  <2>1. \A id \in Nat : ~(id < Len(store))
    BY <1>9
  <2> QED
    BY <1>7, <2>1 DEF Content
<1>11. Numbered
  <2>1. ~bufferIsFull
    BY DEF Init
  <2> QED
    BY <1>2, <1>9, <2>1 DEF Numbered, Active
<1>12. Documents
  BY <1>2, <1>6, <1>9, <1>10 DEF Documents, Working
<1>13. Aborting
  BY <1>2 DEF Aborting, Aborts, Init
<1>14. LastFlush /\ FlushIsDue
  BY DEF LastFlush, FlushIsDue, Init
<1> QED
  BY <1>1, <1>3, <1>4, <1>5, <1>8, <1>11, <1>12, <1>13, <1>14 DEF IInv

LEMMA InvStep ==
    IInv /\ [Next]_vars => IInv'
<1> SUFFICES ASSUME IInv, [Next]_vars PROVE IInv'
  OBVIOUS
<1>1. CASE Next
  <2>1. PICK t \in Thread : Call(t) \/ Step(t)
    BY <1>1 DEF Next
  <2>2. Kinds' /\ Flags' /\ Owners'
    BY <2>1, KindsStep, FlagsStep, OwnersStep DEF IInv
  <2>3. PausesCounted' /\ Closing' /\ StartsCounted'
    BY <2>1, PausesStep, ClosingStep, StartsStep DEF IInv
  <2>4. RingKept' /\ Numbered' /\ (~aborting' => Documents')
    BY <2>1, BufferStep DEF IInv
  <2>5. Aborting' /\ LastFlush' /\ FlushIsDue'
    BY <2>1, AbortingStep, LastFlushStep, FlushIsDueStep DEF IInv
  <2> QED
    BY <2>2, <2>3, <2>4, <2>5 DEF IInv
<1>2. CASE UNCHANGED vars
  <2>1. /\ UNCHANGED <<waitQueue, nextDocID, deletedDocIDs, store, docs>>
        /\ UNCHANGED <<threadStates, threadBindings, pauseThreads, flushPending>>
        /\ UNCHANGED <<aborting, bufferIsFull, ixLock, closing, closed>>
        /\ UNCHANGED <<docClosed, deletes, pc, op, state, calls, started>>
    BY <1>2 DEF vars, bufferVars, stateVars, flagVars, writerVars
  <2>2. \A u : /\ Active(u)' <=> Active(u)
               /\ Working(u)' <=> Working(u)
               /\ Aborts(u)' <=> Aborts(u)
               /\ Starts(u)' <=> Starts(u)
               /\ DocID(u)' = DocID(u) /\ (Due(u)' <=> Due(u))
    BY <2>1 DEF Active, Working, Aborts, Starts, DocID, Due
  <2>3. Kinds' /\ Flags' /\ Owners'
    BY <2>1, <2>2 DEF IInv, Kinds, Flags, Owners
  <2>4. PausesCounted' /\ Closing'
    BY <2>1, <2>2 DEF IInv, PausesCounted, Closing, Pauses, Closes
  <2>5. StartsCounted' /\ RingKept' /\ Numbered'
    BY <2>1, <2>2 DEF IInv, StartsCounted, RingKept, Numbered
  <2>6. ~aborting' => Documents'
    <3>1. UNCHANGED bufferVars
      BY <2>1 DEF bufferVars
    <3> QED
      BY <2>1, <2>2, <3>1, DocumentsFrame DEF IInv
  <2>7. Aborting' /\ LastFlush' /\ FlushIsDue'
    <3>1. Aborting'
      BY <2>1, <2>2 DEF IInv, Aborting
    <3>2. LastFlush'
      BY <2>1, <2>2 DEF IInv, LastFlush, Closes
    <3>3. FlushIsDue'
      BY <2>1 DEF IInv, FlushIsDue
    <3> QED
      BY <3>1, <3>2, <3>3
  <2> QED
    BY <2>3, <2>4, <2>5, <2>6, <2>7 DEF IInv
<1> QED
  BY <1>1, <1>2

\* What holds of every state of DocumentsWriter, whatever its threads do, and
\* which documents fail: IInv, from which the theorems below follow.
THEOREM Invariant ==
    Spec => []IInv
BY InvInit, InvStep, PTL DEF Spec

-----------------------------------------------------------------------------
\* The types of the variables (DocumentsWriter).
THEOREM Typed ==
    Spec => []TypeOK
<1>1. IInv => TypeOK
  <2> SUFFICES ASSUME IInv PROVE TypeOK
    OBVIOUS
  <2>1. pauseThreads \in Nat
    <3> USE DocumentsAssumption
    <3>1. IsFiniteSet(Pauses) /\ IsFiniteSet(Closes)
      <4>1. Pauses \subseteq Thread /\ Closes \subseteq Thread
        BY DEF Pauses, Closes
      <4> QED
        BY <4>1, FS_Subset
    <3>2. Cardinality(Pauses) \in Nat /\ Cardinality(Closes) \in Nat
      BY <3>1, FS_CardinalityType
    <3> QED
      BY <3>2 DEF IInv, PausesCounted
  <2>2. Kinds /\ Flags /\ RingKept /\ Numbered
    BY DEF IInv
  <2>3. {flushPending, aborting, bufferIsFull, docClosed, closing, closed}
          \subseteq BOOLEAN
    BY <2>2 DEF Flags
  <2> QED
    BY <2>1, <2>2, <2>3 DEF Kinds, RingKept, Numbered, TypeOK
<1> QED
  BY <1>1, Invariant, PTL

\* The ring agrees with its counters, and the slot of the next document is
\* free, whatever the threads do: the assertions of WaitQueue::add and abort
\* never fail.
THEOREM QueueIsConsistent ==
    Spec => []QueueConsistent
<1>1. IInv => QueueConsistent
  <2> SUFFICES ASSUME IInv PROVE QueueConsistent
    OBVIOUS
  <2>1. Counted(waitQueue) /\ NextFree(waitQueue)
    BY DEF IInv, RingKept
  <2> DEFINE used == {i \in DOMAIN waitQueue.waiting :
                        waitQueue.waiting[i] # NoDoc}
             heavy == {i \in used : waitQueue.waiting[i] # SkipDoc}
  <2>2. used = Used(waitQueue) /\ heavy = Heavy(waitQueue)
    BY DEF Used, Heavy
  <2>3. /\ waitQueue.numWaiting = Cardinality(used)
        /\ waitQueue.waitingBytes = Cardinality(heavy)
        /\ waitQueue.waiting[waitQueue.nextWriteLoc] = NoDoc
    BY <2>1, <2>2 DEF Counted, NextFree
  <2> QED
    BY <2>3 DEF QueueConsistent
<1> QED
  BY <1>1, Invariant, PTL

\* When a flush is pending, which stops all other threads, some thread is on
\* its way to do it, however the calls, failures and the closing of the
\* writer fall together (getThreadState, finishDocument, updateDocument).
THEOREM PendingFlushIsDue ==
    Spec => []FlushIsDue
<1>1. IInv => FlushIsDue
  BY DEF IInv
<1> QED
  BY <1>1, Invariant, PTL

-----------------------------------------------------------------------------
(***************************************************************************)
(* The abstract buffer.                                                    *)
(***************************************************************************)
\* What DocumentBuffer calls the state of a document
StateOf(c) ==
    IF c = NoDoc THEN "busy" ELSE IF c = SkipDoc THEN "failed" ELSE "done"

Entry(doc, c) == [doc |-> doc, state |-> StateOf(c)]

\* The buffer holds the documents that got numbers, each with its state.
LEMMA Buffered ==
    ASSUME Kinds, Numbered, Documents, ~aborting
    PROVE  /\ AbstractBuffer = [i \in 1..nextDocID |-> Entry(docs[i], Content(i - 1))]
           /\ Len(AbstractBuffer) = nextDocID /\ nextDocID \in Nat
           /\ \A i \in 1..nextDocID : i - 1 \in Nat /\ i - 1 < nextDocID
<1>1. /\ nextDocID \in Nat
      /\ \A i \in 1..nextDocID : i - 1 \in Nat /\ i - 1 < nextDocID
  BY DEF Kinds
<1>2. ASSUME NEW i \in 1..nextDocID
      PROVE  (CASE Content(i - 1) = NoDoc   -> [doc |-> docs[i], state |-> "busy"]
                [] Content(i - 1) = SkipDoc -> [doc |-> docs[i], state |-> "failed"]
                [] OTHER -> [doc |-> Content(i - 1), state |-> "done"])
               = Entry(docs[i], Content(i - 1))
  <2>1. PICK id \in Nat : id = i - 1 /\ id + 1 = i
    BY <1>1
  <2>2. Content(id) # NoDoc /\ Content(id) # SkipDoc => Content(id) = docs[i]
    BY <2>1 DEF Documents
  <2> QED
    BY <2>1, <2>2 DEF Entry, StateOf, NoDoc, SkipDoc
<1>3. AbstractBuffer = [i \in 1..nextDocID |-> Entry(docs[i], Content(i - 1))]
  BY <1>2 DEF AbstractBuffer
<1>4. Len(AbstractBuffer) = nextDocID
  BY <1>1, <1>3
<1> QED
  BY <1>1, <1>3, <1>4

\* The same of the next state.
LEMMA BufferedNext ==
    (Kinds /\ Numbered /\ Documents /\ ~aborting =>
       /\ AbstractBuffer = [i \in 1..nextDocID |-> Entry(docs[i], Content(i - 1))]
       /\ Len(AbstractBuffer) = nextDocID)'
<1>1. Kinds /\ Numbered /\ Documents /\ ~aborting =>
       /\ AbstractBuffer = [i \in 1..nextDocID |-> Entry(docs[i], Content(i - 1))]
       /\ Len(AbstractBuffer) = nextDocID
  BY Buffered
<1> QED
  BY <1>1, PTL

\* The store holds the documents that are finished, up to the first that is
\* not.
LEMMA StoreFinished ==
    ASSUME Kinds, Numbered, Documents, ~aborting
    PROVE  Buffer!Finished(AbstractBuffer) = Len(store)
<1> DEFINE b == AbstractBuffer
           fin(n) == /\ \A i \in 1..n : b[i].state # "busy"
                     /\ n < Len(b) => b[n + 1].state = "busy"
<1>1. /\ nextDocID \in Nat /\ Len(store) \in Nat /\ Len(store) <= nextDocID
      /\ Len(b) = nextDocID
  BY Buffered, StoreBound DEF Kinds, Documents
<1>2. \A i \in 1..nextDocID : b[i].state = StateOf(Content(i - 1))
  BY Buffered DEF Entry
<1>3. ASSUME NEW i \in 1..Len(store) PROVE b[i].state # "busy"
  <2>1. PICK id \in Nat : id = i - 1 /\ id < Len(store)
    BY <1>1
  <2>2. Content(id) # NoDoc
    BY <2>1 DEF Documents
  <2>3. i \in 1..nextDocID
    BY <1>1
  <2> QED
    BY <1>2, <2>1, <2>2, <2>3 DEF StateOf
<1>4. ASSUME Len(store) < nextDocID PROVE b[Len(store) + 1].state = "busy"
  <2>1. Content(Len(store)) = NoDoc
    BY <1>1 DEF Content, WaitingDoc, Documents
  <2>2. Len(store) + 1 \in 1..nextDocID /\ (Len(store) + 1) - 1 = Len(store)
    BY <1>1, <1>4
  <2>3. b[Len(store) + 1].state = StateOf(Content((Len(store) + 1) - 1))
    BY <1>2, <2>2
  <2> QED
    BY <2>1, <2>2, <2>3 DEF StateOf
<1>5. Len(store) \in 0..Len(b) /\ fin(Len(store))
  BY <1>1, <1>3, <1>4
<1>6. ASSUME NEW n \in 0..Len(b), fin(n) PROVE n = Len(store)
  <2>1. CASE n < Len(store)
    <3>1. n + 1 \in 1..Len(store) /\ n < Len(b)
      BY <1>1, <2>1
    <3> QED
      BY <1>3, <1>6, <3>1
  <2>2. CASE n > Len(store)
    <3>1. Len(store) + 1 \in 1..n /\ Len(store) < nextDocID
      BY <1>1, <2>2
    <3> QED
      BY <1>4, <1>6, <3>1
  <2> QED
    BY <1>1, <2>1, <2>2
<1>7. Buffer!Finished(b) = CHOOSE n \in 0..Len(b) : fin(n)
  BY DEF Buffer!Finished
<1> HIDE DEF fin, b
<1>8. (CHOOSE n \in 0..Len(b) : fin(n)) = Len(store)
  BY <1>5, <1>6
<1> QED
  BY <1>7, <1>8 DEF b

LEMMA StoreFinishedNext ==
    (Kinds /\ Numbered /\ Documents /\ ~aborting =>
       Buffer!Finished(AbstractBuffer) = Len(store))'
<1>1. Kinds /\ Numbered /\ Documents /\ ~aborting =>
       Buffer!Finished(AbstractBuffer) = Len(store)
  BY StoreFinished
<1> QED
  BY <1>1, PTL

\* A document that is handed in is finished, or has failed.
LEMMA FinishesOne ==
    ASSUME Kinds, Numbered, Documents, ~aborting,
           Kinds', Numbered', Documents', ~aborting',
           NEW t \in Thread, Working(t), NEW d, d # NoDoc,
           UNCHANGED <<nextDocID, docs, flushed>>,
           \A j \in Nat : Content(j)' = IF j = DocID(t) THEN d ELSE Content(j)
    PROVE  Buffer!Next
<1> DEFINE k == DocID(t) + 1
           b == AbstractBuffer
           s == StateOf(d)
<1>1. /\ b = [i \in 1..nextDocID |-> Entry(docs[i], Content(i - 1))]
      /\ Len(b) = nextDocID
      /\ \A i \in 1..nextDocID : i - 1 \in Nat /\ i - 1 < nextDocID
  BY Buffered
<1>2. /\ b' = [i \in 1..nextDocID |-> Entry(docs[i], Content(i - 1)')]
      /\ Buffer!Finished(b') = Len(store')
  BY BufferedNext, StoreFinishedNext
<1>3. PICK id \in Nat : id = DocID(t) /\ id < nextDocID /\ Content(id) = NoDoc
  BY DEF Documents
<1>4. k \in 1..nextDocID /\ k - 1 = id
  <2>1. nextDocID \in Nat /\ k = id + 1
    BY <1>3 DEF Kinds
  <2> HIDE DEF k
  <2> QED
    BY <1>3, <2>1
<1> HIDE DEF k, b
<1>5. b[k] = Entry(docs[k], NoDoc)
  BY <1>1, <1>3, <1>4
<1>6. ASSUME NEW i \in 1..nextDocID
      PROVE  Entry(docs[i], Content(i - 1)') =
                IF i = k THEN Entry(docs[k], d) ELSE b[i]
  <2>1. PICK n \in Nat : n = i - 1 /\ (n = id <=> i = k)
    BY <1>1, <1>3, <1>4
  <2>2. Content(n)' = IF n = id THEN d ELSE Content(n)
    BY <1>3
  <2> QED
    BY <1>1, <2>1, <2>2
<1>7. b' = [b EXCEPT ![k].state = s]
  <2>1. [b[k] EXCEPT !.state = s] = Entry(docs[k], d)
    BY <1>5 DEF Entry
  <2>2. [b EXCEPT ![k].state = s] =
           [i \in 1..nextDocID |-> IF i = k THEN Entry(docs[k], d) ELSE b[i]]
    BY <1>1, <1>4, <2>1
  <2> QED
    BY <1>2, <1>6, <2>2
<1>8. b[k].state = "busy" /\ s \in {"done", "failed"}
  BY <1>5 DEF Entry, StateOf
<1>9. Buffer!Finish(k, s)
  BY <1>2, <1>7, <1>8 DEF Buffer!Finish, b
<1> QED
  BY <1>1, <1>4, <1>8, <1>9 DEF Buffer!Next, b

\* getThreadState: a document comes into the buffer.
LEMMA StartsOne ==
    ASSUME IInv, IInv', NEW t \in Thread, GetThreadState(t), ~docClosed
    PROVE  Buffer!Start
<1> DEFINE b == AbstractBuffer
           n == nextDocID
           new == [doc |-> started + 1, state |-> "busy"]
<1>1. /\ ~aborting /\ aborting' = aborting /\ store' = store
      /\ flushed' = flushed /\ started \in Nat
      /\ docs \in Seq(Int) /\ Len(docs) = n
  BY DEF IInv, Kinds, Numbered, GetThreadState, WaitReady
<1>2. /\ Kinds /\ Flags /\ Owners /\ Numbered /\ Documents /\ StartsCounted
      /\ Kinds' /\ Numbered' /\ Documents'
  BY <1>1 DEF IInv
<1>3. /\ docs' = Append(docs, started + 1) /\ nextDocID' = n + 1
      /\ Content(n) = NoDoc
      /\ \A id \in Nat : Content(id)' = Content(id)
  BY <1>2, NewDocument
<1>4. /\ b = [i \in 1..n |-> Entry(docs[i], Content(i - 1))]
      /\ Len(b) = n /\ n \in Nat
  BY <1>1, <1>2, Buffered
<1>5. b' = [i \in 1..n + 1 |-> Entry(docs'[i], Content(i - 1)')]
  BY <1>1, <1>2, <1>3, BufferedNext
<1> HIDE DEF b
<1>6. ASSUME NEW i \in 1..n + 1
      PROVE  Entry(docs'[i], Content(i - 1)') = IF i = n + 1 THEN new ELSE b[i]
  <2>1. PICK id \in Nat : id = i - 1
    BY <1>4
  <2>2. Content(i - 1)' = Content(id)
    BY <1>3, <2>1
  <2>3. CASE i = n + 1
    <3>1. id = n /\ docs'[i] = started + 1
      BY <1>1, <1>3, <1>4, <2>1, <2>3
    <3> QED
      BY <1>3, <2>2, <2>3, <3>1 DEF Entry, StateOf
  <2>4. CASE i # n + 1
    <3>1. i \in 1..n
      BY <1>4, <2>4
    <3>2. docs'[i] = docs[i]
      BY <1>1, <1>3, <3>1
    <3> QED
      BY <1>4, <2>1, <2>2, <2>4, <3>1, <3>2
  <2> QED
    BY <2>3, <2>4
<1>7. b' = [i \in 1..n + 1 |-> IF i = n + 1 THEN new ELSE b[i]]
  BY <1>5, <1>6
<1>8. b' = Append(b, new)
  <2> DEFINE S == {b[i] : i \in 1..n} \cup {new}
  <2>1. b \in [1..n -> S] /\ new \in S
    BY <1>4
  <2> HIDE DEF S, new
  <2>2. b \in Seq(S) /\ Len(b) = n
    BY <1>4, <2>1
  <2>3. Append(b, new) = [i \in 1..n + 1 |-> IF i = n + 1 THEN new ELSE b[i]]
    BY <1>4, <2>1, <2>2
  <2> QED
    BY <1>7, <2>3
<1>9. started + 1 \in 1..MaxCalls
  <2>1. Starts(t)
    BY DEF GetThreadState, Starts
  <2> QED
    BY <1>2, <2>1, StartBound
<1> QED
  BY <1>1, <1>8, <1>9 DEF Buffer!Start, b

\* flush: all documents of the buffer go, and the segment has those that did
\* not fail.
LEMMA FlushesAll ==
    ASSUME IInv, \A u \in Thread : ~Active(u), ~aborting, ~aborting',
           nextDocID # 0, nextDocID' = 0, store' = <<>>,
           flushed' = flushed \o Visible
    PROVE  Buffer!Flush
<1> DEFINE b == AbstractBuffer
           n == nextDocID
<1>1. Kinds /\ RingKept /\ Numbered /\ Documents
  BY DEF IInv
<1>2. /\ b = [i \in 1..n |-> Entry(docs[i], Content(i - 1))]
      /\ Len(b) = n /\ n \in Nat
      /\ \A i \in 1..n : i - 1 \in Nat /\ i - 1 < n
  BY <1>1, Buffered
<1>3. /\ Len(store) = n
      /\ \A id \in Nat : id < n => Content(id) # NoDoc
  BY <1>1, AllWritten
<1>4. b' = <<>>
  <2>1. b' = [i \in 1..0 |->
            CASE Content(i - 1)' = NoDoc   -> [doc |-> docs'[i], state |-> "busy"]
              [] Content(i - 1)' = SkipDoc -> [doc |-> docs'[i], state |-> "failed"]
              [] OTHER -> [doc |-> Content(i - 1)', state |-> "done"]]
    BY DEF AbstractBuffer
  <2> QED
    BY <2>1
<1> HIDE DEF b
<1>5. ASSUME NEW i \in 1..n
      PROVE  /\ b[i].state # "busy"
             /\ (IF b[i].state = "done" THEN b[i].doc ELSE NoDoc) =
                  (IF i - 1 \in deletedDocIDs THEN NoDoc ELSE store[i])
  <2>1. PICK id \in Nat : id = i - 1 /\ id < n /\ id + 1 = i
    BY <1>2
  <2>2. b[i] = Entry(docs[i], Content(id))
    BY <1>2, <2>1
  <2>3. /\ Content(id) # NoDoc /\ Content(id) = store[i]
        /\ Content(id) = IF id \in deletedDocIDs THEN SkipDoc ELSE docs[i]
    <3>1. Content(id) # NoDoc
      BY <1>3, <2>1
    <3>2. Content(id) = store[i]
      BY <1>3, <2>1 DEF Content
    <3> QED
      BY <1>1, <2>1, <3>1, <3>2 DEF Documents
  <2>4. docs[i] # SkipDoc
    BY <1>1 DEF Numbered, SkipDoc, Kinds
  <2> QED
    BY <2>1, <2>2, <2>3, <2>4 DEF Entry, StateOf
<1>6. [i \in 1..n |-> IF b[i].state = "done" THEN b[i].doc ELSE NoDoc]
        = [i \in 1..n |-> IF i - 1 \in deletedDocIDs THEN NoDoc ELSE store[i]]
  BY <1>5
<1>7. Visible = Buffer!Kept([i \in 1..Len(b) |->
                   IF b[i].state = "done" THEN b[i].doc ELSE Buffer!NoDoc])
  <2>1. \A q : Kept(q) = Buffer!Kept(q)
    BY DEF Kept, Buffer!Kept, NoDoc, Buffer!NoDoc
  <2>2. Buffer!NoDoc = NoDoc
    BY DEF NoDoc, Buffer!NoDoc
  <2>3. Visible = Kept([i \in 1..n |->
                     IF i - 1 \in deletedDocIDs THEN NoDoc ELSE store[i]])
    BY <1>3 DEF Visible
  <2> QED
    BY <1>2, <1>6, <2>1, <2>2, <2>3
<1>8. b # <<>> /\ \A i \in 1..Len(b) : b[i].state # "busy"
  BY <1>2, <1>5
<1> QED
  BY <1>4, <1>7, <1>8 DEF Buffer!Flush, b

\* The other steps that change the buffer discard it.
LEMMA Discards ==
    ASSUME aborting' \/ (nextDocID' = 0 /\ store' = <<>>)
    PROVE  /\ flushed' = flushed => Buffer!Discard
           /\ flushed' = <<>> => Buffer!Clear
<1>1. AbstractBuffer' = <<>>
  <2>1. CASE aborting'
    BY <2>1 DEF AbstractBuffer
  <2>2. CASE ~aborting' /\ nextDocID' = 0
    <3>1. AbstractBuffer' = [i \in 1..0 |->
            CASE Content(i - 1)' = NoDoc   -> [doc |-> docs'[i], state |-> "busy"]
              [] Content(i - 1)' = SkipDoc -> [doc |-> docs'[i], state |-> "failed"]
              [] OTHER -> [doc |-> Content(i - 1)', state |-> "done"]]
      BY <2>2 DEF AbstractBuffer
    <3> QED
      BY <3>1
  <2> QED
    BY <2>1, <2>2
<1>2. (IF aborting' THEN 0 ELSE Len(store')) = 0
  OBVIOUS
<1> QED
  BY <1>1, <1>2 DEF Buffer!Discard, Buffer!Clear

LEMMA Stutters ==
    ASSUME UNCHANGED <<waitQueue, nextDocID, store, docs, aborting, flushed>>
    PROVE  UNCHANGED Buffer!dbvars
<1>1. AbstractBuffer' = AbstractBuffer
  BY DEF AbstractBuffer, Content
<1> QED
  BY <1>1 DEF Buffer!dbvars

LEMMA BufferSteps ==
    IInv /\ IInv' /\ [Next]_vars => [Buffer!Next]_(Buffer!dbvars)
<1> SUFFICES ASSUME IInv, IInv', [Next]_vars
             PROVE  [Buffer!Next]_(Buffer!dbvars)
  OBVIOUS
<1> DEFINE Goal == [Buffer!Next]_(Buffer!dbvars)
           Same == UNCHANGED <<bufferVars, aborting, flushed>>
<1>1. Same => Goal
  BY Stutters DEF bufferVars
<1>2. ASSUME aborting' \/ (nextDocID' = 0 /\ store' = <<>>),
             flushed' = flushed \/ flushed' = <<>>
      PROVE  Goal
  BY <1>2, Discards DEF Buffer!Next
<1>3. CASE UNCHANGED vars
  BY <1>1, <1>3 DEF vars, flagVars
<1>4. ASSUME NEW t \in Thread, Call(t) \/ Step(t)
      PROVE  Goal
  <2>1. /\ Kinds /\ Flags /\ Owners /\ RingKept /\ Numbered /\ Aborting
        /\ ~aborting => Documents
        /\ Kinds' /\ Numbered' /\ (~aborting' => Documents')
    BY DEF IInv
  <2>2. ASSUME NEW o \in Calls, Bind(t, o) PROVE Same
    BY <2>2 DEF Bind, flagVars
  <2>3. CASE \/ CallDelete(t) \/ CallCommit(t) \/ CallDeleteAll(t)
             \/ CallClose(t)
    <3>1. Same
      BY <2>3 DEF CallDelete, CallCommit, CallDeleteAll, CallClose, flagVars
    <3> QED
      BY <1>1, <3>1
  <2>4. CASE GetThreadState(t)
    <3>1. CASE docClosed
      <4>1. Same
        BY <2>4, <3>1 DEF GetThreadState, flagVars
      <4> QED
        BY <1>1, <4>1
    <3>2. CASE ~docClosed
      BY <2>4, <3>2, StartsOne DEF Buffer!Next
    <3> QED
      BY <3>1, <3>2
  <2>5. CASE ProcessDocument(t)
    <3>1. UNCHANGED <<bufferVars, flushed>> /\ (aborting' = aborting \/ aborting')
      BY <2>5 DEF ProcessDocument
    <3>2. CASE aborting' = aborting
      BY <1>1, <3>1, <3>2
    <3>3. CASE aborting'
      BY <1>2, <3>1, <3>3
    <3> QED
      BY <3>1, <3>2, <3>3
  <2>6. ASSUME Working(t), ~aborting, ~aborting', NEW d,
               \/ d = MyDoc(t) /\ UNCHANGED deletedDocIDs
               \/ /\ d = SkipDoc
                  /\ deletedDocIDs' = deletedDocIDs \cup {DocID(t)},
               waitQueue' = Added(waitQueue, DocID(t), d).queue,
               store' = store \o Added(waitQueue, DocID(t), d).out,
               UNCHANGED <<nextDocID, docs, started, flushed>>, ~Working(t)'
        PROVE  Goal
    <3>1. \A u \in Thread : /\ Working(u)' <=> Working(u) /\ u # t
                            /\ Working(u)' => DocID(u)' = DocID(u)
      BY <1>4, <2>1, <2>6, WorkStep DEF Working, Active
    <3>2. \A j \in Nat : Content(j)' = IF j = DocID(t) THEN d ELSE Content(j)
      BY <2>1, <2>6, <3>1, HandedIn
    <3>3. d # NoDoc
      <4>1. PICK id \in Nat : id = DocID(t) /\ id < nextDocID
        BY <2>1, <2>6 DEF Documents
      <4>2. docs[id + 1] \in 1..started
        <5>1. nextDocID \in Nat
          BY <2>1 DEF Kinds
        <5>2. id + 1 \in 1..nextDocID
          BY <4>1, <5>1
        <5> QED
          BY <2>1, <5>2 DEF Numbered
      <4>3. MyDoc(t) \in 1..started
        BY <4>1, <4>2 DEF MyDoc
      <4> QED
        BY <2>1, <2>6, <4>3 DEF NoDoc, SkipDoc, Kinds
    <3>4. Buffer!Next
      BY <2>1, <2>6, <3>2, <3>3, FinishesOne
    <3> QED
      BY <3>4
  <2>7. CASE DropDocument(t)
    BY <1>1, <2>7 DEF DropDocument, flagVars
  <2>8. CASE FinishDocument(t)
    <3>1. CASE aborting'
      BY <1>2, <2>8, <3>1 DEF FinishDocument
    <3>2. CASE ~aborting'
      <4>1. /\ ~aborting /\ Working(t)
            /\ waitQueue' = Added(waitQueue, DocID(t), MyDoc(t)).queue
            /\ store' = store \o Added(waitQueue, DocID(t), MyDoc(t)).out
            /\ UNCHANGED <<deletedDocIDs, nextDocID, docs, started, flushed>>
        BY <2>8, <3>2 DEF FinishDocument, Working
      <4>2. ~Working(t)'
        BY <2>1, <2>8, <3>2 DEF FinishDocument, GoIdle, GoTo, Kinds, Working
      <4> QED
        BY <2>6, <3>2, <4>1, <4>2
    <3> QED
      BY <3>1, <3>2
  <2>9. CASE WaitForWaitQueue(t)
    BY <1>1, <2>9 DEF WaitForWaitQueue
  <2>10. CASE SkipDocument(t)
    <3>1. CASE aborting'
      BY <1>2, <2>10, <3>1 DEF SkipDocument
    <3>2. CASE ~aborting'
      <4>1. /\ ~aborting /\ Working(t)
            /\ waitQueue' = Added(waitQueue, DocID(t), SkipDoc).queue
            /\ store' = store \o Added(waitQueue, DocID(t), SkipDoc).out
            /\ deletedDocIDs' = deletedDocIDs \cup {DocID(t)}
            /\ UNCHANGED <<nextDocID, docs, started, flushed>>
        BY <2>10, <3>2 DEF SkipDocument, Working
      <4>2. ~Working(t)'
        BY <2>1, <2>10, <3>2 DEF SkipDocument, GoTo, Kinds, Working
      <4> QED
        BY <2>6, <3>2, <4>1, <4>2
    <3> QED
      BY <3>1, <3>2
  <2>11. CASE StartAbort(t)
    BY <1>2, <2>11 DEF StartAbort
  <2>12. CASE Abort(t) \/ DeleteAll(t)
    BY <1>2, <2>12 DEF Abort, DeleteAll, DoAfterFlush
  <2>13. CASE \/ DeleteAbortedFiles(t) \/ ReturnDocument(t) \/ BufferDelete(t)
              \/ CloseDocWriter(t) \/ StartFlush(t) \/ SkipFlush(t)
              \/ EndFlush(t)
    BY <1>1, <2>13 DEF DeleteAbortedFiles, ReturnDocument, BufferDelete,
                       CloseDocWriter, StartFlush, SkipFlush, EndFlush, flagVars
  <2>14. CASE Flush(t)
    <3>1. ~aborting /\ aborting' = aborting /\ \A u \in Thread : ~Active(u)
      BY <2>1, <2>14, IdleThreads DEF Flush
    <3>2. CASE UNCHANGED <<bufferVars, flushed>>
      BY <1>1, <3>1, <3>2
    <3>3. CASE DoAfterFlush(waitQueue) /\ flushed' = flushed
      BY <1>2, <3>3 DEF DoAfterFlush
    <3>4. CASE /\ nextDocID # 0 /\ DoAfterFlush(waitQueue)
               /\ flushed' = flushed \o Visible
      <4>1. nextDocID' = 0 /\ store' = <<>>
        BY <3>4 DEF DoAfterFlush
      <4>2. Buffer!Flush
        BY <3>1, <3>4, <4>1, FlushesAll
      <4> QED
        BY <4>2 DEF Buffer!Next
    <3> QED
      BY <2>14, <3>2, <3>3, <3>4 DEF Flush
  <2> QED
    BY <1>1, <1>4, <2>2, <2>3, <2>4, <2>5, <2>7, <2>8, <2>9, <2>10, <2>11,
       <2>12, <2>13, <2>14 DEF Call, Step
<1> QED
  BY <1>3, <1>4 DEF Next

\* DocumentsWriter implements DocumentBuffer: it buffers the documents in
\* order, each under its own number, and flushes them whole, although its ring
\* wraps around and grows and its threads fail (WaitQueue::add,
\* updateDocument, flush).
THEOREM ImplementsBuffer ==
    Spec => BuffersDocuments
<1>1. Init => Buffer!Init
  <2> SUFFICES ASSUME Init PROVE Buffer!Init
    OBVIOUS
  <2>1. /\ ~aborting /\ nextDocID = 0 /\ store = <<>> /\ flushed = <<>>
    BY DEF Init
  <2>2. AbstractBuffer = <<>>
    <3>1. AbstractBuffer = [i \in 1..0 |->
            CASE Content(i - 1) = NoDoc   -> [doc |-> docs[i], state |-> "busy"]
              [] Content(i - 1) = SkipDoc -> [doc |-> docs[i], state |-> "failed"]
              [] OTHER -> [doc |-> Content(i - 1), state |-> "done"]]
      BY <2>1 DEF AbstractBuffer
    <3> QED
      BY <3>1
  <2> QED
    BY <2>1, <2>2 DEF Buffer!Init
<1> QED
  BY <1>1, BufferSteps, Invariant, PTL DEF Spec, BuffersDocuments, Buffer!Spec
=============================================================================
