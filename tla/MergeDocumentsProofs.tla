------------------------- MODULE MergeDocumentsProofs -------------------------
(***************************************************************************)
(* Proofs about module MergeThreads, continued: no merge, transaction or   *)
(* rollback loses a document or brings one twice, finishMerges leaves no   *)
(* merge, a rollback leaves the last commit as it was, and every merge     *)
(* finds its segments when it commits.  First what the operations do to    *)
(* the documents of the segments, then who may change the segments while a *)
(* transaction, a merge or a close is under way, then the invariants, step *)
(* by step.                                                                *)
(***************************************************************************)
EXTENDS MergeThreadsProofs

\* Concatenation is associative.
Associates(S) == \A x, y, z \in Seq(S) : (x \o y) \o z = x \o (y \o z)

\* It is so for all sequences.
LEMMA ConcatIsAssociative ==
    ASSUME NEW S
    PROVE  Associates(S)
  <1> SUFFICES ASSUME NEW x \in Seq(S), NEW y \in Seq(S), NEW z \in Seq(S)
               PROVE  (x \o y) \o z = x \o (y \o z)
    BY Zenon DEF Associates
  <1> QED
    BY ConcatAssociative

\* The documents of two sequences together are those of the one and then those
\* of the other.
LEMMA FlattenConcat ==
    ASSUME NEW S, NEW s \in Seq(Seq(S)), NEW t \in Seq(Seq(S))
    PROVE  FlattenSeq(s \o t) = FlattenSeq(s) \o FlattenSeq(t)
  <1> DEFINE u == s \o t
             m == Len(s)
             n == Len(t)
  <1>1. /\ u \in Seq(Seq(S)) /\ Len(u) = m + n /\ m \in Nat /\ n \in Nat
        /\ Len(s) = m /\ Len(t) = n
        /\ \A i \in 1..m : u[i] = s[i]
        /\ \A j \in 1..n : u[m + j] = t[j]
    OBVIOUS
  <1>2. PICK f : Flattens(f, s, S) /\ FlattenSeq(s) = f[m]
    BY FlattenIs
  <1>3. PICK g : Flattens(g, t, S) /\ FlattenSeq(t) = g[n]
    BY FlattenIs
  <1> HIDE DEF u, m, n
  <1>4. PICK h : Flattens(h, u, S) /\ FlattenSeq(u) = h[m + n]
    <2>1. \E h : Flattens(h, u, S) /\ FlattenSeq(u) = h[Len(u)]
      BY <1>1, FlattenIs, Zenon
    <2> QED
      BY <1>1, <2>1
  <1>5. h[m] = f[m]
    <2> DEFINE G == {i \in 0..m : h[i] = f[i]}
    <2>1. 0 \in G
      BY <1>1, <1>2, <1>4 DEF Flattens
    <2>2. ASSUME NEW i \in 1..m, i - 1 \in G PROVE i \in G
      <3>1. i \in 1..Len(u) /\ i \in 1..Len(s) /\ i \in 0..m /\ u[i] = s[i]
        BY <1>1
      <3>2. /\ \A k \in 1..Len(u) : h[k] = h[k - 1] \o u[k]
            /\ \A k \in 1..Len(s) : f[k] = f[k - 1] \o s[k]
        BY <1>2, <1>4 DEF Flattens
      <3>3. h[i] = h[i - 1] \o u[i] /\ f[i] = f[i - 1] \o s[i]
        BY <3>1, <3>2, Zenon
      <3> QED
        BY <2>2, <3>1, <3>3
    <2> HIDE DEF G
    <2>3. 0..m \subseteq G /\ m \in 0..m
      <3>1. m \in 0..m
        BY <1>1
      <3>2. 0..m \subseteq G
        BY <1>1, <2>1, <2>2, UpTo
      <3> QED
        BY <3>1, <3>2
    <2>4. m \in G
      BY <2>3
    <2> QED
      BY <2>4 DEF G
  <1>6. f[m] \in Seq(S) /\ \A j \in 0..n : g[j] \in Seq(S)
    <2>1. m \in 0..Len(s)
      BY <1>1
    <2>2. f \in [0..m -> Seq(S)] /\ g \in [0..n -> Seq(S)]
      BY <1>1, <1>2, <1>3 DEF Flattens
    <2> QED
      BY <1>1, <2>2
  <1> DEFINE G == {j \in 0..n : h[m + j] = f[m] \o g[j]}
  <1>7. 0 \in G
    <2>1. g[0] = <<>> /\ m + 0 = m
      BY <1>1, <1>3 DEF Flattens
    <2>2. f[m] \o <<>> = f[m]
      BY <1>6
    <2>3. 0 \in 0..n /\ h[m + 0] = f[m] \o g[0]
      BY <1>1, <1>5, <2>1, <2>2
    <2> QED
      BY <2>3
  <1>8. ASSUME NEW j \in 1..n, j - 1 \in G PROVE j \in G
    <2>1. /\ m + j \in 1..Len(u) /\ j \in 0..n
          /\ j \in 1..Len(t) /\ j - 1 \in 0..n
      BY <1>1
    <2>2. h[m + j] = h[m + (j - 1)] \o u[m + j]
      <3>1. m + (j - 1) = (m + j) - 1
        BY <1>1
      <3>2. \A k \in 1..Len(u) : h[k] = h[k - 1] \o u[k]
        BY <1>4 DEF Flattens
      <3>3. m + j \in 1..Len(u)
        BY <2>1
      <3>4. h[m + j] = h[(m + j) - 1] \o u[m + j]
        BY <3>2, <3>3, Zenon
      <3> QED
        BY <3>1, <3>4, Zenon
    <2>3. g[j] = g[j - 1] \o t[j]
      BY <1>3, <2>1 DEF Flattens
    <2>4. t[j] \in Seq(S) /\ g[j - 1] \in Seq(S) /\ f[m] \in Seq(S)
      BY <1>6, <2>1
    <2>5. (f[m] \o g[j - 1]) \o t[j] = f[m] \o (g[j - 1] \o t[j])
      <3>1. Associates(S)
        BY ConcatIsAssociative, Zenon
      <3> QED
        BY <2>4, <3>1, Zenon DEF Associates
    <2> QED
      BY <1>1, <1>8, <2>1, <2>2, <2>3, <2>5
  <1>9. h[m + n] = f[m] \o g[n]
    <2> HIDE DEF G
    <2>1. 0..n \subseteq G
      BY <1>1, <1>7, <1>8, UpTo
    <2>2. n \in G
      <3>1. n \in 0..n
        BY <1>1
      <3> QED
        BY <2>1, <3>1
    <2> QED
      BY <2>2 DEF G
  <1> QED
    BY <1>2, <1>3, <1>4, <1>9 DEF u

\* No sequences.
LEMMA FlattenNone == FlattenSeq(<<>>) = <<>>
  <1>1. <<>> \in Seq(Seq(Nat)) /\ Len(<<>>) = 0
    OBVIOUS
  <1>2. PICK f : Flattens(f, <<>>, Nat) /\ FlattenSeq(<<>>) = f[Len(<<>>)]
    BY <1>1, FlattenIs
  <1> QED
    BY <1>1, <1>2 DEF Flattens

\* The documents of one sequence.
LEMMA FlattenOne ==
    ASSUME NEW S, NEW x \in Seq(S)
    PROVE  FlattenSeq(<<x>>) = x
  <1>1. PICK f : Flattens(f, <<x>>, S) /\ FlattenSeq(<<x>>) = f[1]
    <2>1. <<x>> \in Seq(Seq(S)) /\ Len(<<x>>) = 1
      OBVIOUS
    <2> QED
      BY <2>1, FlattenIs
  <1>2. f[1] = <<>> \o x
    <2>1. Len(<<x>>) = 1 /\ <<x>>[1] = x /\ 1 \in 1..1 /\ 1 - 1 = 0
      OBVIOUS
    <2>2. f[1] = f[1 - 1] \o <<x>>[1] /\ f[0] = <<>>
      BY <1>1, <2>1, Zenon DEF Flattens
    <2> QED
      BY <2>1, <2>2
  <1>3. <<>> \o x = x
    OBVIOUS
  <1> QED
    BY <1>1, <1>2, <1>3

\* One segment has its own documents, and none have none.
LEMMA DocsOne ==
    /\ Docs(<<>>) = <<>>
    /\ \A x \in Info : Docs(<<x>>) = x.docs
  <1>1. Docs(<<>>) = <<>>
    <2>1. [i \in DOMAIN <<>> |-> <<>>[i].docs] = <<>>
      OBVIOUS
    <2> QED
      BY <2>1, FlattenNone DEF Docs
  <1>2. ASSUME NEW x \in Info PROVE Docs(<<x>>) = x.docs
    <2>1. [i \in DOMAIN <<x>> |-> <<x>>[i].docs] = <<x.docs>>
      OBVIOUS
    <2>2. x.docs \in Seq(Nat)
      BY DEF Info
    <2> QED
      BY <2>1, <2>2, FlattenOne DEF Docs
  <1> QED
    BY <1>1, <1>2

\* The documents of each segment.
LEMMA DocsOfEach ==
    ASSUME NEW infos \in Seq(Info)
    PROVE  /\ [i \in DOMAIN infos |-> infos[i].docs] \in Seq(Seq(Nat))
           /\ Len([i \in DOMAIN infos |-> infos[i].docs]) = Len(infos)
  <1> DEFINE docs == [i \in DOMAIN infos |-> infos[i].docs]
             S == Seq(Nat)
  <1>1. \A i \in DOMAIN infos : infos[i].docs \in S
    <2> TAKE i \in DOMAIN infos
    <2>1. infos[i] \in Info
      OBVIOUS
    <2> QED
      BY <2>1 DEF Info
  <1> HIDE DEF S
  <1>2. docs \in Seq(S) /\ Len(docs) = Len(infos)
    BY <1>1
  <1> QED
    BY <1>2 DEF S

\* The documents of segments that are added come last.
LEMMA DocsConcat ==
    ASSUME NEW a \in Seq(Info), NEW b \in Seq(Info)
    PROVE  Docs(a \o b) = Docs(a) \o Docs(b)
  <1> DEFINE docs(s) == [i \in DOMAIN s |-> s[i].docs]
  <1>1. docs(a \o b) = docs(a) \o docs(b)
    <2> DEFINE c == a \o b
    <2>1. /\ Len(a) \in Nat /\ Len(b) \in Nat /\ DOMAIN c = 1..Len(a) + Len(b)
          /\ DOMAIN a = 1..Len(a) /\ DOMAIN b = 1..Len(b)
          /\ \A i \in 1..Len(a) + Len(b) :
                c[i] = IF i <= Len(a) THEN a[i] ELSE b[i - Len(a)]
      OBVIOUS
    <2> HIDE DEF c
    <2>2. /\ docs(a) \in Seq(Seq(Nat)) /\ Len(docs(a)) = Len(a)
          /\ docs(b) \in Seq(Seq(Nat)) /\ Len(docs(b)) = Len(b)
      BY DocsOfEach
    <2>3. /\ \A i \in 1..Len(a) : docs(a)[i] = a[i].docs
          /\ \A i \in 1..Len(b) : docs(b)[i] = b[i].docs
      BY <2>1
    <2> DEFINE da == docs(a)
               db == docs(b)
    <2> HIDE DEF da, db
    <2>4. da \o db = [i \in 1..Len(a) + Len(b) |->
                        IF i <= Len(a) THEN da[i] ELSE db[i - Len(a)]]
      <3>1. da \o db = [i \in 1..Len(da) + Len(db) |->
                          IF i <= Len(da) THEN da[i] ELSE db[i - Len(da)]]
        BY <2>2 DEF da, db
      <3>2. Len(da) = Len(a) /\ Len(db) = Len(b)
        BY <2>2 DEF da, db
      <3> QED
        BY <3>1, <3>2
    <2>5. ASSUME NEW i \in 1..Len(a) + Len(b)
          PROVE  c[i].docs = IF i <= Len(a) THEN da[i] ELSE db[i - Len(a)]
      <3>1. i <= Len(a) => i \in 1..Len(a)
        BY <2>1
      <3>2. ~(i <= Len(a)) => i - Len(a) \in 1..Len(b)
        BY <2>1
      <3> QED
        BY <2>1, <2>3, <3>1, <3>2 DEF da, db
    <2>6. docs(c) = da \o db
      BY <2>1, <2>4, <2>5
    <2> QED
      BY <2>6 DEF c, da, db
  <1>2. docs(a) \in Seq(Seq(Nat)) /\ docs(b) \in Seq(Seq(Nat))
    BY DocsOfEach
  <1>3. FlattenSeq(docs(a) \o docs(b))
          = FlattenSeq(docs(a)) \o FlattenSeq(docs(b))
    <2> DEFINE da == docs(a)
               db == docs(b)
    <2> HIDE DEF da, db
    <2>1. da \in Seq(Seq(Nat)) /\ db \in Seq(Seq(Nat))
      BY <1>2 DEF da, db
    <2>2. FlattenSeq(da \o db) = FlattenSeq(da) \o FlattenSeq(db)
      BY <2>1, FlattenConcat
    <2> QED
      BY <2>2 DEF da, db
  <1>4. Docs(a) = FlattenSeq(docs(a)) /\ Docs(b) = FlattenSeq(docs(b))
        /\ Docs(a \o b) = FlattenSeq(docs(a \o b))
    BY DEF Docs
  <1> QED
    BY <1>1, <1>3, <1>4

\* A beginning of a sequence is one element longer.
LEMMA SubSeqNext ==
    ASSUME NEW S, NEW u \in Seq(S), NEW i \in 1..Len(u)
    PROVE  Append(SubSeq(u, 1, i - 1), u[i]) = SubSeq(u, 1, i)
  <1> DEFINE s == SubSeq(u, 1, i - 1)
             t == SubSeq(u, 1, i)
  <1>1. /\ t \in Seq(S) /\ Len(t) = i /\ \A k \in 1..i : t[k] = u[k]
        /\ i \in Nat
    OBVIOUS
  <1>2. s \in Seq(S) /\ Len(s) = i - 1 /\ \A k \in 1..i - 1 : s[k] = u[k]
    OBVIOUS
  <1>3. u[i] \in S
    OBVIOUS
  <1> HIDE DEF s, t
  <1> DEFINE a == Append(s, u[i])
  <1>4. a \in Seq(S) /\ Len(a) = i
        /\ \A k \in 1..i : a[k] = IF k = i THEN u[i] ELSE s[k]
    BY <1>1, <1>2, <1>3
  <1> HIDE DEF a
  <1>5. \A k \in 1..i : a[k] = t[k]
    BY <1>1, <1>2, <1>4
  <1>6. a = t
    BY <1>1, <1>4, <1>5
  <1> QED
    BY <1>6 DEF a, s, t

\* A sequence whose end alone is in a set, without the elements of the set.
LEMMA WithoutEnd ==
    ASSUME NEW u \in Seq(Nat), NEW S, NEW m \in 0..Len(u),
           \A i \in 1..m : u[i] \notin S,
           \A i \in m + 1..Len(u) : u[i] \in S
    PROVE  Without(u, S) = SubSeq(u, 1, m)
  <1> DEFINE n == Len(u)
             next(w, i) == IF i = 0 THEN <<>>
                           ELSE IF u[i] \in S THEN w[i - 1]
                           ELSE Append(w[i - 1], u[i])
             F(w) == [i \in 0..n |-> next(w, i)]
             h == CHOOSE w : w = F(w)
             g == [i \in 0..n |-> SubSeq(u, 1, IF i <= m THEN i ELSE m)]
  <1>1. n \in Nat /\ m \in 0..n /\ m \in Nat
    OBVIOUS
  <1>2. Without(u, S) = h[n]
    BY DEF Without
  <1>3. SubSeq(u, 1, 0) = <<>>
    OBVIOUS
  <1>4. \A i \in 1..n : Append(SubSeq(u, 1, i - 1), u[i]) = SubSeq(u, 1, i)
    BY SubSeqNext
  <1>5. ASSUME NEW i \in 0..n PROVE g[i] = next(g, i)
    <2>1. CASE i = 0
      BY <1>1, <1>3, <2>1
    <2>2. CASE i \in 1..m
      <3>1. i - 1 \in 0..n /\ i - 1 <= m /\ i # 0 /\ i \in 1..n /\ i <= m
        BY <1>1, <2>2
      <3>2. g[i] = SubSeq(u, 1, i) /\ g[i - 1] = SubSeq(u, 1, i - 1)
        BY <3>1
      <3>3. u[i] \notin S
        BY <2>2
      <3> HIDE DEF g, n
      <3> QED
        BY <1>4, <3>1, <3>2, <3>3
    <2>3. CASE i \in m + 1..n
      <3>1. i - 1 \in 0..n /\ i # 0 /\ ~(i <= m)
        BY <1>1, <2>3
      <3>2. g[i - 1] = SubSeq(u, 1, m)
        <4>1. i - 1 <= m => i - 1 = m
          BY <1>1, <2>3
        <4> QED
          BY <3>1, <4>1
      <3>3. g[i] = SubSeq(u, 1, m)
        BY <3>1
      <3>4. u[i] \in S
        BY <2>3
      <3> HIDE DEF g
      <3> QED
        BY <3>1, <3>2, <3>3, <3>4
    <2>4. i = 0 \/ i \in 1..m \/ i \in m + 1..n
      BY <1>1
    <2> HIDE DEF g, next
    <2> QED
      BY <2>1, <2>2, <2>3, <2>4
  <1>6. g = F(g)
    <2>1. g = [i \in 0..n |-> g[i]]
      OBVIOUS
    <2> HIDE DEF g, next, n
    <2> QED
      BY <1>5, <2>1
  <1>7. h = F(h)
    <2> HIDE DEF F, g
    <2> QED
      BY <1>6
  <1>8. \A i \in 0..n : h[i] = next(h, i)
    <2> HIDE DEF h, next, n
    <2> QED
      BY <1>7
  <1> DEFINE G == {i \in 0..n : h[i] = g[i]}
  <1> HIDE DEF h, g, n
  <1>9. 0 \in G
    BY <1>1, <1>5, <1>8
  <1>10. ASSUME NEW i \in 1..n, i - 1 \in G PROVE i \in G
    <2>1. i \in 0..n /\ i # 0
      BY <1>1
    <2>2. h[i] = next(h, i) /\ g[i] = next(g, i) /\ h[i - 1] = g[i - 1]
      BY <1>5, <1>8, <1>10, <2>1
    <2> QED
      BY <2>1, <2>2
  <1> HIDE DEF G
  <1>11. 0..n \subseteq G
    BY <1>1, <1>9, <1>10, UpTo
  <1>12. n \in 0..n
    BY <1>1
  <1>13. h[n] = g[n]
    <2>1. n \in G
      BY <1>11, <1>12
    <2> QED
      BY <2>1 DEF G
  <1>14. g[n] = SubSeq(u, 1, m)
    <2>1. g[n] = SubSeq(u, 1, IF n <= m THEN n ELSE m)
      BY <1>12 DEF g
    <2>2. n <= m => n = m
      BY <1>1
    <2> QED
      BY <2>1, <2>2
  <1> QED
    BY <1>2, <1>13, <1>14

\* Nothing is taken out of a sequence.
LEMMA WithoutNone ==
    ASSUME NEW u \in Seq(Nat), NEW S, S \cap ToSet(u) = {}
    PROVE  Without(u, S) = u
  <1>1. Len(u) \in 0..Len(u) /\ SubSeq(u, 1, Len(u)) = u
    OBVIOUS
  <1>2. \A i \in 1..Len(u) : u[i] \notin S
    BY DEF ToSet
  <1>3. \A i \in Len(u) + 1..Len(u) : u[i] \in S
    OBVIOUS
  <1> QED
    BY <1>1, <1>2, <1>3, WithoutEnd

\* What was added is taken out again.
LEMMA WithoutAdded ==
    ASSUME NEW s \in Seq(Nat), NEW t \in Seq(Nat), ToSet(s) \cap ToSet(t) = {}
    PROVE  Without(s \o t, ToSet(t)) = s
  <1> DEFINE u == s \o t
             m == Len(s)
  <1>1. /\ u \in Seq(Nat) /\ Len(u) = m + Len(t) /\ m \in Nat /\ Len(t) \in Nat
        /\ m \in 0..Len(u) /\ SubSeq(u, 1, m) = s
    OBVIOUS
  <1>2. \A i \in 1..m : u[i] = s[i]
    OBVIOUS
  <1>3. \A i \in m + 1..Len(u) : u[i] = t[i - m] /\ i - m \in 1..Len(t)
    OBVIOUS
  <1> HIDE DEF u
  <1>4. \A i \in 1..m : u[i] \notin ToSet(t)
    <2>1. \A i \in 1..m : s[i] \in ToSet(s)
      BY DEF ToSet
    <2> QED
      BY <1>2, <2>1
  <1>5. \A i \in m + 1..Len(u) : u[i] \in ToSet(t)
    BY <1>3 DEF ToSet
  <1>6. Without(u, ToSet(t)) = SubSeq(u, 1, m)
    BY <1>1, <1>4, <1>5, WithoutEnd
  <1> QED
    BY <1>1, <1>6 DEF u

-----------------------------------------------------------------------------
(***************************************************************************)
(* Segments without repetition, and what commitMerge makes of them.        *)
(***************************************************************************)
Distinct(infos) ==
    \A i, j \in DOMAIN infos : infos[i].name = infos[j].name => i = j

\* What becomes of a merge
Merged(m) == [name |-> m.info, docs |-> Docs(m.segs), ext |-> FALSE]

\* Segments that are added have other names.
LEMMA DistinctConcat ==
    ASSUME NEW a \in Seq(Info), NEW b \in Seq(Info)
    PROVE  Distinct(a \o b) <=> /\ Distinct(a) /\ Distinct(b)
                                /\ Names(a) \cap Names(b) = {}
  <1> DEFINE c == a \o b
             m == Len(a)
             n == Len(b)
  <1>1. /\ DOMAIN c = 1..m + n /\ DOMAIN a = 1..m /\ DOMAIN b = 1..n
        /\ m \in Nat /\ n \in Nat
        /\ \A i \in 1..m : c[i] = a[i]
        /\ \A i \in 1..n : c[m + i] = b[i]
    OBVIOUS
  <1> HIDE DEF c, m, n
  <1>2. ASSUME Distinct(c) PROVE Distinct(a)
    <2>1. 1..m \subseteq 1..m + n
      BY <1>1
    <2> QED
      BY <1>1, <1>2, <2>1 DEF Distinct
  <1>3. ASSUME Distinct(c) PROVE Distinct(b)
    <2> SUFFICES ASSUME NEW i \in 1..n, NEW j \in 1..n, b[i].name = b[j].name
                 PROVE  i = j
      BY <1>1 DEF Distinct
    <2>1. m + i \in DOMAIN c /\ m + j \in DOMAIN c
      BY <1>1
    <2>2. c[m + i].name = c[m + j].name
      BY <1>1
    <2>3. m + i = m + j
      BY <1>3, <2>1, <2>2, Zenon DEF Distinct
    <2> QED
      BY <1>1, <2>3
  <1>4. ASSUME Distinct(c) PROVE Names(a) \cap Names(b) = {}
    <2> SUFFICES ASSUME NEW i \in 1..m, NEW j \in 1..n, a[i].name = b[j].name
                 PROVE  FALSE
      BY <1>1 DEF Names
    <2>1. i \in DOMAIN c /\ m + j \in DOMAIN c /\ i # m + j
      BY <1>1
    <2>2. c[i].name = c[m + j].name
      BY <1>1
    <2> QED
      BY <1>4, <2>1, <2>2 DEF Distinct
  <1>5. ASSUME Distinct(a), Distinct(b), Names(a) \cap Names(b) = {}
        PROVE  Distinct(c)
    <2>1. ASSUME NEW k \in 1..m + n
          PROVE  \/ k \in 1..m /\ c[k] = a[k]
                 \/ k - m \in 1..n /\ c[k] = b[k - m]
      <3>1. k \in 1..m \/ (k - m \in 1..n /\ m + (k - m) = k)
        BY <1>1
      <3> QED
        BY <1>1, <3>1
    <2> SUFFICES ASSUME NEW i \in 1..m + n, NEW j \in 1..m + n,
                        c[i].name = c[j].name
                 PROVE  i = j
      BY <1>1 DEF Distinct
    <2>2. CASE i \in 1..m /\ c[i] = a[i] /\ j \in 1..m /\ c[j] = a[j]
      BY <1>1, <1>5, <2>2 DEF Distinct
    <2>3. CASE /\ i - m \in 1..n /\ c[i] = b[i - m]
               /\ j - m \in 1..n /\ c[j] = b[j - m]
      <3>1. i - m = j - m
        BY <1>1, <1>5, <2>3 DEF Distinct
      <3> QED
        BY <1>1, <3>1
    <2>4. CASE i \in 1..m /\ c[i] = a[i] /\ j - m \in 1..n /\ c[j] = b[j - m]
      <3>1. c[i].name \in Names(a) /\ c[j].name \in Names(b)
        BY <1>1, <2>4 DEF Names
      <3> QED
        BY <1>5, <3>1
    <2>5. CASE i - m \in 1..n /\ c[i] = b[i - m] /\ j \in 1..m /\ c[j] = a[j]
      <3>1. c[i].name \in Names(b) /\ c[j].name \in Names(a)
        BY <1>1, <2>5 DEF Names
      <3> QED
        BY <1>5, <3>1
    <2> QED
      BY <2>1, <2>2, <2>3, <2>4, <2>5
  <1> QED
    BY <1>2, <1>3, <1>4, <1>5 DEF c

\* A segment, and no segment, is without repetition.
LEMMA DistinctOne ==
    Distinct(<<>>) /\ \A x \in Info : Distinct(<<x>>)
  <1>1. DOMAIN <<>> = {} /\ \A x : DOMAIN <<x>> = {1}
    OBVIOUS
  <1> QED
    BY <1>1 DEF Distinct

\* The elements of two sequences together.
LEMMA ConcatElements ==
    ASSUME NEW S, NEW a \in Seq(S), NEW b \in Seq(S)
    PROVE  ToSet(a \o b) = ToSet(a) \cup ToSet(b)
  <1> DEFINE c == a \o b
             m == Len(a)
             n == Len(b)
  <1>1. /\ DOMAIN c = 1..m + n /\ DOMAIN a = 1..m /\ DOMAIN b = 1..n
        /\ m \in Nat /\ n \in Nat
        /\ \A i \in 1..m : c[i] = a[i]
        /\ \A i \in 1..n : c[m + i] = b[i]
    OBVIOUS
  <1> HIDE DEF c, m, n
  <1>2. ASSUME NEW k \in 1..m + n
        PROVE  \/ k \in 1..m /\ c[k] = a[k]
               \/ k - m \in 1..n /\ c[k] = b[k - m]
    <2>1. k \in 1..m \/ (k - m \in 1..n /\ m + (k - m) = k)
      BY <1>1
    <2> QED
      BY <1>1, <2>1
  <1>3. ToSet(c) \subseteq ToSet(a) \cup ToSet(b)
    BY <1>1, <1>2 DEF ToSet
  <1>4. ToSet(a) \subseteq ToSet(c)
    <2>1. 1..m \subseteq 1..m + n
      BY <1>1
    <2> QED
      BY <1>1, <2>1 DEF ToSet
  <1>5. ToSet(b) \subseteq ToSet(c)
    <2>1. \A i \in 1..n : m + i \in 1..m + n
      BY <1>1
    <2> QED
      BY <1>1, <2>1 DEF ToSet
  <1> QED
    BY <1>3, <1>4, <1>5 DEF c

\* commitMerge takes the segments of the merge out, where they are, and puts the
\* merged one there.
LEMMA MergedAt ==
    ASSUME NEW infos \in Seq(Info), NEW m \in Merge, Contiguous(m.segs, infos),
           Distinct(infos),
           \A a \in ToSet(m.segs), b \in ToSet(infos) : a.name = b.name => a = b
    PROVE  \E f \in 1..Len(infos) :
              /\ f + Len(m.segs) - 1 <= Len(infos)
              /\ \A i \in 1..Len(m.segs) : infos[f + i - 1] = m.segs[i]
              /\ WithMerged(infos, m) =
                    (SubSeq(infos, 1, f - 1) \o <<Merged(m)>>)
                      \o SubSeq(infos, f + Len(m.segs), Len(infos))
  <1> DEFINE k == Len(m.segs)
             n == Len(infos)
             is(i) == infos[i].name = Id(m.segs)
             first == CHOOSE i \in DOMAIN infos : is(i)
  <1>1. /\ m.segs \in Seq(Info) \ {<<>>} /\ k \in Nat \ {0} /\ n \in Nat
        /\ DOMAIN infos = 1..n /\ DOMAIN m.segs = 1..k
    <2>1. m.segs \in Seq(Info) \ {<<>>}
      BY DEF Merge
    <2> QED
      BY <2>1
  <1>2. PICK f \in 1..n : /\ f + k - 1 <= n
                          /\ \A i \in 1..k : infos[f + i - 1].name = m.segs[i].name
    BY <1>1 DEF Contiguous
  <1>3. first = f
    <2>1. 1 \in 1..k /\ f + 1 - 1 = f
      BY <1>1
    <2>2. infos[f].name = m.segs[1].name
      BY <1>2, <2>1
    <2>3. is(f)
      BY <2>2 DEF Id
    <2>4. \E i \in DOMAIN infos : is(i)
      BY <1>1, <2>3
    <2>5. first \in DOMAIN infos /\ is(first)
      <3> HIDE DEF is
      <3> QED
        BY <2>4
    <2> HIDE DEF first
    <2>6. infos[first].name = infos[f].name
      BY <2>3, <2>5
    <2> QED
      BY <1>1, <2>5, <2>6 DEF Distinct
  <1>4. \A i \in 1..k : infos[f + i - 1] = m.segs[i]
    <2> TAKE i \in 1..k
    <2>1. f + i - 1 \in 1..n
      BY <1>1, <1>2
    <2>2. infos[f + i - 1] \in ToSet(infos) /\ m.segs[i] \in ToSet(m.segs)
      BY <1>1, <2>1 DEF ToSet
    <2> QED
      BY <1>2, <2>2
  <1>5. WithMerged(infos, m) =
          SubSeq(infos, 1, f - 1) \o <<Merged(m)>> \o SubSeq(infos, f + k, n)
    BY <1>3 DEF WithMerged, Merged
  <1> QED
    BY <1>2, <1>4, <1>5

\* Those before the merge, the merge and those behind it.
LEMMA MergedParts ==
    ASSUME NEW infos \in Seq(Info), NEW m \in Merge, Contiguous(m.segs, infos),
           Distinct(infos),
           \A a \in ToSet(m.segs), b \in ToSet(infos) : a.name = b.name => a = b
    PROVE  \E left, right \in Seq(Info) :
              /\ infos = (left \o m.segs) \o right
              /\ WithMerged(infos, m) = (left \o <<Merged(m)>>) \o right
  <1> DEFINE n == Len(infos)
  <1>1. PICK f \in 1..n :
              /\ f + Len(m.segs) - 1 <= n
              /\ \A i \in 1..Len(m.segs) : infos[f + i - 1] = m.segs[i]
              /\ WithMerged(infos, m) =
                    (SubSeq(infos, 1, f - 1) \o <<Merged(m)>>)
                      \o SubSeq(infos, f + Len(m.segs), n)
    BY MergedAt
  <1> DEFINE segs == m.segs
             k == Len(segs)
             left == SubSeq(infos, 1, f - 1)
             right == SubSeq(infos, f + k, n)
  <1>2. segs \in Seq(Info) /\ k \in Nat /\ n \in Nat /\ f \in Nat /\ f <= n
        /\ f + k - 1 <= n
    <2>1. segs \in Seq(Info)
      BY DEF Merge
    <2> QED
      BY <1>1, <2>1
  <1>3. \A i \in 1..k : infos[f + i - 1] = segs[i]
    BY <1>1
  <1>4. WithMerged(infos, m) = (left \o <<Merged(m)>>) \o right
    BY <1>1
  <1> HIDE DEF segs
  <1>5. /\ left \in Seq(Info) /\ Len(left) = f - 1
        /\ \A i \in 1..f - 1 : left[i] = infos[i]
    BY <1>1, <1>2
  <1>6. /\ right \in Seq(Info) /\ Len(right) = n - f - k + 1
        /\ \A i \in 1..n - f - k + 1 : right[i] = infos[f + k + i - 1]
    <2> HIDE DEF k
    <2>1. k \in Nat /\ f + k - 1 <= n /\ f + k \in Nat \ {0} /\ f + k <= n + 1
      BY <1>2 DEF k
    <2>2. CASE f + k = n + 1
      <3>1. right = <<>> /\ n - f - k + 1 = 0
        BY <1>2, <2>1, <2>2
      <3>2. <<>> \in Seq(Info) /\ Len(<<>>) = 0 /\ 1..0 = {}
        OBVIOUS
      <3> HIDE DEF right
      <3>3. \A i \in 1..n - f - k + 1 : FALSE
        BY <3>1, <3>2
      <3> QED
        BY <3>1, <3>2, <3>3
    <2>3. CASE f + k <= n
      <3> DEFINE b == f + k
      <3>1. b \in 1..n /\ n - f - k + 1 = n - b + 1 /\ right = SubSeq(infos, b, n)
        BY <1>2, <2>1, <2>3
      <3>2. \A i : f + k + i - 1 = b + i - 1
        OBVIOUS
      <3> HIDE DEF b, right
      <3>3. /\ right \in Seq(Info) /\ Len(right) = n - b + 1
            /\ \A i \in 1..n - b + 1 : right[i] = infos[b + i - 1]
        BY <1>2, <3>1, SMTT(30)
      <3> QED
        BY <3>1, <3>2, <3>3
    <2> QED
      BY <1>2, <2>1, <2>2, <2>3
  <1> HIDE DEF left, right, k
  <1> DEFINE most == left \o segs
  <1>7. /\ most \in Seq(Info) /\ Len(most) = f - 1 + k
        /\ \A i \in 1..f - 1 + k :
              most[i] = IF i <= f - 1 THEN left[i] ELSE segs[i - f + 1]
    BY <1>1, <1>2, <1>5 DEF k
  <1>8. \A i \in 1..f - 1 + k : most[i] = infos[i]
    <2> HIDE DEF most
    <2> TAKE i \in 1..f - 1 + k
    <2>1. CASE i <= f - 1
      BY <1>1, <1>2, <1>5, <1>7, <2>1
    <2>2. CASE ~(i <= f - 1)
      <3>1. i - f + 1 \in 1..k /\ f + (i - f + 1) - 1 = i
        BY <1>1, <1>2, <2>2
      <3> QED
        BY <1>3, <1>7, <2>2, <3>1
    <2> QED
      BY <2>1, <2>2
  <1> HIDE DEF most
  <1> DEFINE all == most \o right
  <1>9. /\ all \in Seq(Info) /\ Len(all) = n
        /\ \A i \in 1..n : all[i] = IF i <= f - 1 + k THEN most[i]
                                    ELSE right[i - (f - 1 + k)]
    BY <1>1, <1>2, <1>6, <1>7
  <1>10. \A i \in 1..n : all[i] = infos[i]
    <2> HIDE DEF all
    <2> TAKE i \in 1..n
    <2>1. CASE i <= f - 1 + k
      <3>1. i \in 1..f - 1 + k
        BY <1>2, <2>1
      <3>2. all[i] = most[i] /\ most[i] = infos[i]
        BY <1>8, <1>9, <2>1, <3>1
      <3> QED
        BY <3>2
    <2>2. CASE ~(i <= f - 1 + k)
      <3> DEFINE j == i - (f - 1 + k)
      <3>1. j \in 1..n - f - k + 1 /\ f + k + j - 1 = i
        BY <1>1, <1>2, <2>2
      <3> HIDE DEF j
      <3>2. right[j] = infos[i]
        BY <1>6, <3>1
      <3> QED
        BY <1>9, <2>2, <3>2 DEF j
    <2> QED
      BY <2>1, <2>2
  <1>11. all = infos
    <2> HIDE DEF all
    <2> QED
      BY <1>9, <1>10
  <1>12. infos = (left \o segs) \o right
    BY <1>11 DEF most
  <1> QED
    BY <1>4, <1>5, <1>6, <1>12 DEF segs

-----------------------------------------------------------------------------
(***************************************************************************)
(* A name is that of one segment.                                          *)
(***************************************************************************)
Lists == {segmentInfos, rollbackSegmentInfos, localRollbackSegmentInfos}

\* All segments that anybody knows
Records == (UNION {ToSet(reg.merges[id].segs) : id \in DOMAIN reg.merges})
              \cup (UNION {ToSet(infos) : infos \in Lists})

\* No list of segments has one twice, segments of one name are the same, and a
\* merge has not used its own name before commitMerge.
Identified ==
    /\ \A infos \in Lists : Distinct(infos)
    /\ \A a, b \in Records : a.name = b.name => a = b
    /\ \A p \in Process :
          pc[p] \in Goes => \A a \in Records : a.name # MergeOf(p).info

\* Every segment anybody knows was given its name.
LEMMA RecordsNamed ==
    ASSUME IInv
    PROVE  /\ \A a \in Records : a \in Info /\ a.name \in 1..counter
           /\ Lists \subseteq Seq(Info) /\ counter \in Nat
           /\ \A id \in DOMAIN reg.merges : reg.merges[id].segs \in Seq(Info)
  <1>1. \A infos \in Lists : Named(infos, counter)
    BY DEF IInv, AllNamed, Lists
  <1>2. \A id \in DOMAIN reg.merges : Named(reg.merges[id].segs, counter)
    <2>1. RegInv(reg, counter) /\ counter \in Nat
      BY DEF IInv, Typed
    <2> TAKE id \in DOMAIN reg.merges
    <2>2. reg.merges[id].segs \in Seq(Info)
      BY <2>1, RegIds DEF Merge
    <2> QED
      BY <2>1, <2>2 DEF RegInv, RegNamed, Named
  <1>3. ASSUME NEW infos, Named(infos, counter), NEW a \in ToSet(infos)
        PROVE  a \in Info /\ a.name \in 1..counter
    BY <1>3 DEF Named, Names, ToSet
  <1>4. counter \in Nat
    BY DEF IInv, Typed
  <1>5. /\ Lists \subseteq Seq(Info)
        /\ \A id \in DOMAIN reg.merges : reg.merges[id].segs \in Seq(Info)
    BY <1>1, <1>2 DEF Named
  <1> QED
    BY <1>1, <1>2, <1>3, <1>4, <1>5 DEF Records

\* A merge is registered of segments that there are.
LEMMA RecordsFrom ==
    ASSUME IInv, Comes, NEW N,
           \A infos \in Lists' : ToSet(infos) \subseteq Records \cup N
    PROVE  Records' \subseteq Records \cup N
  <1>1. ASSUME NEW id \in DOMAIN reg'.merges, NEW a \in ToSet(reg'.merges[id].segs)
        PROVE  a \in Records
    <2>1. CASE /\ id \in DOMAIN reg.merges
               /\ reg'.merges[id].segs = reg.merges[id].segs
      BY <2>1 DEF Records
    <2>2. CASE reg'.merges[id].segs \in Runs(segmentInfos)
      <3> DEFINE run == reg'.merges[id].segs
      <3>1. segmentInfos \in Seq(Info) /\ run \in Runs(segmentInfos)
        BY <2>2, RecordsNamed DEF Lists
      <3> HIDE DEF run
      <3>2. /\ run \in Seq(Info)
            /\ \E f, l \in 1..Len(segmentInfos) :
                  /\ f <= l /\ Len(run) = l - f + 1
                  /\ \A i \in 1..Len(run) : run[i] = segmentInfos[f + i - 1]
        BY <3>1, RunElim
      <3>3. \A i \in DOMAIN run : run[i] \in ToSet(segmentInfos)
        BY <3>1, <3>2 DEF ToSet
      <3>4. a \in ToSet(segmentInfos)
        BY <3>3 DEF run, ToSet
      <3> QED
        BY <3>4 DEF Records, Lists
    <2> QED
      BY <2>1, <2>2 DEF Comes, Stems
  <1> QED
    BY <1>1 DEF Records

\* No segment has the name of a merge that goes on.
LEMMA NamesFree ==
    ASSUME IInv, Identified, Comes, NEW p \in Process, pc'[p] \in Goes
    PROVE  \A a \in Records : a.name # reg'.merges[merge'[p]].info
  <1> DEFINE name == reg'.merges[merge'[p]].info
  <1>1. \A a \in Records : a.name \in 1..counter /\ counter \in Nat
    BY RecordsNamed
  <1>2. \/ \E s \in Process : pc[s] \in Goes /\ name = MergeOf(s).info
        \/ name = None
        \/ name = counter + 1
    BY DEF Comes, GoesFrom
  <1>3. CASE \E s \in Process : pc[s] \in Goes /\ name = MergeOf(s).info
    BY <1>3 DEF Identified
  <1> HIDE DEF name
  <1>4. ASSUME name = None \/ name = counter + 1
        PROVE  \A a \in Records : a.name # name
    BY <1>1, <1>4 DEF None
  <1> QED
    BY <1>2, <1>3, <1>4 DEF name

\* What a step must do so that a name stays that of one segment; N are the
\* segments it puts in.
LEMMA IdentifiedKeeps ==
    ASSUME IInv, Identified, Comes, NEW N,
           \A infos \in Lists' : /\ ToSet(infos) \subseteq Records \cup N
                                 /\ Distinct(infos),
           \A a, b \in N : a.name = b.name => a = b,
           \A a \in N, b \in Records : a.name # b.name,
           \A p \in Process : pc'[p] \in Goes =>
                \A a \in N : a.name # reg'.merges[merge'[p]].info
    PROVE  Identified'
  <1>1. Records' \subseteq Records \cup N
    BY RecordsFrom
  <1>2. \A a, b \in Records \cup N : a.name = b.name => a = b
    BY DEF Identified
  <1>3. \A p \in Process : pc'[p] \in Goes =>
           \A a \in Records \cup N : a.name # reg'.merges[merge'[p]].info
    BY NamesFree
  <1> QED
    BY <1>1, <1>2, <1>3 DEF Identified, MergeOf

\* What a step does to the lists of segments.
ListsMove ==
    \/ /\ segmentInfos' \in Lists \cup {<<>>}
       /\ rollbackSegmentInfos' \in Lists
       /\ localRollbackSegmentInfos' \in Lists \cup {<<>>}
    \/ \E t \in Thread : Flush(t) \/ AddExternal(t) \/ ReadersPut(t)
    \/ \E p \in Process : CommitMerge(p)

\* Where the segments come from: other lists, a flush, another index or a merge.
LEMMA ListsStep ==
    ASSUME IInv, [Next]_vars
    PROVE  ListsMove
  <1>1. ASSUME NEW t \in Thread, Call(t)
        PROVE  ListsMove
    BY <1>1
      DEF Call, GoTo, GoToThen, Stays, infoVars, commitVars, optVars,
         closeVars, lockVars, threadVars, Lists, ListsMove
  <1>2. ASSUME NEW t \in Thread, AddDocument(t)
        PROVE  ListsMove
    BY <1>2
      DEF AddDocument, GoTo, GoToThen, Stays, infoVars, commitVars, optVars,
         closeVars, lockVars, threadVars, Lists, ListsMove
  <1>3. ASSUME NEW t \in Thread, Flush(t)
        PROVE  ListsMove
    BY <1>3 DEF ListsMove
  <1>4. ASSUME NEW t \in Thread, UpdatePendingMerges(t)
        PROVE  ListsMove
    BY <1>4
      DEF UpdatePendingMerges, GoTo, GoToThen, Stays, infoVars, commitVars,
         optVars, closeVars, lockVars, threadVars, Lists, ListsMove
  <1>5. ASSUME NEW t \in Thread, Commit(t)
        PROVE  ListsMove
    BY <1>5
      DEF Commit, GoTo, GoToThen, Stays, infoVars, commitVars, optVars,
         closeVars, lockVars, threadVars, Lists, ListsMove
  <1>6. ASSUME NEW t \in Thread, Leave(t)
        PROVE  ListsMove
    BY <1>6
      DEF Leave, GoTo, GoToThen, Stays, infoVars, commitVars, optVars,
         closeVars, lockVars, threadVars, Lists, ListsMove
  <1>7. ASSUME NEW t \in Thread, OptimizeMark(t)
        PROVE  ListsMove
    BY <1>7
      DEF OptimizeMark, GoTo, GoToThen, Stays, infoVars, commitVars, optVars,
         closeVars, lockVars, threadVars, Lists, ListsMove
  <1>8. ASSUME NEW t \in Thread, OptimizeWait(t)
        PROVE  ListsMove
    BY <1>8
      DEF OptimizeWait, GoTo, GoToThen, Stays, infoVars, commitVars, optVars,
         closeVars, lockVars, threadVars, Lists, ListsMove
  <1>9. ASSUME NEW t \in Thread, PauseAllThreads(t)
        PROVE  ListsMove
    BY <1>9
      DEF PauseAllThreads, GoTo, GoToThen, Stays, infoVars, commitVars,
         optVars, closeVars, lockVars, threadVars, Lists, ListsMove
  <1>10. ASSUME NEW t \in Thread, AcquireRead(t)
        PROVE  ListsMove
    BY <1>10
      DEF AcquireRead, GoTo, GoToThen, Stays, infoVars, commitVars, optVars,
         closeVars, lockVars, threadVars, Lists, ListsMove
  <1>11. ASSUME NEW t \in Thread, StartTransaction(t)
        PROVE  ListsMove
    BY <1>11
      DEF StartTransaction, TakesWriteLock, UpgradeReadToWrite, AcquireWrite,
         TakesLock, GoTo, GoToThen, Stays, infoVars, commitVars, optVars,
         closeVars, lockVars, threadVars, Lists, ListsMove
  <1>12. ASSUME NEW t \in Thread, AddExternal(t)
        PROVE  ListsMove
    BY <1>12 DEF ListsMove
  <1>13. ASSUME NEW t \in Thread, TransactionOpen(t)
        PROVE  ListsMove
    BY <1>13
      DEF TransactionOpen, GoTo, GoToThen, Stays, infoVars, commitVars,
         optVars, closeVars, lockVars, threadVars, Lists, ListsMove
  <1>14. ASSUME NEW t \in Thread, ResolveExternal(t)
        PROVE  ListsMove
    BY <1>14
      DEF ResolveExternal, GoTo, GoToThen, Stays, infoVars, commitVars,
         optVars, closeVars, lockVars, threadVars, Lists, ListsMove
  <1>15. ASSUME NEW t \in Thread, ReadersGet(t)
        PROVE  ListsMove
    BY <1>15
      DEF ReadersGet, GoTo, GoToThen, Stays, infoVars, commitVars, optVars,
         closeVars, lockVars, threadVars, Lists, ListsMove
  <1>16. ASSUME NEW t \in Thread, ReadersPut(t)
        PROVE  ListsMove
    BY <1>16 DEF ListsMove
  <1>17. ASSUME NEW t \in Thread, CommitTransaction(t)
        PROVE  ListsMove
    BY <1>17
      DEF CommitTransaction, GoTo, GoToThen, Stays, infoVars, commitVars,
         optVars, closeVars, lockVars, threadVars, Lists, ListsMove
  <1>18. ASSUME NEW t \in Thread, FinishMerges(t)
        PROVE  ListsMove
    BY <1>18
      DEF FinishMerges, MergesFinished, RolledBack, AllDeleted, GoTo,
         GoToThen, Stays, infoVars, commitVars, optVars, closeVars, lockVars,
         threadVars, Lists, ListsMove
  <1>19. ASSUME NEW t \in Thread, FinishMergesWait(t)
        PROVE  ListsMove
    BY <1>19
      DEF FinishMergesWait, MergesFinished, RolledBack, AllDeleted, GoTo,
         GoToThen, Stays, infoVars, commitVars, optVars, closeVars, lockVars,
         threadVars, Lists, ListsMove
  <1>20. ASSUME NEW t \in Thread, WaitForMerges(t)
        PROVE  ListsMove
    BY <1>20
      DEF WaitForMerges, GoTo, GoToThen, Stays, infoVars, commitVars, optVars,
         closeVars, lockVars, threadVars, Lists, ListsMove
  <1>21. ASSUME NEW t \in Thread, ShouldClose(t)
        PROVE  ListsMove
    BY <1>21
      DEF ShouldClose, GoTo, GoToThen, Stays, infoVars, commitVars, optVars,
         closeVars, lockVars, threadVars, Lists, ListsMove
  <1>22. ASSUME NEW t \in Thread, SyncThreads(t)
        PROVE  ListsMove
    BY <1>22
      DEF SyncThreads, GoTo, GoToThen, Stays, infoVars, commitVars, optVars,
         closeVars, lockVars, threadVars, Lists, ListsMove
  <1>23. ASSUME NEW t \in Thread, Revert(t)
        PROVE  ListsMove
    BY <1>23
      DEF Revert, GoTo, GoToThen, Stays, infoVars, commitVars, optVars,
         closeVars, lockVars, threadVars, Lists, ListsMove
  <1>24. ASSUME NEW t \in Thread, Recount(t)
        PROVE  ListsMove
    BY <1>24
      DEF Recount, GoTo, GoToThen, Stays, infoVars, commitVars, optVars,
         closeVars, lockVars, threadVars, Lists, ListsMove
  <1>25. ASSUME NEW t \in Thread, CloseInternal(t)
        PROVE  ListsMove
    BY <1>25
      DEF CloseInternal, GoTo, GoToThen, Stays, infoVars, commitVars, optVars,
         closeVars, lockVars, threadVars, Lists, ListsMove
  <1>26. ASSUME NEW t \in Thread, CloseMerges(t)
        PROVE  ListsMove
    BY <1>26
      DEF CloseMerges, GoTo, GoToThen, Stays, infoVars, commitVars, optVars,
         closeVars, lockVars, threadVars, Lists, ListsMove
  <1>27. ASSUME NEW t \in Thread, CloseStop(t)
        PROVE  ListsMove
    BY <1>27
      DEF CloseStop, GoTo, GoToThen, Stays, infoVars, commitVars, optVars,
         closeVars, lockVars, threadVars, Lists, ListsMove
  <1>28. ASSUME NEW t \in Thread, Closed(t)
        PROVE  ListsMove
    BY <1>28
      DEF Closed, GoTo, GoToThen, Stays, infoVars, commitVars, optVars,
         closeVars, lockVars, threadVars, Lists, ListsMove
  <1>29. ASSUME NEW t \in Thread, Schedule(t)
        PROVE  ListsMove
    BY <1>29
      DEF Schedule, GoTo, GoToThen, Stays, infoVars, commitVars, optVars,
         closeVars, lockVars, threadVars, Lists, ListsMove
  <1>30. ASSUME NEW t \in Thread, NEW m \in MergeThread, StartThread(t, m)
        PROVE  ListsMove
    BY <1>30
      DEF StartThread, GoTo, GoToThen, Stays, infoVars, commitVars, optVars,
         closeVars, lockVars, threadVars, Lists, ListsMove
  <1>31. ASSUME NEW p \in Process, MergeInit(p)
        PROVE  ListsMove
    BY <1>31
      DEF MergeInit, Fails, Throws, GoTo, GoToThen, Stays, infoVars,
         commitVars, optVars, closeVars, lockVars, threadVars, Lists,
         ListsMove
  <1>32. ASSUME NEW p \in Process, MergeMiddle(p)
        PROVE  ListsMove
    BY <1>32
      DEF MergeMiddle, GoTo, GoToThen, Stays, infoVars, commitVars, optVars,
         closeVars, lockVars, threadVars, Lists, ListsMove
  <1>33. ASSUME NEW p \in Process, CommitMerge(p)
        PROVE  ListsMove
    BY <1>33 DEF ListsMove
  <1>34. ASSUME NEW p \in Process, MergeDone(p)
        PROVE  ListsMove
    BY <1>34
      DEF MergeDone, GoTo, GoToThen, Stays, infoVars, commitVars, optVars,
         closeVars, lockVars, threadVars, Lists, ListsMove
  <1>35. ASSUME NEW p \in Process, MergeFailed(p)
        PROVE  ListsMove
    BY <1>35
      DEF MergeFailed, Fails, Throws, GoTo, GoToThen, Stays, infoVars,
         commitVars, optVars, closeVars, lockVars, threadVars, Lists,
         ListsMove
  <1>36. ASSUME NEW m \in MergeThread, NextMerge(m)
        PROVE  ListsMove
    BY <1>36
      DEF NextMerge, GoTo, GoToThen, Stays, infoVars, commitVars, optVars,
         closeVars, lockVars, threadVars, Lists, ListsMove
  <1>37. CASE UNCHANGED vars
    BY <1>37
      DEF vars, infoVars, commitVars, optVars, closeVars, lockVars,
         threadVars, Lists, ListsMove
  <1> QED
    BY <1>1, <1>2, <1>3, <1>4, <1>5, <1>6, <1>7, <1>8, <1>9, <1>10, <1>11,
       <1>12, <1>13, <1>14, <1>15, <1>16, <1>17, <1>18, <1>19, <1>20, <1>21,
       <1>22, <1>23, <1>24, <1>25, <1>26, <1>27, <1>28, <1>29, <1>30, <1>31,
       <1>32, <1>33, <1>34, <1>35, <1>36, <1>37
      DEF Next, CallStep, MergeStep, Process

\* The documents of segments are those of each.
LEMMA DocsElements ==
    ASSUME NEW infos \in Seq(Info), NEW D,
           \A i \in DOMAIN infos : ToSet(infos[i].docs) \subseteq D
    PROVE  ToSet(Docs(infos)) \subseteq D
  <1> DEFINE docs == [i \in DOMAIN infos |-> infos[i].docs]
             S == Seq(D)
  <1>1. \A i \in DOMAIN infos : infos[i].docs \in S
    <2> TAKE i \in DOMAIN infos
    <2>1. infos[i] \in Info
      OBVIOUS
    <2>2. infos[i].docs \in Seq(Nat)
      BY <2>1 DEF Info
    <2> DEFINE s == infos[i].docs
    <2> HIDE DEF s
    <2>3. s \in Seq(Nat) /\ ToSet(s) \subseteq D
      BY <2>2 DEF s
    <2>4. s = [k \in 1..Len(s) |-> s[k]] /\ Len(s) \in Nat
          /\ \A k \in 1..Len(s) : s[k] \in D
      BY <2>3 DEF ToSet
    <2>5. s \in Seq(D)
      BY <2>4
    <2> QED
      BY <2>5 DEF s
  <1> HIDE DEF S
  <1>2. docs \in Seq(S)
    BY <1>1
  <1> HIDE DEF docs
  <1>3. FlattenSeq(docs) \in Seq(D)
    BY <1>2, FlattenType DEF S
  <1>4. Docs(infos) \in Seq(D)
    BY <1>3 DEF Docs, docs
  <1> QED
    BY <1>4 DEF ToSet

\* Segments that a step puts behind the others.
Puts(new) ==
    /\ new \in Seq(Info) /\ Distinct(new)
    /\ Names(new) \subseteq counter + 1..counter'
    /\ segmentInfos' = segmentInfos \o new
    /\ expected' = expected \o Docs(new)
    /\ added' \in Nat /\ added <= added'
    /\ ToSet(Docs(new)) \subseteq added + 1..added'

\* The documents of one segment that is put in.
LEMMA NewRange ==
    ASSUME NEW n \in Nat, NEW a \in Nat
    PROVE  ToSet([k \in 1..n |-> a + k]) \subseteq a + 1..a + n
  BY DEF ToSet

\* A flush puts in a segment of the documents that were buffered.
LEMMA FlushPuts ==
    ASSUME IInv, NEW t \in Thread, Flush(t)
    PROVE  \/ UNCHANGED infoVars
           \/ /\ buffered # 0 /\ \E new : Puts(new)
              /\ UNCHANGED txAdded
  <1> DEFINE docs == [i \in 1..buffered |-> added + i]
             x == [name |-> counter + 1, docs |-> docs, ext |-> FALSE]
  <1>0. counter \in Nat /\ buffered \in Nat /\ added \in Nat
        /\ segmentInfos \in Seq(Info)
    BY DEF IInv, Typed, AllNamed, Named
  <1>1. CASE ~UNCHANGED infoVars
    <2>1. /\ segmentInfos' = Append(segmentInfos, x) /\ counter' = counter + 1
          /\ added' = added + buffered /\ expected' = expected \o docs
          /\ buffered # 0 /\ UNCHANGED txAdded
      BY <1>1 DEF Flush
    <2>2. docs \in Seq(Nat) /\ ToSet(docs) \subseteq added + 1..added + buffered
      BY <1>0, NewDocs, NewRange
    <2> HIDE DEF docs
    <2>3. x \in Info /\ x.name = counter + 1 /\ x.docs = docs
      BY <1>0, <2>2 DEF Info
    <2> HIDE DEF x
    <2>4. /\ <<x>> \in Seq(Info) /\ Names(<<x>>) = {counter + 1}
          /\ Distinct(<<x>>) /\ Docs(<<x>>) = docs
      BY <2>3, OneInfo, DistinctOne, DocsOne
    <2>5. segmentInfos' = segmentInfos \o <<x>>
      <3>1. \A s \in Seq(Info), y \in Info : Append(s, y) = s \o <<y>>
        OBVIOUS
      <3> QED
        BY <1>0, <2>1, <2>3, <3>1
    <2>6. counter + 1 \in counter + 1..counter' /\ added' \in Nat
          /\ added <= added'
      BY <1>0, <2>1
    <2>7. Puts(<<x>>)
      BY <2>1, <2>2, <2>4, <2>5, <2>6 DEF Puts
    <2> QED
      BY <2>1, <2>7
  <1> QED
    BY <1>1

\* The segments of another index have names and documents of their own.
LEMMA NewExternalPuts ==
    ASSUME NEW n \in Nat, NEW a \in Nat, NEW new,
           new = [i \in DOMAIN External |->
                    [name |-> n + i, ext |-> TRUE,
                     docs |-> [k \in 1..External[i] |->
                                 a + Sum(SubSeq(External, 1, i - 1)) + k]]]
    PROVE  Distinct(new) /\ ToSet(Docs(new)) \subseteq a + 1..a + Sum(External)
  <1>1. /\ External \in Seq(Nat) /\ Len(External) \in Nat
        /\ DOMAIN External = 1..Len(External)
        /\ new \in Seq(Info) /\ DOMAIN new = DOMAIN External
    <2>1. DOMAIN new = DOMAIN External
      OBVIOUS
    <2>2. new \in Seq(Info)
      BY NewExternal
    <2> QED
      BY <2>1, <2>2, MergesAssumption
  <1>2. Distinct(new)
    <2>1. \A i \in DOMAIN new : new[i].name = n + i
      BY <1>1
    <2>2. \A i, j \in 1..Len(External) : n + i = n + j => i = j
      BY <1>1
    <2> HIDE DEF Distinct
    <2>3. \A i, j \in DOMAIN new : new[i].name = new[j].name => i = j
      BY <1>1, <2>1, <2>2
    <2> QED
      BY <2>3 DEF Distinct
  <1>3. ASSUME NEW i \in DOMAIN new
        PROVE  ToSet(new[i].docs) \subseteq a + 1..a + Sum(External)
    <2> DEFINE b == Sum(SubSeq(External, 1, i - 1))
               e == External[i]
               docs == [k \in 1..e |-> (a + b) + k]
    <2>1. /\ i \in 1..Len(External) /\ e \in Nat
          /\ SubSeq(External, 1, i - 1) \in Seq(Nat)
      BY <1>1
    <2>2. /\ b \in Nat /\ b + e <= Sum(External) /\ Sum(External) \in Nat
      BY <1>1, <2>1, SumType, SumBefore
    <2>3. new[i].docs = docs
      BY <1>1
    <2> HIDE DEF b, e
    <2>4. a + b \in Nat
      BY <2>2
    <2>5. ToSet(docs) \subseteq a + b + 1..a + b + e
      BY <2>1, <2>4, NewRange
    <2>6. a + b + 1..a + b + e \subseteq a + 1..a + Sum(External)
      BY <2>1, <2>2
    <2> QED
      BY <2>3, <2>5, <2>6
  <1> QED
    BY <1>1, <1>2, <1>3, DocsElements

\* addIndexesNoOptimize puts them in.
LEMMA AddExternalPuts ==
    ASSUME IInv, NEW t \in Thread, AddExternal(t)
    PROVE  \/ UNCHANGED infoVars
           \/ \E new : Puts(new) /\ txAdded' = ToSet(Docs(new))
  <1> DEFINE new == [i \in DOMAIN External |->
                        [name |-> counter + i, ext |-> TRUE,
                         docs |-> [k \in 1..External[i] |->
                                     added + Sum(SubSeq(External, 1, i - 1)) + k]]]
  <1>0. counter \in Nat /\ added \in Nat
    BY DEF IInv, Typed
  <1>1. CASE ~UNCHANGED infoVars
    <2>1. /\ segmentInfos' = segmentInfos \o new
          /\ counter' = counter + Len(External)
          /\ added' = added + Sum(External)
          /\ expected' = expected \o Docs(new)
          /\ txAdded' = ToSet(Docs(new))
      BY <1>1 DEF AddExternal
    <2>2. /\ new \in Seq(Info)
          /\ Names(new) \subseteq counter + 1..counter + Len(External)
      BY <1>0, NewExternal
    <2>3. /\ Distinct(new)
          /\ ToSet(Docs(new)) \subseteq added + 1..added + Sum(External)
      BY <1>0, NewExternalPuts
    <2> HIDE DEF new
    <2>4. Sum(External) \in Nat
      BY MergesAssumption, SumType
    <2>5. added' \in Nat /\ added <= added'
      BY <1>0, <2>1, <2>4
    <2>6. Puts(new)
      BY <2>1, <2>2, <2>3, <2>5 DEF Puts
    <2> QED
      BY <2>1, <2>6
  <1> QED
    BY <1>1

\* What a segment is known by.
LEMMA InNames ==
    ASSUME NEW infos, NEW a \in ToSet(infos)
    PROVE  a.name \in Names(infos)
  BY DEF ToSet, Names

\* Segments with new names are put in.
LEMMA NewIdentified ==
    ASSUME IInv, Identified, Comes, NEW new \in Seq(Info), Distinct(new),
           Names(new) \subseteq counter + 1..counter',
           segmentInfos' \in {segmentInfos \o new, new},
           UNCHANGED <<rollbackSegmentInfos, localRollbackSegmentInfos, reg,
                       merge>>,
           \A p \in Process : pc'[p] \in Goes => pc[p] \in Goes
    PROVE  Identified'
  <1> DEFINE N == ToSet(new)
  <1>1. \A a \in N : a.name > counter
    <2>1. \A a \in N : a.name \in counter + 1..counter'
      BY InNames
    <2>2. counter \in Nat
      BY DEF IInv, Typed
    <2> HIDE DEF N
    <2> QED
      BY <2>1, <2>2
  <1>2. /\ \A a \in Records : a \in Info /\ a.name \in 1..counter
        /\ Lists \subseteq Seq(Info) /\ counter \in Nat
    BY RecordsNamed
  <1>3. \A a, b \in N : a.name = b.name => a = b
    BY DEF ToSet, Distinct
  <1>4. \A a \in N, b \in Records : a.name # b.name
    <2> HIDE DEF N
    <2> QED
      BY <1>1, <1>2
  <1>5. ASSUME NEW p \in Process, pc'[p] \in Goes, NEW a \in N
        PROVE  a.name # reg'.merges[merge'[p]].info
    <2>1. pc[p] \in Goes /\ reg'.merges[merge'[p]] = MergeOf(p)
      BY <1>5 DEF MergeOf
    <2>2. merge[p] \in reg.running /\ RegInv(reg, counter)
      BY <2>1 DEF IInv, ProcInv, Goes, Merging
    <2>3. merge[p] \in DOMAIN reg.merges
      BY <1>2, <2>2, RegIds
    <2>4. MergeOf(p).info \in 0..counter
      BY <2>2, <2>3 DEF RegInv, RegNamed, MergeOf
    <2>5. a.name > counter
      BY <1>1
    <2> QED
      BY <1>2, <2>1, <2>4, <2>5
  <1>6. ASSUME NEW infos \in Lists'
        PROVE  ToSet(infos) \subseteq Records \cup N /\ Distinct(infos)
    <2>1. CASE infos \in Lists
      BY <2>1 DEF Records, Identified
    <2>2. CASE infos = new
      BY <2>2
    <2>3. CASE infos = segmentInfos \o new
      <3>1. segmentInfos \in Seq(Info) /\ segmentInfos \in Lists
        BY <1>2 DEF Lists
      <3>2. ToSet(infos) = ToSet(segmentInfos) \cup N
        BY <2>3, <3>1, ConcatElements
      <3>3. Names(segmentInfos) \cap Names(new) = {}
        <4>1. \A i \in DOMAIN segmentInfos : segmentInfos[i] \in Records
          BY <3>1 DEF Records, ToSet
        <4>2. \A i \in DOMAIN new : new[i] \in N
          BY DEF ToSet
        <4> HIDE DEF N
        <4> QED
          BY <1>4, <4>1, <4>2 DEF Names
      <3>4. Distinct(infos)
        BY <2>3, <3>1, <3>3, DistinctConcat DEF Identified
      <3> QED
        BY <3>1, <3>2, <3>4 DEF Records
    <2> QED
      BY <2>1, <2>2, <2>3 DEF Lists
  <1> HIDE DEF N
  <1> QED
    BY <1>3, <1>4, <1>5, <1>6, IdentifiedKeeps

\* No segment is put in.
LEMMA OldIdentified ==
    ASSUME IInv, Identified, Comes,
           \A infos \in Lists' : ToSet(infos) \subseteq Records
                                 /\ Distinct(infos)
    PROVE  Identified'
  <1> DEFINE N == {}
  <1>1. /\ \A a, b \in N : a.name = b.name => a = b
        /\ \A a \in N, b \in Records : a.name # b.name
        /\ \A p \in Process : pc'[p] \in Goes =>
              \A a \in N : a.name # reg'.merges[merge'[p]].info
    OBVIOUS
  <1> HIDE DEF N
  <1>2. \A infos \in Lists' : ToSet(infos) \subseteq Records \cup N
                              /\ Distinct(infos)
    OBVIOUS
  <1> QED
    BY <1>1, <1>2, IdentifiedKeeps

\* commitMerge uses the name of the merge.
LEMMA CommitIdentified ==
    ASSUME IInv, Identified, Comes, NEW p \in Process, CommitMerge(p)
    PROVE  Identified'
  <1>1. CASE UNCHANGED segmentInfos
    <2>1. Lists' = Lists
      BY <1>1 DEF CommitMerge, Lists, commitVars, lockVars
    <2>2. \A infos \in Lists' : ToSet(infos) \subseteq Records
                                 /\ Distinct(infos)
      BY <2>1 DEF Records, Identified
    <2> QED
      BY <2>2, OldIdentified
  <1>2. CASE ~UNCHANGED segmentInfos
    <2> DEFINE m == MergeOf(p)
               N == {Merged(m)}
    <2>1. /\ pc[p] = "commitMerge" /\ ~m.aborted
          /\ Contiguous(m.segs, segmentInfos)
          /\ segmentInfos' = WithMerged(segmentInfos, m)
          /\ UNCHANGED <<rollbackSegmentInfos, localRollbackSegmentInfos, reg,
                         merge>>
      BY <1>2 DEF CommitMerge, commitVars, lockVars, Stays
    <2>2. /\ pc' = [pc EXCEPT ![p] = "merged"]
      BY <1>2 DEF CommitMerge, GoTo
    <2>3. /\ m \in Merge /\ m.info \in 1..counter /\ m.segs \in Seq(Info)
          /\ pc[p] \in Goes
      BY <2>1, MergeIsNamed DEF Goes
    <2>4. /\ merge[p] \in reg.running /\ merge[p] \in DOMAIN reg.merges
          /\ merge[p] # None /\ RegInv(reg, counter) /\ counter \in Nat
          /\ m = reg.merges[merge[p]]
      <3>1. /\ merge[p] \in reg.running /\ merge[p] # None
            /\ RegInv(reg, counter) /\ counter \in Nat
        BY <2>1 DEF IInv, Typed, ProcInv, Merging, None
      <3> QED
        BY <3>1, RegIds DEF MergeOf
    <2>5. \A a \in Records : a.name # m.info
      BY <2>3 DEF Identified
    <2>6. Merged(m).name = m.info /\ Merged(m) \in Info
      <3>1. m.info \in Nat /\ Docs(m.segs) \in Seq(Nat)
        BY <2>3, <2>4, DocsType
      <3> HIDE DEF m
      <3> QED
        BY <3>1 DEF Merged, Info
    <2>7. ASSUME NEW q \in Process, pc'[q] \in Goes
          PROVE  m.info # reg'.merges[merge'[q]].info
      <3>1. q # p
        BY <2>2, <2>7 DEF Goes, IInv, Typed
      <3>2. pc[q] \in Goes
        BY <2>2, <2>7, <3>1 DEF IInv, Typed
      <3>3. merge[q] \in reg.running /\ merge[q] # merge[p]
        BY <2>4, <3>1, <3>2 DEF IInv, ProcInv, Goes, Merging
      <3>4. merge[q] \in DOMAIN reg.merges
        BY <2>4, <3>3, RegIds
      <3>5. m.info # reg.merges[merge[q]].info
        <4>1. m.info # None
          BY <2>3, <2>4 DEF None
        <4> QED
          BY <2>4, <3>3, <3>4, <4>1 DEF RegInv, RegDisjoint
      <3> QED
        BY <2>1, <3>5
    <2>8. \A infos \in Lists \ {segmentInfos} : ToSet(infos) \subseteq Records
                                                 /\ Distinct(infos)
      BY DEF Records, Identified
    <2>9. /\ ToSet(segmentInfos') \subseteq Records \cup N
          /\ Distinct(segmentInfos')
      <3>1. segmentInfos \in Lists /\ segmentInfos \in Seq(Info)
        BY RecordsNamed DEF Lists
      <3>2. \A a \in ToSet(m.segs), b \in ToSet(segmentInfos) :
               a.name = b.name => a = b
        <4>1. ToSet(m.segs) \subseteq Records
          BY <2>4 DEF Records
        <4>2. ToSet(segmentInfos) \subseteq Records
          BY <3>1 DEF Records
        <4> QED
          BY <4>1, <4>2 DEF Identified
      <3>3. Distinct(segmentInfos)
        BY <3>1 DEF Identified
      <3> HIDE DEF m
      <3>4. PICK left, right \in Seq(Info) :
               /\ segmentInfos = (left \o m.segs) \o right
               /\ WithMerged(segmentInfos, m) = (left \o <<Merged(m)>>) \o right
        BY <2>1, <2>3, <3>1, <3>2, <3>3, MergedParts
      <3> DEFINE one == <<Merged(m)>>
      <3>5. /\ one \in Seq(Info) /\ Names(one) = {m.info} /\ Distinct(one)
            /\ ToSet(one) = N
        <4>1. ToSet(one) = N
          BY DEF ToSet
        <4> QED
          BY <2>6, <4>1, OneInfo, DistinctOne
      <3> HIDE DEF one, N
      <3> DEFINE most == left \o one
                 old == left \o m.segs
      <3>6. most \in Seq(Info) /\ old \in Seq(Info)
            /\ ToSet(most) = ToSet(left) \cup N
            /\ ToSet(old) = ToSet(left) \cup ToSet(m.segs)
        <4>1. \A x, y \in Seq(Info) : x \o y \in Seq(Info)
          OBVIOUS
        <4> QED
          BY <2>3, <3>5, <4>1, ConcatElements
      <3>7. /\ Distinct(old) /\ Distinct(right) /\ Distinct(left)
            /\ Names(old) \cap Names(right) = {}
            /\ Names(left) \subseteq Names(old)
        <4>1. Distinct(old \o right)
          BY <3>3, <3>4
        <4>2. /\ Distinct(old) /\ Distinct(right)
              /\ Names(old) \cap Names(right) = {}
          BY <3>6, <4>1, DistinctConcat
        <4>3. Distinct(left) /\ Names(old) = Names(left) \cup Names(m.segs)
          BY <2>3, <4>2, DistinctConcat, ConcatInfos
        <4> QED
          BY <4>2, <4>3
      <3> HIDE DEF most, old
      <3>8. ToSet(segmentInfos) = ToSet(old) \cup ToSet(right)
        <4>1. segmentInfos = old \o right
          BY <3>4 DEF old
        <4> QED
          BY <3>6, <4>1, ConcatElements
      <3>9. segmentInfos' = most \o right
        BY <2>1, <3>4 DEF most, one
      <3>10. ToSet(segmentInfos') = ToSet(most) \cup ToSet(right)
        BY <3>6, <3>9, ConcatElements
      <3>11. ToSet(left) \subseteq Records /\ ToSet(right) \subseteq Records
        <4>1. ToSet(segmentInfos) \subseteq Records
          BY <3>1 DEF Records
        <4> QED
          BY <3>6, <3>8, <4>1
      <3>12. m.info \notin Names(left) /\ m.info \notin Names(right)
        BY <2>5, <3>11 DEF Names, ToSet
      <3>13. Distinct(most) /\ Names(most) = Names(left) \cup {m.info}
        <4>1. Names(left) \cap Names(one) = {}
          BY <3>5, <3>12
        <4> QED
          BY <3>5, <3>7, <4>1, DistinctConcat, ConcatInfos DEF most
      <3>14. Distinct(segmentInfos')
        <4>1. Names(most) \cap Names(right) = {}
          BY <3>7, <3>12, <3>13
        <4> QED
          BY <3>6, <3>7, <3>9, <3>13, <4>1, DistinctConcat
      <3> QED
        BY <3>6, <3>10, <3>11, <3>14
    <2>10. \A infos \in Lists' : ToSet(infos) \subseteq Records \cup N
                                 /\ Distinct(infos)
      BY <2>1, <2>8, <2>9 DEF Lists, Identified, Records
    <2>11. \A a, b \in N : a.name = b.name => a = b
      OBVIOUS
    <2>12. /\ \A a \in N, b \in Records : a.name # b.name
           /\ \A q \in Process : pc'[q] \in Goes =>
                 \A a \in N : a.name # reg'.merges[merge'[q]].info
      BY <2>5, <2>6, <2>7
    <2> HIDE DEF N
    <2> QED
      BY <2>10, <2>11, <2>12, IdentifiedKeeps
  <1> QED
    BY <1>1, <1>2

\* A name stays that of one segment, whatever the step.
LEMMA IdentifiedStep ==
    ASSUME IInv, Identified, [Next]_vars
    PROVE  Identified'
  <1>1. Comes /\ ListsMove
    BY RegStep, ListsStep
  <1>2. CASE /\ segmentInfos' \in Lists \cup {<<>>}
             /\ rollbackSegmentInfos' \in Lists
             /\ localRollbackSegmentInfos' \in Lists \cup {<<>>}
    <2>1. Lists' \subseteq Lists \cup {<<>>}
      BY <1>2 DEF Lists
    <2>2. ToSet(<<>>) = {} /\ Distinct(<<>>)
      BY DistinctOne DEF ToSet
    <2>3. \A infos \in Lists' : ToSet(infos) \subseteq Records
                                 /\ Distinct(infos)
      BY <2>1, <2>2 DEF Records, Identified
    <2> QED
      BY <1>1, <2>3, OldIdentified
  <1>3. ASSUME NEW t \in Thread, Flush(t) \/ AddExternal(t) \/ ReadersPut(t)
        PROVE  Identified'
    <2>1. /\ UNCHANGED <<rollbackSegmentInfos, localRollbackSegmentInfos, reg,
                         merge>>
          /\ \A p \in Process : pc'[p] \in Goes => pc[p] \in Goes
      <3>1. UNCHANGED <<rollbackSegmentInfos, localRollbackSegmentInfos, reg,
                         merge>>
        BY <1>3 DEF Flush, AddExternal, ReadersPut, commitVars, lockVars, Stays
      <3>2. then[t] \notin Goes
        BY DEF IInv, Typed, Continuations, Goes
      <3>3. t \in Process
        BY DEF Process
      <3>4. CASE Flush(t)
        <4>1. \E l : l \notin Goes /\ pc' = [pc EXCEPT ![t] = l]
          BY <3>2, <3>4 DEF Flush, GoTo, Goes
        <4> QED
          BY <3>1, <3>3, <4>1 DEF IInv, Typed
      <3>5. CASE AddExternal(t)
        <4>1. \E l : l \notin Goes /\ pc' = [pc EXCEPT ![t] = l]
          BY <3>2, <3>5 DEF AddExternal, GoTo, GoToThen, Goes
        <4> QED
          BY <3>1, <3>3, <4>1 DEF IInv, Typed
      <3>6. CASE ReadersPut(t)
        <4>1. \E l : l \notin Goes /\ pc' = [pc EXCEPT ![t] = l]
          BY <3>2, <3>6 DEF ReadersPut, GoTo, Goes
        <4> QED
          BY <3>1, <3>3, <4>1 DEF IInv, Typed
      <3> QED
        BY <1>3, <3>1, <3>4, <3>5, <3>6
    <2>2. CASE UNCHANGED infoVars
      <3>1. Lists' = Lists
        BY <2>1, <2>2 DEF infoVars, Lists
      <3>2. \A infos \in Lists' : ToSet(infos) \subseteq Records
                                   /\ Distinct(infos)
        BY <3>1 DEF Records, Identified
      <3> QED
        BY <1>1, <3>2, OldIdentified
    <2>3. CASE \E new : Puts(new)
      BY <1>1, <2>1, <2>3, NewIdentified DEF Puts
    <2>4. CASE ReadersPut(t) /\ ~UNCHANGED infoVars
      <3> DEFINE docs == existing[t] \o [k \in 1..Sum(External) |-> added + k]
                 x == [name |-> counter + 1, ext |-> FALSE, docs |-> docs]
      <3>0. counter \in Nat /\ added \in Nat /\ existing[t] \in Seq(Nat)
        BY DEF IInv, Typed
      <3>1. segmentInfos' = <<x>> /\ counter' = counter + 1
        BY <2>4 DEF ReadersPut
      <3>2. docs \in Seq(Nat)
        <4>1. Sum(External) \in Nat
          BY MergesAssumption, SumType
        <4>2. [k \in 1..Sum(External) |-> added + k] \in Seq(Nat)
          BY <3>0, <4>1, NewDocs
        <4>3. \A u, v \in Seq(Nat) : u \o v \in Seq(Nat)
          OBVIOUS
        <4> QED
          BY <3>0, <4>2, <4>3
      <3> HIDE DEF docs
      <3>3. x \in Info /\ x.name = counter + 1
        BY <3>0, <3>2 DEF Info
      <3> HIDE DEF x
      <3>4. /\ <<x>> \in Seq(Info) /\ Names(<<x>>) = {counter + 1}
            /\ Distinct(<<x>>)
        BY <3>3, OneInfo, DistinctOne
      <3>5. Names(<<x>>) \subseteq counter + 1..counter'
        BY <3>0, <3>1, <3>4
      <3> QED
        BY <1>1, <2>1, <3>1, <3>4, <3>5, NewIdentified
    <2> QED
      BY <1>3, <2>2, <2>3, <2>4, FlushPuts, AddExternalPuts
  <1>4. ASSUME NEW p \in Process, CommitMerge(p)
        PROVE  Identified'
    BY <1>1, <1>4, CommitIdentified
  <1> QED
    BY <1>1, <1>2, <1>3, <1>4 DEF ListsMove

-----------------------------------------------------------------------------
(***************************************************************************)
(* Which calls do what, when no call replaces segments it has not seen.    *)
(***************************************************************************)
\* addIndexes(readers) replaces segments that it has not read, and deleteAll
\* may those that a transaction has put in meanwhile.
NoneReplaced ==
    /\ "addIndexes" \notin Calls
    /\ ~({"deleteAll", "addIndexesNoOptimize"} \subseteq Calls)

\* What a call is, by where it is and where it goes on.
Kind(t) ==
    /\ (\/ pc[t] \in {"startTransaction", "startWait", "acquireWrite"}
        \/ then[t] = "startTransaction")
       => op[t] = "addIndexesNoOptimize"
    /\ then[t] = "commit" => op[t] = "commit"
    /\ pc[t] = "commit" => op[t] \in {"commit"} \cup Closing
    /\ (\/ pc[t] \in {"closeInternal", "closeMerges", "closeStop", "closeSync",
                      "closed", "finishMerges", "recount"}
        \/ then[t] \in {"closeMerges", "finishMerges", "acquireRead"})
       => op[t] \in Closing
    /\ (\/ pc[t] \in {"optMark", "optWait"}
        \/ then[t] \in {"optMark", "optWait"})
       => op[t] = "optimize"
    /\ pc[t] \in {"sync", "revert"} \/ then[t] = "revert" => op[t] = "rollback"
    /\ then[t] = "revert"
          => pc[t] \in {"finishMerges", "finishRead", "finishWait", "sync",
                        "revert", "recount", "closeInternal"}
    /\ pc[t] = "shouldClose" => op[t] \in Closing
    /\ pc[t] = "deleteAll" => op[t] = "deleteAll"
    /\ pc[t] # "readersPut"

\* ... by whether it has the write lock.
Holder(t) ==
    /\ writeThread = t => op[t] = "addIndexesNoOptimize"
    /\ pc[t] \in {"finishRead", "finishWait"}
          => writeThread = t \/ op[t] \in Closing \cup {"deleteAll"}

\* A call that is closing the writer
Closer(t) == op[t] \in Closing /\ pc[t] \notin {"shouldClose", "return"}

\* A rollback that no transaction can be in the way of
Reverting(t) == \/ pc[t] \in {"sync", "revert"}
                \/ pc[t] = "finishWait" /\ then[t] = "revert"

\* Whoever adds indexes has flushed what was buffered.
HasFlushed(t) ==
    op[t] = "addIndexesNoOptimize" /\ pc[t] \notin {"pause", "flush", "throw"}
        => buffered = 0

\* One call at a time closes the writer, and no transaction is there when
\* rollback puts the segments back.
Exclusive ==
    /\ \A t \in Thread :
        /\ Kind(t) /\ Holder(t)
        /\ Closer(t) => closing /\ ~closed
        /\ Reverting(t) => writeThread = None
        /\ HasFlushed(t)
    /\ \A s, t \in Thread : Closer(s) /\ Closer(t) => s = t
    /\ readThreads = {}

\* What a step does to where the threads are.
Moved(t) ==
    \A s \in Thread \ {t} :
        pc'[s] = pc[s] /\ op'[s] = op[s] /\ then'[s] = then[s]

\* Only the thread that moves is another kind of call.
LEMMA KindKeeps ==
    ASSUME Exclusive, NEW t \in Thread, Moved(t), Kind(t)'
    PROVE  \A s \in Thread : Kind(s)'
  <1> TAKE s \in Thread
  <1>1. CASE s = t
    BY <1>1
  <1>2. CASE s # t
    BY <1>2 DEF Moved, Exclusive, Kind
  <1> QED
    BY <1>1, <1>2

\* A step leaves a call what it is.
LEMMA KindStep ==
    ASSUME IInv, Exclusive, NoneReplaced, [Next]_vars
    PROVE  \A s \in Thread : Kind(s)'
  <1>1. ASSUME NEW t \in Thread, Call(t)
        PROVE  \A s \in Thread : Kind(s)'
    <2>0. /\ Kind(t) /\ t \in Process /\ op[t] \in Calls \cup {"none"}
          /\ then[t] \in Continuations /\ "addIndexes" \notin Calls
          /\ pc = [q \in Process |-> pc[q]] /\ op = [q \in Thread |-> op[q]]
          /\ then = [q \in Thread |-> then[q]] /\ Thread \subseteq Process
      BY DEF IInv, Typed, Exclusive, NoneReplaced, Process
    <2>1. Moved(t)
      BY <1>1, <2>0
         DEF Call, GoTo, GoToThen, Stays, threadVars, Moved
    <2>2. Kind(t)'
      BY <1>1, <2>0, MergesAssumption
         DEF Call, GoTo, GoToThen, Stays, threadVars, Kind, Continuations,
            Closing, AddIndexes, Throws
    <2> QED
      BY <2>1, <2>2, KindKeeps
  <1>2. ASSUME NEW t \in Thread, AddDocument(t)
        PROVE  \A s \in Thread : Kind(s)'
    <2>0. /\ Kind(t) /\ t \in Process /\ op[t] \in Calls \cup {"none"}
          /\ then[t] \in Continuations /\ "addIndexes" \notin Calls
          /\ pc = [q \in Process |-> pc[q]] /\ op = [q \in Thread |-> op[q]]
          /\ then = [q \in Thread |-> then[q]] /\ Thread \subseteq Process
      BY DEF IInv, Typed, Exclusive, NoneReplaced, Process
    <2>1. Moved(t)
      BY <1>2, <2>0
         DEF AddDocument, GoTo, GoToThen, Stays, threadVars, Moved
    <2>2. Kind(t)'
      BY <1>2, <2>0
         DEF AddDocument, GoTo, GoToThen, Stays, threadVars, Kind,
            Continuations, Closing, AddIndexes, Throws
    <2> QED
      BY <2>1, <2>2, KindKeeps
  <1>3. ASSUME NEW t \in Thread, Flush(t)
        PROVE  \A s \in Thread : Kind(s)'
    <2>0. /\ Kind(t) /\ t \in Process /\ op[t] \in Calls \cup {"none"}
          /\ then[t] \in Continuations /\ "addIndexes" \notin Calls
          /\ pc = [q \in Process |-> pc[q]] /\ op = [q \in Thread |-> op[q]]
          /\ then = [q \in Thread |-> then[q]] /\ Thread \subseteq Process
      BY DEF IInv, Typed, Exclusive, NoneReplaced, Process
    <2>1. Moved(t)
      BY <1>3, <2>0
         DEF Flush, GoTo, GoToThen, Stays, threadVars, Moved
    <2>2. Kind(t)'
      BY <1>3, <2>0
         DEF Flush, GoTo, GoToThen, Stays, threadVars, Kind, Continuations,
            Closing, AddIndexes, Throws
    <2> QED
      BY <2>1, <2>2, KindKeeps
  <1>4. ASSUME NEW t \in Thread, UpdatePendingMerges(t)
        PROVE  \A s \in Thread : Kind(s)'
    <2>0. /\ Kind(t) /\ t \in Process /\ op[t] \in Calls \cup {"none"}
          /\ then[t] \in Continuations /\ "addIndexes" \notin Calls
          /\ pc = [q \in Process |-> pc[q]] /\ op = [q \in Thread |-> op[q]]
          /\ then = [q \in Thread |-> then[q]] /\ Thread \subseteq Process
      BY DEF IInv, Typed, Exclusive, NoneReplaced, Process
    <2>1. Moved(t)
      BY <1>4, <2>0
         DEF UpdatePendingMerges, GoTo, GoToThen, Stays, threadVars, Moved
    <2>2. Kind(t)'
      BY <1>4, <2>0
         DEF UpdatePendingMerges, GoTo, GoToThen, Stays, threadVars, Kind,
            Continuations, Closing, AddIndexes, Throws
    <2> QED
      BY <2>1, <2>2, KindKeeps
  <1>5. ASSUME NEW t \in Thread, Commit(t)
        PROVE  \A s \in Thread : Kind(s)'
    <2>0. /\ Kind(t) /\ t \in Process /\ op[t] \in Calls \cup {"none"}
          /\ then[t] \in Continuations /\ "addIndexes" \notin Calls
          /\ pc = [q \in Process |-> pc[q]] /\ op = [q \in Thread |-> op[q]]
          /\ then = [q \in Thread |-> then[q]] /\ Thread \subseteq Process
      BY DEF IInv, Typed, Exclusive, NoneReplaced, Process
    <2>1. Moved(t)
      BY <1>5, <2>0
         DEF Commit, GoTo, GoToThen, Stays, threadVars, Moved
    <2>2. Kind(t)'
      BY <1>5, <2>0
         DEF Commit, GoTo, GoToThen, Stays, threadVars, Kind, Continuations,
            Closing, AddIndexes, Throws
    <2> QED
      BY <2>1, <2>2, KindKeeps
  <1>6. ASSUME NEW t \in Thread, Leave(t)
        PROVE  \A s \in Thread : Kind(s)'
    <2>0. /\ Kind(t) /\ t \in Process /\ op[t] \in Calls \cup {"none"}
          /\ then[t] \in Continuations /\ "addIndexes" \notin Calls
          /\ pc = [q \in Process |-> pc[q]] /\ op = [q \in Thread |-> op[q]]
          /\ then = [q \in Thread |-> then[q]] /\ Thread \subseteq Process
      BY DEF IInv, Typed, Exclusive, NoneReplaced, Process
    <2>1. Moved(t)
      BY <1>6, <2>0
         DEF Leave, GoTo, GoToThen, Stays, threadVars, Moved
    <2>2. Kind(t)'
      BY <1>6, <2>0
         DEF Leave, GoTo, GoToThen, Stays, threadVars, Kind, Continuations,
            Closing, AddIndexes, Throws
    <2> QED
      BY <2>1, <2>2, KindKeeps
  <1>7. ASSUME NEW t \in Thread, OptimizeMark(t)
        PROVE  \A s \in Thread : Kind(s)'
    <2>0. /\ Kind(t) /\ t \in Process /\ op[t] \in Calls \cup {"none"}
          /\ then[t] \in Continuations /\ "addIndexes" \notin Calls
          /\ pc = [q \in Process |-> pc[q]] /\ op = [q \in Thread |-> op[q]]
          /\ then = [q \in Thread |-> then[q]] /\ Thread \subseteq Process
      BY DEF IInv, Typed, Exclusive, NoneReplaced, Process
    <2>1. Moved(t)
      BY <1>7, <2>0
         DEF OptimizeMark, GoTo, GoToThen, Stays, threadVars, Moved
    <2>2. Kind(t)'
      BY <1>7, <2>0
         DEF OptimizeMark, GoTo, GoToThen, Stays, threadVars, Kind,
            Continuations, Closing, AddIndexes, Throws
    <2> QED
      BY <2>1, <2>2, KindKeeps
  <1>8. ASSUME NEW t \in Thread, OptimizeWait(t)
        PROVE  \A s \in Thread : Kind(s)'
    <2>0. /\ Kind(t) /\ t \in Process /\ op[t] \in Calls \cup {"none"}
          /\ then[t] \in Continuations /\ "addIndexes" \notin Calls
          /\ pc = [q \in Process |-> pc[q]] /\ op = [q \in Thread |-> op[q]]
          /\ then = [q \in Thread |-> then[q]] /\ Thread \subseteq Process
      BY DEF IInv, Typed, Exclusive, NoneReplaced, Process
    <2>1. Moved(t)
      BY <1>8, <2>0
         DEF OptimizeWait, GoTo, GoToThen, Stays, threadVars, Moved
    <2>2. Kind(t)'
      BY <1>8, <2>0
         DEF OptimizeWait, GoTo, GoToThen, Stays, threadVars, Kind,
            Continuations, Closing, AddIndexes, Throws
    <2> QED
      BY <2>1, <2>2, KindKeeps
  <1>9. ASSUME NEW t \in Thread, PauseAllThreads(t)
        PROVE  \A s \in Thread : Kind(s)'
    <2>0. /\ Kind(t) /\ t \in Process /\ op[t] \in Calls \cup {"none"}
          /\ then[t] \in Continuations /\ "addIndexes" \notin Calls
          /\ pc = [q \in Process |-> pc[q]] /\ op = [q \in Thread |-> op[q]]
          /\ then = [q \in Thread |-> then[q]] /\ Thread \subseteq Process
      BY DEF IInv, Typed, Exclusive, NoneReplaced, Process
    <2>1. Moved(t)
      BY <1>9, <2>0
         DEF PauseAllThreads, GoTo, GoToThen, Stays, threadVars, Moved
    <2>2. Kind(t)'
      BY <1>9, <2>0
         DEF PauseAllThreads, GoTo, GoToThen, Stays, threadVars, Kind,
            Continuations, Closing, AddIndexes, Throws
    <2> QED
      BY <2>1, <2>2, KindKeeps
  <1>10. ASSUME NEW t \in Thread, AcquireRead(t)
        PROVE  \A s \in Thread : Kind(s)'
    <2>0. /\ Kind(t) /\ t \in Process /\ op[t] \in Calls \cup {"none"}
          /\ then[t] \in Continuations /\ "addIndexes" \notin Calls
          /\ pc = [q \in Process |-> pc[q]] /\ op = [q \in Thread |-> op[q]]
          /\ then = [q \in Thread |-> then[q]] /\ Thread \subseteq Process
      BY DEF IInv, Typed, Exclusive, NoneReplaced, Process
    <2>1. Moved(t)
      BY <1>10, <2>0
         DEF AcquireRead, GoTo, GoToThen, Stays, threadVars, Moved
    <2>2. Kind(t)'
      BY <1>10, <2>0
         DEF AcquireRead, GoTo, GoToThen, Stays, threadVars, Kind,
            Continuations, Closing, AddIndexes, Throws
    <2> QED
      BY <2>1, <2>2, KindKeeps
  <1>11. ASSUME NEW t \in Thread, StartTransaction(t)
        PROVE  \A s \in Thread : Kind(s)'
    <2>0. /\ Kind(t) /\ t \in Process /\ op[t] \in Calls \cup {"none"}
          /\ then[t] \in Continuations /\ "addIndexes" \notin Calls
          /\ pc = [q \in Process |-> pc[q]] /\ op = [q \in Thread |-> op[q]]
          /\ then = [q \in Thread |-> then[q]] /\ Thread \subseteq Process
      BY DEF IInv, Typed, Exclusive, NoneReplaced, Process
    <2>1. Moved(t)
      BY <1>11, <2>0
         DEF StartTransaction, TakesWriteLock, UpgradeReadToWrite,
            AcquireWrite, TakesLock, GoTo, GoToThen, Stays, threadVars, Moved
    <2>2. Kind(t)'
      BY <1>11, <2>0
         DEF StartTransaction, TakesWriteLock, UpgradeReadToWrite,
            AcquireWrite, TakesLock, GoTo, GoToThen, Stays, threadVars, Kind,
            Continuations, Closing, AddIndexes, Throws
    <2> QED
      BY <2>1, <2>2, KindKeeps
  <1>12. ASSUME NEW t \in Thread, AddExternal(t)
        PROVE  \A s \in Thread : Kind(s)'
    <2>0. /\ Kind(t) /\ t \in Process /\ op[t] \in Calls \cup {"none"}
          /\ then[t] \in Continuations /\ "addIndexes" \notin Calls
          /\ pc = [q \in Process |-> pc[q]] /\ op = [q \in Thread |-> op[q]]
          /\ then = [q \in Thread |-> then[q]] /\ Thread \subseteq Process
      BY DEF IInv, Typed, Exclusive, NoneReplaced, Process
    <2>1. Moved(t)
      BY <1>12, <2>0
         DEF AddExternal, GoTo, GoToThen, Stays, threadVars, Moved
    <2>2. Kind(t)'
      BY <1>12, <2>0
         DEF AddExternal, GoTo, GoToThen, Stays, threadVars, Kind,
            Continuations, Closing, AddIndexes, Throws
    <2> QED
      BY <2>1, <2>2, KindKeeps
  <1>13. ASSUME NEW t \in Thread, TransactionOpen(t)
        PROVE  \A s \in Thread : Kind(s)'
    <2>0. /\ Kind(t) /\ t \in Process /\ op[t] \in Calls \cup {"none"}
          /\ then[t] \in Continuations /\ "addIndexes" \notin Calls
          /\ pc = [q \in Process |-> pc[q]] /\ op = [q \in Thread |-> op[q]]
          /\ then = [q \in Thread |-> then[q]] /\ Thread \subseteq Process
      BY DEF IInv, Typed, Exclusive, NoneReplaced, Process
    <2>1. Moved(t)
      BY <1>13, <2>0
         DEF TransactionOpen, GoTo, GoToThen, Stays, threadVars, Moved
    <2>2. Kind(t)'
      BY <1>13, <2>0
         DEF TransactionOpen, GoTo, GoToThen, Stays, threadVars, Kind,
            Continuations, Closing, AddIndexes, Throws
    <2> QED
      BY <2>1, <2>2, KindKeeps
  <1>14. ASSUME NEW t \in Thread, ResolveExternal(t)
        PROVE  \A s \in Thread : Kind(s)'
    <2>0. /\ Kind(t) /\ t \in Process /\ op[t] \in Calls \cup {"none"}
          /\ then[t] \in Continuations /\ "addIndexes" \notin Calls
          /\ pc = [q \in Process |-> pc[q]] /\ op = [q \in Thread |-> op[q]]
          /\ then = [q \in Thread |-> then[q]] /\ Thread \subseteq Process
      BY DEF IInv, Typed, Exclusive, NoneReplaced, Process
    <2>1. Moved(t)
      BY <1>14, <2>0
         DEF ResolveExternal, GoTo, GoToThen, Stays, threadVars, Moved
    <2>2. Kind(t)'
      BY <1>14, <2>0
         DEF ResolveExternal, GoTo, GoToThen, Stays, threadVars, Kind,
            Continuations, Closing, AddIndexes, Throws
    <2> QED
      BY <2>1, <2>2, KindKeeps
  <1>15. ASSUME NEW t \in Thread, ReadersGet(t)
        PROVE  \A s \in Thread : Kind(s)'
    <2>0. /\ Kind(t) /\ t \in Process /\ op[t] \in Calls \cup {"none"}
          /\ then[t] \in Continuations /\ "addIndexes" \notin Calls
          /\ pc = [q \in Process |-> pc[q]] /\ op = [q \in Thread |-> op[q]]
          /\ then = [q \in Thread |-> then[q]] /\ Thread \subseteq Process
      BY DEF IInv, Typed, Exclusive, NoneReplaced, Process
    <2>1. Moved(t)
      BY <1>15, <2>0
         DEF ReadersGet, GoTo, GoToThen, Stays, threadVars, Moved
    <2>2. Kind(t)'
      BY <1>15, <2>0
         DEF ReadersGet, GoTo, GoToThen, Stays, threadVars, Kind,
            Continuations, Closing, AddIndexes, Throws
    <2> QED
      BY <2>1, <2>2, KindKeeps
  <1>16. ASSUME NEW t \in Thread, ReadersPut(t)
        PROVE  \A s \in Thread : Kind(s)'
    <2>0. /\ Kind(t) /\ t \in Process /\ op[t] \in Calls \cup {"none"}
          /\ then[t] \in Continuations /\ "addIndexes" \notin Calls
          /\ pc = [q \in Process |-> pc[q]] /\ op = [q \in Thread |-> op[q]]
          /\ then = [q \in Thread |-> then[q]] /\ Thread \subseteq Process
      BY DEF IInv, Typed, Exclusive, NoneReplaced, Process
    <2>1. Moved(t)
      BY <1>16, <2>0
         DEF ReadersPut, GoTo, GoToThen, Stays, threadVars, Moved
    <2>2. Kind(t)'
      BY <1>16, <2>0
         DEF ReadersPut, GoTo, GoToThen, Stays, threadVars, Kind,
            Continuations, Closing, AddIndexes, Throws
    <2> QED
      BY <2>1, <2>2, KindKeeps
  <1>17. ASSUME NEW t \in Thread, CommitTransaction(t)
        PROVE  \A s \in Thread : Kind(s)'
    <2>0. /\ Kind(t) /\ t \in Process /\ op[t] \in Calls \cup {"none"}
          /\ then[t] \in Continuations /\ "addIndexes" \notin Calls
          /\ pc = [q \in Process |-> pc[q]] /\ op = [q \in Thread |-> op[q]]
          /\ then = [q \in Thread |-> then[q]] /\ Thread \subseteq Process
      BY DEF IInv, Typed, Exclusive, NoneReplaced, Process
    <2>1. Moved(t)
      BY <1>17, <2>0
         DEF CommitTransaction, GoTo, GoToThen, Stays, threadVars, Moved
    <2>2. Kind(t)'
      BY <1>17, <2>0
         DEF CommitTransaction, GoTo, GoToThen, Stays, threadVars, Kind,
            Continuations, Closing, AddIndexes, Throws
    <2> QED
      BY <2>1, <2>2, KindKeeps
  <1>18. ASSUME NEW t \in Thread, FinishMerges(t)
        PROVE  \A s \in Thread : Kind(s)'
    <2>0. /\ Kind(t) /\ t \in Process /\ op[t] \in Calls \cup {"none"}
          /\ then[t] \in Continuations /\ "addIndexes" \notin Calls
          /\ pc = [q \in Process |-> pc[q]] /\ op = [q \in Thread |-> op[q]]
          /\ then = [q \in Thread |-> then[q]] /\ Thread \subseteq Process
      BY DEF IInv, Typed, Exclusive, NoneReplaced, Process
    <2>1. Moved(t)
      BY <1>18, <2>0
         DEF FinishMerges, MergesFinished, RolledBack, AllDeleted, GoTo,
            GoToThen, Stays, threadVars, Moved
    <2>a. Holder(t)
      BY DEF Exclusive
    <2>b. pc[t] = "rollbackTransaction" => writeThread = t
      <3>1. InTransaction(t) => writeThread = t
        BY DEF IInv, Transactions, InLock
      <3>2. pc[t] = "rollbackTransaction" => InTransaction(t)
        BY DEF InTransaction, OnlyTransaction
      <3> QED
        BY <3>1, <3>2
    <2>2. Holder(t) /\ (pc[t] = "rollbackTransaction" => writeThread = t)
      BY <2>a, <2>b
    <2>3. UNCHANGED <<op, then>> /\ pc[t] \in {"finishMerges", "rollbackTransaction",
                                             "deleteAll"}
      BY <1>18 DEF FinishMerges, Stays
    <2>4. \/ writeThread = t /\ pc'[t] = "throw"
          \/ op[t] = "deleteAll" /\ pc'[t] = "return"
          \/ /\ op[t] # "deleteAll" /\ writeThread # t
             /\ pc'[t] = IF then[t] = "revert" THEN "sync" ELSE "closeStop"
          \/ pc'[t] \in {"finishWait", "finishRead"}
      BY <1>18, <2>0
         DEF FinishMerges, MergesFinished, RolledBack, AllDeleted, GoTo,
            Stays, threadVars
    <2>5. op[t] \in AddIndexes \cup Closing \cup {"deleteAll"}
      BY <2>0, <2>2, <2>3 DEF Holder, Kind, AddIndexes
    <2>6. writeThread = t => then[t] # "revert"
      BY <2>0, <2>2 DEF Kind, Holder
    <2>7. Kind(t)'
      <3>1. CASE writeThread = t
        BY <2>0, <2>2, <2>3, <2>4, <2>6, <3>1 DEF Kind, Holder, Closing
      <3>2. CASE writeThread # t
        <4>1. op[t] \in Closing \cup {"deleteAll"}
          BY <2>0, <2>2, <2>3, <3>2 DEF Kind, Holder
        <4> QED
          BY <2>0, <2>3, <2>4, <3>2, <4>1 DEF Kind, Closing
      <3> QED
        BY <3>1, <3>2
    <2> QED
      BY <2>1, <2>7, KindKeeps
  <1>19. ASSUME NEW t \in Thread, FinishMergesWait(t)
        PROVE  \A s \in Thread : Kind(s)'
    <2>0. /\ Kind(t) /\ t \in Process /\ op[t] \in Calls \cup {"none"}
          /\ then[t] \in Continuations /\ "addIndexes" \notin Calls
          /\ pc = [q \in Process |-> pc[q]] /\ op = [q \in Thread |-> op[q]]
          /\ then = [q \in Thread |-> then[q]] /\ Thread \subseteq Process
      BY DEF IInv, Typed, Exclusive, NoneReplaced, Process
    <2>1. Moved(t)
      BY <1>19, <2>0
         DEF FinishMergesWait, MergesFinished, RolledBack, AllDeleted, GoTo,
            GoToThen, Stays, threadVars, Moved
    <2>a. Holder(t)
      BY DEF Exclusive
    <2>b. pc[t] = "rollbackTransaction" => writeThread = t
      <3>1. InTransaction(t) => writeThread = t
        BY DEF IInv, Transactions, InLock
      <3>2. pc[t] = "rollbackTransaction" => InTransaction(t)
        BY DEF InTransaction, OnlyTransaction
      <3> QED
        BY <3>1, <3>2
    <2>2. Holder(t) /\ (pc[t] = "rollbackTransaction" => writeThread = t)
      BY <2>a, <2>b
    <2>3. UNCHANGED <<op, then>> /\ pc[t] \in {"finishRead", "finishWait"}
      BY <1>19 DEF FinishMergesWait, Stays
    <2>4. \/ writeThread = t /\ pc'[t] = "throw"
          \/ op[t] = "deleteAll" /\ pc'[t] = "return"
          \/ /\ op[t] # "deleteAll" /\ writeThread # t
             /\ pc'[t] = IF then[t] = "revert" THEN "sync" ELSE "closeStop"
          \/ pc'[t] \in {"finishWait", "finishRead"}
      BY <1>19, <2>0
         DEF FinishMergesWait, MergesFinished, RolledBack, AllDeleted, GoTo,
            Stays, threadVars
    <2>5. op[t] \in AddIndexes \cup Closing \cup {"deleteAll"}
      BY <2>0, <2>2, <2>3 DEF Holder, Kind, AddIndexes
    <2>6. writeThread = t => then[t] # "revert"
      BY <2>0, <2>2 DEF Kind, Holder
    <2>7. Kind(t)'
      <3>1. CASE writeThread = t
        BY <2>0, <2>2, <2>3, <2>4, <2>6, <3>1 DEF Kind, Holder, Closing
      <3>2. CASE writeThread # t
        <4>1. op[t] \in Closing \cup {"deleteAll"}
          BY <2>0, <2>2, <2>3, <3>2 DEF Kind, Holder
        <4> QED
          BY <2>0, <2>3, <2>4, <3>2, <4>1 DEF Kind, Closing
      <3> QED
        BY <3>1, <3>2
    <2> QED
      BY <2>1, <2>7, KindKeeps
  <1>20. ASSUME NEW t \in Thread, WaitForMerges(t)
        PROVE  \A s \in Thread : Kind(s)'
    <2>0. /\ Kind(t) /\ t \in Process /\ op[t] \in Calls \cup {"none"}
          /\ then[t] \in Continuations /\ "addIndexes" \notin Calls
          /\ pc = [q \in Process |-> pc[q]] /\ op = [q \in Thread |-> op[q]]
          /\ then = [q \in Thread |-> then[q]] /\ Thread \subseteq Process
      BY DEF IInv, Typed, Exclusive, NoneReplaced, Process
    <2>1. Moved(t)
      BY <1>20, <2>0
         DEF WaitForMerges, GoTo, GoToThen, Stays, threadVars, Moved
    <2>2. Kind(t)'
      BY <1>20, <2>0
         DEF WaitForMerges, GoTo, GoToThen, Stays, threadVars, Kind,
            Continuations, Closing, AddIndexes, Throws
    <2> QED
      BY <2>1, <2>2, KindKeeps
  <1>21. ASSUME NEW t \in Thread, ShouldClose(t)
        PROVE  \A s \in Thread : Kind(s)'
    <2>0. /\ Kind(t) /\ t \in Process /\ op[t] \in Calls \cup {"none"}
          /\ then[t] \in Continuations /\ "addIndexes" \notin Calls
          /\ pc = [q \in Process |-> pc[q]] /\ op = [q \in Thread |-> op[q]]
          /\ then = [q \in Thread |-> then[q]] /\ Thread \subseteq Process
      BY DEF IInv, Typed, Exclusive, NoneReplaced, Process
    <2>1. Moved(t)
      BY <1>21, <2>0
         DEF ShouldClose, GoTo, GoToThen, Stays, threadVars, Moved
    <2>2. Kind(t)'
      BY <1>21, <2>0
         DEF ShouldClose, GoTo, GoToThen, Stays, threadVars, Kind,
            Continuations, Closing, AddIndexes, Throws
    <2> QED
      BY <2>1, <2>2, KindKeeps
  <1>22. ASSUME NEW t \in Thread, SyncThreads(t)
        PROVE  \A s \in Thread : Kind(s)'
    <2>0. /\ Kind(t) /\ t \in Process /\ op[t] \in Calls \cup {"none"}
          /\ then[t] \in Continuations /\ "addIndexes" \notin Calls
          /\ pc = [q \in Process |-> pc[q]] /\ op = [q \in Thread |-> op[q]]
          /\ then = [q \in Thread |-> then[q]] /\ Thread \subseteq Process
      BY DEF IInv, Typed, Exclusive, NoneReplaced, Process
    <2>1. Moved(t)
      BY <1>22, <2>0
         DEF SyncThreads, GoTo, GoToThen, Stays, threadVars, Moved
    <2>2. Kind(t)'
      BY <1>22, <2>0
         DEF SyncThreads, GoTo, GoToThen, Stays, threadVars, Kind,
            Continuations, Closing, AddIndexes, Throws
    <2> QED
      BY <2>1, <2>2, KindKeeps
  <1>23. ASSUME NEW t \in Thread, Revert(t)
        PROVE  \A s \in Thread : Kind(s)'
    <2>0. /\ Kind(t) /\ t \in Process /\ op[t] \in Calls \cup {"none"}
          /\ then[t] \in Continuations /\ "addIndexes" \notin Calls
          /\ pc = [q \in Process |-> pc[q]] /\ op = [q \in Thread |-> op[q]]
          /\ then = [q \in Thread |-> then[q]] /\ Thread \subseteq Process
      BY DEF IInv, Typed, Exclusive, NoneReplaced, Process
    <2>1. Moved(t)
      BY <1>23, <2>0
         DEF Revert, GoTo, GoToThen, Stays, threadVars, Moved
    <2>2. Kind(t)'
      BY <1>23, <2>0
         DEF Revert, GoTo, GoToThen, Stays, threadVars, Kind, Continuations,
            Closing, AddIndexes, Throws
    <2> QED
      BY <2>1, <2>2, KindKeeps
  <1>24. ASSUME NEW t \in Thread, Recount(t)
        PROVE  \A s \in Thread : Kind(s)'
    <2>0. /\ Kind(t) /\ t \in Process /\ op[t] \in Calls \cup {"none"}
          /\ then[t] \in Continuations /\ "addIndexes" \notin Calls
          /\ pc = [q \in Process |-> pc[q]] /\ op = [q \in Thread |-> op[q]]
          /\ then = [q \in Thread |-> then[q]] /\ Thread \subseteq Process
      BY DEF IInv, Typed, Exclusive, NoneReplaced, Process
    <2>1. Moved(t)
      BY <1>24, <2>0
         DEF Recount, GoTo, GoToThen, Stays, threadVars, Moved
    <2>2. Kind(t)'
      BY <1>24, <2>0
         DEF Recount, GoTo, GoToThen, Stays, threadVars, Kind, Continuations,
            Closing, AddIndexes, Throws
    <2> QED
      BY <2>1, <2>2, KindKeeps
  <1>25. ASSUME NEW t \in Thread, CloseInternal(t)
        PROVE  \A s \in Thread : Kind(s)'
    <2>0. /\ Kind(t) /\ t \in Process /\ op[t] \in Calls \cup {"none"}
          /\ then[t] \in Continuations /\ "addIndexes" \notin Calls
          /\ pc = [q \in Process |-> pc[q]] /\ op = [q \in Thread |-> op[q]]
          /\ then = [q \in Thread |-> then[q]] /\ Thread \subseteq Process
      BY DEF IInv, Typed, Exclusive, NoneReplaced, Process
    <2>1. Moved(t)
      BY <1>25, <2>0
         DEF CloseInternal, GoTo, GoToThen, Stays, threadVars, Moved
    <2>2. Kind(t)'
      BY <1>25, <2>0
         DEF CloseInternal, GoTo, GoToThen, Stays, threadVars, Kind,
            Continuations, Closing, AddIndexes, Throws
    <2> QED
      BY <2>1, <2>2, KindKeeps
  <1>26. ASSUME NEW t \in Thread, CloseMerges(t)
        PROVE  \A s \in Thread : Kind(s)'
    <2>0. /\ Kind(t) /\ t \in Process /\ op[t] \in Calls \cup {"none"}
          /\ then[t] \in Continuations /\ "addIndexes" \notin Calls
          /\ pc = [q \in Process |-> pc[q]] /\ op = [q \in Thread |-> op[q]]
          /\ then = [q \in Thread |-> then[q]] /\ Thread \subseteq Process
      BY DEF IInv, Typed, Exclusive, NoneReplaced, Process
    <2>1. Moved(t)
      BY <1>26, <2>0
         DEF CloseMerges, GoTo, GoToThen, Stays, threadVars, Moved
    <2>2. Kind(t)'
      BY <1>26, <2>0
         DEF CloseMerges, GoTo, GoToThen, Stays, threadVars, Kind,
            Continuations, Closing, AddIndexes, Throws
    <2> QED
      BY <2>1, <2>2, KindKeeps
  <1>27. ASSUME NEW t \in Thread, CloseStop(t)
        PROVE  \A s \in Thread : Kind(s)'
    <2>0. /\ Kind(t) /\ t \in Process /\ op[t] \in Calls \cup {"none"}
          /\ then[t] \in Continuations /\ "addIndexes" \notin Calls
          /\ pc = [q \in Process |-> pc[q]] /\ op = [q \in Thread |-> op[q]]
          /\ then = [q \in Thread |-> then[q]] /\ Thread \subseteq Process
      BY DEF IInv, Typed, Exclusive, NoneReplaced, Process
    <2>1. Moved(t)
      BY <1>27, <2>0
         DEF CloseStop, GoTo, GoToThen, Stays, threadVars, Moved
    <2>2. Kind(t)'
      BY <1>27, <2>0
         DEF CloseStop, GoTo, GoToThen, Stays, threadVars, Kind,
            Continuations, Closing, AddIndexes, Throws
    <2> QED
      BY <2>1, <2>2, KindKeeps
  <1>28. ASSUME NEW t \in Thread, Closed(t)
        PROVE  \A s \in Thread : Kind(s)'
    <2>0. /\ Kind(t) /\ t \in Process /\ op[t] \in Calls \cup {"none"}
          /\ then[t] \in Continuations /\ "addIndexes" \notin Calls
          /\ pc = [q \in Process |-> pc[q]] /\ op = [q \in Thread |-> op[q]]
          /\ then = [q \in Thread |-> then[q]] /\ Thread \subseteq Process
      BY DEF IInv, Typed, Exclusive, NoneReplaced, Process
    <2>1. Moved(t)
      BY <1>28, <2>0
         DEF Closed, GoTo, GoToThen, Stays, threadVars, Moved
    <2>2. Kind(t)'
      BY <1>28, <2>0
         DEF Closed, GoTo, GoToThen, Stays, threadVars, Kind, Continuations,
            Closing, AddIndexes, Throws
    <2> QED
      BY <2>1, <2>2, KindKeeps
  <1>29. ASSUME NEW t \in Thread, Schedule(t)
        PROVE  \A s \in Thread : Kind(s)'
    <2>0. /\ Kind(t) /\ t \in Process /\ op[t] \in Calls \cup {"none"}
          /\ then[t] \in Continuations /\ "addIndexes" \notin Calls
          /\ pc = [q \in Process |-> pc[q]] /\ op = [q \in Thread |-> op[q]]
          /\ then = [q \in Thread |-> then[q]] /\ Thread \subseteq Process
      BY DEF IInv, Typed, Exclusive, NoneReplaced, Process
    <2>1. Moved(t)
      BY <1>29, <2>0
         DEF Schedule, GoTo, GoToThen, Stays, threadVars, Moved
    <2>2. Kind(t)'
      BY <1>29, <2>0
         DEF Schedule, GoTo, GoToThen, Stays, threadVars, Kind, Continuations,
            Closing, AddIndexes, Throws
    <2> QED
      BY <2>1, <2>2, KindKeeps
  <1>30. ASSUME NEW t \in Thread, NEW m \in MergeThread, StartThread(t, m)
        PROVE  \A s \in Thread : Kind(s)'
    <2>0. /\ Kind(t) /\ t \in Process /\ op[t] \in Calls \cup {"none"}
          /\ then[t] \in Continuations /\ "addIndexes" \notin Calls
          /\ pc = [q \in Process |-> pc[q]] /\ op = [q \in Thread |-> op[q]]
          /\ then = [q \in Thread |-> then[q]] /\ Thread \subseteq Process
      BY DEF IInv, Typed, Exclusive, NoneReplaced, Process
    <2>1. Moved(t)
      BY <1>30, <2>0, MergesAssumption
         DEF StartThread, GoTo, GoToThen, Stays, threadVars, Moved
    <2>2. Kind(t)'
      BY <1>30, <2>0, MergesAssumption
         DEF StartThread, GoTo, GoToThen, Stays, threadVars, Kind,
            Continuations, Closing, AddIndexes, Throws
    <2> QED
      BY <2>1, <2>2, KindKeeps
  <1>31. ASSUME NEW p \in Process, MergeInit(p)
        PROVE  \A s \in Thread : Kind(s)'
    <2>0. /\ pc = [q \in Process |-> pc[q]] /\ op' = op /\ then' = then
          /\ Thread \subseteq Process
      BY <1>31
         DEF MergeInit, Fails, Throws, GoTo, GoToThen, Stays, threadVars,
            IInv, Typed, Process
    <2>1. Moved(p)
      BY <1>31, <2>0
         DEF MergeInit, Fails, Throws, GoTo, GoToThen, Stays, threadVars,
            Moved
    <2>2. CASE p \notin Thread
      BY <2>1, <2>2 DEF Moved, Exclusive, Kind
    <2>3. CASE p \in Thread
      <3>1. Kind(p) /\ op[p] \in Calls \cup {"none"}
        BY <2>3 DEF IInv, Typed, Exclusive
      <3>2. Kind(p)'
        BY <1>31, <2>0, <2>3, <3>1
           DEF MergeInit, Fails, Throws, GoTo, GoToThen, Stays, threadVars,
              Kind, Closing, AddIndexes
      <3> QED
        BY <2>1, <2>3, <3>2, KindKeeps
    <2> QED
      BY <2>2, <2>3
  <1>32. ASSUME NEW p \in Process, MergeMiddle(p)
        PROVE  \A s \in Thread : Kind(s)'
    <2>0. /\ pc = [q \in Process |-> pc[q]] /\ op' = op /\ then' = then
          /\ Thread \subseteq Process
      BY <1>32
         DEF MergeMiddle, GoTo, GoToThen, Stays, threadVars, IInv, Typed,
            Process
    <2>1. Moved(p)
      BY <1>32, <2>0
         DEF MergeMiddle, GoTo, GoToThen, Stays, threadVars, Moved
    <2>2. CASE p \notin Thread
      BY <2>1, <2>2 DEF Moved, Exclusive, Kind
    <2>3. CASE p \in Thread
      <3>1. Kind(p) /\ op[p] \in Calls \cup {"none"}
        BY <2>3 DEF IInv, Typed, Exclusive
      <3>2. Kind(p)'
        BY <1>32, <2>0, <2>3, <3>1
           DEF MergeMiddle, GoTo, GoToThen, Stays, threadVars, Kind, Closing,
              AddIndexes
      <3> QED
        BY <2>1, <2>3, <3>2, KindKeeps
    <2> QED
      BY <2>2, <2>3
  <1>33. ASSUME NEW p \in Process, CommitMerge(p)
        PROVE  \A s \in Thread : Kind(s)'
    <2>0. /\ pc = [q \in Process |-> pc[q]] /\ op' = op /\ then' = then
          /\ Thread \subseteq Process
      BY <1>33
         DEF CommitMerge, GoTo, GoToThen, Stays, threadVars, IInv, Typed,
            Process
    <2>1. Moved(p)
      BY <1>33, <2>0
         DEF CommitMerge, GoTo, GoToThen, Stays, threadVars, Moved
    <2>2. CASE p \notin Thread
      BY <2>1, <2>2 DEF Moved, Exclusive, Kind
    <2>3. CASE p \in Thread
      <3>1. Kind(p) /\ op[p] \in Calls \cup {"none"}
        BY <2>3 DEF IInv, Typed, Exclusive
      <3>2. Kind(p)'
        BY <1>33, <2>0, <2>3, <3>1
           DEF CommitMerge, GoTo, GoToThen, Stays, threadVars, Kind, Closing,
              AddIndexes
      <3> QED
        BY <2>1, <2>3, <3>2, KindKeeps
    <2> QED
      BY <2>2, <2>3
  <1>34. ASSUME NEW p \in Process, MergeDone(p)
        PROVE  \A s \in Thread : Kind(s)'
    <2>0. /\ pc = [q \in Process |-> pc[q]] /\ op' = op /\ then' = then
          /\ Thread \subseteq Process
      BY <1>34
         DEF MergeDone, GoTo, GoToThen, Stays, threadVars, IInv, Typed,
            Process
    <2>1. Moved(p)
      BY <1>34, <2>0
         DEF MergeDone, GoTo, GoToThen, Stays, threadVars, Moved
    <2>2. CASE p \notin Thread
      BY <2>1, <2>2 DEF Moved, Exclusive, Kind
    <2>3. CASE p \in Thread
      <3>1. Kind(p) /\ op[p] \in Calls \cup {"none"}
        BY <2>3 DEF IInv, Typed, Exclusive
      <3>2. Kind(p)'
        BY <1>34, <2>0, <2>3, <3>1
           DEF MergeDone, GoTo, GoToThen, Stays, threadVars, Kind, Closing,
              AddIndexes
      <3> QED
        BY <2>1, <2>3, <3>2, KindKeeps
    <2> QED
      BY <2>2, <2>3
  <1>35. ASSUME NEW p \in Process, MergeFailed(p)
        PROVE  \A s \in Thread : Kind(s)'
    <2>0. /\ pc = [q \in Process |-> pc[q]] /\ op' = op /\ then' = then
          /\ Thread \subseteq Process
      BY <1>35
         DEF MergeFailed, Fails, Throws, GoTo, GoToThen, Stays, threadVars,
            IInv, Typed, Process
    <2>1. Moved(p)
      BY <1>35, <2>0
         DEF MergeFailed, Fails, Throws, GoTo, GoToThen, Stays, threadVars,
            Moved
    <2>2. CASE p \notin Thread
      BY <2>1, <2>2 DEF Moved, Exclusive, Kind
    <2>3. CASE p \in Thread
      <3>1. Kind(p) /\ op[p] \in Calls \cup {"none"}
        BY <2>3 DEF IInv, Typed, Exclusive
      <3>2. Kind(p)'
        BY <1>35, <2>0, <2>3, <3>1
           DEF MergeFailed, Fails, Throws, GoTo, GoToThen, Stays, threadVars,
              Kind, Closing, AddIndexes
      <3> QED
        BY <2>1, <2>3, <3>2, KindKeeps
    <2> QED
      BY <2>2, <2>3
  <1>36. ASSUME NEW m \in MergeThread, NextMerge(m)
        PROVE  \A s \in Thread : Kind(s)'
    <2>0. /\ pc = [q \in Process |-> pc[q]] /\ op' = op /\ then' = then
          /\ Thread \subseteq Process
      BY <1>36
         DEF NextMerge, GoTo, GoToThen, Stays, threadVars, IInv, Typed,
            Process
    <2>1. Moved(m)
      BY <1>36, <2>0
         DEF NextMerge, GoTo, GoToThen, Stays, threadVars, Moved
    <2>2. CASE m \notin Thread
      BY <2>1, <2>2 DEF Moved, Exclusive, Kind
    <2>3. CASE m \in Thread
      <3>1. Kind(m) /\ op[m] \in Calls \cup {"none"}
        BY <2>3 DEF IInv, Typed, Exclusive
      <3>2. Kind(m)'
        BY <1>36, <2>0, <2>3, <3>1
           DEF NextMerge, GoTo, GoToThen, Stays, threadVars, Kind, Closing,
              AddIndexes
      <3> QED
        BY <2>1, <2>3, <3>2, KindKeeps
    <2> QED
      BY <2>2, <2>3
  <1>37. CASE UNCHANGED vars
    BY <1>37
      DEF vars, infoVars, commitVars, optVars, closeVars, lockVars,
         threadVars, IInv, Exclusive, Kind
  <1> QED
    BY <1>1, <1>2, <1>3, <1>4, <1>5, <1>6, <1>7, <1>8, <1>9, <1>10, <1>11,
       <1>12, <1>13, <1>14, <1>15, <1>16, <1>17, <1>18, <1>19, <1>20, <1>21,
       <1>22, <1>23, <1>24, <1>25, <1>26, <1>27, <1>28, <1>29, <1>30, <1>31,
       <1>32, <1>33, <1>34, <1>35, <1>36, <1>37
      DEF Next, CallStep, MergeStep, Process

\* Who ends a call that has the lock or closes, or begins it.
Ends(s) ==
    /\ pc[s] \in {"shouldClose", "return"} => pc'[s] = pc[s]
    /\ op'[s] = op[s]

\* A step begins or ends no call, or is one of those that may.
ClosingMove ==
    \/ /\ UNCHANGED <<closing, closed>>
       /\ \A s \in Thread : Ends(s)
    \/ \E t \in Thread :
          Call(t) \/ Leave(t) \/ ShouldClose(t) \/ Closed(t)

\* Which steps begin or end calls
LEMMA ClosingMoves ==
    ASSUME IInv, Exclusive, NoneReplaced, [Next]_vars
    PROVE  ClosingMove
  <1>1. ASSUME NEW t \in Thread, Call(t)
        PROVE  ClosingMove
    BY <1>1 DEF ClosingMove
  <1>2. ASSUME NEW t \in Thread, AddDocument(t)
        PROVE  ClosingMove
    BY <1>2, MergesAssumption
      DEF AddDocument, GoTo, GoToThen, Stays, infoVars, commitVars, optVars,
         closeVars, lockVars, threadVars, Typed, IInv, Process, Ends, ClosingMove
  <1>3. ASSUME NEW t \in Thread, Flush(t)
        PROVE  ClosingMove
    BY <1>3, MergesAssumption
      DEF Flush, GoTo, GoToThen, Stays, infoVars, commitVars, optVars,
         closeVars, lockVars, threadVars, Typed, IInv, Process, Ends, ClosingMove
  <1>4. ASSUME NEW t \in Thread, UpdatePendingMerges(t)
        PROVE  ClosingMove
    BY <1>4, MergesAssumption
      DEF UpdatePendingMerges, GoTo, GoToThen, Stays, infoVars, commitVars,
         optVars, closeVars, lockVars, threadVars, Typed, IInv, Process,
         Ends, ClosingMove
  <1>5. ASSUME NEW t \in Thread, Commit(t)
        PROVE  ClosingMove
    BY <1>5, MergesAssumption
      DEF Commit, GoTo, GoToThen, Stays, infoVars, commitVars, optVars,
         closeVars, lockVars, threadVars, Typed, IInv, Process, Ends, ClosingMove
  <1>6. ASSUME NEW t \in Thread, Leave(t)
        PROVE  ClosingMove
    BY <1>6 DEF ClosingMove
  <1>7. ASSUME NEW t \in Thread, OptimizeMark(t)
        PROVE  ClosingMove
    BY <1>7, MergesAssumption
      DEF OptimizeMark, GoTo, GoToThen, Stays, infoVars, commitVars, optVars,
         closeVars, lockVars, threadVars, Typed, IInv, Process, Ends, ClosingMove
  <1>8. ASSUME NEW t \in Thread, OptimizeWait(t)
        PROVE  ClosingMove
    BY <1>8, MergesAssumption
      DEF OptimizeWait, GoTo, GoToThen, Stays, infoVars, commitVars, optVars,
         closeVars, lockVars, threadVars, Typed, IInv, Process, Ends, ClosingMove
  <1>9. ASSUME NEW t \in Thread, PauseAllThreads(t)
        PROVE  ClosingMove
    BY <1>9, MergesAssumption
      DEF PauseAllThreads, GoTo, GoToThen, Stays, infoVars, commitVars,
         optVars, closeVars, lockVars, threadVars, Typed, IInv, Process,
         Ends, ClosingMove
  <1>10. ASSUME NEW t \in Thread, AcquireRead(t)
        PROVE  ClosingMove
    BY <1>10, MergesAssumption, ZenonT(40)
      DEF AcquireRead, GoTo, GoToThen, Stays, infoVars, commitVars, optVars,
         closeVars, lockVars, threadVars, Typed, IInv, Process, Ends, ClosingMove
  <1>11. ASSUME NEW t \in Thread, StartTransaction(t)
        PROVE  ClosingMove
    BY <1>11, MergesAssumption
      DEF StartTransaction, TakesWriteLock, UpgradeReadToWrite, AcquireWrite,
         TakesLock, GoTo, GoToThen, Stays, infoVars, commitVars, optVars,
         closeVars, lockVars, threadVars, Typed, IInv, Process, Ends, ClosingMove
  <1>12. ASSUME NEW t \in Thread, AddExternal(t)
        PROVE  ClosingMove
    BY <1>12, MergesAssumption
      DEF AddExternal, GoTo, GoToThen, Stays, infoVars, commitVars, optVars,
         closeVars, lockVars, threadVars, Typed, IInv, Process, Ends, ClosingMove
  <1>13. ASSUME NEW t \in Thread, TransactionOpen(t)
        PROVE  ClosingMove
    BY <1>13, MergesAssumption
      DEF TransactionOpen, GoTo, GoToThen, Stays, infoVars, commitVars,
         optVars, closeVars, lockVars, threadVars, Typed, IInv, Process,
         Ends, ClosingMove
  <1>14. ASSUME NEW t \in Thread, ResolveExternal(t)
        PROVE  ClosingMove
    BY <1>14, MergesAssumption
      DEF ResolveExternal, GoTo, GoToThen, Stays, infoVars, commitVars,
         optVars, closeVars, lockVars, threadVars, Typed, IInv, Process,
         Ends, ClosingMove
  <1>15. ASSUME NEW t \in Thread, ReadersGet(t)
        PROVE  ClosingMove
    BY <1>15, MergesAssumption
      DEF ReadersGet, GoTo, GoToThen, Stays, infoVars, commitVars, optVars,
         closeVars, lockVars, threadVars, Typed, IInv, Process, Ends, ClosingMove
  <1>16. ASSUME NEW t \in Thread, ReadersPut(t)
        PROVE  ClosingMove
    BY <1>16, MergesAssumption
      DEF ReadersPut, GoTo, GoToThen, Stays, infoVars, commitVars, optVars,
         closeVars, lockVars, threadVars, Typed, IInv, Process, Ends, ClosingMove
  <1>17. ASSUME NEW t \in Thread, CommitTransaction(t)
        PROVE  ClosingMove
    BY <1>17, MergesAssumption
      DEF CommitTransaction, GoTo, GoToThen, Stays, infoVars, commitVars,
         optVars, closeVars, lockVars, threadVars, Typed, IInv, Process,
         Ends, ClosingMove
  <1>18. ASSUME NEW t \in Thread, FinishMerges(t)
        PROVE  ClosingMove
    BY <1>18, MergesAssumption, ZenonT(40)
      DEF FinishMerges, MergesFinished, RolledBack, AllDeleted, GoTo,
         GoToThen, Stays, infoVars, commitVars, optVars, closeVars, lockVars,
         threadVars, Typed, IInv, Process, Ends, ClosingMove
  <1>19. ASSUME NEW t \in Thread, FinishMergesWait(t)
        PROVE  ClosingMove
    BY <1>19, MergesAssumption, ZenonT(40)
      DEF FinishMergesWait, MergesFinished, RolledBack, AllDeleted, GoTo,
         GoToThen, Stays, infoVars, commitVars, optVars, closeVars, lockVars,
         threadVars, Typed, IInv, Process, Ends, ClosingMove
  <1>20. ASSUME NEW t \in Thread, WaitForMerges(t)
        PROVE  ClosingMove
    BY <1>20, MergesAssumption
      DEF WaitForMerges, GoTo, GoToThen, Stays, infoVars, commitVars, optVars,
         closeVars, lockVars, threadVars, Typed, IInv, Process, Ends, ClosingMove
  <1>21. ASSUME NEW t \in Thread, ShouldClose(t)
        PROVE  ClosingMove
    BY <1>21 DEF ClosingMove
  <1>22. ASSUME NEW t \in Thread, SyncThreads(t)
        PROVE  ClosingMove
    BY <1>22, MergesAssumption
      DEF SyncThreads, GoTo, GoToThen, Stays, infoVars, commitVars, optVars,
         closeVars, lockVars, threadVars, Typed, IInv, Process, Ends, ClosingMove
  <1>23. ASSUME NEW t \in Thread, Revert(t)
        PROVE  ClosingMove
    BY <1>23, MergesAssumption
      DEF Revert, GoTo, GoToThen, Stays, infoVars, commitVars, optVars,
         closeVars, lockVars, threadVars, Typed, IInv, Process, Ends, ClosingMove
  <1>24. ASSUME NEW t \in Thread, Recount(t)
        PROVE  ClosingMove
    BY <1>24, MergesAssumption
      DEF Recount, GoTo, GoToThen, Stays, infoVars, commitVars, optVars,
         closeVars, lockVars, threadVars, Typed, IInv, Process, Ends, ClosingMove
  <1>25. ASSUME NEW t \in Thread, CloseInternal(t)
        PROVE  ClosingMove
    BY <1>25, MergesAssumption
      DEF CloseInternal, GoTo, GoToThen, Stays, infoVars, commitVars, optVars,
         closeVars, lockVars, threadVars, Typed, IInv, Process, Ends, ClosingMove
  <1>26. ASSUME NEW t \in Thread, CloseMerges(t)
        PROVE  ClosingMove
    BY <1>26, MergesAssumption
      DEF CloseMerges, GoTo, GoToThen, Stays, infoVars, commitVars, optVars,
         closeVars, lockVars, threadVars, Typed, IInv, Process, Ends, ClosingMove
  <1>27. ASSUME NEW t \in Thread, CloseStop(t)
        PROVE  ClosingMove
    BY <1>27, MergesAssumption
      DEF CloseStop, GoTo, GoToThen, Stays, infoVars, commitVars, optVars,
         closeVars, lockVars, threadVars, Typed, IInv, Process, Ends, ClosingMove
  <1>28. ASSUME NEW t \in Thread, Closed(t)
        PROVE  ClosingMove
    BY <1>28 DEF ClosingMove
  <1>29. ASSUME NEW t \in Thread, Schedule(t)
        PROVE  ClosingMove
    BY <1>29, MergesAssumption
      DEF Schedule, GoTo, GoToThen, Stays, infoVars, commitVars, optVars,
         closeVars, lockVars, threadVars, Typed, IInv, Process, Ends, ClosingMove
  <1>30. ASSUME NEW t \in Thread, NEW m \in MergeThread, StartThread(t, m)
        PROVE  ClosingMove
    BY <1>30, MergesAssumption
      DEF StartThread, GoTo, GoToThen, Stays, infoVars, commitVars, optVars,
         closeVars, lockVars, threadVars, Typed, IInv, Process, Ends, ClosingMove
  <1>31. ASSUME NEW p \in Process, MergeInit(p)
        PROVE  ClosingMove
    BY <1>31, MergesAssumption
      DEF MergeInit, Fails, Throws, GoTo, GoToThen, Stays, infoVars,
         commitVars, optVars, closeVars, lockVars, threadVars, Typed, IInv,
         Process, Ends, ClosingMove
  <1>32. ASSUME NEW p \in Process, MergeMiddle(p)
        PROVE  ClosingMove
    BY <1>32, MergesAssumption
      DEF MergeMiddle, GoTo, GoToThen, Stays, infoVars, commitVars, optVars,
         closeVars, lockVars, threadVars, Typed, IInv, Process, Ends, ClosingMove
  <1>33. ASSUME NEW p \in Process, CommitMerge(p)
        PROVE  ClosingMove
    BY <1>33, MergesAssumption
      DEF CommitMerge, GoTo, GoToThen, Stays, infoVars, commitVars, optVars,
         closeVars, lockVars, threadVars, Typed, IInv, Process, Ends, ClosingMove
  <1>34. ASSUME NEW p \in Process, MergeDone(p)
        PROVE  ClosingMove
    BY <1>34, MergesAssumption
      DEF MergeDone, GoTo, GoToThen, Stays, infoVars, commitVars, optVars,
         closeVars, lockVars, threadVars, Typed, IInv, Process, Ends, ClosingMove
  <1>35. ASSUME NEW p \in Process, MergeFailed(p)
        PROVE  ClosingMove
    BY <1>35, MergesAssumption
      DEF MergeFailed, Fails, Throws, GoTo, GoToThen, Stays, infoVars,
         commitVars, optVars, closeVars, lockVars, threadVars, Typed, IInv,
         Process, Ends, ClosingMove
  <1>36. ASSUME NEW m \in MergeThread, NextMerge(m)
        PROVE  ClosingMove
    BY <1>36, MergesAssumption
      DEF NextMerge, GoTo, GoToThen, Stays, infoVars, commitVars, optVars,
         closeVars, lockVars, threadVars, Typed, IInv, Process, Ends, ClosingMove
  <1>37. CASE UNCHANGED vars
    BY <1>37, MergesAssumption
      DEF vars, infoVars, commitVars, optVars, closeVars, lockVars,
         threadVars, Typed, IInv, Process, Ends, ClosingMove
  <1> QED
    BY <1>1, <1>2, <1>3, <1>4, <1>5, <1>6, <1>7, <1>8, <1>9, <1>10, <1>11,
       <1>12, <1>13, <1>14, <1>15, <1>16, <1>17, <1>18, <1>19, <1>20, <1>21,
       <1>22, <1>23, <1>24, <1>25, <1>26, <1>27, <1>28, <1>29, <1>30, <1>31,
       <1>32, <1>33, <1>34, <1>35, <1>36, <1>37
      DEF Next, CallStep, MergeStep, Process

\* One call at a time closes the writer.
Alone ==
    /\ \A t \in Thread : Closer(t) => closing /\ ~closed
    /\ \A s, t \in Thread : Closer(s) /\ Closer(t) => s = t

\* A step leaves at most one call that closes the writer.
LEMMA CloserStep ==
    ASSUME IInv, Exclusive, NoneReplaced, [Next]_vars
    PROVE  Alone'
  <1>0. /\ Alone /\ \A t \in Thread : Kind(t)
        /\ pc = [q \in Process |-> pc[q]] /\ op = [q \in Thread |-> op[q]]
        /\ Thread \subseteq Process /\ {closing, closed} \subseteq BOOLEAN
    BY DEF IInv, Typed, Exclusive, Alone, Process
  <1>1. CASE UNCHANGED <<closing, closed>> /\ \A s \in Thread : Ends(s)
    <2>1. \A s \in Thread : Closer(s)' => Closer(s)
      BY <1>1 DEF Ends, Closer, Closing
    <2> QED
      BY <1>0, <1>1, <2>1 DEF Alone
  <1>2. ASSUME NEW t \in Thread, Call(t)
        PROVE  Alone'
    <2>1. /\ UNCHANGED <<closing, closed>>
          /\ \A s \in Thread \ {t} : pc'[s] = pc[s] /\ op'[s] = op[s]
      BY <1>2, <1>0 DEF Call, GoTo, closeVars
    <2>2. ~Closer(t)'
      BY <1>2, <1>0 DEF Call, GoTo, Closer, Closing, AddIndexes
    <2>3. \A s \in Thread : Closer(s)' => Closer(s)
      BY <2>1, <2>2 DEF Closer
    <2> QED
      BY <1>0, <2>1, <2>3 DEF Alone
  <1>3. ASSUME NEW t \in Thread, Leave(t)
        PROVE  Alone'
    <2>1. /\ UNCHANGED closed
          /\ \A s \in Thread \ {t} : pc'[s] = pc[s] /\ op'[s] = op[s]
          /\ closing' = (closing /\ ~Closer(t))
      BY <1>3, <1>0 DEF Leave, Closer
    <2>2. op'[t] = "none"
      BY <1>3, <1>0 DEF Leave
    <2>3. ~Closer(t)'
      BY <2>2 DEF Closer, Closing
    <2>4. \A s \in Thread : Closer(s)' => Closer(s) /\ s # t
      BY <2>1, <2>3 DEF Closer
    <2> QED
      BY <1>0, <2>1, <2>4 DEF Alone
  <1>4. ASSUME NEW t \in Thread, ShouldClose(t)
        PROVE  Alone'
    <2>1. /\ UNCHANGED <<closed, op>>
          /\ \A s \in Thread \ {t} : pc'[s] = pc[s]
          /\ closing' = ~closed /\ (closed \/ ~closing)
      BY <1>4, <1>0 DEF ShouldClose, GoTo, Stays
    <2>2. \A s \in Thread : ~Closer(s)
      BY <1>0, <2>1 DEF Alone
    <2>3. closed => ~Closer(t)'
      BY <1>4, <1>0 DEF ShouldClose, GoTo, Closer
    <2>4. \A s \in Thread : Closer(s)' => s = t
      BY <2>1, <2>2 DEF Closer
    <2> QED
      BY <1>0, <2>1, <2>3, <2>4 DEF Alone
  <1>5. ASSUME NEW t \in Thread, Closed(t)
        PROVE  Alone'
    <2>1. /\ UNCHANGED op /\ pc[t] = "closed" /\ pc'[t] = "return"
          /\ \A s \in Thread \ {t} : pc'[s] = pc[s]
      BY <1>5, <1>0 DEF Closed, GoTo, Stays
    <2>2. Closer(t) /\ ~Closer(t)'
      BY <1>0, <2>1 DEF Closer, Kind
    <2>3. \A s \in Thread : ~Closer(s)'
      BY <1>0, <2>1, <2>2 DEF Closer, Alone
    <2> QED
      BY <2>3 DEF Alone
  <1> QED
    BY <1>1, <1>2, <1>3, <1>4, <1>5, ClosingMoves DEF ClosingMove

\* The write lock is given back, or somebody takes it to add indexes.
LockMoves ==
    \/ writeThread' = writeThread
    \/ writeThread # None /\ writeThread' = None
    \/ /\ writeThread = None /\ IsOpen /\ UNCHANGED op
       /\ op[writeThread'] = "addIndexesNoOptimize"

\* Nobody reads, and the lock goes from hand to hand.
LEMMA LockStep ==
    ASSUME IInv, Exclusive, NoneReplaced, [Next]_vars
    PROVE  readThreads' = {} /\ LockMoves
  <1>1. ASSUME NEW t \in Thread, Call(t)
        PROVE  readThreads' = {} /\ LockMoves
    BY <1>1
      DEF Call, GoTo, GoToThen, Stays, infoVars, commitVars, optVars,
         closeVars, lockVars, threadVars, Exclusive, LockMoves
  <1>2. ASSUME NEW t \in Thread, AddDocument(t)
        PROVE  readThreads' = {} /\ LockMoves
    BY <1>2
      DEF AddDocument, GoTo, GoToThen, Stays, infoVars, commitVars, optVars,
         closeVars, lockVars, threadVars, Exclusive, LockMoves
  <1>3. ASSUME NEW t \in Thread, Flush(t)
        PROVE  readThreads' = {} /\ LockMoves
    BY <1>3
      DEF Flush, GoTo, GoToThen, Stays, infoVars, commitVars, optVars,
         closeVars, lockVars, threadVars, Exclusive, LockMoves
  <1>4. ASSUME NEW t \in Thread, UpdatePendingMerges(t)
        PROVE  readThreads' = {} /\ LockMoves
    BY <1>4
      DEF UpdatePendingMerges, GoTo, GoToThen, Stays, infoVars, commitVars,
         optVars, closeVars, lockVars, threadVars, Exclusive, LockMoves
  <1>5. ASSUME NEW t \in Thread, Commit(t)
        PROVE  readThreads' = {} /\ LockMoves
    BY <1>5
      DEF Commit, GoTo, GoToThen, Stays, infoVars, commitVars, optVars,
         closeVars, lockVars, threadVars, Exclusive, LockMoves
  <1>6. ASSUME NEW t \in Thread, Leave(t)
        PROVE  readThreads' = {} /\ LockMoves
    BY <1>6
      DEF Leave, GoTo, GoToThen, Stays, infoVars, commitVars, optVars,
         closeVars, lockVars, threadVars, Exclusive, LockMoves
  <1>7. ASSUME NEW t \in Thread, OptimizeMark(t)
        PROVE  readThreads' = {} /\ LockMoves
    BY <1>7
      DEF OptimizeMark, GoTo, GoToThen, Stays, infoVars, commitVars, optVars,
         closeVars, lockVars, threadVars, Exclusive, LockMoves
  <1>8. ASSUME NEW t \in Thread, OptimizeWait(t)
        PROVE  readThreads' = {} /\ LockMoves
    BY <1>8
      DEF OptimizeWait, GoTo, GoToThen, Stays, infoVars, commitVars, optVars,
         closeVars, lockVars, threadVars, Exclusive, LockMoves
  <1>9. ASSUME NEW t \in Thread, PauseAllThreads(t)
        PROVE  readThreads' = {} /\ LockMoves
    BY <1>9
      DEF PauseAllThreads, GoTo, GoToThen, Stays, infoVars, commitVars,
         optVars, closeVars, lockVars, threadVars, Exclusive, LockMoves
  <1>10. ASSUME NEW t \in Thread, AcquireRead(t)
        PROVE  readThreads' = {} /\ LockMoves
    <2>1. readThreads = {} /\ op[t] # "addIndexes"
      BY DEF Exclusive, NoneReplaced, IInv, Typed
    <2> QED
      BY <1>10, <2>1 DEF AcquireRead, LockMoves
  <1>11. ASSUME NEW t \in Thread, StartTransaction(t)
        PROVE  readThreads' = {} /\ LockMoves
    <2>1. readThreads = {} /\ Kind(t)
      BY DEF Exclusive
    <2>2. AcquireWrite(t) \/ UNCHANGED lockVars
      BY <1>11, <2>1 DEF StartTransaction, TakesWriteLock
    <2>3. UNCHANGED op /\ op[t] = "addIndexesNoOptimize"
      BY <1>11, <2>1 DEF StartTransaction, Stays, Kind
    <2> QED
      BY <2>1, <2>2, <2>3 DEF AcquireWrite, TakesLock, lockVars, LockMoves
  <1>12. ASSUME NEW t \in Thread, AddExternal(t)
        PROVE  readThreads' = {} /\ LockMoves
    BY <1>12
      DEF AddExternal, GoTo, GoToThen, Stays, infoVars, commitVars, optVars,
         closeVars, lockVars, threadVars, Exclusive, LockMoves
  <1>13. ASSUME NEW t \in Thread, TransactionOpen(t)
        PROVE  readThreads' = {} /\ LockMoves
    BY <1>13
      DEF TransactionOpen, GoTo, GoToThen, Stays, infoVars, commitVars,
         optVars, closeVars, lockVars, threadVars, Exclusive, LockMoves
  <1>14. ASSUME NEW t \in Thread, ResolveExternal(t)
        PROVE  readThreads' = {} /\ LockMoves
    BY <1>14
      DEF ResolveExternal, GoTo, GoToThen, Stays, infoVars, commitVars,
         optVars, closeVars, lockVars, threadVars, Exclusive, LockMoves
  <1>15. ASSUME NEW t \in Thread, ReadersGet(t)
        PROVE  readThreads' = {} /\ LockMoves
    BY <1>15
      DEF ReadersGet, GoTo, GoToThen, Stays, infoVars, commitVars, optVars,
         closeVars, lockVars, threadVars, Exclusive, LockMoves
  <1>16. ASSUME NEW t \in Thread, ReadersPut(t)
        PROVE  readThreads' = {} /\ LockMoves
    BY <1>16
      DEF ReadersPut, GoTo, GoToThen, Stays, infoVars, commitVars, optVars,
         closeVars, lockVars, threadVars, Exclusive, LockMoves
  <1>17. ASSUME NEW t \in Thread, CommitTransaction(t)
        PROVE  readThreads' = {} /\ LockMoves
    BY <1>17
      DEF CommitTransaction, GoTo, GoToThen, Stays, infoVars, commitVars,
         optVars, closeVars, lockVars, threadVars, Exclusive, LockMoves
  <1>18. ASSUME NEW t \in Thread, FinishMerges(t)
        PROVE  readThreads' = {} /\ LockMoves
    BY <1>18
      DEF FinishMerges, MergesFinished, RolledBack, AllDeleted, GoTo,
         GoToThen, Stays, infoVars, commitVars, optVars, closeVars, lockVars,
         threadVars, Exclusive, LockMoves
  <1>19. ASSUME NEW t \in Thread, FinishMergesWait(t)
        PROVE  readThreads' = {} /\ LockMoves
    BY <1>19
      DEF FinishMergesWait, MergesFinished, RolledBack, AllDeleted, GoTo,
         GoToThen, Stays, infoVars, commitVars, optVars, closeVars, lockVars,
         threadVars, Exclusive, LockMoves
  <1>20. ASSUME NEW t \in Thread, WaitForMerges(t)
        PROVE  readThreads' = {} /\ LockMoves
    BY <1>20
      DEF WaitForMerges, GoTo, GoToThen, Stays, infoVars, commitVars, optVars,
         closeVars, lockVars, threadVars, Exclusive, LockMoves
  <1>21. ASSUME NEW t \in Thread, ShouldClose(t)
        PROVE  readThreads' = {} /\ LockMoves
    BY <1>21
      DEF ShouldClose, GoTo, GoToThen, Stays, infoVars, commitVars, optVars,
         closeVars, lockVars, threadVars, Exclusive, LockMoves
  <1>22. ASSUME NEW t \in Thread, SyncThreads(t)
        PROVE  readThreads' = {} /\ LockMoves
    BY <1>22
      DEF SyncThreads, GoTo, GoToThen, Stays, infoVars, commitVars, optVars,
         closeVars, lockVars, threadVars, Exclusive, LockMoves
  <1>23. ASSUME NEW t \in Thread, Revert(t)
        PROVE  readThreads' = {} /\ LockMoves
    BY <1>23
      DEF Revert, GoTo, GoToThen, Stays, infoVars, commitVars, optVars,
         closeVars, lockVars, threadVars, Exclusive, LockMoves
  <1>24. ASSUME NEW t \in Thread, Recount(t)
        PROVE  readThreads' = {} /\ LockMoves
    BY <1>24
      DEF Recount, GoTo, GoToThen, Stays, infoVars, commitVars, optVars,
         closeVars, lockVars, threadVars, Exclusive, LockMoves
  <1>25. ASSUME NEW t \in Thread, CloseInternal(t)
        PROVE  readThreads' = {} /\ LockMoves
    BY <1>25
      DEF CloseInternal, GoTo, GoToThen, Stays, infoVars, commitVars, optVars,
         closeVars, lockVars, threadVars, Exclusive, LockMoves
  <1>26. ASSUME NEW t \in Thread, CloseMerges(t)
        PROVE  readThreads' = {} /\ LockMoves
    BY <1>26
      DEF CloseMerges, GoTo, GoToThen, Stays, infoVars, commitVars, optVars,
         closeVars, lockVars, threadVars, Exclusive, LockMoves
  <1>27. ASSUME NEW t \in Thread, CloseStop(t)
        PROVE  readThreads' = {} /\ LockMoves
    BY <1>27
      DEF CloseStop, GoTo, GoToThen, Stays, infoVars, commitVars, optVars,
         closeVars, lockVars, threadVars, Exclusive, LockMoves
  <1>28. ASSUME NEW t \in Thread, Closed(t)
        PROVE  readThreads' = {} /\ LockMoves
    BY <1>28
      DEF Closed, GoTo, GoToThen, Stays, infoVars, commitVars, optVars,
         closeVars, lockVars, threadVars, Exclusive, LockMoves
  <1>29. ASSUME NEW t \in Thread, Schedule(t)
        PROVE  readThreads' = {} /\ LockMoves
    BY <1>29
      DEF Schedule, GoTo, GoToThen, Stays, infoVars, commitVars, optVars,
         closeVars, lockVars, threadVars, Exclusive, LockMoves
  <1>30. ASSUME NEW t \in Thread, NEW m \in MergeThread, StartThread(t, m)
        PROVE  readThreads' = {} /\ LockMoves
    BY <1>30
      DEF StartThread, GoTo, GoToThen, Stays, infoVars, commitVars, optVars,
         closeVars, lockVars, threadVars, Exclusive, LockMoves
  <1>31. ASSUME NEW p \in Process, MergeInit(p)
        PROVE  readThreads' = {} /\ LockMoves
    BY <1>31
      DEF MergeInit, Fails, Throws, GoTo, GoToThen, Stays, infoVars,
         commitVars, optVars, closeVars, lockVars, threadVars, Exclusive,
         LockMoves
  <1>32. ASSUME NEW p \in Process, MergeMiddle(p)
        PROVE  readThreads' = {} /\ LockMoves
    BY <1>32
      DEF MergeMiddle, GoTo, GoToThen, Stays, infoVars, commitVars, optVars,
         closeVars, lockVars, threadVars, Exclusive, LockMoves
  <1>33. ASSUME NEW p \in Process, CommitMerge(p)
        PROVE  readThreads' = {} /\ LockMoves
    BY <1>33
      DEF CommitMerge, GoTo, GoToThen, Stays, infoVars, commitVars, optVars,
         closeVars, lockVars, threadVars, Exclusive, LockMoves
  <1>34. ASSUME NEW p \in Process, MergeDone(p)
        PROVE  readThreads' = {} /\ LockMoves
    BY <1>34
      DEF MergeDone, GoTo, GoToThen, Stays, infoVars, commitVars, optVars,
         closeVars, lockVars, threadVars, Exclusive, LockMoves
  <1>35. ASSUME NEW p \in Process, MergeFailed(p)
        PROVE  readThreads' = {} /\ LockMoves
    BY <1>35
      DEF MergeFailed, Fails, Throws, GoTo, GoToThen, Stays, infoVars,
         commitVars, optVars, closeVars, lockVars, threadVars, Exclusive,
         LockMoves
  <1>36. ASSUME NEW m \in MergeThread, NextMerge(m)
        PROVE  readThreads' = {} /\ LockMoves
    BY <1>36
      DEF NextMerge, GoTo, GoToThen, Stays, infoVars, commitVars, optVars,
         closeVars, lockVars, threadVars, Exclusive, LockMoves
  <1>37. CASE UNCHANGED vars
    BY <1>37
      DEF vars, infoVars, commitVars, optVars, closeVars, lockVars,
         threadVars, Exclusive, LockMoves
  <1> QED
    BY <1>1, <1>2, <1>3, <1>4, <1>5, <1>6, <1>7, <1>8, <1>9, <1>10, <1>11,
       <1>12, <1>13, <1>14, <1>15, <1>16, <1>17, <1>18, <1>19, <1>20, <1>21,
       <1>22, <1>23, <1>24, <1>25, <1>26, <1>27, <1>28, <1>29, <1>30, <1>31,
       <1>32, <1>33, <1>34, <1>35, <1>36, <1>37
      DEF Next, CallStep, MergeStep, Process

\* A call that finishes merges began to as what it is.
Finishes(s) ==
    /\ op'[s] = op[s] \/ pc[s] \in {"idle", "return", "throw"}
    /\ pc'[s] \in {"finishRead", "finishWait"}
          => /\ pc[s] \in {"finishRead", "finishWait", "finishMerges",
                           "rollbackTransaction", "deleteAll"}
             /\ op'[s] = op[s]
             /\ writeThread = s => writeThread' = s

\* So it is.
LEMMA FinishesStep ==
    ASSUME IInv, Exclusive, NoneReplaced, [Next]_vars
    PROVE  \A s \in Thread : Finishes(s)
  <1>1. ASSUME NEW t \in Thread, Call(t)
        PROVE  \A s \in Thread : Finishes(s)
    BY <1>1, MergesAssumption
      DEF Call, GoTo, GoToThen, Stays, infoVars, commitVars, optVars,
         closeVars, lockVars, threadVars, Typed, IInv, Process, Finishes
  <1>2. ASSUME NEW t \in Thread, AddDocument(t)
        PROVE  \A s \in Thread : Finishes(s)
    BY <1>2, MergesAssumption
      DEF AddDocument, GoTo, GoToThen, Stays, infoVars, commitVars, optVars,
         closeVars, lockVars, threadVars, Typed, IInv, Process, Finishes
  <1>3. ASSUME NEW t \in Thread, Flush(t)
        PROVE  \A s \in Thread : Finishes(s)
    <2> DEFINE l == then[t]
    <2>1. l \notin {"finishRead", "finishWait"}
      BY DEF IInv, Typed, Continuations
    <2>2. pc'[t] \notin {"finishRead", "finishWait"}
      BY <1>3, <2>1 DEF Flush, GoTo, Stays, IInv, Typed, Process
    <2>3. \A s \in Thread \ {t} : pc'[s] = pc[s]
      BY <1>3 DEF Flush, GoTo, Stays, IInv, Typed, Process
    <2>4. UNCHANGED <<op, writeThread>>
      BY <1>3 DEF Flush, Stays, lockVars
    <2> QED
      BY <2>2, <2>3, <2>4 DEF Finishes
  <1>4. ASSUME NEW t \in Thread, UpdatePendingMerges(t)
        PROVE  \A s \in Thread : Finishes(s)
    BY <1>4, MergesAssumption
      DEF UpdatePendingMerges, GoTo, GoToThen, Stays, infoVars, commitVars,
         optVars, closeVars, lockVars, threadVars, Typed, IInv, Process,
         Finishes
  <1>5. ASSUME NEW t \in Thread, Commit(t)
        PROVE  \A s \in Thread : Finishes(s)
    BY <1>5, MergesAssumption, ZenonT(60)
      DEF Commit, GoTo, GoToThen, Stays, infoVars, commitVars, optVars,
         closeVars, lockVars, threadVars, Typed, IInv, Process, Finishes
  <1>6. ASSUME NEW t \in Thread, Leave(t)
        PROVE  \A s \in Thread : Finishes(s)
    BY <1>6, MergesAssumption
      DEF Leave, GoTo, GoToThen, Stays, infoVars, commitVars, optVars,
         closeVars, lockVars, threadVars, Typed, IInv, Process, Finishes
  <1>7. ASSUME NEW t \in Thread, OptimizeMark(t)
        PROVE  \A s \in Thread : Finishes(s)
    BY <1>7, MergesAssumption
      DEF OptimizeMark, GoTo, GoToThen, Stays, infoVars, commitVars, optVars,
         closeVars, lockVars, threadVars, Typed, IInv, Process, Finishes
  <1>8. ASSUME NEW t \in Thread, OptimizeWait(t)
        PROVE  \A s \in Thread : Finishes(s)
    BY <1>8, MergesAssumption
      DEF OptimizeWait, GoTo, GoToThen, Stays, infoVars, commitVars, optVars,
         closeVars, lockVars, threadVars, Typed, IInv, Process, Finishes
  <1>9. ASSUME NEW t \in Thread, PauseAllThreads(t)
        PROVE  \A s \in Thread : Finishes(s)
    BY <1>9, MergesAssumption
      DEF PauseAllThreads, GoTo, GoToThen, Stays, infoVars, commitVars,
         optVars, closeVars, lockVars, threadVars, Typed, IInv, Process,
         Finishes
  <1>10. ASSUME NEW t \in Thread, AcquireRead(t)
        PROVE  \A s \in Thread : Finishes(s)
    BY <1>10, MergesAssumption, ZenonT(40)
      DEF AcquireRead, GoTo, GoToThen, Stays, infoVars, commitVars, optVars,
         closeVars, lockVars, threadVars, Typed, IInv, Process, Finishes
  <1>11. ASSUME NEW t \in Thread, StartTransaction(t)
        PROVE  \A s \in Thread : Finishes(s)
    <2>1. /\ UNCHANGED op /\ \A s \in Thread \ {t} : pc'[s] = pc[s]
          /\ pc'[t] \notin {"finishRead", "finishWait"}
      BY <1>11
         DEF StartTransaction, TakesWriteLock, UpgradeReadToWrite,
            AcquireWrite, TakesLock, GoTo, Stays, IInv, Typed, Process
    <2>2. writeThread = None \/ UNCHANGED writeThread
      BY <1>11
         DEF StartTransaction, TakesWriteLock, UpgradeReadToWrite,
            AcquireWrite, TakesLock, lockVars
    <2>3. None \notin Thread
      BY MergesAssumption DEF None
    <2> QED
      BY <2>1, <2>2, <2>3 DEF Finishes
  <1>12. ASSUME NEW t \in Thread, AddExternal(t)
        PROVE  \A s \in Thread : Finishes(s)
    BY <1>12, MergesAssumption
      DEF AddExternal, GoTo, GoToThen, Stays, infoVars, commitVars, optVars,
         closeVars, lockVars, threadVars, Typed, IInv, Process, Finishes
  <1>13. ASSUME NEW t \in Thread, TransactionOpen(t)
        PROVE  \A s \in Thread : Finishes(s)
    BY <1>13, MergesAssumption
      DEF TransactionOpen, GoTo, GoToThen, Stays, infoVars, commitVars,
         optVars, closeVars, lockVars, threadVars, Typed, IInv, Process,
         Finishes
  <1>14. ASSUME NEW t \in Thread, ResolveExternal(t)
        PROVE  \A s \in Thread : Finishes(s)
    BY <1>14, MergesAssumption, ZenonT(60)
      DEF ResolveExternal, GoTo, GoToThen, Stays, infoVars, commitVars,
         optVars, closeVars, lockVars, threadVars, Typed, IInv, Process,
         Finishes
  <1>15. ASSUME NEW t \in Thread, ReadersGet(t)
        PROVE  \A s \in Thread : Finishes(s)
    BY <1>15, MergesAssumption
      DEF ReadersGet, GoTo, GoToThen, Stays, infoVars, commitVars, optVars,
         closeVars, lockVars, threadVars, Typed, IInv, Process, Finishes
  <1>16. ASSUME NEW t \in Thread, ReadersPut(t)
        PROVE  \A s \in Thread : Finishes(s)
    BY <1>16, MergesAssumption
      DEF ReadersPut, GoTo, GoToThen, Stays, infoVars, commitVars, optVars,
         closeVars, lockVars, threadVars, Typed, IInv, Process, Finishes
  <1>17. ASSUME NEW t \in Thread, CommitTransaction(t)
        PROVE  \A s \in Thread : Finishes(s)
    <2>1. writeThread = t /\ UNCHANGED op /\ pc'[t] = "return"
      <3>1. InTransaction(t)
        BY <1>17 DEF CommitTransaction, InTransaction, OnlyTransaction
      <3> QED
        BY <1>17, <3>1
           DEF CommitTransaction, GoTo, Stays, IInv, Typed, Process,
            Transactions, InLock
    <2>2. \A s \in Thread \ {t} : pc'[s] = pc[s]
      BY <1>17 DEF CommitTransaction, GoTo, IInv, Typed, Process
    <2> QED
      BY <2>1, <2>2 DEF Finishes
  <1>18. ASSUME NEW t \in Thread, FinishMerges(t)
        PROVE  \A s \in Thread : Finishes(s)
    <2>1. UNCHANGED op /\ \A s \in Thread \ {t} : pc'[s] = pc[s]
      BY <1>18
         DEF FinishMerges, MergesFinished, GoTo, Stays, IInv, Typed, Process
    <2>2. pc[t] \in {"finishRead", "finishWait", "finishMerges",
                     "rollbackTransaction", "deleteAll"}
      BY <1>18 DEF FinishMerges
    <2>3. \/ writeThread' = writeThread
          \/ writeThread = t /\ writeThread' = None /\ pc'[t] = "throw"
      BY <1>18
         DEF FinishMerges, MergesFinished, RolledBack, AllDeleted, GoTo,
            IInv, Typed, Process
    <2> QED
      BY <2>1, <2>2, <2>3 DEF Finishes
  <1>19. ASSUME NEW t \in Thread, FinishMergesWait(t)
        PROVE  \A s \in Thread : Finishes(s)
    <2>1. UNCHANGED op /\ \A s \in Thread \ {t} : pc'[s] = pc[s]
      BY <1>19
         DEF FinishMergesWait, MergesFinished, GoTo, Stays, IInv, Typed, Process
    <2>2. pc[t] \in {"finishRead", "finishWait", "finishMerges",
                     "rollbackTransaction", "deleteAll"}
      BY <1>19 DEF FinishMergesWait
    <2>3. \/ writeThread' = writeThread
          \/ writeThread = t /\ writeThread' = None /\ pc'[t] = "throw"
      BY <1>19
         DEF FinishMergesWait, MergesFinished, RolledBack, AllDeleted, GoTo,
            IInv, Typed, Process
    <2> QED
      BY <2>1, <2>2, <2>3 DEF Finishes
  <1>20. ASSUME NEW t \in Thread, WaitForMerges(t)
        PROVE  \A s \in Thread : Finishes(s)
    BY <1>20, MergesAssumption
      DEF WaitForMerges, GoTo, GoToThen, Stays, infoVars, commitVars, optVars,
         closeVars, lockVars, threadVars, Typed, IInv, Process, Finishes
  <1>21. ASSUME NEW t \in Thread, ShouldClose(t)
        PROVE  \A s \in Thread : Finishes(s)
    BY <1>21, MergesAssumption
      DEF ShouldClose, GoTo, GoToThen, Stays, infoVars, commitVars, optVars,
         closeVars, lockVars, threadVars, Typed, IInv, Process, Finishes
  <1>22. ASSUME NEW t \in Thread, SyncThreads(t)
        PROVE  \A s \in Thread : Finishes(s)
    BY <1>22, MergesAssumption
      DEF SyncThreads, GoTo, GoToThen, Stays, infoVars, commitVars, optVars,
         closeVars, lockVars, threadVars, Typed, IInv, Process, Finishes
  <1>23. ASSUME NEW t \in Thread, Revert(t)
        PROVE  \A s \in Thread : Finishes(s)
    BY <1>23, MergesAssumption
      DEF Revert, GoTo, GoToThen, Stays, infoVars, commitVars, optVars,
         closeVars, lockVars, threadVars, Typed, IInv, Process, Finishes
  <1>24. ASSUME NEW t \in Thread, Recount(t)
        PROVE  \A s \in Thread : Finishes(s)
    BY <1>24, MergesAssumption
      DEF Recount, GoTo, GoToThen, Stays, infoVars, commitVars, optVars,
         closeVars, lockVars, threadVars, Typed, IInv, Process, Finishes
  <1>25. ASSUME NEW t \in Thread, CloseInternal(t)
        PROVE  \A s \in Thread : Finishes(s)
    BY <1>25, MergesAssumption
      DEF CloseInternal, GoTo, GoToThen, Stays, infoVars, commitVars, optVars,
         closeVars, lockVars, threadVars, Typed, IInv, Process, Finishes
  <1>26. ASSUME NEW t \in Thread, CloseMerges(t)
        PROVE  \A s \in Thread : Finishes(s)
    BY <1>26, MergesAssumption
      DEF CloseMerges, GoTo, GoToThen, Stays, infoVars, commitVars, optVars,
         closeVars, lockVars, threadVars, Typed, IInv, Process, Finishes
  <1>27. ASSUME NEW t \in Thread, CloseStop(t)
        PROVE  \A s \in Thread : Finishes(s)
    BY <1>27, MergesAssumption
      DEF CloseStop, GoTo, GoToThen, Stays, infoVars, commitVars, optVars,
         closeVars, lockVars, threadVars, Typed, IInv, Process, Finishes
  <1>28. ASSUME NEW t \in Thread, Closed(t)
        PROVE  \A s \in Thread : Finishes(s)
    BY <1>28, MergesAssumption
      DEF Closed, GoTo, GoToThen, Stays, infoVars, commitVars, optVars,
         closeVars, lockVars, threadVars, Typed, IInv, Process, Finishes
  <1>29. ASSUME NEW t \in Thread, Schedule(t)
        PROVE  \A s \in Thread : Finishes(s)
    <2> DEFINE l == then[t]
    <2>1. l \notin {"finishRead", "finishWait"}
      BY DEF IInv, Typed, Continuations
    <2>2. pc'[t] \notin {"finishRead", "finishWait"}
      BY <1>29, <2>1 DEF Schedule, GoTo, IInv, Typed, Process
    <2>3. \A s \in Thread \ {t} : pc'[s] = pc[s]
      BY <1>29 DEF Schedule, GoTo, IInv, Typed, Process
    <2>4. UNCHANGED <<op, writeThread>>
      BY <1>29 DEF Schedule, lockVars
    <2> QED
      BY <2>2, <2>3, <2>4 DEF Finishes
  <1>30. ASSUME NEW t \in Thread, NEW m \in MergeThread, StartThread(t, m)
        PROVE  \A s \in Thread : Finishes(s)
    BY <1>30, MergesAssumption
      DEF StartThread, GoTo, GoToThen, Stays, infoVars, commitVars, optVars,
         closeVars, lockVars, threadVars, Typed, IInv, Process, Finishes
  <1>31. ASSUME NEW p \in Process, MergeInit(p)
        PROVE  \A s \in Thread : Finishes(s)
    BY <1>31, MergesAssumption
      DEF MergeInit, Fails, Throws, GoTo, GoToThen, Stays, infoVars,
         commitVars, optVars, closeVars, lockVars, threadVars, Typed, IInv,
         Process, Finishes
  <1>32. ASSUME NEW p \in Process, MergeMiddle(p)
        PROVE  \A s \in Thread : Finishes(s)
    BY <1>32, MergesAssumption, ZenonT(60)
      DEF MergeMiddle, GoTo, GoToThen, Stays, infoVars, commitVars, optVars,
         closeVars, lockVars, threadVars, Typed, IInv, Process, Finishes
  <1>33. ASSUME NEW p \in Process, CommitMerge(p)
        PROVE  \A s \in Thread : Finishes(s)
    BY <1>33, MergesAssumption
      DEF CommitMerge, GoTo, GoToThen, Stays, infoVars, commitVars, optVars,
         closeVars, lockVars, threadVars, Typed, IInv, Process, Finishes
  <1>34. ASSUME NEW p \in Process, MergeDone(p)
        PROVE  \A s \in Thread : Finishes(s)
    BY <1>34, MergesAssumption
      DEF MergeDone, GoTo, GoToThen, Stays, infoVars, commitVars, optVars,
         closeVars, lockVars, threadVars, Typed, IInv, Process, Finishes
  <1>35. ASSUME NEW p \in Process, MergeFailed(p)
        PROVE  \A s \in Thread : Finishes(s)
    <2>1. PICK l \in {"dead", "throw", "rollbackTransaction", "next", "resolveMore"} :
              pc' = [pc EXCEPT ![p] = l]
      BY <1>35 DEF MergeFailed, Fails, Throws, GoTo
    <2>2. op' = op /\ writeThread' = writeThread
      BY <1>35 DEF MergeFailed, lockVars
    <2>3. \A s \in Process : pc'[s] = pc[s] \/ pc'[s] = l
      BY <2>1 DEF IInv, Typed
    <2> QED
      BY <2>2, <2>3 DEF Finishes, Process
  <1>36. ASSUME NEW m \in MergeThread, NextMerge(m)
        PROVE  \A s \in Thread : Finishes(s)
    BY <1>36, MergesAssumption
      DEF NextMerge, GoTo, GoToThen, Stays, infoVars, commitVars, optVars,
         closeVars, lockVars, threadVars, Typed, IInv, Process, Finishes
  <1>37. CASE UNCHANGED vars
    BY <1>37, MergesAssumption
      DEF vars, infoVars, commitVars, optVars, closeVars, lockVars,
         threadVars, Typed, IInv, Process, Finishes
  <1> QED
    BY <1>1, <1>2, <1>3, <1>4, <1>5, <1>6, <1>7, <1>8, <1>9, <1>10, <1>11,
       <1>12, <1>13, <1>14, <1>15, <1>16, <1>17, <1>18, <1>19, <1>20, <1>21,
       <1>22, <1>23, <1>24, <1>25, <1>26, <1>27, <1>28, <1>29, <1>30, <1>31,
       <1>32, <1>33, <1>34, <1>35, <1>36, <1>37
      DEF Next, CallStep, MergeStep, Process

\* A step leaves the transaction to the thread that holds it.
LEMMA HolderStep ==
    ASSUME IInv, Exclusive, NoneReplaced, [Next]_vars, NEW s \in Thread
    PROVE  Holder(s)'
  <1>1. /\ Finishes(s) /\ LockMoves /\ Kind(s) /\ Holder(s) /\ InLock(s)
    BY FinishesStep, LockStep DEF Exclusive, IInv, Transactions
  <1>2. s # None
    BY MergesAssumption DEF None
  <1>3. writeThread' = s => op'[s] = "addIndexesNoOptimize"
    <2>1. CASE writeThread = s
      <3>1. pc[s] \notin {"idle", "return", "throw"}
        BY <1>1, <2>1
           DEF InLock, InTransaction, OnlyTransaction, InScheduler
      <3> QED
        BY <1>1, <2>1, <3>1 DEF Finishes, Holder
    <2> QED
      BY <1>1, <1>2, <2>1 DEF LockMoves
  <1>4. ASSUME pc'[s] \in {"finishRead", "finishWait"}, writeThread' # s
        PROVE  op'[s] \in Closing \cup {"deleteAll"}
    <2>1. pc[s] = "rollbackTransaction" => writeThread = s
      BY <1>1 DEF InLock, InTransaction, OnlyTransaction
    <2>2. writeThread # s /\ op'[s] = op[s]
      BY <1>1, <1>4 DEF Finishes
    <2>3. op[s] \in Closing \cup {"deleteAll"}
      BY <1>1, <1>4, <2>1, <2>2 DEF Finishes, Holder, Kind
    <2> QED
      BY <2>2, <2>3
  <1> QED
    BY <1>3, <1>4 DEF Holder

\* A rollback goes on to put the segments back when it may read.
Reverts(s) ==
    Reverting(s)' => Reverting(s) \/ (MayRead(s) /\ then[s] = "revert")

\* So it is.
LEMMA RevertsStep ==
    ASSUME IInv, Exclusive, NoneReplaced, [Next]_vars
    PROVE  \A s \in Thread : Reverts(s)
  <1>1. ASSUME NEW t \in Thread, Call(t)
        PROVE  \A s \in Thread : Reverts(s)
    <2>1. \A s \in Thread : Kind(s)
      BY DEF Exclusive
    <2>2. /\ pc = [q \in Process |-> pc[q]] /\ Thread \subseteq Process
          /\ then \in [Thread -> Continuations]
      BY DEF IInv, Typed, Process
    <2> QED
      BY <1>1, <2>1, <2>2
         DEF Call, GoTo, GoToThen, Stays, threadVars, Reverts, Reverting,
            Kind, Continuations, Throws
  <1>2. ASSUME NEW t \in Thread, AddDocument(t)
        PROVE  \A s \in Thread : Reverts(s)
    <2>1. \A s \in Thread : Kind(s)
      BY DEF Exclusive
    <2>2. /\ pc = [q \in Process |-> pc[q]] /\ Thread \subseteq Process
          /\ then \in [Thread -> Continuations]
      BY DEF IInv, Typed, Process
    <2> QED
      BY <1>2, <2>1, <2>2
         DEF AddDocument, GoTo, GoToThen, Stays, threadVars, Reverts,
            Reverting, Kind, Continuations, Throws
  <1>3. ASSUME NEW t \in Thread, Flush(t)
        PROVE  \A s \in Thread : Reverts(s)
    <2>1. \A s \in Thread : Kind(s)
      BY DEF Exclusive
    <2>2. /\ pc = [q \in Process |-> pc[q]] /\ Thread \subseteq Process
          /\ then \in [Thread -> Continuations]
      BY DEF IInv, Typed, Process
    <2> QED
      BY <1>3, <2>1, <2>2
         DEF Flush, GoTo, GoToThen, Stays, threadVars, Reverts, Reverting,
            Kind, Continuations, Throws
  <1>4. ASSUME NEW t \in Thread, UpdatePendingMerges(t)
        PROVE  \A s \in Thread : Reverts(s)
    <2>1. \A s \in Thread : Kind(s)
      BY DEF Exclusive
    <2>2. /\ pc = [q \in Process |-> pc[q]] /\ Thread \subseteq Process
          /\ then \in [Thread -> Continuations]
      BY DEF IInv, Typed, Process
    <2> QED
      BY <1>4, <2>1, <2>2
         DEF UpdatePendingMerges, GoTo, GoToThen, Stays, threadVars, Reverts,
            Reverting, Kind, Continuations, Throws
  <1>5. ASSUME NEW t \in Thread, Commit(t)
        PROVE  \A s \in Thread : Reverts(s)
    <2>1. \A s \in Thread : Kind(s)
      BY DEF Exclusive
    <2>2. /\ pc = [q \in Process |-> pc[q]] /\ Thread \subseteq Process
          /\ then \in [Thread -> Continuations]
      BY DEF IInv, Typed, Process
    <2> QED
      BY <1>5, <2>1, <2>2
         DEF Commit, GoTo, GoToThen, Stays, threadVars, Reverts, Reverting,
            Kind, Continuations, Throws
  <1>6. ASSUME NEW t \in Thread, Leave(t)
        PROVE  \A s \in Thread : Reverts(s)
    <2>1. \A s \in Thread : Kind(s)
      BY DEF Exclusive
    <2>2. /\ pc = [q \in Process |-> pc[q]] /\ Thread \subseteq Process
          /\ then \in [Thread -> Continuations]
      BY DEF IInv, Typed, Process
    <2> QED
      BY <1>6, <2>1, <2>2
         DEF Leave, GoTo, GoToThen, Stays, threadVars, Reverts, Reverting,
            Kind, Continuations, Throws
  <1>7. ASSUME NEW t \in Thread, OptimizeMark(t)
        PROVE  \A s \in Thread : Reverts(s)
    <2>1. \A s \in Thread : Kind(s)
      BY DEF Exclusive
    <2>2. /\ pc = [q \in Process |-> pc[q]] /\ Thread \subseteq Process
          /\ then \in [Thread -> Continuations]
      BY DEF IInv, Typed, Process
    <2> QED
      BY <1>7, <2>1, <2>2
         DEF OptimizeMark, GoTo, GoToThen, Stays, threadVars, Reverts,
            Reverting, Kind, Continuations, Throws
  <1>8. ASSUME NEW t \in Thread, OptimizeWait(t)
        PROVE  \A s \in Thread : Reverts(s)
    <2>1. \A s \in Thread : Kind(s)
      BY DEF Exclusive
    <2>2. /\ pc = [q \in Process |-> pc[q]] /\ Thread \subseteq Process
          /\ then \in [Thread -> Continuations]
      BY DEF IInv, Typed, Process
    <2> QED
      BY <1>8, <2>1, <2>2
         DEF OptimizeWait, GoTo, GoToThen, Stays, threadVars, Reverts,
            Reverting, Kind, Continuations, Throws
  <1>9. ASSUME NEW t \in Thread, PauseAllThreads(t)
        PROVE  \A s \in Thread : Reverts(s)
    <2>1. \A s \in Thread : Kind(s)
      BY DEF Exclusive
    <2>2. /\ pc = [q \in Process |-> pc[q]] /\ Thread \subseteq Process
          /\ then \in [Thread -> Continuations]
      BY DEF IInv, Typed, Process
    <2> QED
      BY <1>9, <2>1, <2>2
         DEF PauseAllThreads, GoTo, GoToThen, Stays, threadVars, Reverts,
            Reverting, Kind, Continuations, Throws
  <1>10. ASSUME NEW t \in Thread, AcquireRead(t)
        PROVE  \A s \in Thread : Reverts(s)
    <2>1. \A s \in Thread : Kind(s)
      BY DEF Exclusive
    <2>2. /\ pc = [q \in Process |-> pc[q]] /\ Thread \subseteq Process
          /\ then \in [Thread -> Continuations]
      BY DEF IInv, Typed, Process
    <2> QED
      BY <1>10, <2>1, <2>2
         DEF AcquireRead, GoTo, GoToThen, Stays, threadVars, Reverts,
            Reverting, Kind, Continuations, Throws
  <1>11. ASSUME NEW t \in Thread, StartTransaction(t)
        PROVE  \A s \in Thread : Reverts(s)
    <2>1. \A s \in Thread : Kind(s)
      BY DEF Exclusive
    <2>2. /\ pc = [q \in Process |-> pc[q]] /\ Thread \subseteq Process
          /\ then \in [Thread -> Continuations]
      BY DEF IInv, Typed, Process
    <2> QED
      BY <1>11, <2>1, <2>2
         DEF StartTransaction, TakesWriteLock, UpgradeReadToWrite,
            AcquireWrite, TakesLock, GoTo, GoToThen, Stays, threadVars,
            Reverts, Reverting, Kind, Continuations, Throws
  <1>12. ASSUME NEW t \in Thread, AddExternal(t)
        PROVE  \A s \in Thread : Reverts(s)
    <2>1. \A s \in Thread : Kind(s)
      BY DEF Exclusive
    <2>2. /\ pc = [q \in Process |-> pc[q]] /\ Thread \subseteq Process
          /\ then \in [Thread -> Continuations]
      BY DEF IInv, Typed, Process
    <2> QED
      BY <1>12, <2>1, <2>2
         DEF AddExternal, GoTo, GoToThen, Stays, threadVars, Reverts,
            Reverting, Kind, Continuations, Throws
  <1>13. ASSUME NEW t \in Thread, TransactionOpen(t)
        PROVE  \A s \in Thread : Reverts(s)
    <2>1. \A s \in Thread : Kind(s)
      BY DEF Exclusive
    <2>2. /\ pc = [q \in Process |-> pc[q]] /\ Thread \subseteq Process
          /\ then \in [Thread -> Continuations]
      BY DEF IInv, Typed, Process
    <2> QED
      BY <1>13, <2>1, <2>2
         DEF TransactionOpen, GoTo, GoToThen, Stays, threadVars, Reverts,
            Reverting, Kind, Continuations, Throws
  <1>14. ASSUME NEW t \in Thread, ResolveExternal(t)
        PROVE  \A s \in Thread : Reverts(s)
    <2>1. \A s \in Thread : Kind(s)
      BY DEF Exclusive
    <2>2. /\ pc = [q \in Process |-> pc[q]] /\ Thread \subseteq Process
          /\ then \in [Thread -> Continuations]
      BY DEF IInv, Typed, Process
    <2> QED
      BY <1>14, <2>1, <2>2
         DEF ResolveExternal, GoTo, GoToThen, Stays, threadVars, Reverts,
            Reverting, Kind, Continuations, Throws
  <1>15. ASSUME NEW t \in Thread, ReadersGet(t)
        PROVE  \A s \in Thread : Reverts(s)
    <2>1. \A s \in Thread : Kind(s)
      BY DEF Exclusive
    <2>2. /\ pc = [q \in Process |-> pc[q]] /\ Thread \subseteq Process
          /\ then \in [Thread -> Continuations]
      BY DEF IInv, Typed, Process
    <2> QED
      BY <1>15, <2>1, <2>2
         DEF ReadersGet, GoTo, GoToThen, Stays, threadVars, Reverts,
            Reverting, Kind, Continuations, Throws
  <1>16. ASSUME NEW t \in Thread, ReadersPut(t)
        PROVE  \A s \in Thread : Reverts(s)
    <2>1. \A s \in Thread : Kind(s)
      BY DEF Exclusive
    <2>2. /\ pc = [q \in Process |-> pc[q]] /\ Thread \subseteq Process
          /\ then \in [Thread -> Continuations]
      BY DEF IInv, Typed, Process
    <2> QED
      BY <1>16, <2>1, <2>2
         DEF ReadersPut, GoTo, GoToThen, Stays, threadVars, Reverts,
            Reverting, Kind, Continuations, Throws
  <1>17. ASSUME NEW t \in Thread, CommitTransaction(t)
        PROVE  \A s \in Thread : Reverts(s)
    <2>1. \A s \in Thread : Kind(s)
      BY DEF Exclusive
    <2>2. /\ pc = [q \in Process |-> pc[q]] /\ Thread \subseteq Process
          /\ then \in [Thread -> Continuations]
      BY DEF IInv, Typed, Process
    <2> QED
      BY <1>17, <2>1, <2>2
         DEF CommitTransaction, GoTo, GoToThen, Stays, threadVars, Reverts,
            Reverting, Kind, Continuations, Throws
  <1>18. ASSUME NEW t \in Thread, FinishMerges(t)
        PROVE  \A s \in Thread : Reverts(s)
    <2>1. Kind(t)
      BY DEF Exclusive
    <2>2. UNCHANGED then /\ \A s \in Thread \ {t} : pc'[s] = pc[s]
      BY <1>18
         DEF FinishMerges, MergesFinished, GoTo, Stays, IInv, Typed, Process
    <2>3. Reverting(t)' => Reverting(t) \/ MayRead(t)
      BY <1>18, <2>2
         DEF FinishMerges, MergesFinished, GoTo, Stays, IInv, Typed, Process,
            Reverting
    <2>4. Reverting(t)' => then[t] = "revert"
      BY <1>18, <2>2
         DEF FinishMerges, MergesFinished, GoTo, Stays, IInv, Typed, Process,
            Reverting
    <2> QED
      BY <2>2, <2>3, <2>4 DEF Reverts, Reverting
  <1>19. ASSUME NEW t \in Thread, FinishMergesWait(t)
        PROVE  \A s \in Thread : Reverts(s)
    <2>1. Kind(t)
      BY DEF Exclusive
    <2>2. UNCHANGED then /\ \A s \in Thread \ {t} : pc'[s] = pc[s]
      BY <1>19
         DEF FinishMergesWait, MergesFinished, GoTo, Stays, IInv, Typed, Process
    <2>3. Reverting(t)' => Reverting(t) \/ MayRead(t)
      BY <1>19, <2>2
         DEF FinishMergesWait, MergesFinished, GoTo, Stays, IInv, Typed, Process,
            Reverting
    <2>4. Reverting(t)' => then[t] = "revert"
      BY <1>19, <2>2
         DEF FinishMergesWait, MergesFinished, GoTo, Stays, IInv, Typed, Process,
            Reverting
    <2> QED
      BY <2>2, <2>3, <2>4 DEF Reverts, Reverting
  <1>20. ASSUME NEW t \in Thread, WaitForMerges(t)
        PROVE  \A s \in Thread : Reverts(s)
    <2>1. \A s \in Thread : Kind(s)
      BY DEF Exclusive
    <2>2. /\ pc = [q \in Process |-> pc[q]] /\ Thread \subseteq Process
          /\ then \in [Thread -> Continuations]
      BY DEF IInv, Typed, Process
    <2> QED
      BY <1>20, <2>1, <2>2
         DEF WaitForMerges, GoTo, GoToThen, Stays, threadVars, Reverts,
            Reverting, Kind, Continuations, Throws
  <1>21. ASSUME NEW t \in Thread, ShouldClose(t)
        PROVE  \A s \in Thread : Reverts(s)
    <2>1. \A s \in Thread : Kind(s)
      BY DEF Exclusive
    <2>2. /\ pc = [q \in Process |-> pc[q]] /\ Thread \subseteq Process
          /\ then \in [Thread -> Continuations]
      BY DEF IInv, Typed, Process
    <2> QED
      BY <1>21, <2>1, <2>2
         DEF ShouldClose, GoTo, GoToThen, Stays, threadVars, Reverts,
            Reverting, Kind, Continuations, Throws
  <1>22. ASSUME NEW t \in Thread, SyncThreads(t)
        PROVE  \A s \in Thread : Reverts(s)
    <2>1. \A s \in Thread : Kind(s)
      BY DEF Exclusive
    <2>2. /\ pc = [q \in Process |-> pc[q]] /\ Thread \subseteq Process
          /\ then \in [Thread -> Continuations]
      BY DEF IInv, Typed, Process
    <2> QED
      BY <1>22, <2>1, <2>2
         DEF SyncThreads, GoTo, GoToThen, Stays, threadVars, Reverts,
            Reverting, Kind, Continuations, Throws
  <1>23. ASSUME NEW t \in Thread, Revert(t)
        PROVE  \A s \in Thread : Reverts(s)
    <2>1. \A s \in Thread : Kind(s)
      BY DEF Exclusive
    <2>2. /\ pc = [q \in Process |-> pc[q]] /\ Thread \subseteq Process
          /\ then \in [Thread -> Continuations]
      BY DEF IInv, Typed, Process
    <2> QED
      BY <1>23, <2>1, <2>2
         DEF Revert, GoTo, GoToThen, Stays, threadVars, Reverts, Reverting,
            Kind, Continuations, Throws
  <1>24. ASSUME NEW t \in Thread, Recount(t)
        PROVE  \A s \in Thread : Reverts(s)
    <2>1. \A s \in Thread : Kind(s)
      BY DEF Exclusive
    <2>2. /\ pc = [q \in Process |-> pc[q]] /\ Thread \subseteq Process
          /\ then \in [Thread -> Continuations]
      BY DEF IInv, Typed, Process
    <2> QED
      BY <1>24, <2>1, <2>2
         DEF Recount, GoTo, GoToThen, Stays, threadVars, Reverts, Reverting,
            Kind, Continuations, Throws
  <1>25. ASSUME NEW t \in Thread, CloseInternal(t)
        PROVE  \A s \in Thread : Reverts(s)
    <2>1. \A s \in Thread : Kind(s)
      BY DEF Exclusive
    <2>2. /\ pc = [q \in Process |-> pc[q]] /\ Thread \subseteq Process
          /\ then \in [Thread -> Continuations]
      BY DEF IInv, Typed, Process
    <2> QED
      BY <1>25, <2>1, <2>2
         DEF CloseInternal, GoTo, GoToThen, Stays, threadVars, Reverts,
            Reverting, Kind, Continuations, Throws
  <1>26. ASSUME NEW t \in Thread, CloseMerges(t)
        PROVE  \A s \in Thread : Reverts(s)
    <2>1. \A s \in Thread : Kind(s)
      BY DEF Exclusive
    <2>2. /\ pc = [q \in Process |-> pc[q]] /\ Thread \subseteq Process
          /\ then \in [Thread -> Continuations]
      BY DEF IInv, Typed, Process
    <2> QED
      BY <1>26, <2>1, <2>2
         DEF CloseMerges, GoTo, GoToThen, Stays, threadVars, Reverts,
            Reverting, Kind, Continuations, Throws
  <1>27. ASSUME NEW t \in Thread, CloseStop(t)
        PROVE  \A s \in Thread : Reverts(s)
    <2>1. \A s \in Thread : Kind(s)
      BY DEF Exclusive
    <2>2. /\ pc = [q \in Process |-> pc[q]] /\ Thread \subseteq Process
          /\ then \in [Thread -> Continuations]
      BY DEF IInv, Typed, Process
    <2> QED
      BY <1>27, <2>1, <2>2
         DEF CloseStop, GoTo, GoToThen, Stays, threadVars, Reverts, Reverting,
            Kind, Continuations, Throws
  <1>28. ASSUME NEW t \in Thread, Closed(t)
        PROVE  \A s \in Thread : Reverts(s)
    <2>1. \A s \in Thread : Kind(s)
      BY DEF Exclusive
    <2>2. /\ pc = [q \in Process |-> pc[q]] /\ Thread \subseteq Process
          /\ then \in [Thread -> Continuations]
      BY DEF IInv, Typed, Process
    <2> QED
      BY <1>28, <2>1, <2>2
         DEF Closed, GoTo, GoToThen, Stays, threadVars, Reverts, Reverting,
            Kind, Continuations, Throws
  <1>29. ASSUME NEW t \in Thread, Schedule(t)
        PROVE  \A s \in Thread : Reverts(s)
    <2>1. \A s \in Thread : Kind(s)
      BY DEF Exclusive
    <2>2. /\ pc = [q \in Process |-> pc[q]] /\ Thread \subseteq Process
          /\ then \in [Thread -> Continuations]
      BY DEF IInv, Typed, Process
    <2> QED
      BY <1>29, <2>1, <2>2
         DEF Schedule, GoTo, GoToThen, Stays, threadVars, Reverts, Reverting,
            Kind, Continuations, Throws
  <1>30. ASSUME NEW t \in Thread, NEW m \in MergeThread, StartThread(t, m)
        PROVE  \A s \in Thread : Reverts(s)
    <2>1. \A s \in Thread : Kind(s)
      BY DEF Exclusive
    <2>2. /\ pc = [q \in Process |-> pc[q]] /\ Thread \subseteq Process
          /\ then \in [Thread -> Continuations]
      BY DEF IInv, Typed, Process
    <2> QED
      BY <1>30, <2>1, <2>2
         DEF StartThread, GoTo, GoToThen, Stays, threadVars, Reverts,
            Reverting, Kind, Continuations, Throws
  <1>31. ASSUME NEW p \in Process, MergeInit(p)
        PROVE  \A s \in Thread : Reverts(s)
    <2>1. \A s \in Thread : Kind(s)
      BY DEF Exclusive
    <2>2. /\ pc = [q \in Process |-> pc[q]] /\ Thread \subseteq Process
          /\ then \in [Thread -> Continuations]
      BY DEF IInv, Typed, Process
    <2> QED
      BY <1>31, <2>1, <2>2
         DEF MergeInit, Fails, Throws, GoTo, GoToThen, Stays, threadVars,
            Reverts, Reverting, Kind, Continuations, Throws
  <1>32. ASSUME NEW p \in Process, MergeMiddle(p)
        PROVE  \A s \in Thread : Reverts(s)
    <2>1. \A s \in Thread : Kind(s)
      BY DEF Exclusive
    <2>2. /\ pc = [q \in Process |-> pc[q]] /\ Thread \subseteq Process
          /\ then \in [Thread -> Continuations]
      BY DEF IInv, Typed, Process
    <2> QED
      BY <1>32, <2>1, <2>2
         DEF MergeMiddle, GoTo, GoToThen, Stays, threadVars, Reverts,
            Reverting, Kind, Continuations, Throws
  <1>33. ASSUME NEW p \in Process, CommitMerge(p)
        PROVE  \A s \in Thread : Reverts(s)
    <2>1. \A s \in Thread : Kind(s)
      BY DEF Exclusive
    <2>2. /\ pc = [q \in Process |-> pc[q]] /\ Thread \subseteq Process
          /\ then \in [Thread -> Continuations]
      BY DEF IInv, Typed, Process
    <2> QED
      BY <1>33, <2>1, <2>2
         DEF CommitMerge, GoTo, GoToThen, Stays, threadVars, Reverts,
            Reverting, Kind, Continuations, Throws
  <1>34. ASSUME NEW p \in Process, MergeDone(p)
        PROVE  \A s \in Thread : Reverts(s)
    <2>1. \A s \in Thread : Kind(s)
      BY DEF Exclusive
    <2>2. /\ pc = [q \in Process |-> pc[q]] /\ Thread \subseteq Process
          /\ then \in [Thread -> Continuations]
      BY DEF IInv, Typed, Process
    <2> QED
      BY <1>34, <2>1, <2>2
         DEF MergeDone, GoTo, GoToThen, Stays, threadVars, Reverts, Reverting,
            Kind, Continuations, Throws
  <1>35. ASSUME NEW p \in Process, MergeFailed(p)
        PROVE  \A s \in Thread : Reverts(s)
    <2>1. \A s \in Thread : Kind(s)
      BY DEF Exclusive
    <2>2. /\ pc = [q \in Process |-> pc[q]] /\ Thread \subseteq Process
          /\ then \in [Thread -> Continuations]
      BY DEF IInv, Typed, Process
    <2> QED
      BY <1>35, <2>1, <2>2
         DEF MergeFailed, Fails, Throws, GoTo, GoToThen, Stays, threadVars,
            Reverts, Reverting, Kind, Continuations, Throws
  <1>36. ASSUME NEW m \in MergeThread, NextMerge(m)
        PROVE  \A s \in Thread : Reverts(s)
    <2>1. \A s \in Thread : Kind(s)
      BY DEF Exclusive
    <2>2. /\ pc = [q \in Process |-> pc[q]] /\ Thread \subseteq Process
          /\ then \in [Thread -> Continuations]
      BY DEF IInv, Typed, Process
    <2> QED
      BY <1>36, <2>1, <2>2
         DEF NextMerge, GoTo, GoToThen, Stays, threadVars, Reverts, Reverting,
            Kind, Continuations, Throws
  <1>37. CASE UNCHANGED vars
    BY <1>37
      DEF vars, infoVars, commitVars, optVars, closeVars, lockVars,
         threadVars, Typed, IInv, Process, Reverts, Reverting
  <1> QED
    BY <1>1, <1>2, <1>3, <1>4, <1>5, <1>6, <1>7, <1>8, <1>9, <1>10, <1>11,
       <1>12, <1>13, <1>14, <1>15, <1>16, <1>17, <1>18, <1>19, <1>20, <1>21,
       <1>22, <1>23, <1>24, <1>25, <1>26, <1>27, <1>28, <1>29, <1>30, <1>31,
       <1>32, <1>33, <1>34, <1>35, <1>36, <1>37
      DEF Next, CallStep, MergeStep, Process

\* A close that reverts the segments finds no transaction.
LEMMA RevertingStep ==
    ASSUME IInv, Exclusive, NoneReplaced, [Next]_vars, NEW s \in Thread,
           Reverting(s)'
    PROVE  writeThread' = None
  <1>1. /\ Reverts(s) /\ LockMoves /\ Kind(s)' /\ Alone'
        /\ Kind(s) /\ Holder(s) /\ (Reverting(s) => writeThread = None)
    BY RevertsStep, LockStep, KindStep, CloserStep DEF Exclusive
  <1>2. writeThread = None
    <2>1. ~Reverting(s) => then[s] = "revert" /\ MayRead(s)
      BY <1>1 DEF Reverts
    <2>2. then[s] = "revert" => writeThread # s
      BY <1>1 DEF Kind, Holder
    <2> QED
      BY <1>1, <2>1, <2>2 DEF MayRead
  <1>3. Closer(s)
    <2>1. Reverting(s) => Closer(s)
      BY <1>1 DEF Reverting, Closer, Kind, Closing
    <2>2. then[s] = "revert" => Closer(s)
      BY <1>1 DEF Closer, Kind, Closing
    <2> QED
      BY <1>1, <2>1, <2>2 DEF Reverts
  <1>4. ~IsOpen
    BY <1>3 DEF Exclusive, IsOpen
  <1> QED
    BY <1>1, <1>2, <1>4 DEF LockMoves

\* Where a call that adds indexes has not flushed yet.
Unflushed == {"pause", "flush", "throw"}

\* Nothing is buffered while the indexing threads are paused.
Buffers(s) ==
    op'[s] = "addIndexesNoOptimize" /\ pc'[s] \notin Unflushed
        => \/ buffered' = 0
           \/ /\ op[s] = "addIndexesNoOptimize" /\ pc[s] \notin Unflushed
              /\ UNCHANGED buffered

\* A thread that has paused the indexing threads has counted itself.
LEMMA OwesPauses ==
    ASSUME Paused, NEW t \in Thread, Owes(t)
    PROVE  pauseThreads # 0
  <1> DEFINE O == {s \in Thread : Owes(s)}
  <1>1. t \in O
    OBVIOUS
  <1>2. O \subseteq Thread
    OBVIOUS
  <1> HIDE DEF O
  <1>3. IsFiniteSet(O)
    BY <1>2, FS_Subset, MergesAssumption
  <1>4. Cardinality(O) \in Nat /\ Cardinality(O) # 0
    BY <1>1, <1>3, FS_CardinalityType, FS_EmptySet
  <1>5. Cardinality(O) <= pauseThreads /\ pauseThreads \in Nat
    BY DEF Paused, O
  <1> QED
    BY <1>4, <1>5

\* So it is.
LEMMA BuffersStep ==
    ASSUME IInv, Exclusive, NoneReplaced, [Next]_vars
    PROVE  \A s \in Thread : Buffers(s)
  <1>1. ASSUME NEW t \in Thread, Call(t)
        PROVE  \A s \in Thread : Buffers(s)
    <2>1. \A s \in Thread : Kind(s)
      BY DEF Exclusive
    <2>2. /\ pc = [q \in Process |-> pc[q]] /\ Thread \subseteq Process
          /\ op \in [Thread -> Calls \cup {"none"}]
          /\ "addIndexes" \notin Calls
      BY DEF IInv, Typed, Process, NoneReplaced
    <2> QED
      BY <1>1, <2>1, <2>2
         DEF Call, GoTo, GoToThen, Stays, infoVars, threadVars, Buffers,
            Unflushed, AddIndexes
  <1>2. ASSUME NEW t \in Thread, AddDocument(t)
        PROVE  \A s \in Thread : Buffers(s)
    <2>1. /\ UNCHANGED op /\ pc[t] = "addDocument"
          /\ \A s \in Thread \ {t} : pc'[s] = pc[s]
      BY <1>2 DEF AddDocument, GoTo, Stays, IInv, Typed, Process
    <2>2. CASE docClosed
      BY <1>2, <2>1, <2>2 DEF AddDocument, Buffers, Unflushed
    <2>3. CASE ~docClosed
      <3>1. pauseThreads = 0 /\ Paused
        BY <1>2, <2>3 DEF AddDocument, IInv
      <3>2. \A s \in Thread : ~Owes(s)
        BY <3>1, OwesPauses
      <3>3. \A s \in Thread : op[s] = "addIndexesNoOptimize" => pc[s] = "pause"
        BY <3>2 DEF Owes, AddIndexes
      <3> QED
        BY <2>1, <3>3 DEF Buffers, Unflushed
    <2> QED
      BY <2>2, <2>3
  <1>3. ASSUME NEW t \in Thread, Flush(t)
        PROVE  \A s \in Thread : Buffers(s)
    <2>1. \A s \in Thread : Kind(s)
      BY DEF Exclusive
    <2>2. /\ pc = [q \in Process |-> pc[q]] /\ Thread \subseteq Process
          /\ op \in [Thread -> Calls \cup {"none"}]
          /\ "addIndexes" \notin Calls
      BY DEF IInv, Typed, Process, NoneReplaced
    <2> QED
      BY <1>3, <2>1, <2>2
         DEF Flush, GoTo, GoToThen, Stays, infoVars, threadVars, Buffers,
            Unflushed, AddIndexes
  <1>4. ASSUME NEW t \in Thread, UpdatePendingMerges(t)
        PROVE  \A s \in Thread : Buffers(s)
    <2>1. \A s \in Thread : Kind(s)
      BY DEF Exclusive
    <2>2. /\ pc = [q \in Process |-> pc[q]] /\ Thread \subseteq Process
          /\ op \in [Thread -> Calls \cup {"none"}]
          /\ "addIndexes" \notin Calls
      BY DEF IInv, Typed, Process, NoneReplaced
    <2> QED
      BY <1>4, <2>1, <2>2
         DEF UpdatePendingMerges, GoTo, GoToThen, Stays, infoVars, threadVars,
            Buffers, Unflushed, AddIndexes
  <1>5. ASSUME NEW t \in Thread, Commit(t)
        PROVE  \A s \in Thread : Buffers(s)
    <2>1. \A s \in Thread : Kind(s)
      BY DEF Exclusive
    <2>2. /\ pc = [q \in Process |-> pc[q]] /\ Thread \subseteq Process
          /\ op \in [Thread -> Calls \cup {"none"}]
          /\ "addIndexes" \notin Calls
      BY DEF IInv, Typed, Process, NoneReplaced
    <2> QED
      BY <1>5, <2>1, <2>2
         DEF Commit, GoTo, GoToThen, Stays, infoVars, threadVars, Buffers,
            Unflushed, AddIndexes
  <1>6. ASSUME NEW t \in Thread, Leave(t)
        PROVE  \A s \in Thread : Buffers(s)
    <2>1. \A s \in Thread : Kind(s)
      BY DEF Exclusive
    <2>2. /\ pc = [q \in Process |-> pc[q]] /\ Thread \subseteq Process
          /\ op \in [Thread -> Calls \cup {"none"}]
          /\ "addIndexes" \notin Calls
      BY DEF IInv, Typed, Process, NoneReplaced
    <2> QED
      BY <1>6, <2>1, <2>2
         DEF Leave, GoTo, GoToThen, Stays, infoVars, threadVars, Buffers,
            Unflushed, AddIndexes
  <1>7. ASSUME NEW t \in Thread, OptimizeMark(t)
        PROVE  \A s \in Thread : Buffers(s)
    <2>1. \A s \in Thread : Kind(s)
      BY DEF Exclusive
    <2>2. /\ pc = [q \in Process |-> pc[q]] /\ Thread \subseteq Process
          /\ op \in [Thread -> Calls \cup {"none"}]
          /\ "addIndexes" \notin Calls
      BY DEF IInv, Typed, Process, NoneReplaced
    <2> QED
      BY <1>7, <2>1, <2>2
         DEF OptimizeMark, GoTo, GoToThen, Stays, infoVars, threadVars,
            Buffers, Unflushed, AddIndexes
  <1>8. ASSUME NEW t \in Thread, OptimizeWait(t)
        PROVE  \A s \in Thread : Buffers(s)
    <2>1. \A s \in Thread : Kind(s)
      BY DEF Exclusive
    <2>2. /\ pc = [q \in Process |-> pc[q]] /\ Thread \subseteq Process
          /\ op \in [Thread -> Calls \cup {"none"}]
          /\ "addIndexes" \notin Calls
      BY DEF IInv, Typed, Process, NoneReplaced
    <2> QED
      BY <1>8, <2>1, <2>2
         DEF OptimizeWait, GoTo, GoToThen, Stays, infoVars, threadVars,
            Buffers, Unflushed, AddIndexes
  <1>9. ASSUME NEW t \in Thread, PauseAllThreads(t)
        PROVE  \A s \in Thread : Buffers(s)
    <2>1. \A s \in Thread : Kind(s)
      BY DEF Exclusive
    <2>2. /\ pc = [q \in Process |-> pc[q]] /\ Thread \subseteq Process
          /\ op \in [Thread -> Calls \cup {"none"}]
          /\ "addIndexes" \notin Calls
      BY DEF IInv, Typed, Process, NoneReplaced
    <2> QED
      BY <1>9, <2>1, <2>2
         DEF PauseAllThreads, GoTo, GoToThen, Stays, infoVars, threadVars,
            Buffers, Unflushed, AddIndexes
  <1>10. ASSUME NEW t \in Thread, AcquireRead(t)
        PROVE  \A s \in Thread : Buffers(s)
    <2>1. \A s \in Thread : Kind(s)
      BY DEF Exclusive
    <2>2. /\ pc = [q \in Process |-> pc[q]] /\ Thread \subseteq Process
          /\ op \in [Thread -> Calls \cup {"none"}]
          /\ "addIndexes" \notin Calls
      BY DEF IInv, Typed, Process, NoneReplaced
    <2> QED
      BY <1>10, <2>1, <2>2
         DEF AcquireRead, GoTo, GoToThen, Stays, infoVars, threadVars,
            Buffers, Unflushed, AddIndexes
  <1>11. ASSUME NEW t \in Thread, StartTransaction(t)
        PROVE  \A s \in Thread : Buffers(s)
    <2>1. \A s \in Thread : Kind(s)
      BY DEF Exclusive
    <2>2. /\ pc = [q \in Process |-> pc[q]] /\ Thread \subseteq Process
          /\ op \in [Thread -> Calls \cup {"none"}]
          /\ "addIndexes" \notin Calls
      BY DEF IInv, Typed, Process, NoneReplaced
    <2> QED
      BY <1>11, <2>1, <2>2
         DEF StartTransaction, TakesWriteLock, UpgradeReadToWrite,
            AcquireWrite, TakesLock, GoTo, GoToThen, Stays, infoVars,
            threadVars, Buffers, Unflushed, AddIndexes
  <1>12. ASSUME NEW t \in Thread, AddExternal(t)
        PROVE  \A s \in Thread : Buffers(s)
    <2>1. \A s \in Thread : Kind(s)
      BY DEF Exclusive
    <2>2. /\ pc = [q \in Process |-> pc[q]] /\ Thread \subseteq Process
          /\ op \in [Thread -> Calls \cup {"none"}]
          /\ "addIndexes" \notin Calls
      BY DEF IInv, Typed, Process, NoneReplaced
    <2> QED
      BY <1>12, <2>1, <2>2
         DEF AddExternal, GoTo, GoToThen, Stays, infoVars, threadVars,
            Buffers, Unflushed, AddIndexes
  <1>13. ASSUME NEW t \in Thread, TransactionOpen(t)
        PROVE  \A s \in Thread : Buffers(s)
    <2>1. \A s \in Thread : Kind(s)
      BY DEF Exclusive
    <2>2. /\ pc = [q \in Process |-> pc[q]] /\ Thread \subseteq Process
          /\ op \in [Thread -> Calls \cup {"none"}]
          /\ "addIndexes" \notin Calls
      BY DEF IInv, Typed, Process, NoneReplaced
    <2> QED
      BY <1>13, <2>1, <2>2
         DEF TransactionOpen, GoTo, GoToThen, Stays, infoVars, threadVars,
            Buffers, Unflushed, AddIndexes
  <1>14. ASSUME NEW t \in Thread, ResolveExternal(t)
        PROVE  \A s \in Thread : Buffers(s)
    <2>1. \A s \in Thread : Kind(s)
      BY DEF Exclusive
    <2>2. /\ pc = [q \in Process |-> pc[q]] /\ Thread \subseteq Process
          /\ op \in [Thread -> Calls \cup {"none"}]
          /\ "addIndexes" \notin Calls
      BY DEF IInv, Typed, Process, NoneReplaced
    <2> QED
      BY <1>14, <2>1, <2>2
         DEF ResolveExternal, GoTo, GoToThen, Stays, infoVars, threadVars,
            Buffers, Unflushed, AddIndexes
  <1>15. ASSUME NEW t \in Thread, ReadersGet(t)
        PROVE  \A s \in Thread : Buffers(s)
    <2>1. \A s \in Thread : Kind(s)
      BY DEF Exclusive
    <2>2. /\ pc = [q \in Process |-> pc[q]] /\ Thread \subseteq Process
          /\ op \in [Thread -> Calls \cup {"none"}]
          /\ "addIndexes" \notin Calls
      BY DEF IInv, Typed, Process, NoneReplaced
    <2> QED
      BY <1>15, <2>1, <2>2
         DEF ReadersGet, GoTo, GoToThen, Stays, infoVars, threadVars, Buffers,
            Unflushed, AddIndexes
  <1>16. ASSUME NEW t \in Thread, ReadersPut(t)
        PROVE  \A s \in Thread : Buffers(s)
    <2>1. \A s \in Thread : Kind(s)
      BY DEF Exclusive
    <2>2. /\ pc = [q \in Process |-> pc[q]] /\ Thread \subseteq Process
          /\ op \in [Thread -> Calls \cup {"none"}]
          /\ "addIndexes" \notin Calls
      BY DEF IInv, Typed, Process, NoneReplaced
    <2> QED
      BY <1>16, <2>1, <2>2
         DEF ReadersPut, GoTo, GoToThen, Stays, infoVars, threadVars, Buffers,
            Unflushed, AddIndexes
  <1>17. ASSUME NEW t \in Thread, CommitTransaction(t)
        PROVE  \A s \in Thread : Buffers(s)
    <2>1. \A s \in Thread : Kind(s)
      BY DEF Exclusive
    <2>2. /\ pc = [q \in Process |-> pc[q]] /\ Thread \subseteq Process
          /\ op \in [Thread -> Calls \cup {"none"}]
          /\ "addIndexes" \notin Calls
      BY DEF IInv, Typed, Process, NoneReplaced
    <2> QED
      BY <1>17, <2>1, <2>2
         DEF CommitTransaction, GoTo, GoToThen, Stays, infoVars, threadVars,
            Buffers, Unflushed, AddIndexes
  <1>18. ASSUME NEW t \in Thread, FinishMerges(t)
        PROVE  \A s \in Thread : Buffers(s)
    <2>1. UNCHANGED op /\ \A s \in Thread \ {t} : pc'[s] = pc[s]
      BY <1>18
         DEF FinishMerges, MergesFinished, GoTo, Stays, IInv, Typed, Process
    <2>2. buffered' = 0 \/ UNCHANGED buffered
      BY <1>18
         DEF FinishMerges, MergesFinished, RolledBack, AllDeleted, infoVars
    <2>3. pc[t] \notin Unflushed
      BY <1>18 DEF FinishMerges, Unflushed
    <2> QED
      BY <2>1, <2>2, <2>3 DEF Buffers
  <1>19. ASSUME NEW t \in Thread, FinishMergesWait(t)
        PROVE  \A s \in Thread : Buffers(s)
    <2>1. UNCHANGED op /\ \A s \in Thread \ {t} : pc'[s] = pc[s]
      BY <1>19
         DEF FinishMergesWait, MergesFinished, GoTo, Stays, IInv, Typed, Process
    <2>2. buffered' = 0 \/ UNCHANGED buffered
      BY <1>19
         DEF FinishMergesWait, MergesFinished, RolledBack, AllDeleted, infoVars
    <2>3. pc[t] \notin Unflushed
      BY <1>19 DEF FinishMergesWait, Unflushed
    <2> QED
      BY <2>1, <2>2, <2>3 DEF Buffers
  <1>20. ASSUME NEW t \in Thread, WaitForMerges(t)
        PROVE  \A s \in Thread : Buffers(s)
    <2>1. \A s \in Thread : Kind(s)
      BY DEF Exclusive
    <2>2. /\ pc = [q \in Process |-> pc[q]] /\ Thread \subseteq Process
          /\ op \in [Thread -> Calls \cup {"none"}]
          /\ "addIndexes" \notin Calls
      BY DEF IInv, Typed, Process, NoneReplaced
    <2> QED
      BY <1>20, <2>1, <2>2
         DEF WaitForMerges, GoTo, GoToThen, Stays, infoVars, threadVars,
            Buffers, Unflushed, AddIndexes
  <1>21. ASSUME NEW t \in Thread, ShouldClose(t)
        PROVE  \A s \in Thread : Buffers(s)
    <2>1. \A s \in Thread : Kind(s)
      BY DEF Exclusive
    <2>2. /\ pc = [q \in Process |-> pc[q]] /\ Thread \subseteq Process
          /\ op \in [Thread -> Calls \cup {"none"}]
          /\ "addIndexes" \notin Calls
      BY DEF IInv, Typed, Process, NoneReplaced
    <2> QED
      BY <1>21, <2>1, <2>2
         DEF ShouldClose, GoTo, GoToThen, Stays, infoVars, threadVars,
            Buffers, Unflushed, AddIndexes
  <1>22. ASSUME NEW t \in Thread, SyncThreads(t)
        PROVE  \A s \in Thread : Buffers(s)
    <2>1. \A s \in Thread : Kind(s)
      BY DEF Exclusive
    <2>2. /\ pc = [q \in Process |-> pc[q]] /\ Thread \subseteq Process
          /\ op \in [Thread -> Calls \cup {"none"}]
          /\ "addIndexes" \notin Calls
      BY DEF IInv, Typed, Process, NoneReplaced
    <2> QED
      BY <1>22, <2>1, <2>2
         DEF SyncThreads, GoTo, GoToThen, Stays, infoVars, threadVars,
            Buffers, Unflushed, AddIndexes
  <1>23. ASSUME NEW t \in Thread, Revert(t)
        PROVE  \A s \in Thread : Buffers(s)
    <2>1. \A s \in Thread : Kind(s)
      BY DEF Exclusive
    <2>2. /\ pc = [q \in Process |-> pc[q]] /\ Thread \subseteq Process
          /\ op \in [Thread -> Calls \cup {"none"}]
          /\ "addIndexes" \notin Calls
      BY DEF IInv, Typed, Process, NoneReplaced
    <2> QED
      BY <1>23, <2>1, <2>2
         DEF Revert, GoTo, GoToThen, Stays, infoVars, threadVars, Buffers,
            Unflushed, AddIndexes
  <1>24. ASSUME NEW t \in Thread, Recount(t)
        PROVE  \A s \in Thread : Buffers(s)
    <2>1. \A s \in Thread : Kind(s)
      BY DEF Exclusive
    <2>2. /\ pc = [q \in Process |-> pc[q]] /\ Thread \subseteq Process
          /\ op \in [Thread -> Calls \cup {"none"}]
          /\ "addIndexes" \notin Calls
      BY DEF IInv, Typed, Process, NoneReplaced
    <2> QED
      BY <1>24, <2>1, <2>2
         DEF Recount, GoTo, GoToThen, Stays, infoVars, threadVars, Buffers,
            Unflushed, AddIndexes
  <1>25. ASSUME NEW t \in Thread, CloseInternal(t)
        PROVE  \A s \in Thread : Buffers(s)
    <2>1. \A s \in Thread : Kind(s)
      BY DEF Exclusive
    <2>2. /\ pc = [q \in Process |-> pc[q]] /\ Thread \subseteq Process
          /\ op \in [Thread -> Calls \cup {"none"}]
          /\ "addIndexes" \notin Calls
      BY DEF IInv, Typed, Process, NoneReplaced
    <2> QED
      BY <1>25, <2>1, <2>2
         DEF CloseInternal, GoTo, GoToThen, Stays, infoVars, threadVars,
            Buffers, Unflushed, AddIndexes
  <1>26. ASSUME NEW t \in Thread, CloseMerges(t)
        PROVE  \A s \in Thread : Buffers(s)
    <2>1. \A s \in Thread : Kind(s)
      BY DEF Exclusive
    <2>2. /\ pc = [q \in Process |-> pc[q]] /\ Thread \subseteq Process
          /\ op \in [Thread -> Calls \cup {"none"}]
          /\ "addIndexes" \notin Calls
      BY DEF IInv, Typed, Process, NoneReplaced
    <2> QED
      BY <1>26, <2>1, <2>2
         DEF CloseMerges, GoTo, GoToThen, Stays, infoVars, threadVars,
            Buffers, Unflushed, AddIndexes
  <1>27. ASSUME NEW t \in Thread, CloseStop(t)
        PROVE  \A s \in Thread : Buffers(s)
    <2>1. \A s \in Thread : Kind(s)
      BY DEF Exclusive
    <2>2. /\ pc = [q \in Process |-> pc[q]] /\ Thread \subseteq Process
          /\ op \in [Thread -> Calls \cup {"none"}]
          /\ "addIndexes" \notin Calls
      BY DEF IInv, Typed, Process, NoneReplaced
    <2> QED
      BY <1>27, <2>1, <2>2
         DEF CloseStop, GoTo, GoToThen, Stays, infoVars, threadVars, Buffers,
            Unflushed, AddIndexes
  <1>28. ASSUME NEW t \in Thread, Closed(t)
        PROVE  \A s \in Thread : Buffers(s)
    <2>1. \A s \in Thread : Kind(s)
      BY DEF Exclusive
    <2>2. /\ pc = [q \in Process |-> pc[q]] /\ Thread \subseteq Process
          /\ op \in [Thread -> Calls \cup {"none"}]
          /\ "addIndexes" \notin Calls
      BY DEF IInv, Typed, Process, NoneReplaced
    <2> QED
      BY <1>28, <2>1, <2>2
         DEF Closed, GoTo, GoToThen, Stays, infoVars, threadVars, Buffers,
            Unflushed, AddIndexes
  <1>29. ASSUME NEW t \in Thread, Schedule(t)
        PROVE  \A s \in Thread : Buffers(s)
    <2>1. \A s \in Thread : Kind(s)
      BY DEF Exclusive
    <2>2. /\ pc = [q \in Process |-> pc[q]] /\ Thread \subseteq Process
          /\ op \in [Thread -> Calls \cup {"none"}]
          /\ "addIndexes" \notin Calls
      BY DEF IInv, Typed, Process, NoneReplaced
    <2> QED
      BY <1>29, <2>1, <2>2
         DEF Schedule, GoTo, GoToThen, Stays, infoVars, threadVars, Buffers,
            Unflushed, AddIndexes
  <1>30. ASSUME NEW t \in Thread, NEW m \in MergeThread, StartThread(t, m)
        PROVE  \A s \in Thread : Buffers(s)
    <2>1. \A s \in Thread : Kind(s)
      BY DEF Exclusive
    <2>2. /\ pc = [q \in Process |-> pc[q]] /\ Thread \subseteq Process
          /\ op \in [Thread -> Calls \cup {"none"}]
          /\ "addIndexes" \notin Calls
      BY DEF IInv, Typed, Process, NoneReplaced
    <2> QED
      BY <1>30, <2>1, <2>2
         DEF StartThread, GoTo, GoToThen, Stays, infoVars, threadVars,
            Buffers, Unflushed, AddIndexes
  <1>31. ASSUME NEW p \in Process, MergeInit(p)
        PROVE  \A s \in Thread : Buffers(s)
    <2>1. \A s \in Thread : Kind(s)
      BY DEF Exclusive
    <2>2. /\ pc = [q \in Process |-> pc[q]] /\ Thread \subseteq Process
          /\ op \in [Thread -> Calls \cup {"none"}]
          /\ "addIndexes" \notin Calls
      BY DEF IInv, Typed, Process, NoneReplaced
    <2> QED
      BY <1>31, <2>1, <2>2
         DEF MergeInit, Fails, Throws, GoTo, GoToThen, Stays, infoVars,
            threadVars, Buffers, Unflushed, AddIndexes
  <1>32. ASSUME NEW p \in Process, MergeMiddle(p)
        PROVE  \A s \in Thread : Buffers(s)
    <2>1. \A s \in Thread : Kind(s)
      BY DEF Exclusive
    <2>2. /\ pc = [q \in Process |-> pc[q]] /\ Thread \subseteq Process
          /\ op \in [Thread -> Calls \cup {"none"}]
          /\ "addIndexes" \notin Calls
      BY DEF IInv, Typed, Process, NoneReplaced
    <2> QED
      BY <1>32, <2>1, <2>2
         DEF MergeMiddle, GoTo, GoToThen, Stays, infoVars, threadVars,
            Buffers, Unflushed, AddIndexes
  <1>33. ASSUME NEW p \in Process, CommitMerge(p)
        PROVE  \A s \in Thread : Buffers(s)
    <2>1. \A s \in Thread : Kind(s)
      BY DEF Exclusive
    <2>2. /\ pc = [q \in Process |-> pc[q]] /\ Thread \subseteq Process
          /\ op \in [Thread -> Calls \cup {"none"}]
          /\ "addIndexes" \notin Calls
      BY DEF IInv, Typed, Process, NoneReplaced
    <2> QED
      BY <1>33, <2>1, <2>2
         DEF CommitMerge, GoTo, GoToThen, Stays, infoVars, threadVars,
            Buffers, Unflushed, AddIndexes
  <1>34. ASSUME NEW p \in Process, MergeDone(p)
        PROVE  \A s \in Thread : Buffers(s)
    <2>1. \A s \in Thread : Kind(s)
      BY DEF Exclusive
    <2>2. /\ pc = [q \in Process |-> pc[q]] /\ Thread \subseteq Process
          /\ op \in [Thread -> Calls \cup {"none"}]
          /\ "addIndexes" \notin Calls
      BY DEF IInv, Typed, Process, NoneReplaced
    <2> QED
      BY <1>34, <2>1, <2>2
         DEF MergeDone, GoTo, GoToThen, Stays, infoVars, threadVars, Buffers,
            Unflushed, AddIndexes
  <1>35. ASSUME NEW p \in Process, MergeFailed(p)
        PROVE  \A s \in Thread : Buffers(s)
    <2>1. \A s \in Thread : Kind(s)
      BY DEF Exclusive
    <2>2. /\ pc = [q \in Process |-> pc[q]] /\ Thread \subseteq Process
          /\ op \in [Thread -> Calls \cup {"none"}]
          /\ "addIndexes" \notin Calls
      BY DEF IInv, Typed, Process, NoneReplaced
    <2> QED
      BY <1>35, <2>1, <2>2
         DEF MergeFailed, Fails, Throws, GoTo, GoToThen, Stays, infoVars,
            threadVars, Buffers, Unflushed, AddIndexes
  <1>36. ASSUME NEW m \in MergeThread, NextMerge(m)
        PROVE  \A s \in Thread : Buffers(s)
    <2>1. \A s \in Thread : Kind(s)
      BY DEF Exclusive
    <2>2. /\ pc = [q \in Process |-> pc[q]] /\ Thread \subseteq Process
          /\ op \in [Thread -> Calls \cup {"none"}]
          /\ "addIndexes" \notin Calls
      BY DEF IInv, Typed, Process, NoneReplaced
    <2> QED
      BY <1>36, <2>1, <2>2
         DEF NextMerge, GoTo, GoToThen, Stays, infoVars, threadVars, Buffers,
            Unflushed, AddIndexes
  <1>37. CASE UNCHANGED vars
    BY <1>37
      DEF vars, infoVars, commitVars, optVars, closeVars, lockVars,
         threadVars, Typed, IInv, Process, Buffers
  <1> QED
    BY <1>1, <1>2, <1>3, <1>4, <1>5, <1>6, <1>7, <1>8, <1>9, <1>10, <1>11,
       <1>12, <1>13, <1>14, <1>15, <1>16, <1>17, <1>18, <1>19, <1>20, <1>21,
       <1>22, <1>23, <1>24, <1>25, <1>26, <1>27, <1>28, <1>29, <1>30, <1>31,
       <1>32, <1>33, <1>34, <1>35, <1>36, <1>37
      DEF Next, CallStep, MergeStep, Process

\* A step keeps who may do what.
LEMMA ExclusiveStep ==
    ASSUME IInv, Exclusive, NoneReplaced, [Next]_vars
    PROVE  Exclusive'
  <1>1. ASSUME NEW t \in Thread
        PROVE  HasFlushed(t)'
    <2>1. Buffers(t) /\ HasFlushed(t)
      BY BuffersStep DEF Exclusive
    <2> QED
      BY <2>1 DEF Buffers, HasFlushed, Unflushed
  <1>2. Alone' /\ readThreads' = {}
    BY CloserStep, LockStep
  <1>3. \A t \in Thread : Kind(t)' /\ Holder(t)'
    BY KindStep, HolderStep
  <1>4. \A t \in Thread : Reverting(t)' => writeThread' = None
    BY RevertingStep
  <1> QED
    BY <1>1, <1>2, <1>3, <1>4 DEF Exclusive, Alone

-----------------------------------------------------------------------------
(***************************************************************************)
(* The documents are kept.                                                 *)
(***************************************************************************)
\* The documents are where they should be: those of the segments, of the last
\* commit, and of the start of a transaction, which has put in txAdded since.
Kept ==
    /\ Docs(segmentInfos) = expected /\ Docs(rollbackSegmentInfos) = committed
    /\ writeThread # None
          => Docs(localRollbackSegmentInfos) = Without(expected, txAdded)
    /\ writeThread = None => txAdded = {}
    /\ \A t \in Thread : pc[t] = "addExternal" => txAdded = {}
    /\ \A infos \in Lists : ToSet(Docs(infos)) \subseteq 1..added

\* No document moves, and no transaction begins.
Quiet ==
    /\ UNCHANGED <<segmentInfos, expected, added, txAdded, commitVars,
                   writeThread, localRollbackSegmentInfos>>
    /\ \A t \in Thread : pc'[t] = "addExternal" => pc[t] = "addExternal"

\* What a call or a merge does to the documents.
DocsMove ==
    \/ Quiet
    \/ \E t \in Thread :
          \/ Flush(t) \/ Commit(t) \/ StartTransaction(t) \/ AddExternal(t)
          \/ CommitTransaction(t) \/ FinishMerges(t) \/ FinishMergesWait(t)
          \/ Revert(t)
    \/ \E p \in Process : CommitMerge(p)

\* So it is.
LEMMA DocsStep ==
    ASSUME IInv, Exclusive, NoneReplaced, [Next]_vars
    PROVE  DocsMove
  <1>1. ASSUME NEW t \in Thread, Call(t)
        PROVE  DocsMove
    BY <1>1
      DEF Call, GoTo, GoToThen, Stays, infoVars, commitVars, optVars,
         closeVars, lockVars, threadVars, DocsMove, Quiet, Typed, IInv,
         Process
  <1>2. ASSUME NEW t \in Thread, AddDocument(t)
        PROVE  DocsMove
    BY <1>2
      DEF AddDocument, GoTo, GoToThen, Stays, infoVars, commitVars, optVars,
         closeVars, lockVars, threadVars, DocsMove, Quiet, Typed, IInv,
         Process
  <1>3. ASSUME NEW t \in Thread, Flush(t)
        PROVE  DocsMove
    BY <1>3 DEF DocsMove
  <1>4. ASSUME NEW t \in Thread, UpdatePendingMerges(t)
        PROVE  DocsMove
    BY <1>4
      DEF UpdatePendingMerges, GoTo, GoToThen, Stays, infoVars, commitVars,
         optVars, closeVars, lockVars, threadVars, DocsMove, Quiet, Typed,
         IInv, Process
  <1>5. ASSUME NEW t \in Thread, Commit(t)
        PROVE  DocsMove
    BY <1>5 DEF DocsMove
  <1>6. ASSUME NEW t \in Thread, Leave(t)
        PROVE  DocsMove
    BY <1>6
      DEF Leave, GoTo, GoToThen, Stays, infoVars, commitVars, optVars,
         closeVars, lockVars, threadVars, DocsMove, Quiet, Typed, IInv,
         Process
  <1>7. ASSUME NEW t \in Thread, OptimizeMark(t)
        PROVE  DocsMove
    BY <1>7
      DEF OptimizeMark, GoTo, GoToThen, Stays, infoVars, commitVars, optVars,
         closeVars, lockVars, threadVars, DocsMove, Quiet, Typed, IInv,
         Process
  <1>8. ASSUME NEW t \in Thread, OptimizeWait(t)
        PROVE  DocsMove
    BY <1>8
      DEF OptimizeWait, GoTo, GoToThen, Stays, infoVars, commitVars, optVars,
         closeVars, lockVars, threadVars, DocsMove, Quiet, Typed, IInv,
         Process
  <1>9. ASSUME NEW t \in Thread, PauseAllThreads(t)
        PROVE  DocsMove
    BY <1>9
      DEF PauseAllThreads, GoTo, GoToThen, Stays, infoVars, commitVars,
         optVars, closeVars, lockVars, threadVars, DocsMove, Quiet, Typed,
         IInv, Process
  <1>10. ASSUME NEW t \in Thread, AcquireRead(t)
        PROVE  DocsMove
    BY <1>10
      DEF AcquireRead, GoTo, GoToThen, Stays, infoVars, commitVars, optVars,
         closeVars, lockVars, threadVars, DocsMove, Quiet, Typed, IInv,
         Process
  <1>11. ASSUME NEW t \in Thread, StartTransaction(t)
        PROVE  DocsMove
    BY <1>11 DEF DocsMove
  <1>12. ASSUME NEW t \in Thread, AddExternal(t)
        PROVE  DocsMove
    BY <1>12 DEF DocsMove
  <1>13. ASSUME NEW t \in Thread, TransactionOpen(t)
        PROVE  DocsMove
    BY <1>13
      DEF TransactionOpen, GoTo, GoToThen, Stays, infoVars, commitVars,
         optVars, closeVars, lockVars, threadVars, DocsMove, Quiet, Typed,
         IInv, Process
  <1>14. ASSUME NEW t \in Thread, ResolveExternal(t)
        PROVE  DocsMove
    BY <1>14
      DEF ResolveExternal, GoTo, GoToThen, Stays, infoVars, commitVars,
         optVars, closeVars, lockVars, threadVars, DocsMove, Quiet, Typed,
         IInv, Process
  <1>15. ASSUME NEW t \in Thread, ReadersGet(t)
        PROVE  DocsMove
    BY <1>15
      DEF ReadersGet, GoTo, GoToThen, Stays, infoVars, commitVars, optVars,
         closeVars, lockVars, threadVars, DocsMove, Quiet, Typed, IInv,
         Process
  <1>16. ASSUME NEW t \in Thread, ReadersPut(t)
        PROVE  DocsMove
    <2>1. pc[t] # "readersPut"
      BY DEF Exclusive, Kind
    <2> QED
      BY <1>16, <2>1 DEF ReadersPut
  <1>17. ASSUME NEW t \in Thread, CommitTransaction(t)
        PROVE  DocsMove
    BY <1>17 DEF DocsMove
  <1>18. ASSUME NEW t \in Thread, FinishMerges(t)
        PROVE  DocsMove
    BY <1>18 DEF DocsMove
  <1>19. ASSUME NEW t \in Thread, FinishMergesWait(t)
        PROVE  DocsMove
    BY <1>19 DEF DocsMove
  <1>20. ASSUME NEW t \in Thread, WaitForMerges(t)
        PROVE  DocsMove
    BY <1>20
      DEF WaitForMerges, GoTo, GoToThen, Stays, infoVars, commitVars, optVars,
         closeVars, lockVars, threadVars, DocsMove, Quiet, Typed, IInv,
         Process
  <1>21. ASSUME NEW t \in Thread, ShouldClose(t)
        PROVE  DocsMove
    BY <1>21
      DEF ShouldClose, GoTo, GoToThen, Stays, infoVars, commitVars, optVars,
         closeVars, lockVars, threadVars, DocsMove, Quiet, Typed, IInv,
         Process
  <1>22. ASSUME NEW t \in Thread, SyncThreads(t)
        PROVE  DocsMove
    BY <1>22
      DEF SyncThreads, GoTo, GoToThen, Stays, infoVars, commitVars, optVars,
         closeVars, lockVars, threadVars, DocsMove, Quiet, Typed, IInv,
         Process
  <1>23. ASSUME NEW t \in Thread, Revert(t)
        PROVE  DocsMove
    BY <1>23 DEF DocsMove
  <1>24. ASSUME NEW t \in Thread, Recount(t)
        PROVE  DocsMove
    BY <1>24
      DEF Recount, GoTo, GoToThen, Stays, infoVars, commitVars, optVars,
         closeVars, lockVars, threadVars, DocsMove, Quiet, Typed, IInv,
         Process
  <1>25. ASSUME NEW t \in Thread, CloseInternal(t)
        PROVE  DocsMove
    BY <1>25
      DEF CloseInternal, GoTo, GoToThen, Stays, infoVars, commitVars, optVars,
         closeVars, lockVars, threadVars, DocsMove, Quiet, Typed, IInv,
         Process
  <1>26. ASSUME NEW t \in Thread, CloseMerges(t)
        PROVE  DocsMove
    BY <1>26
      DEF CloseMerges, GoTo, GoToThen, Stays, infoVars, commitVars, optVars,
         closeVars, lockVars, threadVars, DocsMove, Quiet, Typed, IInv,
         Process
  <1>27. ASSUME NEW t \in Thread, CloseStop(t)
        PROVE  DocsMove
    BY <1>27
      DEF CloseStop, GoTo, GoToThen, Stays, infoVars, commitVars, optVars,
         closeVars, lockVars, threadVars, DocsMove, Quiet, Typed, IInv,
         Process
  <1>28. ASSUME NEW t \in Thread, Closed(t)
        PROVE  DocsMove
    BY <1>28
      DEF Closed, GoTo, GoToThen, Stays, infoVars, commitVars, optVars,
         closeVars, lockVars, threadVars, DocsMove, Quiet, Typed, IInv,
         Process
  <1>29. ASSUME NEW t \in Thread, Schedule(t)
        PROVE  DocsMove
    <2>1. then[t] # "addExternal"
      BY DEF IInv, Typed, Continuations
    <2>2. \E l : l # "addExternal" /\ pc' = [pc EXCEPT ![t] = l]
      BY <1>29, <2>1 DEF Schedule, GoTo
    <2>3. \A s \in Thread : pc'[s] = "addExternal" => pc[s] = "addExternal"
      BY <2>2 DEF IInv, Typed, Process
    <2> QED
      BY <1>29, <2>3 DEF Schedule, infoVars, lockVars, DocsMove, Quiet
  <1>30. ASSUME NEW t \in Thread, NEW m \in MergeThread, StartThread(t, m)
        PROVE  DocsMove
    BY <1>30
      DEF StartThread, GoTo, GoToThen, Stays, infoVars, commitVars, optVars,
         closeVars, lockVars, threadVars, DocsMove, Quiet, Typed, IInv,
         Process
  <1>31. ASSUME NEW p \in Process, MergeInit(p)
        PROVE  DocsMove
    BY <1>31
      DEF MergeInit, Fails, Throws, GoTo, GoToThen, Stays, infoVars,
         commitVars, optVars, closeVars, lockVars, threadVars, DocsMove,
         Quiet, Typed, IInv, Process
  <1>32. ASSUME NEW p \in Process, MergeMiddle(p)
        PROVE  DocsMove
    BY <1>32
      DEF MergeMiddle, GoTo, GoToThen, Stays, infoVars, commitVars, optVars,
         closeVars, lockVars, threadVars, DocsMove, Quiet, Typed, IInv,
         Process
  <1>33. ASSUME NEW p \in Process, CommitMerge(p)
        PROVE  DocsMove
    BY <1>33 DEF DocsMove
  <1>34. ASSUME NEW p \in Process, MergeDone(p)
        PROVE  DocsMove
    BY <1>34
      DEF MergeDone, GoTo, GoToThen, Stays, infoVars, commitVars, optVars,
         closeVars, lockVars, threadVars, DocsMove, Quiet, Typed, IInv,
         Process
  <1>35. ASSUME NEW p \in Process, MergeFailed(p)
        PROVE  DocsMove
    BY <1>35
      DEF MergeFailed, Fails, Throws, GoTo, GoToThen, Stays, infoVars,
         commitVars, optVars, closeVars, lockVars, threadVars, DocsMove,
         Quiet, Typed, IInv, Process
  <1>36. ASSUME NEW m \in MergeThread, NextMerge(m)
        PROVE  DocsMove
    BY <1>36
      DEF NextMerge, GoTo, GoToThen, Stays, infoVars, commitVars, optVars,
         closeVars, lockVars, threadVars, DocsMove, Quiet, Typed, IInv,
         Process
  <1>37. CASE UNCHANGED vars
    BY <1>37
      DEF vars, infoVars, commitVars, optVars, closeVars, lockVars,
         threadVars, DocsMove, Quiet, Typed, IInv, Process
  <1> QED
    BY <1>1, <1>2, <1>3, <1>4, <1>5, <1>6, <1>7, <1>8, <1>9, <1>10, <1>11,
       <1>12, <1>13, <1>14, <1>15, <1>16, <1>17, <1>18, <1>19, <1>20, <1>21,
       <1>22, <1>23, <1>24, <1>25, <1>26, <1>27, <1>28, <1>29, <1>30, <1>31,
       <1>32, <1>33, <1>34, <1>35, <1>36, <1>37
      DEF Next, CallStep, MergeStep, Process

\* What the documents are.
LEMMA KeptIs ==
    ASSUME IInv, Kept
    PROVE  /\ Lists \subseteq Seq(Info) /\ added \in Nat
           /\ expected \in Seq(Nat) /\ ToSet(expected) \subseteq 1..added
           /\ \A infos \in Lists : /\ Docs(infos) \in Seq(Nat)
                                   /\ ToSet(Docs(infos)) \subseteq 1..added
           /\ {segmentInfos, rollbackSegmentInfos, localRollbackSegmentInfos}
                = Lists
  <1>1. Lists \subseteq Seq(Info) /\ added \in Nat
    BY RecordsNamed DEF IInv, Typed
  <1>2. \A infos \in Lists : Docs(infos) \in Seq(Nat)
    BY <1>1, DocsType
  <1>3. segmentInfos \in Lists /\ expected = Docs(segmentInfos)
    BY DEF Lists, Kept
  <1> QED
    BY <1>1, <1>2, <1>3 DEF Kept, Lists

\* Who has the write lock adds indexes, and nothing is buffered.
LEMMA HolderIs ==
    ASSUME IInv, Exclusive, NoneReplaced, writeThread # None
    PROVE  buffered = 0 /\ "deleteAll" \notin Calls
  <1> DEFINE t == writeThread
  <1>1. t \in Thread
    BY DEF IInv, Typed
  <1>2. InLock(t) /\ Holder(t) /\ HasFlushed(t)
    BY <1>1 DEF IInv, Transactions, Exclusive
  <1>3. op[t] = "addIndexesNoOptimize"
    BY <1>2 DEF Holder
  <1>4. pc[t] \notin {"pause", "flush", "throw"}
    BY <1>2 DEF InLock, InTransaction, OnlyTransaction, InScheduler
  <1>5. "addIndexesNoOptimize" \in Calls
    BY <1>1, <1>3 DEF IInv, Typed
  <1> QED
    BY <1>2, <1>3, <1>4, <1>5 DEF HasFlushed, NoneReplaced

\* A step after which the segments have the same documents
LEMMA SameKept ==
    ASSUME Kept, Docs(segmentInfos') = Docs(segmentInfos),
           UNCHANGED <<expected, added, txAdded, commitVars, writeThread,
                       localRollbackSegmentInfos>>,
           \A t \in Thread : pc'[t] = "addExternal" => pc[t] = "addExternal"
    PROVE  Kept'
  <1>1. \A infos \in Lists' : ToSet(Docs(infos)) \subseteq 1..added'
    BY DEF Kept, Lists, commitVars
  <1> QED
    BY <1>1 DEF Kept, commitVars

\* A merge keeps the documents of its segments.
LEMMA CommitMergeKept ==
    ASSUME IInv, Identified, Kept, NEW p \in Process, CommitMerge(p)
    PROVE  Kept'
  <1>1. /\ UNCHANGED <<expected, added, txAdded, commitVars, writeThread,
                       localRollbackSegmentInfos>>
        /\ \A t \in Thread : pc'[t] = "addExternal" => pc[t] = "addExternal"
    BY DEF CommitMerge, GoTo, lockVars, IInv, Typed, Process
  <1>2. CASE UNCHANGED segmentInfos
    BY <1>1, <1>2, SameKept
  <1>3. CASE ~UNCHANGED segmentInfos
    <2> DEFINE m == MergeOf(p)
               merged == <<Merged(m)>>
    <2>1. /\ pc[p] = "commitMerge" /\ ~m.aborted
          /\ Contiguous(m.segs, segmentInfos)
          /\ segmentInfos' = WithMerged(segmentInfos, m)
      BY <1>3 DEF CommitMerge
    <2>2. /\ m \in Merge /\ m.info \in 1..counter /\ m.segs \in Seq(Info)
      BY <2>1, MergeIsNamed DEF Goes
    <2>3. /\ merge[p] \in DOMAIN reg.merges /\ m = reg.merges[merge[p]]
          /\ counter \in Nat
      <3>1. merge[p] \in reg.running /\ merge[p] # None
            /\ RegInv(reg, counter) /\ counter \in Nat
        BY <2>1 DEF IInv, Typed, ProcInv, Merging, None
      <3> QED
        BY <3>1, RegIds DEF MergeOf
    <2>4. segmentInfos \in Seq(Info) /\ Distinct(segmentInfos)
      BY RecordsNamed DEF Lists, Identified
    <2>5. \A a \in ToSet(m.segs), b \in ToSet(segmentInfos) :
             a.name = b.name => a = b
      BY <2>3 DEF Identified, Records, Lists
    <2>6. m.info \in Nat /\ Docs(m.segs) \in Seq(Nat)
      BY <2>2, <2>3, DocsType
    <2> HIDE DEF m
    <2>7. Merged(m) \in Info /\ Merged(m).docs = Docs(m.segs)
      BY <2>6 DEF Merged, Info
    <2>8. merged \in Seq(Info) /\ Docs(merged) = Docs(m.segs)
      BY <2>7, DocsOne
    <2>9. PICK left, right \in Seq(Info) :
             /\ segmentInfos = (left \o m.segs) \o right
             /\ WithMerged(segmentInfos, m) = (left \o merged) \o right
      BY <2>1, <2>2, <2>4, <2>5, MergedParts
    <2> HIDE DEF merged
    <2>10. \A x, y \in Seq(Info) : x \o y \in Seq(Info)
      OBVIOUS
    <2> DEFINE old == left \o m.segs
               most == left \o merged
    <2>a. /\ old \in Seq(Info) /\ Docs(old) = Docs(left) \o Docs(m.segs)
          /\ most \in Seq(Info) /\ Docs(most) = Docs(left) \o Docs(merged)
      BY <2>2, <2>8, <2>10, DocsConcat
    <2>b. segmentInfos = old \o right /\ segmentInfos' = most \o right
      BY <2>1, <2>9
    <2> HIDE DEF old, most
    <2>11. /\ Docs(segmentInfos) = Docs(old) \o Docs(right)
           /\ Docs(segmentInfos') = Docs(most) \o Docs(right)
      BY <2>a, <2>b, DocsConcat
    <2>12. Docs(segmentInfos') = Docs(segmentInfos)
      BY <2>8, <2>a, <2>11
    <2> QED
      BY <1>1, <2>12, SameKept
  <1> QED
    BY <1>2, <1>3

\* Segments that are put in have documents of their own.
LEMMA PutsKept ==
    ASSUME IInv, Kept, NEW new, Puts(new)
    PROVE  /\ Docs(segmentInfos') = expected' /\ Docs(new) \in Seq(Nat)
           /\ ToSet(expected) \cap ToSet(Docs(new)) = {}
           /\ expected' = expected \o Docs(new)
           /\ \A infos \in Lists \cup {segmentInfos'} :
                 ToSet(Docs(infos)) \subseteq 1..added'
  <1> DEFINE docs == Docs(new)
  <1>1. /\ new \in Seq(Info) /\ segmentInfos' = segmentInfos \o new
        /\ expected' = expected \o docs /\ added' \in Nat /\ added <= added'
        /\ ToSet(docs) \subseteq added + 1..added'
    BY DEF Puts
  <1>2. /\ segmentInfos \in Seq(Info) /\ added \in Nat
        /\ expected \in Seq(Nat) /\ ToSet(expected) \subseteq 1..added
        /\ Docs(segmentInfos) = expected
        /\ \A infos \in Lists : ToSet(Docs(infos)) \subseteq 1..added
    BY KeptIs DEF Kept
  <1>3. docs \in Seq(Nat) /\ Docs(segmentInfos') = expected'
    BY <1>1, <1>2, DocsType, DocsConcat
  <1> HIDE DEF docs
  <1>4. /\ 1..added \subseteq 1..added' /\ added + 1..added' \subseteq 1..added'
        /\ (1..added) \cap (added + 1..added') = {}
    BY <1>1, <1>2
  <1>5. ToSet(expected') = ToSet(expected) \cup ToSet(docs)
    BY <1>1, <1>2, <1>3, ConcatElements
  <1>6. \A infos \in Lists \cup {segmentInfos'} :
           ToSet(Docs(infos)) \subseteq 1..added'
    BY <1>1, <1>2, <1>3, <1>4, <1>5
  <1>7. ToSet(expected) \cap ToSet(docs) = {}
    BY <1>1, <1>2, <1>4
  <1> QED
    BY <1>1, <1>3, <1>6, <1>7 DEF docs

\* A flush, outside of transactions unless nothing is buffered
LEMMA FlushKept ==
    ASSUME IInv, Exclusive, NoneReplaced, Kept, NEW t \in Thread, Flush(t)
    PROVE  Kept'
  <1>1. /\ UNCHANGED <<commitVars, writeThread, localRollbackSegmentInfos>>
        /\ \A s \in Thread : pc'[s] = "addExternal" => pc[s] = "addExternal"
    <2>1. then[t] # "addExternal"
      BY DEF IInv, Typed, Continuations
    <2>2. \E l : l # "addExternal" /\ pc' = [pc EXCEPT ![t] = l]
      BY <2>1 DEF Flush, GoTo
    <2>3. \A s \in Thread : pc'[s] = "addExternal" => pc[s] = "addExternal"
      BY <2>2 DEF IInv, Typed, Process
    <2> QED
      BY <2>3 DEF Flush, lockVars
  <1>2. CASE UNCHANGED infoVars
    BY <1>1, <1>2, SameKept DEF infoVars
  <1>3. CASE buffered # 0 /\ (\E new : Puts(new)) /\ UNCHANGED txAdded
    <2>1. writeThread = None
      BY <1>3, HolderIs
    <2>2. txAdded = {}
      BY <2>1 DEF Kept
    <2>3. PICK new : Puts(new)
      BY <1>3
    <2>4. /\ Docs(segmentInfos') = expected'
          /\ \A infos \in Lists \cup {segmentInfos'} :
                 ToSet(Docs(infos)) \subseteq 1..added'
      BY <2>3, PutsKept
    <2>5. \A infos \in Lists' : ToSet(Docs(infos)) \subseteq 1..added'
      BY <1>1, <2>4 DEF Lists, commitVars
    <2> QED
      BY <1>1, <1>3, <2>1, <2>2, <2>4, <2>5 DEF Kept, commitVars
  <1> QED
    BY <1>2, <1>3, FlushPuts

\* Segments of another index, in a transaction
LEMMA AddExternalKept ==
    ASSUME IInv, Kept, NEW t \in Thread, AddExternal(t)
    PROVE  Kept'
  <1>1. /\ UNCHANGED <<commitVars, writeThread, localRollbackSegmentInfos>>
        /\ pc[t] = "addExternal"
        /\ \A s \in Thread : pc'[s] = "addExternal"
                                => pc[s] = "addExternal" /\ s # t
    BY DEF AddExternal, GoTo, GoToThen, lockVars, IInv, Typed, Process
  <1>2. writeThread = t /\ t # None
    <2>1. InTransaction(t) /\ InLock(t)
      BY <1>1 DEF InTransaction, OnlyTransaction, IInv, Transactions
    <2> QED
      BY <2>1, MergesAssumption DEF InLock, None
  <1>3. CASE UNCHANGED infoVars
    BY <1>1, <1>3, SameKept DEF infoVars
  <1>4. ASSUME NEW new, Puts(new), txAdded' = ToSet(Docs(new))
        PROVE  Kept'
    <2>1. /\ Docs(segmentInfos') = expected' /\ Docs(new) \in Seq(Nat)
          /\ ToSet(expected) \cap ToSet(Docs(new)) = {}
          /\ expected' = expected \o Docs(new)
          /\ \A infos \in Lists \cup {segmentInfos'} :
                 ToSet(Docs(infos)) \subseteq 1..added'
      BY <1>4, PutsKept
    <2>2. txAdded = {} /\ expected \in Seq(Nat)
      BY <1>1, KeptIs DEF Kept
    <2>3. {} \cap ToSet(expected) = {}
      OBVIOUS
    <2>4. Without(expected, txAdded) = expected
      BY <2>2, <2>3, WithoutNone
    <2>5. Without(expected', txAdded') = expected
      BY <1>4, <2>1, <2>2, WithoutAdded
    <2>6. Docs(localRollbackSegmentInfos') = Without(expected', txAdded')
      BY <1>1, <1>2, <2>4, <2>5 DEF Kept
    <2>7. \A infos \in Lists' : ToSet(Docs(infos)) \subseteq 1..added'
      BY <1>1, <2>1 DEF Lists, commitVars
    <2>8. \A s \in Thread : pc'[s] # "addExternal"
      <3> TAKE s \in Thread
      <3>1. InLock(s) /\ (pc[s] = "addExternal" => InTransaction(s))
        BY DEF InTransaction, OnlyTransaction, IInv, Transactions
      <3> QED
        BY <1>1, <1>2, <3>1 DEF InLock
    <2> QED
      BY <1>1, <1>2, <2>1, <2>6, <2>7, <2>8 DEF Kept, commitVars
  <1> QED
    BY <1>3, <1>4, AddExternalPuts

\* A transaction begins with the segments there are.
LEMMA StartKept ==
    ASSUME IInv, Exclusive, Kept, NEW t \in Thread, StartTransaction(t)
    PROVE  Kept'
  <1>1. /\ UNCHANGED <<segmentInfos, expected, added, txAdded, commitVars>>
        /\ \A s \in Thread \ {t} : pc'[s] = pc[s]
        /\ pc[t] # "addExternal"
        /\ pc = [q \in Process |-> pc[q]] /\ t \in Process
    <2>1. UNCHANGED <<infoVars, commitVars>> /\ pc[t] # "addExternal"
      BY DEF StartTransaction
    <2>2. /\ \E l : pc' = [pc EXCEPT ![t] = l]
          /\ pc = [q \in Process |-> pc[q]] /\ Thread \subseteq Process
      BY DEF StartTransaction, TakesWriteLock, UpgradeReadToWrite,
         AcquireWrite,
             TakesLock, GoTo, IInv, Typed, Process
    <2> QED
      BY <2>1, <2>2 DEF infoVars
  <1>2. \/ UNCHANGED lockVars /\ pc'[t] # "addExternal"
        \/ AcquireWrite(t)
    <2>1. readThreads = {}
      BY DEF Exclusive
    <2> QED
      BY <1>1, <2>1 DEF StartTransaction, TakesWriteLock, GoTo
  <1>3. CASE /\ UNCHANGED <<writeThread, localRollbackSegmentInfos>>
             /\ pc'[t] # "addExternal"
    BY <1>1, <1>3, SameKept
  <1>4. CASE /\ writeThread = None /\ writeThread' = t
             /\ localRollbackSegmentInfos' = segmentInfos
    <2>1. txAdded = {} /\ expected \in Seq(Nat)
      BY <1>4, KeptIs DEF Kept
    <2>2. {} \cap ToSet(expected) = {}
      OBVIOUS
    <2>3. Without(expected, txAdded) = expected
      BY <2>1, <2>2, WithoutNone
    <2>4. Lists' \subseteq Lists
      BY <1>1, <1>4 DEF Lists, commitVars
    <2>5. t # None
      BY MergesAssumption DEF None
    <2> QED
      BY <1>1, <1>4, <2>1, <2>3, <2>4, <2>5 DEF Kept, commitVars
  <1>5. CASE AcquireWrite(t)
    <2>1. \/ /\ UNCHANGED <<writeThread, localRollbackSegmentInfos>>
             /\ pc'[t] # "addExternal"
          \/ /\ writeThread = None /\ writeThread' = t
             /\ localRollbackSegmentInfos' = segmentInfos
      BY <1>1, <1>5 DEF AcquireWrite, TakesLock, GoTo
    <2> QED
      BY <1>3, <1>4, <2>1
  <1> QED
    BY <1>2, <1>3, <1>5 DEF lockVars

\* No list of segments has other documents than there were.
LEMMA OldLists ==
    ASSUME Kept, Lists' \subseteq Lists \cup {<<>>}, UNCHANGED added
    PROVE  \A infos \in Lists' : ToSet(Docs(infos)) \subseteq 1..added'
  <1>1. ToSet(Docs(<<>>)) = {}
    BY DocsOne DEF ToSet
  <1> QED
    BY <1>1 DEF Kept

\* A transaction ends well.
LEMMA CommitTransactionKept ==
    ASSUME Kept, IInv, NEW t \in Thread, CommitTransaction(t)
    PROVE  Kept'
  <1>1. /\ UNCHANGED <<segmentInfos, expected, added, commitVars>>
        /\ writeThread' = None /\ txAdded' = {}
        /\ localRollbackSegmentInfos' = <<>>
    BY DEF CommitTransaction
  <1>2. Lists' \subseteq Lists \cup {<<>>}
    BY <1>1 DEF Lists, commitVars
  <1> QED
    BY <1>1, <1>2, OldLists DEF Kept, commitVars

\* A commit, outside of transactions
LEMMA CommitKept ==
    ASSUME Kept, IInv, NEW t \in Thread, Commit(t)
    PROVE  Kept'
  <1>1. /\ UNCHANGED <<segmentInfos, expected, added, txAdded, writeThread,
                       localRollbackSegmentInfos>>
        /\ \/ UNCHANGED commitVars
           \/ /\ rollbackSegmentInfos' = segmentInfos
              /\ committed' = expected
        /\ \A s \in Thread : pc'[s] = "addExternal" => pc[s] = "addExternal"
    BY DEF Commit, GoTo, lockVars, IInv, Typed, Process
  <1>2. Lists' \subseteq Lists \cup {<<>>}
    BY <1>1 DEF Lists, commitVars
  <1> QED
    BY <1>1, <1>2, OldLists DEF Kept, commitVars

\* rollbackInternal, when no transaction is there
LEMMA RevertKept ==
    ASSUME Kept, IInv, Exclusive, NEW t \in Thread, Revert(t)
    PROVE  Kept'
  <1>1. /\ UNCHANGED <<added, txAdded, writeThread, localRollbackSegmentInfos,
                       commitVars>>
        /\ segmentInfos' = rollbackSegmentInfos /\ expected' = committed
        /\ \A s \in Thread : pc'[s] = "addExternal" => pc[s] = "addExternal"
    BY DEF Revert, GoTo, lockVars, IInv, Typed, Process
  <1>2. writeThread = None
    <2>1. Reverting(t)
      BY DEF Revert, Reverting
    <2> QED
      BY <2>1 DEF Exclusive
  <1>3. Lists' \subseteq Lists \cup {<<>>}
    BY <1>1 DEF Lists, commitVars
  <1> QED
    BY <1>1, <1>2, <1>3, OldLists DEF Kept, commitVars

\* finishMerges: the end of a transaction that fails, or of deleteAll
LEMMA FinishKept ==
    ASSUME Kept, IInv, Exclusive, NoneReplaced, NEW t \in Thread,
           FinishMerges(t) \/ FinishMergesWait(t)
    PROVE  Kept'
  <1>1. /\ UNCHANGED <<added, commitVars>>
        /\ \A s \in Thread : pc'[s] = "addExternal" => pc[s] = "addExternal"
        /\ \/ UNCHANGED <<infoVars, writeThread, localRollbackSegmentInfos>>
           \/ writeThread = t /\ RolledBack
           \/ op[t] = "deleteAll" /\ AllDeleted
    <2>1. CASE FinishMerges(t)
      <3>1. \A s \in Thread : pc'[s] = "addExternal" => pc[s] = "addExternal"
        BY <2>1
           DEF FinishMerges, MergesFinished, GoTo, IInv, Typed, Process
      <3>2. /\ UNCHANGED commitVars
            /\ \/ UNCHANGED <<infoVars, writeThread, localRollbackSegmentInfos>>
               \/ writeThread = t /\ RolledBack
               \/ op[t] = "deleteAll" /\ AllDeleted
        BY <2>1 DEF FinishMerges, MergesFinished
      <3>3. UNCHANGED added
        BY <3>2 DEF infoVars, RolledBack, AllDeleted
      <3> QED
        BY <3>1, <3>2, <3>3
    <2>2. CASE FinishMergesWait(t)
      <3>1. \A s \in Thread : pc'[s] = "addExternal" => pc[s] = "addExternal"
        BY <2>2
           DEF FinishMergesWait, MergesFinished, GoTo, IInv, Typed, Process
      <3>2. /\ UNCHANGED commitVars
            /\ \/ UNCHANGED <<infoVars, writeThread, localRollbackSegmentInfos>>
               \/ writeThread = t /\ RolledBack
               \/ op[t] = "deleteAll" /\ AllDeleted
        BY <2>2 DEF FinishMergesWait, MergesFinished
      <3>3. UNCHANGED added
        BY <3>2 DEF infoVars, RolledBack, AllDeleted
      <3> QED
        BY <3>1, <3>2, <3>3
    <2> QED
      BY <2>1, <2>2
  <1>2. CASE UNCHANGED <<infoVars, writeThread, localRollbackSegmentInfos>>
    BY <1>1, <1>2, SameKept DEF infoVars
  <1>3. CASE writeThread = t /\ RolledBack
    <2>1. /\ segmentInfos' = localRollbackSegmentInfos
          /\ expected' = Without(expected, txAdded)
          /\ txAdded' = {} /\ writeThread' = None
          /\ localRollbackSegmentInfos' = <<>>
      BY <1>3 DEF RolledBack
    <2>2. t # None
      BY MergesAssumption DEF None
    <2>3. Docs(segmentInfos') = expected'
      BY <1>3, <2>1, <2>2 DEF Kept
    <2>4. Lists' \subseteq Lists \cup {<<>>}
      BY <1>1, <2>1 DEF Lists, commitVars
    <2> QED
      BY <1>1, <2>1, <2>3, <2>4, OldLists DEF Kept, commitVars
  <1>4. CASE op[t] = "deleteAll" /\ AllDeleted
    <2>1. /\ segmentInfos' = <<>> /\ expected' = <<>>
          /\ UNCHANGED <<txAdded, writeThread, localRollbackSegmentInfos>>
      BY <1>4 DEF AllDeleted
    <2>2. writeThread = None
      <3>1. "deleteAll" \in Calls
        BY <1>4 DEF IInv, Typed
      <3> QED
        BY <3>1, HolderIs
    <2>3. Docs(segmentInfos') = expected'
      BY <2>1, DocsOne
    <2>4. Lists' \subseteq Lists \cup {<<>>}
      BY <1>1, <2>1 DEF Lists, commitVars
    <2> QED
      BY <1>1, <2>1, <2>2, <2>3, <2>4, OldLists DEF Kept, commitVars
  <1> QED
    BY <1>1, <1>2, <1>3, <1>4

\* A step keeps the documents.
LEMMA KeptStep ==
    ASSUME IInv, Exclusive, NoneReplaced, Identified, Kept, [Next]_vars
    PROVE  Kept'
  <1>1. CASE Quiet
    BY <1>1, SameKept DEF Quiet
  <1> QED
    BY <1>1, DocsStep, FlushKept, CommitKept, StartKept, AddExternalKept,
       CommitTransactionKept, FinishKept, RevertKept, CommitMergeKept
       DEF DocsMove

\* The documents of segments of one document each
LEMMA DocsOfSingles ==
    ASSUME NEW n \in Nat
    PROVE  Docs([i \in 1..n |-> [name |-> i, docs |-> <<i>>, ext |-> FALSE]])
              = [i \in 1..n |-> i]
  <1> DEFINE infos == [i \in 1..n |-> [name |-> i, docs |-> <<i>>, ext |-> FALSE]]
             docs == [i \in 1..n |-> <<i>>]
             upTo(k) == [i \in 1..k |-> i]
  <1>1. [i \in DOMAIN infos |-> infos[i].docs] = docs
    OBVIOUS
  <1>2. docs \in Seq(Seq(Nat)) /\ Len(docs) = n /\ \A i \in 1..n : docs[i] = <<i>>
    OBVIOUS
  <1>3. Docs(infos) = FlattenSeq(docs)
    BY <1>1 DEF Docs
  <1> HIDE DEF infos, docs
  <1>4. PICK f : Flattens(f, docs, Nat) /\ FlattenSeq(docs) = f[n]
    <2>1. \E f : Flattens(f, docs, Nat) /\ FlattenSeq(docs) = f[Len(docs)]
      BY <1>2, FlattenIs, Zenon
    <2> QED
      BY <1>2, <2>1
  <1> DEFINE G == {k \in 0..n : f[k] = upTo(k)}
  <1>5. 0 \in G
    <2>1. f[0] = <<>> /\ upTo(0) = <<>>
      BY <1>4 DEF Flattens
    <2> QED
      BY <2>1
  <1>6. ASSUME NEW i \in 1..n, i - 1 \in G PROVE i \in G
    <2>1. i \in 1..Len(docs) /\ i \in 0..n /\ i \in Nat \ {0} /\ docs[i] = <<i>>
      BY <1>2
    <2>2. \A k \in 1..Len(docs) : f[k] = f[k - 1] \o docs[k]
      BY <1>4 DEF Flattens
    <2>3. f[i] = f[i - 1] \o docs[i]
      BY <2>1, <2>2, Zenon
    <2>4. f[i] = upTo(i - 1) \o <<i>>
      BY <1>6, <2>1, <2>3
    <2>5. upTo(i - 1) \o <<i>> = upTo(i)
      <3> DEFINE s == upTo(i - 1)
                 t == s \o <<i>>
      <3>1. s \in Seq(Nat) /\ Len(s) = i - 1 /\ \A k \in 1..i - 1 : s[k] = k
        BY <2>1
      <3> HIDE DEF s
      <3>2. /\ t \in Seq(Nat) /\ Len(t) = i
            /\ \A k \in 1..i : t[k] = IF k <= i - 1 THEN s[k] ELSE i
        BY <2>1, <3>1
      <3> HIDE DEF t
      <3>3. \A k \in 1..i : t[k] = k
        BY <2>1, <3>1, <3>2
      <3>4. t = [k \in 1..i |-> t[k]]
        BY <2>1, <3>2
      <3> QED
        BY <3>3, <3>4 DEF t, s
    <2> QED
      BY <2>1, <2>4, <2>5
  <1> HIDE DEF G
  <1>7. n \in G
    <2>1. 0..n \subseteq G
      BY <1>5, <1>6, UpTo
    <2>2. n \in 0..n
      OBVIOUS
    <2> QED
      BY <2>1, <2>2
  <1> QED
    BY <1>3, <1>4, <1>7 DEF G, infos

\* Where the writer begins, with segments of one document each
LEMMA KeptInit ==
    ASSUME Init
    PROVE  Exclusive /\ Identified /\ Kept
  <1>1. /\ segmentInfos = [i \in 1..Existing |->
                             [name |-> i, docs |-> <<i>>, ext |-> FALSE]]
        /\ expected = [i \in 1..Existing |-> i] /\ added = Existing
        /\ rollbackSegmentInfos = segmentInfos /\ committed = expected
        /\ localRollbackSegmentInfos = <<>> /\ writeThread = None
        /\ txAdded = {} /\ reg = NoMerges /\ readThreads = {}
        /\ Existing \in Nat
    BY MergesAssumption DEF Init
  <1>2. /\ \A p \in Process : pc[p] \in {"idle", "dead"}
        /\ \A t \in Thread : op[t] = "none" /\ then[t] = "return"
        /\ Thread \subseteq Process
    BY DEF Init, Process
  <1>3. Exclusive
    <2>1. \A t \in Thread : Kind(t)
      BY <1>2 DEF Kind
    <2>2. \A t \in Thread : Holder(t) /\ HasFlushed(t) /\ ~Reverting(t)
                            /\ ~Closer(t)
      <3> TAKE t \in Thread
      <3>1. pc[t] \in {"idle", "dead"} /\ op[t] = "none" /\ t # None
        BY <1>2, MergesAssumption DEF None
      <3> QED
        BY <1>1, <3>1 DEF Holder, HasFlushed, Reverting, Closer, Closing
    <2> QED
      BY <1>1, <2>1, <2>2 DEF Exclusive
  <1>4. Identified
    <2>1. Lists = {segmentInfos, <<>>}
      BY <1>1 DEF Lists
    <2>2. Distinct(segmentInfos)
      BY <1>1 DEF Distinct
    <2>3. ToSet(<<>>) = {}
      BY DEF ToSet
    <2>4. DOMAIN reg.merges = {}
      BY <1>1 DEF NoMerges
    <2>5. Records \subseteq ToSet(segmentInfos)
      BY <2>1, <2>3, <2>4 DEF Records
    <2>6. \A a, b \in ToSet(segmentInfos) : a.name = b.name => a = b
      BY <2>2 DEF Distinct, ToSet
    <2>7. \A p \in Process : pc[p] \notin Goes
      BY <1>2 DEF Goes
    <2> QED
      BY <2>1, <2>2, <2>5, <2>6, <2>7, DistinctOne DEF Identified
  <1>5. Kept
    <2>1. segmentInfos \in Seq(Info)
      BY <1>1 DEF Info
    <2>2. Docs(segmentInfos) = expected
      BY <1>1, DocsOfSingles
    <2>3. ToSet(expected) \subseteq 1..added
      BY <1>1 DEF ToSet
    <2>4. ToSet(Docs(<<>>)) = {}
      BY DocsOne DEF ToSet
    <2>5. Lists = {segmentInfos, <<>>}
      BY <1>1 DEF Lists
    <2> QED
      BY <1>1, <1>2, <2>2, <2>3, <2>4, <2>5 DEF Kept
  <1> QED
    BY <1>3, <1>4, <1>5

\* The segments have the documents they are to have, whatever merges, commits,
\* transactions that fail, rollback and close do at once, unless a call replaces
\* segments it has not seen.
THEOREM DocumentsAreKept ==
    ASSUME NoneReplaced
    PROVE  Spec => []DocsKept
  <1> DEFINE KInv == Exclusive /\ Identified /\ Kept
  <1>1. Init => KInv
    BY KeptInit
  <1>2. IInv /\ KInv /\ [Next]_vars => KInv'
    BY ExclusiveStep, IdentifiedStep, KeptStep
  <1>3. KInv => DocsKept
    BY DEF Kept, DocsKept
  <1> HIDE DEF KInv
  <1> QED
    BY <1>1, <1>2, <1>3, Invariant, PTL DEF Spec

-----------------------------------------------------------------------------
(***************************************************************************)
(* finishMerges, when only rollback, closeAbort and transactions that fail *)
(* call it.                                                                *)
(***************************************************************************)
\* deleteAll, and the upgrade of addIndexes, do not look whether the writer is
\* closing.
NoneTaken == Calls \cap {"addIndexes", "deleteAll"} = {}

\* The documents are kept then as well.
LEMMA NoneTakenReplaces == NoneTaken => NoneReplaced
  BY DEF NoneTaken, NoneReplaced

\* Where a rollback comes by, and that it flushes before its second
\* finishMerges; and that a document is added by addDocument.
Path(t) ==
    /\ op[t] = "rollback" =>
          /\ pc[t] \in {"shouldClose", "pause", "finishMerges", "finishRead",
                        "finishWait", "sync", "revert", "recount",
                        "closeInternal", "flush", "closeStop", "closeSync",
                        "commit", "closed", "return", "throw"}
          /\ pc[t] = "flush" => then[t] = "finishMerges"
          /\ pc[t] \in {"finishMerges", "finishRead", "finishWait"}
                => then[t] \in {"revert", "finishMerges"}
    /\ pc[t] = "addDocument" => op[t] = "add"

Paths == \A t \in Thread : Path(t)

\* A rollback takes its way.
LEMMA PathsStep ==
    ASSUME IInv, Exclusive, NoneTaken, Paths, [Next]_vars
    PROVE  \A s \in Thread : Path(s)'
  <1>1. ASSUME NEW t \in Thread, Call(t)
        PROVE  \A s \in Thread : Path(s)'
    <2>1. /\ pc = [q \in Process |-> pc[q]] /\ Thread \subseteq Process
          /\ then = [s \in Thread |-> then[s]]
          /\ op = [s \in Thread |-> op[s]]
      BY DEF IInv, Typed, Process
    <2>2. PICK c \in Calls :
             /\ op' = [op EXCEPT ![t] = c]
             /\ pc' = [pc EXCEPT ![t] = pc'[t]]
             /\ then' = [then EXCEPT ![t] = then'[t]]
             /\ c = "rollback" => pc'[t] = "shouldClose"
             /\ pc'[t] = "addDocument" => c = "add"
      BY <1>1, <2>1 DEF Call, GoTo, AddIndexes
    <2>3. Path(t)'
      BY <2>1, <2>2 DEF Path
    <2>4. ASSUME NEW s \in Thread \ {t} PROVE Path(s)'
      <3>1. pc'[s] = pc[s] /\ op'[s] = op[s] /\ then'[s] = then[s]
        BY <2>1, <2>2
      <3> QED
        BY <3>1 DEF Path, Paths
    <2> QED
      BY <2>3, <2>4
  <1>2. ASSUME NEW t \in Thread, AddDocument(t)
        PROVE  \A s \in Thread : Path(s)'
    <2>1. \A s \in Thread : Kind(s) /\ Path(s)
      BY DEF Exclusive, Paths
    <2>2. /\ pc = [q \in Process |-> pc[q]] /\ Thread \subseteq Process
          /\ then \in [Thread -> Continuations]
          /\ op \in [Thread -> Calls \cup {"none"}]
          /\ "addIndexes" \notin Calls /\ "deleteAll" \notin Calls
      BY DEF IInv, Typed, Process, NoneTaken
    <2> QED
      BY <1>2, <2>1, <2>2
         DEF AddDocument, GoTo, GoToThen, Stays, threadVars, Path,
            TriggersMerge, Continuations, Throws, AddIndexes
  <1>3. ASSUME NEW t \in Thread, Flush(t)
        PROVE  \A s \in Thread : Path(s)'
    <2>1. \A s \in Thread : Kind(s) /\ Path(s)
      BY DEF Exclusive, Paths
    <2>2. /\ pc = [q \in Process |-> pc[q]] /\ Thread \subseteq Process
          /\ then \in [Thread -> Continuations]
          /\ op \in [Thread -> Calls \cup {"none"}]
          /\ "addIndexes" \notin Calls /\ "deleteAll" \notin Calls
      BY DEF IInv, Typed, Process, NoneTaken
    <2> QED
      BY <1>3, <2>1, <2>2, ZenonT(60)
         DEF Flush, GoTo, GoToThen, Stays, threadVars, Path, TriggersMerge,
            Continuations, Throws, AddIndexes
  <1>4. ASSUME NEW t \in Thread, UpdatePendingMerges(t)
        PROVE  \A s \in Thread : Path(s)'
    <2>1. \A s \in Thread : Kind(s) /\ Path(s)
      BY DEF Exclusive, Paths
    <2>2. /\ pc = [q \in Process |-> pc[q]] /\ Thread \subseteq Process
          /\ then \in [Thread -> Continuations]
          /\ op \in [Thread -> Calls \cup {"none"}]
          /\ "addIndexes" \notin Calls /\ "deleteAll" \notin Calls
      BY DEF IInv, Typed, Process, NoneTaken
    <2> QED
      BY <1>4, <2>1, <2>2
         DEF UpdatePendingMerges, GoTo, GoToThen, Stays, threadVars, Path,
            TriggersMerge, Continuations, Throws, AddIndexes
  <1>5. ASSUME NEW t \in Thread, Commit(t)
        PROVE  \A s \in Thread : Path(s)'
    <2>1. \A s \in Thread : Kind(s) /\ Path(s)
      BY DEF Exclusive, Paths
    <2>2. /\ pc = [q \in Process |-> pc[q]] /\ Thread \subseteq Process
          /\ then \in [Thread -> Continuations]
          /\ op \in [Thread -> Calls \cup {"none"}]
          /\ "addIndexes" \notin Calls /\ "deleteAll" \notin Calls
      BY DEF IInv, Typed, Process, NoneTaken
    <2> QED
      BY <1>5, <2>1, <2>2
         DEF Commit, GoTo, GoToThen, Stays, threadVars, Path, TriggersMerge,
            Continuations, Throws, AddIndexes
  <1>6. ASSUME NEW t \in Thread, Leave(t)
        PROVE  \A s \in Thread : Path(s)'
    <2>1. \A s \in Thread : Kind(s) /\ Path(s)
      BY DEF Exclusive, Paths
    <2>2. /\ pc = [q \in Process |-> pc[q]] /\ Thread \subseteq Process
          /\ then \in [Thread -> Continuations]
          /\ op \in [Thread -> Calls \cup {"none"}]
          /\ "addIndexes" \notin Calls /\ "deleteAll" \notin Calls
      BY DEF IInv, Typed, Process, NoneTaken
    <2> QED
      BY <1>6, <2>1, <2>2
         DEF Leave, GoTo, GoToThen, Stays, threadVars, Path, TriggersMerge,
            Continuations, Throws, AddIndexes
  <1>7. ASSUME NEW t \in Thread, OptimizeMark(t)
        PROVE  \A s \in Thread : Path(s)'
    <2>1. \A s \in Thread : Kind(s) /\ Path(s)
      BY DEF Exclusive, Paths
    <2>2. /\ pc = [q \in Process |-> pc[q]] /\ Thread \subseteq Process
          /\ then \in [Thread -> Continuations]
          /\ op \in [Thread -> Calls \cup {"none"}]
          /\ "addIndexes" \notin Calls /\ "deleteAll" \notin Calls
      BY DEF IInv, Typed, Process, NoneTaken
    <2> QED
      BY <1>7, <2>1, <2>2
         DEF OptimizeMark, GoTo, GoToThen, Stays, threadVars, Path,
            TriggersMerge, Continuations, Throws, AddIndexes
  <1>8. ASSUME NEW t \in Thread, OptimizeWait(t)
        PROVE  \A s \in Thread : Path(s)'
    <2>1. \A s \in Thread : Kind(s) /\ Path(s)
      BY DEF Exclusive, Paths
    <2>2. /\ pc = [q \in Process |-> pc[q]] /\ Thread \subseteq Process
          /\ then \in [Thread -> Continuations]
          /\ op \in [Thread -> Calls \cup {"none"}]
          /\ "addIndexes" \notin Calls /\ "deleteAll" \notin Calls
      BY DEF IInv, Typed, Process, NoneTaken
    <2> QED
      BY <1>8, <2>1, <2>2
         DEF OptimizeWait, GoTo, GoToThen, Stays, threadVars, Path,
            TriggersMerge, Continuations, Throws, AddIndexes
  <1>9. ASSUME NEW t \in Thread, PauseAllThreads(t)
        PROVE  \A s \in Thread : Path(s)'
    <2>1. \A s \in Thread : Kind(s) /\ Path(s)
      BY DEF Exclusive, Paths
    <2>2. /\ pc = [q \in Process |-> pc[q]] /\ Thread \subseteq Process
          /\ then \in [Thread -> Continuations]
          /\ op \in [Thread -> Calls \cup {"none"}]
          /\ "addIndexes" \notin Calls /\ "deleteAll" \notin Calls
      BY DEF IInv, Typed, Process, NoneTaken
    <2> QED
      BY <1>9, <2>1, <2>2
         DEF PauseAllThreads, GoTo, GoToThen, Stays, threadVars, Path,
            TriggersMerge, Continuations, Throws, AddIndexes
  <1>10. ASSUME NEW t \in Thread, AcquireRead(t)
        PROVE  \A s \in Thread : Path(s)'
    <2>1. \A s \in Thread : Kind(s) /\ Path(s)
      BY DEF Exclusive, Paths
    <2>2. /\ pc = [q \in Process |-> pc[q]] /\ Thread \subseteq Process
          /\ then \in [Thread -> Continuations]
          /\ op \in [Thread -> Calls \cup {"none"}]
          /\ "addIndexes" \notin Calls /\ "deleteAll" \notin Calls
      BY DEF IInv, Typed, Process, NoneTaken
    <2> QED
      BY <1>10, <2>1, <2>2
         DEF AcquireRead, GoTo, GoToThen, Stays, threadVars, Path,
            TriggersMerge, Continuations, Throws, AddIndexes
  <1>11. ASSUME NEW t \in Thread, StartTransaction(t)
        PROVE  \A s \in Thread : Path(s)'
    <2>1. \A s \in Thread : Kind(s) /\ Path(s)
      BY DEF Exclusive, Paths
    <2>2. /\ pc = [q \in Process |-> pc[q]] /\ Thread \subseteq Process
          /\ then \in [Thread -> Continuations]
          /\ op \in [Thread -> Calls \cup {"none"}]
          /\ "addIndexes" \notin Calls /\ "deleteAll" \notin Calls
      BY DEF IInv, Typed, Process, NoneTaken
    <2> QED
      BY <1>11, <2>1, <2>2
         DEF StartTransaction, TakesWriteLock, UpgradeReadToWrite,
            AcquireWrite, TakesLock, GoTo, GoToThen, Stays, threadVars, Path,
            TriggersMerge, Continuations, Throws, AddIndexes
  <1>12. ASSUME NEW t \in Thread, AddExternal(t)
        PROVE  \A s \in Thread : Path(s)'
    <2>1. \A s \in Thread : Kind(s) /\ Path(s)
      BY DEF Exclusive, Paths
    <2>2. /\ pc = [q \in Process |-> pc[q]] /\ Thread \subseteq Process
          /\ then \in [Thread -> Continuations]
          /\ op \in [Thread -> Calls \cup {"none"}]
          /\ "addIndexes" \notin Calls /\ "deleteAll" \notin Calls
      BY DEF IInv, Typed, Process, NoneTaken
    <2> QED
      BY <1>12, <2>1, <2>2, ZenonT(60)
         DEF AddExternal, GoTo, GoToThen, Stays, threadVars, Path,
            TriggersMerge, Continuations, Throws, AddIndexes
  <1>13. ASSUME NEW t \in Thread, TransactionOpen(t)
        PROVE  \A s \in Thread : Path(s)'
    <2>1. \A s \in Thread : Kind(s) /\ Path(s)
      BY DEF Exclusive, Paths
    <2>2. /\ pc = [q \in Process |-> pc[q]] /\ Thread \subseteq Process
          /\ then \in [Thread -> Continuations]
          /\ op \in [Thread -> Calls \cup {"none"}]
          /\ "addIndexes" \notin Calls /\ "deleteAll" \notin Calls
      BY DEF IInv, Typed, Process, NoneTaken
    <2> QED
      BY <1>13, <2>1, <2>2
         DEF TransactionOpen, GoTo, GoToThen, Stays, threadVars, Path,
            TriggersMerge, Continuations, Throws, AddIndexes
  <1>14. ASSUME NEW t \in Thread, ResolveExternal(t)
        PROVE  \A s \in Thread : Path(s)'
    <2>1. \A s \in Thread : Kind(s) /\ Path(s)
      BY DEF Exclusive, Paths
    <2>2. /\ pc = [q \in Process |-> pc[q]] /\ Thread \subseteq Process
          /\ then \in [Thread -> Continuations]
          /\ op \in [Thread -> Calls \cup {"none"}]
          /\ "addIndexes" \notin Calls /\ "deleteAll" \notin Calls
      BY DEF IInv, Typed, Process, NoneTaken
    <2> QED
      BY <1>14, <2>1, <2>2
         DEF ResolveExternal, GoTo, GoToThen, Stays, threadVars, Path,
            TriggersMerge, Continuations, Throws, AddIndexes
  <1>15. ASSUME NEW t \in Thread, ReadersGet(t)
        PROVE  \A s \in Thread : Path(s)'
    <2>1. \A s \in Thread : Kind(s) /\ Path(s)
      BY DEF Exclusive, Paths
    <2>2. /\ pc = [q \in Process |-> pc[q]] /\ Thread \subseteq Process
          /\ then \in [Thread -> Continuations]
          /\ op \in [Thread -> Calls \cup {"none"}]
          /\ "addIndexes" \notin Calls /\ "deleteAll" \notin Calls
      BY DEF IInv, Typed, Process, NoneTaken
    <2> QED
      BY <1>15, <2>1, <2>2
         DEF ReadersGet, GoTo, GoToThen, Stays, threadVars, Path,
            TriggersMerge, Continuations, Throws, AddIndexes
  <1>16. ASSUME NEW t \in Thread, ReadersPut(t)
        PROVE  \A s \in Thread : Path(s)'
    <2>1. \A s \in Thread : Kind(s) /\ Path(s)
      BY DEF Exclusive, Paths
    <2>2. /\ pc = [q \in Process |-> pc[q]] /\ Thread \subseteq Process
          /\ then \in [Thread -> Continuations]
          /\ op \in [Thread -> Calls \cup {"none"}]
          /\ "addIndexes" \notin Calls /\ "deleteAll" \notin Calls
      BY DEF IInv, Typed, Process, NoneTaken
    <2> QED
      BY <1>16, <2>1, <2>2
         DEF ReadersPut, GoTo, GoToThen, Stays, threadVars, Path,
            TriggersMerge, Continuations, Throws, AddIndexes
  <1>17. ASSUME NEW t \in Thread, CommitTransaction(t)
        PROVE  \A s \in Thread : Path(s)'
    <2>1. \A s \in Thread : Kind(s) /\ Path(s)
      BY DEF Exclusive, Paths
    <2>2. /\ pc = [q \in Process |-> pc[q]] /\ Thread \subseteq Process
          /\ then \in [Thread -> Continuations]
          /\ op \in [Thread -> Calls \cup {"none"}]
          /\ "addIndexes" \notin Calls /\ "deleteAll" \notin Calls
      BY DEF IInv, Typed, Process, NoneTaken
    <2> QED
      BY <1>17, <2>1, <2>2
         DEF CommitTransaction, GoTo, GoToThen, Stays, threadVars, Path,
            TriggersMerge, Continuations, Throws, AddIndexes
  <1>18. ASSUME NEW t \in Thread, FinishMerges(t)
        PROVE  \A s \in Thread : Path(s)'
    <2>1. UNCHANGED <<op, then>> /\ \A s \in Thread \ {t} : pc'[s] = pc[s]
      BY <1>18
         DEF FinishMerges, MergesFinished, GoTo, Stays, IInv, Typed, Process
    <2>2. \A s \in Thread : Path(s) /\ Kind(s)
      BY DEF Exclusive, Paths
    <2>3. /\ pc'[t] \in {"throw", "return", "closeStop", "finishWait",
                         "finishRead", "sync"}
          /\ pc[t] \in {"finishRead", "finishWait", "finishMerges",
                        "rollbackTransaction", "deleteAll"}
      BY <1>18
         DEF FinishMerges, MergesFinished, GoTo, Stays, IInv, Typed, Process
    <2>4. Path(t)'
      BY <2>1, <2>2, <2>3 DEF Path
    <2> QED
      BY <2>1, <2>2, <2>4 DEF Path
  <1>19. ASSUME NEW t \in Thread, FinishMergesWait(t)
        PROVE  \A s \in Thread : Path(s)'
    <2>1. UNCHANGED <<op, then>> /\ \A s \in Thread \ {t} : pc'[s] = pc[s]
      BY <1>19
         DEF FinishMergesWait, MergesFinished, GoTo, Stays, IInv, Typed, Process
    <2>2. \A s \in Thread : Path(s) /\ Kind(s)
      BY DEF Exclusive, Paths
    <2>3. /\ pc'[t] \in {"throw", "return", "closeStop", "finishWait",
                         "finishRead", "sync"}
          /\ pc[t] \in {"finishRead", "finishWait", "finishMerges",
                        "rollbackTransaction", "deleteAll"}
      BY <1>19
         DEF FinishMergesWait, MergesFinished, GoTo, Stays, IInv, Typed, Process
    <2>4. Path(t)'
      BY <2>1, <2>2, <2>3 DEF Path
    <2> QED
      BY <2>1, <2>2, <2>4 DEF Path
  <1>20. ASSUME NEW t \in Thread, WaitForMerges(t)
        PROVE  \A s \in Thread : Path(s)'
    <2>1. \A s \in Thread : Kind(s) /\ Path(s)
      BY DEF Exclusive, Paths
    <2>2. /\ pc = [q \in Process |-> pc[q]] /\ Thread \subseteq Process
          /\ then \in [Thread -> Continuations]
          /\ op \in [Thread -> Calls \cup {"none"}]
          /\ "addIndexes" \notin Calls /\ "deleteAll" \notin Calls
      BY DEF IInv, Typed, Process, NoneTaken
    <2> QED
      BY <1>20, <2>1, <2>2
         DEF WaitForMerges, GoTo, GoToThen, Stays, threadVars, Path,
            TriggersMerge, Continuations, Throws, AddIndexes
  <1>21. ASSUME NEW t \in Thread, ShouldClose(t)
        PROVE  \A s \in Thread : Path(s)'
    <2>1. \A s \in Thread : Kind(s) /\ Path(s)
      BY DEF Exclusive, Paths
    <2>2. /\ pc = [q \in Process |-> pc[q]] /\ Thread \subseteq Process
          /\ then \in [Thread -> Continuations]
          /\ op \in [Thread -> Calls \cup {"none"}]
          /\ "addIndexes" \notin Calls /\ "deleteAll" \notin Calls
      BY DEF IInv, Typed, Process, NoneTaken
    <2> QED
      BY <1>21, <2>1, <2>2
         DEF ShouldClose, GoTo, GoToThen, Stays, threadVars, Path,
            TriggersMerge, Continuations, Throws, AddIndexes
  <1>22. ASSUME NEW t \in Thread, SyncThreads(t)
        PROVE  \A s \in Thread : Path(s)'
    <2>1. \A s \in Thread : Kind(s) /\ Path(s)
      BY DEF Exclusive, Paths
    <2>2. /\ pc = [q \in Process |-> pc[q]] /\ Thread \subseteq Process
          /\ then \in [Thread -> Continuations]
          /\ op \in [Thread -> Calls \cup {"none"}]
          /\ "addIndexes" \notin Calls /\ "deleteAll" \notin Calls
      BY DEF IInv, Typed, Process, NoneTaken
    <2> QED
      BY <1>22, <2>1, <2>2
         DEF SyncThreads, GoTo, GoToThen, Stays, threadVars, Path,
            TriggersMerge, Continuations, Throws, AddIndexes
  <1>23. ASSUME NEW t \in Thread, Revert(t)
        PROVE  \A s \in Thread : Path(s)'
    <2>1. \A s \in Thread : Kind(s) /\ Path(s)
      BY DEF Exclusive, Paths
    <2>2. /\ pc = [q \in Process |-> pc[q]] /\ Thread \subseteq Process
          /\ then \in [Thread -> Continuations]
          /\ op \in [Thread -> Calls \cup {"none"}]
          /\ "addIndexes" \notin Calls /\ "deleteAll" \notin Calls
      BY DEF IInv, Typed, Process, NoneTaken
    <2> QED
      BY <1>23, <2>1, <2>2
         DEF Revert, GoTo, GoToThen, Stays, threadVars, Path, TriggersMerge,
            Continuations, Throws, AddIndexes
  <1>24. ASSUME NEW t \in Thread, Recount(t)
        PROVE  \A s \in Thread : Path(s)'
    <2>1. \A s \in Thread : Kind(s) /\ Path(s)
      BY DEF Exclusive, Paths
    <2>2. /\ pc = [q \in Process |-> pc[q]] /\ Thread \subseteq Process
          /\ then \in [Thread -> Continuations]
          /\ op \in [Thread -> Calls \cup {"none"}]
          /\ "addIndexes" \notin Calls /\ "deleteAll" \notin Calls
      BY DEF IInv, Typed, Process, NoneTaken
    <2> QED
      BY <1>24, <2>1, <2>2
         DEF Recount, GoTo, GoToThen, Stays, threadVars, Path, TriggersMerge,
            Continuations, Throws, AddIndexes
  <1>25. ASSUME NEW t \in Thread, CloseInternal(t)
        PROVE  \A s \in Thread : Path(s)'
    <2>1. \A s \in Thread : Kind(s) /\ Path(s)
      BY DEF Exclusive, Paths
    <2>2. /\ pc = [q \in Process |-> pc[q]] /\ Thread \subseteq Process
          /\ then \in [Thread -> Continuations]
          /\ op \in [Thread -> Calls \cup {"none"}]
          /\ "addIndexes" \notin Calls /\ "deleteAll" \notin Calls
      BY DEF IInv, Typed, Process, NoneTaken
    <2> QED
      BY <1>25, <2>1, <2>2
         DEF CloseInternal, GoTo, GoToThen, Stays, threadVars, Path,
            TriggersMerge, Continuations, Throws, AddIndexes
  <1>26. ASSUME NEW t \in Thread, CloseMerges(t)
        PROVE  \A s \in Thread : Path(s)'
    <2>1. \A s \in Thread : Kind(s) /\ Path(s)
      BY DEF Exclusive, Paths
    <2>2. /\ pc = [q \in Process |-> pc[q]] /\ Thread \subseteq Process
          /\ then \in [Thread -> Continuations]
          /\ op \in [Thread -> Calls \cup {"none"}]
          /\ "addIndexes" \notin Calls /\ "deleteAll" \notin Calls
      BY DEF IInv, Typed, Process, NoneTaken
    <2> QED
      BY <1>26, <2>1, <2>2
         DEF CloseMerges, GoTo, GoToThen, Stays, threadVars, Path,
            TriggersMerge, Continuations, Throws, AddIndexes
  <1>27. ASSUME NEW t \in Thread, CloseStop(t)
        PROVE  \A s \in Thread : Path(s)'
    <2>1. \A s \in Thread : Kind(s) /\ Path(s)
      BY DEF Exclusive, Paths
    <2>2. /\ pc = [q \in Process |-> pc[q]] /\ Thread \subseteq Process
          /\ then \in [Thread -> Continuations]
          /\ op \in [Thread -> Calls \cup {"none"}]
          /\ "addIndexes" \notin Calls /\ "deleteAll" \notin Calls
      BY DEF IInv, Typed, Process, NoneTaken
    <2> QED
      BY <1>27, <2>1, <2>2
         DEF CloseStop, GoTo, GoToThen, Stays, threadVars, Path,
            TriggersMerge, Continuations, Throws, AddIndexes
  <1>28. ASSUME NEW t \in Thread, Closed(t)
        PROVE  \A s \in Thread : Path(s)'
    <2>1. \A s \in Thread : Kind(s) /\ Path(s)
      BY DEF Exclusive, Paths
    <2>2. /\ pc = [q \in Process |-> pc[q]] /\ Thread \subseteq Process
          /\ then \in [Thread -> Continuations]
          /\ op \in [Thread -> Calls \cup {"none"}]
          /\ "addIndexes" \notin Calls /\ "deleteAll" \notin Calls
      BY DEF IInv, Typed, Process, NoneTaken
    <2> QED
      BY <1>28, <2>1, <2>2
         DEF Closed, GoTo, GoToThen, Stays, threadVars, Path, TriggersMerge,
            Continuations, Throws, AddIndexes
  <1>29. ASSUME NEW t \in Thread, Schedule(t)
        PROVE  \A s \in Thread : Path(s)'
    <2>1. \A s \in Thread : Kind(s) /\ Path(s)
      BY DEF Exclusive, Paths
    <2>2. /\ pc = [q \in Process |-> pc[q]] /\ Thread \subseteq Process
          /\ then \in [Thread -> Continuations]
          /\ op \in [Thread -> Calls \cup {"none"}]
          /\ "addIndexes" \notin Calls /\ "deleteAll" \notin Calls
      BY DEF IInv, Typed, Process, NoneTaken
    <2> QED
      BY <1>29, <2>1, <2>2
         DEF Schedule, GoTo, GoToThen, Stays, threadVars, Path, TriggersMerge,
            Continuations, Throws, AddIndexes
  <1>30. ASSUME NEW t \in Thread, NEW m \in MergeThread, StartThread(t, m)
        PROVE  \A s \in Thread : Path(s)'
    <2>1. \A s \in Thread : Kind(s) /\ Path(s)
      BY DEF Exclusive, Paths
    <2>2. /\ pc = [q \in Process |-> pc[q]] /\ Thread \subseteq Process
          /\ then \in [Thread -> Continuations]
          /\ op \in [Thread -> Calls \cup {"none"}]
          /\ "addIndexes" \notin Calls /\ "deleteAll" \notin Calls
      BY DEF IInv, Typed, Process, NoneTaken
    <2> QED
      BY <1>30, <2>1, <2>2, MergesAssumption
         DEF StartThread, GoTo, GoToThen, Stays, threadVars, Path,
            TriggersMerge, Continuations, Throws, AddIndexes
  <1>31. ASSUME NEW p \in Process, MergeInit(p)
        PROVE  \A s \in Thread : Path(s)'
    <2>1. \A s \in Thread : Kind(s) /\ Path(s)
      BY DEF Exclusive, Paths
    <2>2. /\ pc = [q \in Process |-> pc[q]] /\ Thread \subseteq Process
          /\ then \in [Thread -> Continuations]
          /\ op \in [Thread -> Calls \cup {"none"}]
          /\ "addIndexes" \notin Calls /\ "deleteAll" \notin Calls
      BY DEF IInv, Typed, Process, NoneTaken
    <2> QED
      BY <1>31, <2>1, <2>2
         DEF MergeInit, Fails, Throws, GoTo, GoToThen, Stays, threadVars,
            Path, TriggersMerge, Continuations, Throws, AddIndexes
  <1>32. ASSUME NEW p \in Process, MergeMiddle(p)
        PROVE  \A s \in Thread : Path(s)'
    <2>1. \A s \in Thread : Kind(s) /\ Path(s)
      BY DEF Exclusive, Paths
    <2>2. /\ pc = [q \in Process |-> pc[q]] /\ Thread \subseteq Process
          /\ then \in [Thread -> Continuations]
          /\ op \in [Thread -> Calls \cup {"none"}]
          /\ "addIndexes" \notin Calls /\ "deleteAll" \notin Calls
      BY DEF IInv, Typed, Process, NoneTaken
    <2> QED
      BY <1>32, <2>1, <2>2
         DEF MergeMiddle, GoTo, GoToThen, Stays, threadVars, Path,
            TriggersMerge, Continuations, Throws, AddIndexes
  <1>33. ASSUME NEW p \in Process, CommitMerge(p)
        PROVE  \A s \in Thread : Path(s)'
    <2>1. \A s \in Thread : Kind(s) /\ Path(s)
      BY DEF Exclusive, Paths
    <2>2. /\ pc = [q \in Process |-> pc[q]] /\ Thread \subseteq Process
          /\ then \in [Thread -> Continuations]
          /\ op \in [Thread -> Calls \cup {"none"}]
          /\ "addIndexes" \notin Calls /\ "deleteAll" \notin Calls
      BY DEF IInv, Typed, Process, NoneTaken
    <2> QED
      BY <1>33, <2>1, <2>2
         DEF CommitMerge, GoTo, GoToThen, Stays, threadVars, Path,
            TriggersMerge, Continuations, Throws, AddIndexes
  <1>34. ASSUME NEW p \in Process, MergeDone(p)
        PROVE  \A s \in Thread : Path(s)'
    <2>1. \A s \in Thread : Kind(s) /\ Path(s)
      BY DEF Exclusive, Paths
    <2>2. /\ pc = [q \in Process |-> pc[q]] /\ Thread \subseteq Process
          /\ then \in [Thread -> Continuations]
          /\ op \in [Thread -> Calls \cup {"none"}]
          /\ "addIndexes" \notin Calls /\ "deleteAll" \notin Calls
      BY DEF IInv, Typed, Process, NoneTaken
    <2> QED
      BY <1>34, <2>1, <2>2
         DEF MergeDone, GoTo, GoToThen, Stays, threadVars, Path,
            TriggersMerge, Continuations, Throws, AddIndexes
  <1>35. ASSUME NEW p \in Process, MergeFailed(p)
        PROVE  \A s \in Thread : Path(s)'
    <2>1. \A s \in Thread : Kind(s) /\ Path(s)
      BY DEF Exclusive, Paths
    <2>2. /\ pc = [q \in Process |-> pc[q]] /\ Thread \subseteq Process
          /\ then \in [Thread -> Continuations]
          /\ op \in [Thread -> Calls \cup {"none"}]
          /\ "addIndexes" \notin Calls /\ "deleteAll" \notin Calls
      BY DEF IInv, Typed, Process, NoneTaken
    <2> QED
      BY <1>35, <2>1, <2>2
         DEF MergeFailed, Fails, Throws, GoTo, GoToThen, Stays, threadVars,
            Path, TriggersMerge, Continuations, Throws, AddIndexes
  <1>36. ASSUME NEW m \in MergeThread, NextMerge(m)
        PROVE  \A s \in Thread : Path(s)'
    <2>1. \A s \in Thread : Kind(s) /\ Path(s)
      BY DEF Exclusive, Paths
    <2>2. /\ pc = [q \in Process |-> pc[q]] /\ Thread \subseteq Process
          /\ then \in [Thread -> Continuations]
          /\ op \in [Thread -> Calls \cup {"none"}]
          /\ "addIndexes" \notin Calls /\ "deleteAll" \notin Calls
      BY DEF IInv, Typed, Process, NoneTaken
    <2> QED
      BY <1>36, <2>1, <2>2
         DEF NextMerge, GoTo, GoToThen, Stays, threadVars, Path,
            TriggersMerge, Continuations, Throws, AddIndexes
  <1>37. CASE UNCHANGED vars
    BY <1>37
      DEF vars, infoVars, commitVars, optVars, closeVars, lockVars,
         threadVars, Path, Paths
  <1> QED
    BY <1>1, <1>2, <1>3, <1>4, <1>5, <1>6, <1>7, <1>8, <1>9, <1>10, <1>11,
       <1>12, <1>13, <1>14, <1>15, <1>16, <1>17, <1>18, <1>19, <1>20, <1>21,
       <1>22, <1>23, <1>24, <1>25, <1>26, <1>27, <1>28, <1>29, <1>30, <1>31,
       <1>32, <1>33, <1>34, <1>35, <1>36, <1>37
      DEF Next, CallStep, MergeStep, Process

\* What rollback has put back is not safe from the merges that ran, until its
\* second finishMerges has ended.
Reverted(t) ==
    /\ op[t] = "rollback"
    /\ \/ pc[t] \in {"recount", "closeInternal"}
       \/ /\ pc[t] \in {"flush", "finishMerges", "finishRead", "finishWait"}
          /\ then[t] = "finishMerges"

\* A rollback has put the segments back when it does.
LEMMA RevertedFrom ==
    ASSUME IInv, Exclusive, NoneTaken, Paths, [Next]_vars
    PROVE  \A s \in Thread : Reverted(s)' => Reverted(s) \/ Revert(s)
  <1>1. ASSUME NEW t \in Thread, Call(t)
        PROVE  \A s \in Thread : Reverted(s)' => Reverted(s) \/ Revert(s)
    <2>1. \A s \in Thread : Kind(s) /\ Path(s)
      BY DEF Exclusive, Paths
    <2>2. /\ pc = [q \in Process |-> pc[q]] /\ Thread \subseteq Process
          /\ then \in [Thread -> Continuations]
          /\ op \in [Thread -> Calls \cup {"none"}]
      BY DEF IInv, Typed, Process
    <2> QED
      BY <1>1, <2>1, <2>2, MergesAssumption
         DEF Call, GoTo, GoToThen, Stays, threadVars, Reverted, Path,
            Continuations, AddIndexes
  <1>2. ASSUME NEW t \in Thread, AddDocument(t)
        PROVE  \A s \in Thread : Reverted(s)' => Reverted(s) \/ Revert(s)
    <2>1. \A s \in Thread : Kind(s) /\ Path(s)
      BY DEF Exclusive, Paths
    <2>2. /\ pc = [q \in Process |-> pc[q]] /\ Thread \subseteq Process
          /\ then \in [Thread -> Continuations]
          /\ op \in [Thread -> Calls \cup {"none"}]
      BY DEF IInv, Typed, Process
    <2> QED
      BY <1>2, <2>1, <2>2
         DEF AddDocument, GoTo, GoToThen, Stays, threadVars, Reverted, Path,
            Continuations, AddIndexes
  <1>3. ASSUME NEW t \in Thread, Flush(t)
        PROVE  \A s \in Thread : Reverted(s)' => Reverted(s) \/ Revert(s)
    <2>1. \A s \in Thread : Kind(s) /\ Path(s)
      BY DEF Exclusive, Paths
    <2>2. /\ pc = [q \in Process |-> pc[q]] /\ Thread \subseteq Process
          /\ then \in [Thread -> Continuations]
          /\ op \in [Thread -> Calls \cup {"none"}]
      BY DEF IInv, Typed, Process
    <2> QED
      BY <1>3, <2>1, <2>2
         DEF Flush, GoTo, GoToThen, Stays, threadVars, Reverted, Path,
            Continuations, AddIndexes
  <1>4. ASSUME NEW t \in Thread, UpdatePendingMerges(t)
        PROVE  \A s \in Thread : Reverted(s)' => Reverted(s) \/ Revert(s)
    <2>1. \A s \in Thread : Kind(s) /\ Path(s)
      BY DEF Exclusive, Paths
    <2>2. /\ pc = [q \in Process |-> pc[q]] /\ Thread \subseteq Process
          /\ then \in [Thread -> Continuations]
          /\ op \in [Thread -> Calls \cup {"none"}]
      BY DEF IInv, Typed, Process
    <2> QED
      BY <1>4, <2>1, <2>2
         DEF UpdatePendingMerges, GoTo, GoToThen, Stays, threadVars, Reverted,
            Path, Continuations, AddIndexes
  <1>5. ASSUME NEW t \in Thread, Commit(t)
        PROVE  \A s \in Thread : Reverted(s)' => Reverted(s) \/ Revert(s)
    <2>1. \A s \in Thread : Kind(s) /\ Path(s)
      BY DEF Exclusive, Paths
    <2>2. /\ pc = [q \in Process |-> pc[q]] /\ Thread \subseteq Process
          /\ then \in [Thread -> Continuations]
          /\ op \in [Thread -> Calls \cup {"none"}]
      BY DEF IInv, Typed, Process
    <2> QED
      BY <1>5, <2>1, <2>2
         DEF Commit, GoTo, GoToThen, Stays, threadVars, Reverted, Path,
            Continuations, AddIndexes
  <1>6. ASSUME NEW t \in Thread, Leave(t)
        PROVE  \A s \in Thread : Reverted(s)' => Reverted(s) \/ Revert(s)
    <2>1. \A s \in Thread : Kind(s) /\ Path(s)
      BY DEF Exclusive, Paths
    <2>2. /\ pc = [q \in Process |-> pc[q]] /\ Thread \subseteq Process
          /\ then \in [Thread -> Continuations]
          /\ op \in [Thread -> Calls \cup {"none"}]
      BY DEF IInv, Typed, Process
    <2> QED
      BY <1>6, <2>1, <2>2
         DEF Leave, GoTo, GoToThen, Stays, threadVars, Reverted, Path,
            Continuations, AddIndexes
  <1>7. ASSUME NEW t \in Thread, OptimizeMark(t)
        PROVE  \A s \in Thread : Reverted(s)' => Reverted(s) \/ Revert(s)
    <2>1. \A s \in Thread : Kind(s) /\ Path(s)
      BY DEF Exclusive, Paths
    <2>2. /\ pc = [q \in Process |-> pc[q]] /\ Thread \subseteq Process
          /\ then \in [Thread -> Continuations]
          /\ op \in [Thread -> Calls \cup {"none"}]
      BY DEF IInv, Typed, Process
    <2> QED
      BY <1>7, <2>1, <2>2
         DEF OptimizeMark, GoTo, GoToThen, Stays, threadVars, Reverted, Path,
            Continuations, AddIndexes
  <1>8. ASSUME NEW t \in Thread, OptimizeWait(t)
        PROVE  \A s \in Thread : Reverted(s)' => Reverted(s) \/ Revert(s)
    <2>1. \A s \in Thread : Kind(s) /\ Path(s)
      BY DEF Exclusive, Paths
    <2>2. /\ pc = [q \in Process |-> pc[q]] /\ Thread \subseteq Process
          /\ then \in [Thread -> Continuations]
          /\ op \in [Thread -> Calls \cup {"none"}]
      BY DEF IInv, Typed, Process
    <2> QED
      BY <1>8, <2>1, <2>2
         DEF OptimizeWait, GoTo, GoToThen, Stays, threadVars, Reverted, Path,
            Continuations, AddIndexes
  <1>9. ASSUME NEW t \in Thread, PauseAllThreads(t)
        PROVE  \A s \in Thread : Reverted(s)' => Reverted(s) \/ Revert(s)
    <2>1. \A s \in Thread : Kind(s) /\ Path(s)
      BY DEF Exclusive, Paths
    <2>2. /\ pc = [q \in Process |-> pc[q]] /\ Thread \subseteq Process
          /\ then \in [Thread -> Continuations]
          /\ op \in [Thread -> Calls \cup {"none"}]
      BY DEF IInv, Typed, Process
    <2> QED
      BY <1>9, <2>1, <2>2
         DEF PauseAllThreads, GoTo, GoToThen, Stays, threadVars, Reverted,
            Path, Continuations, AddIndexes
  <1>10. ASSUME NEW t \in Thread, AcquireRead(t)
        PROVE  \A s \in Thread : Reverted(s)' => Reverted(s) \/ Revert(s)
    <2>1. \A s \in Thread : Kind(s) /\ Path(s)
      BY DEF Exclusive, Paths
    <2>2. /\ pc = [q \in Process |-> pc[q]] /\ Thread \subseteq Process
          /\ then \in [Thread -> Continuations]
          /\ op \in [Thread -> Calls \cup {"none"}]
      BY DEF IInv, Typed, Process
    <2> QED
      BY <1>10, <2>1, <2>2
         DEF AcquireRead, GoTo, GoToThen, Stays, threadVars, Reverted, Path,
            Continuations, AddIndexes
  <1>11. ASSUME NEW t \in Thread, StartTransaction(t)
        PROVE  \A s \in Thread : Reverted(s)' => Reverted(s) \/ Revert(s)
    <2>1. \A s \in Thread : Kind(s) /\ Path(s)
      BY DEF Exclusive, Paths
    <2>2. /\ pc = [q \in Process |-> pc[q]] /\ Thread \subseteq Process
          /\ then \in [Thread -> Continuations]
          /\ op \in [Thread -> Calls \cup {"none"}]
      BY DEF IInv, Typed, Process
    <2> QED
      BY <1>11, <2>1, <2>2
         DEF StartTransaction, TakesWriteLock, UpgradeReadToWrite,
            AcquireWrite, TakesLock, GoTo, GoToThen, Stays, threadVars,
            Reverted, Path, Continuations, AddIndexes
  <1>12. ASSUME NEW t \in Thread, AddExternal(t)
        PROVE  \A s \in Thread : Reverted(s)' => Reverted(s) \/ Revert(s)
    <2>1. \A s \in Thread : Kind(s) /\ Path(s)
      BY DEF Exclusive, Paths
    <2>2. /\ pc = [q \in Process |-> pc[q]] /\ Thread \subseteq Process
          /\ then \in [Thread -> Continuations]
          /\ op \in [Thread -> Calls \cup {"none"}]
      BY DEF IInv, Typed, Process
    <2> QED
      BY <1>12, <2>1, <2>2
         DEF AddExternal, GoTo, GoToThen, Stays, threadVars, Reverted, Path,
            Continuations, AddIndexes
  <1>13. ASSUME NEW t \in Thread, TransactionOpen(t)
        PROVE  \A s \in Thread : Reverted(s)' => Reverted(s) \/ Revert(s)
    <2>1. \A s \in Thread : Kind(s) /\ Path(s)
      BY DEF Exclusive, Paths
    <2>2. /\ pc = [q \in Process |-> pc[q]] /\ Thread \subseteq Process
          /\ then \in [Thread -> Continuations]
          /\ op \in [Thread -> Calls \cup {"none"}]
      BY DEF IInv, Typed, Process
    <2> QED
      BY <1>13, <2>1, <2>2
         DEF TransactionOpen, GoTo, GoToThen, Stays, threadVars, Reverted,
            Path, Continuations, AddIndexes
  <1>14. ASSUME NEW t \in Thread, ResolveExternal(t)
        PROVE  \A s \in Thread : Reverted(s)' => Reverted(s) \/ Revert(s)
    <2>1. \A s \in Thread : Kind(s) /\ Path(s)
      BY DEF Exclusive, Paths
    <2>2. /\ pc = [q \in Process |-> pc[q]] /\ Thread \subseteq Process
          /\ then \in [Thread -> Continuations]
          /\ op \in [Thread -> Calls \cup {"none"}]
      BY DEF IInv, Typed, Process
    <2> QED
      BY <1>14, <2>1, <2>2
         DEF ResolveExternal, GoTo, GoToThen, Stays, threadVars, Reverted,
            Path, Continuations, AddIndexes
  <1>15. ASSUME NEW t \in Thread, ReadersGet(t)
        PROVE  \A s \in Thread : Reverted(s)' => Reverted(s) \/ Revert(s)
    <2>1. \A s \in Thread : Kind(s) /\ Path(s)
      BY DEF Exclusive, Paths
    <2>2. /\ pc = [q \in Process |-> pc[q]] /\ Thread \subseteq Process
          /\ then \in [Thread -> Continuations]
          /\ op \in [Thread -> Calls \cup {"none"}]
      BY DEF IInv, Typed, Process
    <2> QED
      BY <1>15, <2>1, <2>2
         DEF ReadersGet, GoTo, GoToThen, Stays, threadVars, Reverted, Path,
            Continuations, AddIndexes
  <1>16. ASSUME NEW t \in Thread, ReadersPut(t)
        PROVE  \A s \in Thread : Reverted(s)' => Reverted(s) \/ Revert(s)
    <2>1. \A s \in Thread : Kind(s) /\ Path(s)
      BY DEF Exclusive, Paths
    <2>2. /\ pc = [q \in Process |-> pc[q]] /\ Thread \subseteq Process
          /\ then \in [Thread -> Continuations]
          /\ op \in [Thread -> Calls \cup {"none"}]
      BY DEF IInv, Typed, Process
    <2> QED
      BY <1>16, <2>1, <2>2
         DEF ReadersPut, GoTo, GoToThen, Stays, threadVars, Reverted, Path,
            Continuations, AddIndexes
  <1>17. ASSUME NEW t \in Thread, CommitTransaction(t)
        PROVE  \A s \in Thread : Reverted(s)' => Reverted(s) \/ Revert(s)
    <2>1. \A s \in Thread : Kind(s) /\ Path(s)
      BY DEF Exclusive, Paths
    <2>2. /\ pc = [q \in Process |-> pc[q]] /\ Thread \subseteq Process
          /\ then \in [Thread -> Continuations]
          /\ op \in [Thread -> Calls \cup {"none"}]
      BY DEF IInv, Typed, Process
    <2> QED
      BY <1>17, <2>1, <2>2
         DEF CommitTransaction, GoTo, GoToThen, Stays, threadVars, Reverted,
            Path, Continuations, AddIndexes
  <1>18. ASSUME NEW t \in Thread, FinishMerges(t)
        PROVE  \A s \in Thread : Reverted(s)' => Reverted(s) \/ Revert(s)
    <2>1. UNCHANGED <<op, then>> /\ \A s \in Thread \ {t} : pc'[s] = pc[s]
      BY <1>18
         DEF FinishMerges, MergesFinished, GoTo, Stays, IInv, Typed, Process
    <2>2. \A s \in Thread : Path(s) /\ Kind(s)
      BY DEF Exclusive, Paths
    <2>3. /\ pc[t] \in {"finishRead", "finishWait", "finishMerges",
                        "rollbackTransaction", "deleteAll"}
          /\ pc'[t] \in {"throw", "return", "closeStop", "finishWait",
                         "finishRead", "sync"}
      BY <1>18
         DEF FinishMerges, MergesFinished, GoTo, Stays, IInv, Typed, Process
    <2>4. Reverted(t)' => Reverted(t)
      BY <2>1, <2>2, <2>3 DEF Path, Reverted
    <2> QED
      BY <2>1, <2>4 DEF Reverted
  <1>19. ASSUME NEW t \in Thread, FinishMergesWait(t)
        PROVE  \A s \in Thread : Reverted(s)' => Reverted(s) \/ Revert(s)
    <2>1. UNCHANGED <<op, then>> /\ \A s \in Thread \ {t} : pc'[s] = pc[s]
      BY <1>19
         DEF FinishMergesWait, MergesFinished, GoTo, Stays, IInv, Typed, Process
    <2>2. \A s \in Thread : Path(s) /\ Kind(s)
      BY DEF Exclusive, Paths
    <2>3. /\ pc[t] \in {"finishRead", "finishWait", "finishMerges",
                        "rollbackTransaction", "deleteAll"}
          /\ pc'[t] \in {"throw", "return", "closeStop", "finishWait",
                         "finishRead", "sync"}
      BY <1>19
         DEF FinishMergesWait, MergesFinished, GoTo, Stays, IInv, Typed, Process
    <2>4. Reverted(t)' => Reverted(t)
      BY <2>1, <2>2, <2>3 DEF Path, Reverted
    <2> QED
      BY <2>1, <2>4 DEF Reverted
  <1>20. ASSUME NEW t \in Thread, WaitForMerges(t)
        PROVE  \A s \in Thread : Reverted(s)' => Reverted(s) \/ Revert(s)
    <2>1. \A s \in Thread : Kind(s) /\ Path(s)
      BY DEF Exclusive, Paths
    <2>2. /\ pc = [q \in Process |-> pc[q]] /\ Thread \subseteq Process
          /\ then \in [Thread -> Continuations]
          /\ op \in [Thread -> Calls \cup {"none"}]
      BY DEF IInv, Typed, Process
    <2> QED
      BY <1>20, <2>1, <2>2
         DEF WaitForMerges, GoTo, GoToThen, Stays, threadVars, Reverted, Path,
            Continuations, AddIndexes
  <1>21. ASSUME NEW t \in Thread, ShouldClose(t)
        PROVE  \A s \in Thread : Reverted(s)' => Reverted(s) \/ Revert(s)
    <2>1. \A s \in Thread : Kind(s) /\ Path(s)
      BY DEF Exclusive, Paths
    <2>2. /\ pc = [q \in Process |-> pc[q]] /\ Thread \subseteq Process
          /\ then \in [Thread -> Continuations]
          /\ op \in [Thread -> Calls \cup {"none"}]
      BY DEF IInv, Typed, Process
    <2> QED
      BY <1>21, <2>1, <2>2
         DEF ShouldClose, GoTo, GoToThen, Stays, threadVars, Reverted, Path,
            Continuations, AddIndexes
  <1>22. ASSUME NEW t \in Thread, SyncThreads(t)
        PROVE  \A s \in Thread : Reverted(s)' => Reverted(s) \/ Revert(s)
    <2>1. \A s \in Thread : Kind(s) /\ Path(s)
      BY DEF Exclusive, Paths
    <2>2. /\ pc = [q \in Process |-> pc[q]] /\ Thread \subseteq Process
          /\ then \in [Thread -> Continuations]
          /\ op \in [Thread -> Calls \cup {"none"}]
      BY DEF IInv, Typed, Process
    <2> QED
      BY <1>22, <2>1, <2>2
         DEF SyncThreads, GoTo, GoToThen, Stays, threadVars, Reverted, Path,
            Continuations, AddIndexes
  <1>23. ASSUME NEW t \in Thread, Revert(t)
        PROVE  \A s \in Thread : Reverted(s)' => Reverted(s) \/ Revert(s)
    <2>1. /\ pc = [q \in Process |-> pc[q]] /\ Thread \subseteq Process
          /\ then' = then /\ op' = op /\ pc' = [pc EXCEPT ![t] = "recount"]
      BY <1>23 DEF Revert, GoTo, Stays, IInv, Typed, Process
    <2>2. \A s \in Thread \ {t} : pc'[s] = pc[s]
      BY <2>1
    <2> QED
      BY <1>23, <2>1, <2>2 DEF Reverted
  <1>24. ASSUME NEW t \in Thread, Recount(t)
        PROVE  \A s \in Thread : Reverted(s)' => Reverted(s) \/ Revert(s)
    <2>1. \A s \in Thread : Kind(s) /\ Path(s)
      BY DEF Exclusive, Paths
    <2>2. /\ pc = [q \in Process |-> pc[q]] /\ Thread \subseteq Process
          /\ then \in [Thread -> Continuations]
          /\ op \in [Thread -> Calls \cup {"none"}]
      BY DEF IInv, Typed, Process
    <2> QED
      BY <1>24, <2>1, <2>2
         DEF Recount, GoTo, GoToThen, Stays, threadVars, Reverted, Path,
            Continuations, AddIndexes
  <1>25. ASSUME NEW t \in Thread, CloseInternal(t)
        PROVE  \A s \in Thread : Reverted(s)' => Reverted(s) \/ Revert(s)
    <2>1. \A s \in Thread : Kind(s) /\ Path(s)
      BY DEF Exclusive, Paths
    <2>2. /\ pc = [q \in Process |-> pc[q]] /\ Thread \subseteq Process
          /\ then \in [Thread -> Continuations]
          /\ op \in [Thread -> Calls \cup {"none"}]
      BY DEF IInv, Typed, Process
    <2> QED
      BY <1>25, <2>1, <2>2
         DEF CloseInternal, GoTo, GoToThen, Stays, threadVars, Reverted, Path,
            Continuations, AddIndexes
  <1>26. ASSUME NEW t \in Thread, CloseMerges(t)
        PROVE  \A s \in Thread : Reverted(s)' => Reverted(s) \/ Revert(s)
    <2>1. \A s \in Thread : Kind(s) /\ Path(s)
      BY DEF Exclusive, Paths
    <2>2. /\ pc = [q \in Process |-> pc[q]] /\ Thread \subseteq Process
          /\ then \in [Thread -> Continuations]
          /\ op \in [Thread -> Calls \cup {"none"}]
      BY DEF IInv, Typed, Process
    <2> QED
      BY <1>26, <2>1, <2>2
         DEF CloseMerges, GoTo, GoToThen, Stays, threadVars, Reverted, Path,
            Continuations, AddIndexes
  <1>27. ASSUME NEW t \in Thread, CloseStop(t)
        PROVE  \A s \in Thread : Reverted(s)' => Reverted(s) \/ Revert(s)
    <2>1. \A s \in Thread : Kind(s) /\ Path(s)
      BY DEF Exclusive, Paths
    <2>2. /\ pc = [q \in Process |-> pc[q]] /\ Thread \subseteq Process
          /\ then \in [Thread -> Continuations]
          /\ op \in [Thread -> Calls \cup {"none"}]
      BY DEF IInv, Typed, Process
    <2> QED
      BY <1>27, <2>1, <2>2
         DEF CloseStop, GoTo, GoToThen, Stays, threadVars, Reverted, Path,
            Continuations, AddIndexes
  <1>28. ASSUME NEW t \in Thread, Closed(t)
        PROVE  \A s \in Thread : Reverted(s)' => Reverted(s) \/ Revert(s)
    <2>1. \A s \in Thread : Kind(s) /\ Path(s)
      BY DEF Exclusive, Paths
    <2>2. /\ pc = [q \in Process |-> pc[q]] /\ Thread \subseteq Process
          /\ then \in [Thread -> Continuations]
          /\ op \in [Thread -> Calls \cup {"none"}]
      BY DEF IInv, Typed, Process
    <2> QED
      BY <1>28, <2>1, <2>2
         DEF Closed, GoTo, GoToThen, Stays, threadVars, Reverted, Path,
            Continuations, AddIndexes
  <1>29. ASSUME NEW t \in Thread, Schedule(t)
        PROVE  \A s \in Thread : Reverted(s)' => Reverted(s) \/ Revert(s)
    <2>1. \A s \in Thread : Kind(s) /\ Path(s)
      BY DEF Exclusive, Paths
    <2>2. /\ pc = [q \in Process |-> pc[q]] /\ Thread \subseteq Process
          /\ then \in [Thread -> Continuations]
          /\ op \in [Thread -> Calls \cup {"none"}]
      BY DEF IInv, Typed, Process
    <2> QED
      BY <1>29, <2>1, <2>2
         DEF Schedule, GoTo, GoToThen, Stays, threadVars, Reverted, Path,
            Continuations, AddIndexes
  <1>30. ASSUME NEW t \in Thread, NEW m \in MergeThread, StartThread(t, m)
        PROVE  \A s \in Thread : Reverted(s)' => Reverted(s) \/ Revert(s)
    <2>1. \A s \in Thread : Kind(s) /\ Path(s)
      BY DEF Exclusive, Paths
    <2>2. /\ pc = [q \in Process |-> pc[q]] /\ Thread \subseteq Process
          /\ then \in [Thread -> Continuations]
          /\ op \in [Thread -> Calls \cup {"none"}]
      BY DEF IInv, Typed, Process
    <2> QED
      BY <1>30, <2>1, <2>2, MergesAssumption
         DEF StartThread, GoTo, GoToThen, Stays, threadVars, Reverted, Path,
            Continuations, AddIndexes
  <1>31. ASSUME NEW p \in Process, MergeInit(p)
        PROVE  \A s \in Thread : Reverted(s)' => Reverted(s) \/ Revert(s)
    <2>1. \A s \in Thread : Kind(s) /\ Path(s)
      BY DEF Exclusive, Paths
    <2>2. /\ pc = [q \in Process |-> pc[q]] /\ Thread \subseteq Process
          /\ then \in [Thread -> Continuations]
          /\ op \in [Thread -> Calls \cup {"none"}]
      BY DEF IInv, Typed, Process
    <2> QED
      BY <1>31, <2>1, <2>2
         DEF MergeInit, Fails, Throws, GoTo, GoToThen, Stays, threadVars,
            Reverted, Path, Continuations, AddIndexes
  <1>32. ASSUME NEW p \in Process, MergeMiddle(p)
        PROVE  \A s \in Thread : Reverted(s)' => Reverted(s) \/ Revert(s)
    <2>1. \A s \in Thread : Kind(s) /\ Path(s)
      BY DEF Exclusive, Paths
    <2>2. /\ pc = [q \in Process |-> pc[q]] /\ Thread \subseteq Process
          /\ then \in [Thread -> Continuations]
          /\ op \in [Thread -> Calls \cup {"none"}]
      BY DEF IInv, Typed, Process
    <2> QED
      BY <1>32, <2>1, <2>2
         DEF MergeMiddle, GoTo, GoToThen, Stays, threadVars, Reverted, Path,
            Continuations, AddIndexes
  <1>33. ASSUME NEW p \in Process, CommitMerge(p)
        PROVE  \A s \in Thread : Reverted(s)' => Reverted(s) \/ Revert(s)
    <2>1. \A s \in Thread : Kind(s) /\ Path(s)
      BY DEF Exclusive, Paths
    <2>2. /\ pc = [q \in Process |-> pc[q]] /\ Thread \subseteq Process
          /\ then \in [Thread -> Continuations]
          /\ op \in [Thread -> Calls \cup {"none"}]
      BY DEF IInv, Typed, Process
    <2> QED
      BY <1>33, <2>1, <2>2
         DEF CommitMerge, GoTo, GoToThen, Stays, threadVars, Reverted, Path,
            Continuations, AddIndexes
  <1>34. ASSUME NEW p \in Process, MergeDone(p)
        PROVE  \A s \in Thread : Reverted(s)' => Reverted(s) \/ Revert(s)
    <2>1. \A s \in Thread : Kind(s) /\ Path(s)
      BY DEF Exclusive, Paths
    <2>2. /\ pc = [q \in Process |-> pc[q]] /\ Thread \subseteq Process
          /\ then \in [Thread -> Continuations]
          /\ op \in [Thread -> Calls \cup {"none"}]
      BY DEF IInv, Typed, Process
    <2> QED
      BY <1>34, <2>1, <2>2
         DEF MergeDone, GoTo, GoToThen, Stays, threadVars, Reverted, Path,
            Continuations, AddIndexes
  <1>35. ASSUME NEW p \in Process, MergeFailed(p)
        PROVE  \A s \in Thread : Reverted(s)' => Reverted(s) \/ Revert(s)
    <2>1. \A s \in Thread : Kind(s) /\ Path(s)
      BY DEF Exclusive, Paths
    <2>2. /\ pc = [q \in Process |-> pc[q]] /\ Thread \subseteq Process
          /\ then \in [Thread -> Continuations]
          /\ op \in [Thread -> Calls \cup {"none"}]
      BY DEF IInv, Typed, Process
    <2> QED
      BY <1>35, <2>1, <2>2
         DEF MergeFailed, Fails, Throws, GoTo, GoToThen, Stays, threadVars,
            Reverted, Path, Continuations, AddIndexes
  <1>36. ASSUME NEW m \in MergeThread, NextMerge(m)
        PROVE  \A s \in Thread : Reverted(s)' => Reverted(s) \/ Revert(s)
    <2>1. \A s \in Thread : Kind(s) /\ Path(s)
      BY DEF Exclusive, Paths
    <2>2. /\ pc = [q \in Process |-> pc[q]] /\ Thread \subseteq Process
          /\ then \in [Thread -> Continuations]
          /\ op \in [Thread -> Calls \cup {"none"}]
      BY DEF IInv, Typed, Process
    <2> QED
      BY <1>36, <2>1, <2>2
         DEF NextMerge, GoTo, GoToThen, Stays, threadVars, Reverted, Path,
            Continuations, AddIndexes
  <1>37. CASE UNCHANGED vars
    BY <1>37
      DEF vars, infoVars, commitVars, optVars, closeVars, lockVars,
         threadVars, Reverted
  <1> QED
    BY <1>1, <1>2, <1>3, <1>4, <1>5, <1>6, <1>7, <1>8, <1>9, <1>10, <1>11,
       <1>12, <1>13, <1>14, <1>15, <1>16, <1>17, <1>18, <1>19, <1>20, <1>21,
       <1>22, <1>23, <1>24, <1>25, <1>26, <1>27, <1>28, <1>29, <1>30, <1>31,
       <1>32, <1>33, <1>34, <1>35, <1>36, <1>37
      DEF Next, CallStep, MergeStep, Process

\* A rollback that has put the segments back goes on to finishMerges.
LEMMA RevertedTo ==
    ASSUME IInv, Exclusive, NoneTaken, Paths, [Next]_vars
    PROVE  \A s \in Thread : Reverted(s) =>
              \/ Reverted(s)'
              \/ FinishMerges(s) \/ FinishMergesWait(s)
  <1>1. ASSUME NEW t \in Thread, Call(t)
        PROVE  \A s \in Thread : Reverted(s) =>
              \/ Reverted(s)'
              \/ FinishMerges(s) \/ FinishMergesWait(s)
    <2>1. \A s \in Thread : Kind(s) /\ (Reverted(s) => ~closed)
      <3>1. \A s \in Thread : Reverted(s) => Closer(s)
        BY DEF Reverted, Closer, Closing
      <3> QED
        BY <3>1 DEF Exclusive
    <2>2. /\ pc = [q \in Process |-> pc[q]] /\ Thread \subseteq Process
          /\ then \in [Thread -> Continuations]
          /\ op \in [Thread -> Calls \cup {"none"}]
      BY DEF IInv, Typed, Process
    <2> QED
      BY <1>1, <2>1, <2>2, MergesAssumption
         DEF Call, GoTo, GoToThen, Stays, threadVars, Reverted, TriggersMerge,
            Continuations, AddIndexes
  <1>2. ASSUME NEW t \in Thread, AddDocument(t)
        PROVE  \A s \in Thread : Reverted(s) =>
              \/ Reverted(s)'
              \/ FinishMerges(s) \/ FinishMergesWait(s)
    <2>1. \A s \in Thread : Kind(s) /\ (Reverted(s) => ~closed)
      <3>1. \A s \in Thread : Reverted(s) => Closer(s)
        BY DEF Reverted, Closer, Closing
      <3> QED
        BY <3>1 DEF Exclusive
    <2>2. /\ pc = [q \in Process |-> pc[q]] /\ Thread \subseteq Process
          /\ then \in [Thread -> Continuations]
          /\ op \in [Thread -> Calls \cup {"none"}]
      BY DEF IInv, Typed, Process
    <2> QED
      BY <1>2, <2>1, <2>2
         DEF AddDocument, GoTo, GoToThen, Stays, threadVars, Reverted,
            TriggersMerge, Continuations, AddIndexes
  <1>3. ASSUME NEW t \in Thread, Flush(t)
        PROVE  \A s \in Thread : Reverted(s) =>
              \/ Reverted(s)'
              \/ FinishMerges(s) \/ FinishMergesWait(s)
    <2>1. \A s \in Thread : Kind(s) /\ (Reverted(s) => ~closed)
      <3>1. \A s \in Thread : Reverted(s) => Closer(s)
        BY DEF Reverted, Closer, Closing
      <3> QED
        BY <3>1 DEF Exclusive
    <2>2. /\ pc = [q \in Process |-> pc[q]] /\ Thread \subseteq Process
          /\ then \in [Thread -> Continuations]
          /\ op \in [Thread -> Calls \cup {"none"}]
      BY DEF IInv, Typed, Process
    <2> QED
      BY <1>3, <2>1, <2>2
         DEF Flush, GoTo, GoToThen, Stays, threadVars, Reverted,
            TriggersMerge, Continuations, AddIndexes
  <1>4. ASSUME NEW t \in Thread, UpdatePendingMerges(t)
        PROVE  \A s \in Thread : Reverted(s) =>
              \/ Reverted(s)'
              \/ FinishMerges(s) \/ FinishMergesWait(s)
    <2>1. \A s \in Thread : Kind(s) /\ (Reverted(s) => ~closed)
      <3>1. \A s \in Thread : Reverted(s) => Closer(s)
        BY DEF Reverted, Closer, Closing
      <3> QED
        BY <3>1 DEF Exclusive
    <2>2. /\ pc = [q \in Process |-> pc[q]] /\ Thread \subseteq Process
          /\ then \in [Thread -> Continuations]
          /\ op \in [Thread -> Calls \cup {"none"}]
      BY DEF IInv, Typed, Process
    <2> QED
      BY <1>4, <2>1, <2>2
         DEF UpdatePendingMerges, GoTo, GoToThen, Stays, threadVars, Reverted,
            TriggersMerge, Continuations, AddIndexes
  <1>5. ASSUME NEW t \in Thread, Commit(t)
        PROVE  \A s \in Thread : Reverted(s) =>
              \/ Reverted(s)'
              \/ FinishMerges(s) \/ FinishMergesWait(s)
    <2>1. \A s \in Thread : Kind(s) /\ (Reverted(s) => ~closed)
      <3>1. \A s \in Thread : Reverted(s) => Closer(s)
        BY DEF Reverted, Closer, Closing
      <3> QED
        BY <3>1 DEF Exclusive
    <2>2. /\ pc = [q \in Process |-> pc[q]] /\ Thread \subseteq Process
          /\ then \in [Thread -> Continuations]
          /\ op \in [Thread -> Calls \cup {"none"}]
      BY DEF IInv, Typed, Process
    <2> QED
      BY <1>5, <2>1, <2>2
         DEF Commit, GoTo, GoToThen, Stays, threadVars, Reverted,
            TriggersMerge, Continuations, AddIndexes
  <1>6. ASSUME NEW t \in Thread, Leave(t)
        PROVE  \A s \in Thread : Reverted(s) =>
              \/ Reverted(s)'
              \/ FinishMerges(s) \/ FinishMergesWait(s)
    <2>1. \A s \in Thread : Kind(s) /\ (Reverted(s) => ~closed)
      <3>1. \A s \in Thread : Reverted(s) => Closer(s)
        BY DEF Reverted, Closer, Closing
      <3> QED
        BY <3>1 DEF Exclusive
    <2>2. /\ pc = [q \in Process |-> pc[q]] /\ Thread \subseteq Process
          /\ then \in [Thread -> Continuations]
          /\ op \in [Thread -> Calls \cup {"none"}]
      BY DEF IInv, Typed, Process
    <2> QED
      BY <1>6, <2>1, <2>2
         DEF Leave, GoTo, GoToThen, Stays, threadVars, Reverted,
            TriggersMerge, Continuations, AddIndexes
  <1>7. ASSUME NEW t \in Thread, OptimizeMark(t)
        PROVE  \A s \in Thread : Reverted(s) =>
              \/ Reverted(s)'
              \/ FinishMerges(s) \/ FinishMergesWait(s)
    <2>1. \A s \in Thread : Kind(s) /\ (Reverted(s) => ~closed)
      <3>1. \A s \in Thread : Reverted(s) => Closer(s)
        BY DEF Reverted, Closer, Closing
      <3> QED
        BY <3>1 DEF Exclusive
    <2>2. /\ pc = [q \in Process |-> pc[q]] /\ Thread \subseteq Process
          /\ then \in [Thread -> Continuations]
          /\ op \in [Thread -> Calls \cup {"none"}]
      BY DEF IInv, Typed, Process
    <2> QED
      BY <1>7, <2>1, <2>2
         DEF OptimizeMark, GoTo, GoToThen, Stays, threadVars, Reverted,
            TriggersMerge, Continuations, AddIndexes
  <1>8. ASSUME NEW t \in Thread, OptimizeWait(t)
        PROVE  \A s \in Thread : Reverted(s) =>
              \/ Reverted(s)'
              \/ FinishMerges(s) \/ FinishMergesWait(s)
    <2>1. \A s \in Thread : Kind(s) /\ (Reverted(s) => ~closed)
      <3>1. \A s \in Thread : Reverted(s) => Closer(s)
        BY DEF Reverted, Closer, Closing
      <3> QED
        BY <3>1 DEF Exclusive
    <2>2. /\ pc = [q \in Process |-> pc[q]] /\ Thread \subseteq Process
          /\ then \in [Thread -> Continuations]
          /\ op \in [Thread -> Calls \cup {"none"}]
      BY DEF IInv, Typed, Process
    <2> QED
      BY <1>8, <2>1, <2>2
         DEF OptimizeWait, GoTo, GoToThen, Stays, threadVars, Reverted,
            TriggersMerge, Continuations, AddIndexes
  <1>9. ASSUME NEW t \in Thread, PauseAllThreads(t)
        PROVE  \A s \in Thread : Reverted(s) =>
              \/ Reverted(s)'
              \/ FinishMerges(s) \/ FinishMergesWait(s)
    <2>1. \A s \in Thread : Kind(s) /\ (Reverted(s) => ~closed)
      <3>1. \A s \in Thread : Reverted(s) => Closer(s)
        BY DEF Reverted, Closer, Closing
      <3> QED
        BY <3>1 DEF Exclusive
    <2>2. /\ pc = [q \in Process |-> pc[q]] /\ Thread \subseteq Process
          /\ then \in [Thread -> Continuations]
          /\ op \in [Thread -> Calls \cup {"none"}]
      BY DEF IInv, Typed, Process
    <2> QED
      BY <1>9, <2>1, <2>2
         DEF PauseAllThreads, GoTo, GoToThen, Stays, threadVars, Reverted,
            TriggersMerge, Continuations, AddIndexes
  <1>10. ASSUME NEW t \in Thread, AcquireRead(t)
        PROVE  \A s \in Thread : Reverted(s) =>
              \/ Reverted(s)'
              \/ FinishMerges(s) \/ FinishMergesWait(s)
    <2>1. \A s \in Thread : Kind(s) /\ (Reverted(s) => ~closed)
      <3>1. \A s \in Thread : Reverted(s) => Closer(s)
        BY DEF Reverted, Closer, Closing
      <3> QED
        BY <3>1 DEF Exclusive
    <2>2. /\ pc = [q \in Process |-> pc[q]] /\ Thread \subseteq Process
          /\ then \in [Thread -> Continuations]
          /\ op \in [Thread -> Calls \cup {"none"}]
      BY DEF IInv, Typed, Process
    <2> QED
      BY <1>10, <2>1, <2>2
         DEF AcquireRead, GoTo, GoToThen, Stays, threadVars, Reverted,
            TriggersMerge, Continuations, AddIndexes
  <1>11. ASSUME NEW t \in Thread, StartTransaction(t)
        PROVE  \A s \in Thread : Reverted(s) =>
              \/ Reverted(s)'
              \/ FinishMerges(s) \/ FinishMergesWait(s)
    <2>1. \A s \in Thread : Kind(s) /\ (Reverted(s) => ~closed)
      <3>1. \A s \in Thread : Reverted(s) => Closer(s)
        BY DEF Reverted, Closer, Closing
      <3> QED
        BY <3>1 DEF Exclusive
    <2>2. /\ pc = [q \in Process |-> pc[q]] /\ Thread \subseteq Process
          /\ then \in [Thread -> Continuations]
          /\ op \in [Thread -> Calls \cup {"none"}]
      BY DEF IInv, Typed, Process
    <2> QED
      BY <1>11, <2>1, <2>2
         DEF StartTransaction, TakesWriteLock, UpgradeReadToWrite,
            AcquireWrite, TakesLock, GoTo, GoToThen, Stays, threadVars,
            Reverted, TriggersMerge, Continuations, AddIndexes
  <1>12. ASSUME NEW t \in Thread, AddExternal(t)
        PROVE  \A s \in Thread : Reverted(s) =>
              \/ Reverted(s)'
              \/ FinishMerges(s) \/ FinishMergesWait(s)
    <2>1. \A s \in Thread : Kind(s) /\ (Reverted(s) => ~closed)
      <3>1. \A s \in Thread : Reverted(s) => Closer(s)
        BY DEF Reverted, Closer, Closing
      <3> QED
        BY <3>1 DEF Exclusive
    <2>2. /\ pc = [q \in Process |-> pc[q]] /\ Thread \subseteq Process
          /\ then \in [Thread -> Continuations]
          /\ op \in [Thread -> Calls \cup {"none"}]
      BY DEF IInv, Typed, Process
    <2> QED
      BY <1>12, <2>1, <2>2
         DEF AddExternal, GoTo, GoToThen, Stays, threadVars, Reverted,
            TriggersMerge, Continuations, AddIndexes
  <1>13. ASSUME NEW t \in Thread, TransactionOpen(t)
        PROVE  \A s \in Thread : Reverted(s) =>
              \/ Reverted(s)'
              \/ FinishMerges(s) \/ FinishMergesWait(s)
    <2>1. \A s \in Thread : Kind(s) /\ (Reverted(s) => ~closed)
      <3>1. \A s \in Thread : Reverted(s) => Closer(s)
        BY DEF Reverted, Closer, Closing
      <3> QED
        BY <3>1 DEF Exclusive
    <2>2. /\ pc = [q \in Process |-> pc[q]] /\ Thread \subseteq Process
          /\ then \in [Thread -> Continuations]
          /\ op \in [Thread -> Calls \cup {"none"}]
      BY DEF IInv, Typed, Process
    <2> QED
      BY <1>13, <2>1, <2>2
         DEF TransactionOpen, GoTo, GoToThen, Stays, threadVars, Reverted,
            TriggersMerge, Continuations, AddIndexes
  <1>14. ASSUME NEW t \in Thread, ResolveExternal(t)
        PROVE  \A s \in Thread : Reverted(s) =>
              \/ Reverted(s)'
              \/ FinishMerges(s) \/ FinishMergesWait(s)
    <2>1. \A s \in Thread : Kind(s) /\ (Reverted(s) => ~closed)
      <3>1. \A s \in Thread : Reverted(s) => Closer(s)
        BY DEF Reverted, Closer, Closing
      <3> QED
        BY <3>1 DEF Exclusive
    <2>2. /\ pc = [q \in Process |-> pc[q]] /\ Thread \subseteq Process
          /\ then \in [Thread -> Continuations]
          /\ op \in [Thread -> Calls \cup {"none"}]
      BY DEF IInv, Typed, Process
    <2> QED
      BY <1>14, <2>1, <2>2
         DEF ResolveExternal, GoTo, GoToThen, Stays, threadVars, Reverted,
            TriggersMerge, Continuations, AddIndexes
  <1>15. ASSUME NEW t \in Thread, ReadersGet(t)
        PROVE  \A s \in Thread : Reverted(s) =>
              \/ Reverted(s)'
              \/ FinishMerges(s) \/ FinishMergesWait(s)
    <2>1. \A s \in Thread : Kind(s) /\ (Reverted(s) => ~closed)
      <3>1. \A s \in Thread : Reverted(s) => Closer(s)
        BY DEF Reverted, Closer, Closing
      <3> QED
        BY <3>1 DEF Exclusive
    <2>2. /\ pc = [q \in Process |-> pc[q]] /\ Thread \subseteq Process
          /\ then \in [Thread -> Continuations]
          /\ op \in [Thread -> Calls \cup {"none"}]
      BY DEF IInv, Typed, Process
    <2> QED
      BY <1>15, <2>1, <2>2
         DEF ReadersGet, GoTo, GoToThen, Stays, threadVars, Reverted,
            TriggersMerge, Continuations, AddIndexes
  <1>16. ASSUME NEW t \in Thread, ReadersPut(t)
        PROVE  \A s \in Thread : Reverted(s) =>
              \/ Reverted(s)'
              \/ FinishMerges(s) \/ FinishMergesWait(s)
    <2>1. \A s \in Thread : Kind(s) /\ (Reverted(s) => ~closed)
      <3>1. \A s \in Thread : Reverted(s) => Closer(s)
        BY DEF Reverted, Closer, Closing
      <3> QED
        BY <3>1 DEF Exclusive
    <2>2. /\ pc = [q \in Process |-> pc[q]] /\ Thread \subseteq Process
          /\ then \in [Thread -> Continuations]
          /\ op \in [Thread -> Calls \cup {"none"}]
      BY DEF IInv, Typed, Process
    <2> QED
      BY <1>16, <2>1, <2>2
         DEF ReadersPut, GoTo, GoToThen, Stays, threadVars, Reverted,
            TriggersMerge, Continuations, AddIndexes
  <1>17. ASSUME NEW t \in Thread, CommitTransaction(t)
        PROVE  \A s \in Thread : Reverted(s) =>
              \/ Reverted(s)'
              \/ FinishMerges(s) \/ FinishMergesWait(s)
    <2>1. \A s \in Thread : Kind(s) /\ (Reverted(s) => ~closed)
      <3>1. \A s \in Thread : Reverted(s) => Closer(s)
        BY DEF Reverted, Closer, Closing
      <3> QED
        BY <3>1 DEF Exclusive
    <2>2. /\ pc = [q \in Process |-> pc[q]] /\ Thread \subseteq Process
          /\ then \in [Thread -> Continuations]
          /\ op \in [Thread -> Calls \cup {"none"}]
      BY DEF IInv, Typed, Process
    <2> QED
      BY <1>17, <2>1, <2>2
         DEF CommitTransaction, GoTo, GoToThen, Stays, threadVars, Reverted,
            TriggersMerge, Continuations, AddIndexes
  <1>18. ASSUME NEW t \in Thread, FinishMerges(t)
        PROVE  \A s \in Thread : Reverted(s) =>
              \/ Reverted(s)'
              \/ FinishMerges(s) \/ FinishMergesWait(s)
    <2>1. UNCHANGED <<op, then>> /\ \A s \in Thread \ {t} : pc'[s] = pc[s]
      BY <1>18
         DEF FinishMerges, MergesFinished, GoTo, Stays, IInv, Typed, Process
    <2> QED
      BY <1>18, <2>1 DEF Reverted
  <1>19. ASSUME NEW t \in Thread, FinishMergesWait(t)
        PROVE  \A s \in Thread : Reverted(s) =>
              \/ Reverted(s)'
              \/ FinishMerges(s) \/ FinishMergesWait(s)
    <2>1. UNCHANGED <<op, then>> /\ \A s \in Thread \ {t} : pc'[s] = pc[s]
      BY <1>19
         DEF FinishMergesWait, MergesFinished, GoTo, Stays, IInv, Typed, Process
    <2> QED
      BY <1>19, <2>1 DEF Reverted
  <1>20. ASSUME NEW t \in Thread, WaitForMerges(t)
        PROVE  \A s \in Thread : Reverted(s) =>
              \/ Reverted(s)'
              \/ FinishMerges(s) \/ FinishMergesWait(s)
    <2>1. \A s \in Thread : Kind(s) /\ (Reverted(s) => ~closed)
      <3>1. \A s \in Thread : Reverted(s) => Closer(s)
        BY DEF Reverted, Closer, Closing
      <3> QED
        BY <3>1 DEF Exclusive
    <2>2. /\ pc = [q \in Process |-> pc[q]] /\ Thread \subseteq Process
          /\ then \in [Thread -> Continuations]
          /\ op \in [Thread -> Calls \cup {"none"}]
      BY DEF IInv, Typed, Process
    <2> QED
      BY <1>20, <2>1, <2>2
         DEF WaitForMerges, GoTo, GoToThen, Stays, threadVars, Reverted,
            TriggersMerge, Continuations, AddIndexes
  <1>21. ASSUME NEW t \in Thread, ShouldClose(t)
        PROVE  \A s \in Thread : Reverted(s) =>
              \/ Reverted(s)'
              \/ FinishMerges(s) \/ FinishMergesWait(s)
    <2>1. \A s \in Thread : Kind(s) /\ (Reverted(s) => ~closed)
      <3>1. \A s \in Thread : Reverted(s) => Closer(s)
        BY DEF Reverted, Closer, Closing
      <3> QED
        BY <3>1 DEF Exclusive
    <2>2. /\ pc = [q \in Process |-> pc[q]] /\ Thread \subseteq Process
          /\ then \in [Thread -> Continuations]
          /\ op \in [Thread -> Calls \cup {"none"}]
      BY DEF IInv, Typed, Process
    <2> QED
      BY <1>21, <2>1, <2>2
         DEF ShouldClose, GoTo, GoToThen, Stays, threadVars, Reverted,
            TriggersMerge, Continuations, AddIndexes
  <1>22. ASSUME NEW t \in Thread, SyncThreads(t)
        PROVE  \A s \in Thread : Reverted(s) =>
              \/ Reverted(s)'
              \/ FinishMerges(s) \/ FinishMergesWait(s)
    <2>1. \A s \in Thread : Kind(s) /\ (Reverted(s) => ~closed)
      <3>1. \A s \in Thread : Reverted(s) => Closer(s)
        BY DEF Reverted, Closer, Closing
      <3> QED
        BY <3>1 DEF Exclusive
    <2>2. /\ pc = [q \in Process |-> pc[q]] /\ Thread \subseteq Process
          /\ then \in [Thread -> Continuations]
          /\ op \in [Thread -> Calls \cup {"none"}]
      BY DEF IInv, Typed, Process
    <2> QED
      BY <1>22, <2>1, <2>2
         DEF SyncThreads, GoTo, GoToThen, Stays, threadVars, Reverted,
            TriggersMerge, Continuations, AddIndexes
  <1>23. ASSUME NEW t \in Thread, Revert(t)
        PROVE  \A s \in Thread : Reverted(s) =>
              \/ Reverted(s)'
              \/ FinishMerges(s) \/ FinishMergesWait(s)
    <2>1. \A s \in Thread : Kind(s) /\ (Reverted(s) => ~closed)
      <3>1. \A s \in Thread : Reverted(s) => Closer(s)
        BY DEF Reverted, Closer, Closing
      <3> QED
        BY <3>1 DEF Exclusive
    <2>2. /\ pc = [q \in Process |-> pc[q]] /\ Thread \subseteq Process
          /\ then \in [Thread -> Continuations]
          /\ op \in [Thread -> Calls \cup {"none"}]
      BY DEF IInv, Typed, Process
    <2> QED
      BY <1>23, <2>1, <2>2
         DEF Revert, GoTo, GoToThen, Stays, threadVars, Reverted,
            TriggersMerge, Continuations, AddIndexes
  <1>24. ASSUME NEW t \in Thread, Recount(t)
        PROVE  \A s \in Thread : Reverted(s) =>
              \/ Reverted(s)'
              \/ FinishMerges(s) \/ FinishMergesWait(s)
    <2>1. \A s \in Thread : Kind(s) /\ (Reverted(s) => ~closed)
      <3>1. \A s \in Thread : Reverted(s) => Closer(s)
        BY DEF Reverted, Closer, Closing
      <3> QED
        BY <3>1 DEF Exclusive
    <2>2. /\ pc = [q \in Process |-> pc[q]] /\ Thread \subseteq Process
          /\ then \in [Thread -> Continuations]
          /\ op \in [Thread -> Calls \cup {"none"}]
      BY DEF IInv, Typed, Process
    <2> QED
      BY <1>24, <2>1, <2>2
         DEF Recount, GoTo, GoToThen, Stays, threadVars, Reverted,
            TriggersMerge, Continuations, AddIndexes
  <1>25. ASSUME NEW t \in Thread, CloseInternal(t)
        PROVE  \A s \in Thread : Reverted(s) =>
              \/ Reverted(s)'
              \/ FinishMerges(s) \/ FinishMergesWait(s)
    <2>1. \A s \in Thread : Kind(s) /\ (Reverted(s) => ~closed)
      <3>1. \A s \in Thread : Reverted(s) => Closer(s)
        BY DEF Reverted, Closer, Closing
      <3> QED
        BY <3>1 DEF Exclusive
    <2>2. /\ pc = [q \in Process |-> pc[q]] /\ Thread \subseteq Process
          /\ then \in [Thread -> Continuations]
          /\ op \in [Thread -> Calls \cup {"none"}]
      BY DEF IInv, Typed, Process
    <2> QED
      BY <1>25, <2>1, <2>2
         DEF CloseInternal, GoTo, GoToThen, Stays, threadVars, Reverted,
            TriggersMerge, Continuations, AddIndexes
  <1>26. ASSUME NEW t \in Thread, CloseMerges(t)
        PROVE  \A s \in Thread : Reverted(s) =>
              \/ Reverted(s)'
              \/ FinishMerges(s) \/ FinishMergesWait(s)
    <2>1. \A s \in Thread : Kind(s) /\ (Reverted(s) => ~closed)
      <3>1. \A s \in Thread : Reverted(s) => Closer(s)
        BY DEF Reverted, Closer, Closing
      <3> QED
        BY <3>1 DEF Exclusive
    <2>2. /\ pc = [q \in Process |-> pc[q]] /\ Thread \subseteq Process
          /\ then \in [Thread -> Continuations]
          /\ op \in [Thread -> Calls \cup {"none"}]
      BY DEF IInv, Typed, Process
    <2> QED
      BY <1>26, <2>1, <2>2
         DEF CloseMerges, GoTo, GoToThen, Stays, threadVars, Reverted,
            TriggersMerge, Continuations, AddIndexes
  <1>27. ASSUME NEW t \in Thread, CloseStop(t)
        PROVE  \A s \in Thread : Reverted(s) =>
              \/ Reverted(s)'
              \/ FinishMerges(s) \/ FinishMergesWait(s)
    <2>1. \A s \in Thread : Kind(s) /\ (Reverted(s) => ~closed)
      <3>1. \A s \in Thread : Reverted(s) => Closer(s)
        BY DEF Reverted, Closer, Closing
      <3> QED
        BY <3>1 DEF Exclusive
    <2>2. /\ pc = [q \in Process |-> pc[q]] /\ Thread \subseteq Process
          /\ then \in [Thread -> Continuations]
          /\ op \in [Thread -> Calls \cup {"none"}]
      BY DEF IInv, Typed, Process
    <2> QED
      BY <1>27, <2>1, <2>2
         DEF CloseStop, GoTo, GoToThen, Stays, threadVars, Reverted,
            TriggersMerge, Continuations, AddIndexes
  <1>28. ASSUME NEW t \in Thread, Closed(t)
        PROVE  \A s \in Thread : Reverted(s) =>
              \/ Reverted(s)'
              \/ FinishMerges(s) \/ FinishMergesWait(s)
    <2>1. \A s \in Thread : Kind(s) /\ (Reverted(s) => ~closed)
      <3>1. \A s \in Thread : Reverted(s) => Closer(s)
        BY DEF Reverted, Closer, Closing
      <3> QED
        BY <3>1 DEF Exclusive
    <2>2. /\ pc = [q \in Process |-> pc[q]] /\ Thread \subseteq Process
          /\ then \in [Thread -> Continuations]
          /\ op \in [Thread -> Calls \cup {"none"}]
      BY DEF IInv, Typed, Process
    <2> QED
      BY <1>28, <2>1, <2>2
         DEF Closed, GoTo, GoToThen, Stays, threadVars, Reverted,
            TriggersMerge, Continuations, AddIndexes
  <1>29. ASSUME NEW t \in Thread, Schedule(t)
        PROVE  \A s \in Thread : Reverted(s) =>
              \/ Reverted(s)'
              \/ FinishMerges(s) \/ FinishMergesWait(s)
    <2>1. \A s \in Thread : Kind(s) /\ (Reverted(s) => ~closed)
      <3>1. \A s \in Thread : Reverted(s) => Closer(s)
        BY DEF Reverted, Closer, Closing
      <3> QED
        BY <3>1 DEF Exclusive
    <2>2. /\ pc = [q \in Process |-> pc[q]] /\ Thread \subseteq Process
          /\ then \in [Thread -> Continuations]
          /\ op \in [Thread -> Calls \cup {"none"}]
      BY DEF IInv, Typed, Process
    <2> QED
      BY <1>29, <2>1, <2>2
         DEF Schedule, GoTo, GoToThen, Stays, threadVars, Reverted,
            TriggersMerge, Continuations, AddIndexes
  <1>30. ASSUME NEW t \in Thread, NEW m \in MergeThread, StartThread(t, m)
        PROVE  \A s \in Thread : Reverted(s) =>
              \/ Reverted(s)'
              \/ FinishMerges(s) \/ FinishMergesWait(s)
    <2>1. \A s \in Thread : Kind(s) /\ (Reverted(s) => ~closed)
      <3>1. \A s \in Thread : Reverted(s) => Closer(s)
        BY DEF Reverted, Closer, Closing
      <3> QED
        BY <3>1 DEF Exclusive
    <2>2. /\ pc = [q \in Process |-> pc[q]] /\ Thread \subseteq Process
          /\ then \in [Thread -> Continuations]
          /\ op \in [Thread -> Calls \cup {"none"}]
      BY DEF IInv, Typed, Process
    <2> QED
      BY <1>30, <2>1, <2>2, MergesAssumption
         DEF StartThread, GoTo, GoToThen, Stays, threadVars, Reverted,
            TriggersMerge, Continuations, AddIndexes
  <1>31. ASSUME NEW p \in Process, MergeInit(p)
        PROVE  \A s \in Thread : Reverted(s) =>
              \/ Reverted(s)'
              \/ FinishMerges(s) \/ FinishMergesWait(s)
    <2>1. \A s \in Thread : Kind(s) /\ (Reverted(s) => ~closed)
      <3>1. \A s \in Thread : Reverted(s) => Closer(s)
        BY DEF Reverted, Closer, Closing
      <3> QED
        BY <3>1 DEF Exclusive
    <2>2. /\ pc = [q \in Process |-> pc[q]] /\ Thread \subseteq Process
          /\ then \in [Thread -> Continuations]
          /\ op \in [Thread -> Calls \cup {"none"}]
      BY DEF IInv, Typed, Process
    <2> QED
      BY <1>31, <2>1, <2>2
         DEF MergeInit, Fails, Throws, GoTo, GoToThen, Stays, threadVars,
            Reverted, TriggersMerge, Continuations, AddIndexes
  <1>32. ASSUME NEW p \in Process, MergeMiddle(p)
        PROVE  \A s \in Thread : Reverted(s) =>
              \/ Reverted(s)'
              \/ FinishMerges(s) \/ FinishMergesWait(s)
    <2>1. \A s \in Thread : Kind(s) /\ (Reverted(s) => ~closed)
      <3>1. \A s \in Thread : Reverted(s) => Closer(s)
        BY DEF Reverted, Closer, Closing
      <3> QED
        BY <3>1 DEF Exclusive
    <2>2. /\ pc = [q \in Process |-> pc[q]] /\ Thread \subseteq Process
          /\ then \in [Thread -> Continuations]
          /\ op \in [Thread -> Calls \cup {"none"}]
      BY DEF IInv, Typed, Process
    <2> QED
      BY <1>32, <2>1, <2>2
         DEF MergeMiddle, GoTo, GoToThen, Stays, threadVars, Reverted,
            TriggersMerge, Continuations, AddIndexes
  <1>33. ASSUME NEW p \in Process, CommitMerge(p)
        PROVE  \A s \in Thread : Reverted(s) =>
              \/ Reverted(s)'
              \/ FinishMerges(s) \/ FinishMergesWait(s)
    <2>1. \A s \in Thread : Kind(s) /\ (Reverted(s) => ~closed)
      <3>1. \A s \in Thread : Reverted(s) => Closer(s)
        BY DEF Reverted, Closer, Closing
      <3> QED
        BY <3>1 DEF Exclusive
    <2>2. /\ pc = [q \in Process |-> pc[q]] /\ Thread \subseteq Process
          /\ then \in [Thread -> Continuations]
          /\ op \in [Thread -> Calls \cup {"none"}]
      BY DEF IInv, Typed, Process
    <2> QED
      BY <1>33, <2>1, <2>2
         DEF CommitMerge, GoTo, GoToThen, Stays, threadVars, Reverted,
            TriggersMerge, Continuations, AddIndexes
  <1>34. ASSUME NEW p \in Process, MergeDone(p)
        PROVE  \A s \in Thread : Reverted(s) =>
              \/ Reverted(s)'
              \/ FinishMerges(s) \/ FinishMergesWait(s)
    <2>1. \A s \in Thread : Kind(s) /\ (Reverted(s) => ~closed)
      <3>1. \A s \in Thread : Reverted(s) => Closer(s)
        BY DEF Reverted, Closer, Closing
      <3> QED
        BY <3>1 DEF Exclusive
    <2>2. /\ pc = [q \in Process |-> pc[q]] /\ Thread \subseteq Process
          /\ then \in [Thread -> Continuations]
          /\ op \in [Thread -> Calls \cup {"none"}]
      BY DEF IInv, Typed, Process
    <2> QED
      BY <1>34, <2>1, <2>2
         DEF MergeDone, GoTo, GoToThen, Stays, threadVars, Reverted,
            TriggersMerge, Continuations, AddIndexes
  <1>35. ASSUME NEW p \in Process, MergeFailed(p)
        PROVE  \A s \in Thread : Reverted(s) =>
              \/ Reverted(s)'
              \/ FinishMerges(s) \/ FinishMergesWait(s)
    <2>1. \A s \in Thread : Kind(s) /\ (Reverted(s) => ~closed)
      <3>1. \A s \in Thread : Reverted(s) => Closer(s)
        BY DEF Reverted, Closer, Closing
      <3> QED
        BY <3>1 DEF Exclusive
    <2>2. /\ pc = [q \in Process |-> pc[q]] /\ Thread \subseteq Process
          /\ then \in [Thread -> Continuations]
          /\ op \in [Thread -> Calls \cup {"none"}]
      BY DEF IInv, Typed, Process
    <2> QED
      BY <1>35, <2>1, <2>2
         DEF MergeFailed, Fails, Throws, GoTo, GoToThen, Stays, threadVars,
            Reverted, TriggersMerge, Continuations, AddIndexes
  <1>36. ASSUME NEW m \in MergeThread, NextMerge(m)
        PROVE  \A s \in Thread : Reverted(s) =>
              \/ Reverted(s)'
              \/ FinishMerges(s) \/ FinishMergesWait(s)
    <2>1. \A s \in Thread : Kind(s) /\ (Reverted(s) => ~closed)
      <3>1. \A s \in Thread : Reverted(s) => Closer(s)
        BY DEF Reverted, Closer, Closing
      <3> QED
        BY <3>1 DEF Exclusive
    <2>2. /\ pc = [q \in Process |-> pc[q]] /\ Thread \subseteq Process
          /\ then \in [Thread -> Continuations]
          /\ op \in [Thread -> Calls \cup {"none"}]
      BY DEF IInv, Typed, Process
    <2> QED
      BY <1>36, <2>1, <2>2
         DEF NextMerge, GoTo, GoToThen, Stays, threadVars, Reverted,
            TriggersMerge, Continuations, AddIndexes
  <1>37. CASE UNCHANGED vars
    BY <1>37
      DEF vars, infoVars, commitVars, optVars, closeVars, lockVars,
         threadVars, Reverted
  <1> QED
    BY <1>1, <1>2, <1>3, <1>4, <1>5, <1>6, <1>7, <1>8, <1>9, <1>10, <1>11,
       <1>12, <1>13, <1>14, <1>15, <1>16, <1>17, <1>18, <1>19, <1>20, <1>21,
       <1>22, <1>23, <1>24, <1>25, <1>26, <1>27, <1>28, <1>29, <1>30, <1>31,
       <1>32, <1>33, <1>34, <1>35, <1>36, <1>37
      DEF Next, CallStep, MergeStep, Process

-----------------------------------------------------------------------------
\* finishMerges has given up the pending merges and told the running ones.
NoneLeft(r) == /\ r.pending = <<>>
               /\ \A id \in DOMAIN r.merges : r.merges[id].aborted

\* finishMerges leaves none.
LEMMA AbortedLeavesNone ==
    ASSUME NEW r, NEW n \in Nat, RegInv(r, n)
    PROVE  NoneLeft(AbortedMerges(r))
  <1> DEFINE ms == [id \in r.running |-> [r.merges[id] EXCEPT !.aborted = TRUE]]
             gone == UNION {Names(r.merges[id].segs) : id \in ToSet(r.pending)}
             q == AbortedMerges(r)
  <1>1. r = [merges |-> r.merges, pending |-> r.pending,
             running |-> r.running, merging |-> r.merging]
    BY DEF RegInv, RegTyped
  <1>2. q.merges = ms /\ q.pending = <<>>
    <2>1. q = [r EXCEPT !.merges = ms, !.pending = <<>>,
                        !.merging = r.merging \ gone]
      BY DEF AbortedMerges
    <2> HIDE DEF q, ms, gone
    <2> QED
      BY <1>1, <2>1
  <1>3. \A id \in r.running : r.merges[id] \in Merge
    BY RegIds
  <1>4. \A id \in DOMAIN ms : ms[id].aborted
    BY <1>3 DEF Merge
  <1> HIDE DEF q, ms
  <1>5. NoneLeft(q)
    BY <1>2, <1>4 DEF NoneLeft
  <1> QED
    BY <1>5 DEF q

\* Where none is left, none is when one has ended.
LEMMA FinishedLeavesNone ==
    ASSUME NEW r, NEW n \in Nat, RegInv(r, n), NEW k \in r.running,
           NoneLeft(r)
    PROVE  NoneLeft(FinishedMerge(r, k))
  <1> DEFINE ms == [id \in DOMAIN r.merges \ {k} |-> r.merges[id]]
             gone == Names(r.merges[k].segs) \cup {r.merges[k].info}
             q == FinishedMerge(r, k)
  <1>1. r = [merges |-> r.merges, pending |-> r.pending,
             running |-> r.running, merging |-> r.merging]
    BY DEF RegInv, RegTyped
  <1>2. q.merges = ms /\ q.pending = r.pending
    <2>1. q = [r EXCEPT !.merges = ms, !.running = r.running \ {k},
                        !.merging = r.merging \ gone]
      BY DEF FinishedMerge, Restrict
    <2> HIDE DEF q, ms, gone
    <2> QED
      BY <1>1, <2>1
  <1>3. \A id \in DOMAIN ms : ms[id].aborted
    BY DEF NoneLeft
  <1> HIDE DEF q, ms
  <1>4. NoneLeft(q)
    BY <1>2, <1>3 DEF NoneLeft
  <1> QED
    BY <1>4 DEF q

\* While merges are to stop none is registered, named or started.
LEMMA NoneLeftStep ==
    ASSUME IInv, stopMerges, NoneLeft(reg), [Next]_vars
    PROVE  NoneLeft(reg')
  <1>1. ASSUME NEW t \in Thread, Call(t)
        PROVE  NoneLeft(reg')
    BY <1>1
      DEF Call, GoTo, GoToThen, Stays, infoVars, commitVars, optVars,
         closeVars, lockVars, threadVars, NoneLeft
  <1>2. ASSUME NEW t \in Thread, AddDocument(t)
        PROVE  NoneLeft(reg')
    BY <1>2
      DEF AddDocument, GoTo, GoToThen, Stays, infoVars, commitVars, optVars,
         closeVars, lockVars, threadVars, NoneLeft
  <1>3. ASSUME NEW t \in Thread, Flush(t)
        PROVE  NoneLeft(reg')
    BY <1>3
      DEF Flush, GoTo, GoToThen, Stays, infoVars, commitVars, optVars,
         closeVars, lockVars, threadVars, NoneLeft
  <1>4. ASSUME NEW t \in Thread, UpdatePendingMerges(t)
        PROVE  NoneLeft(reg')
    BY <1>4 DEF UpdatePendingMerges, UpdatedMerges
  <1>5. ASSUME NEW t \in Thread, Commit(t)
        PROVE  NoneLeft(reg')
    BY <1>5
      DEF Commit, GoTo, GoToThen, Stays, infoVars, commitVars, optVars,
         closeVars, lockVars, threadVars, NoneLeft
  <1>6. ASSUME NEW t \in Thread, Leave(t)
        PROVE  NoneLeft(reg')
    BY <1>6
      DEF Leave, GoTo, GoToThen, Stays, infoVars, commitVars, optVars,
         closeVars, lockVars, threadVars, NoneLeft
  <1>7. ASSUME NEW t \in Thread, OptimizeMark(t)
        PROVE  NoneLeft(reg')
    <2> DEFINE ms == [id \in DOMAIN reg.merges |->
                        [reg.merges[id] EXCEPT !.max = MaxSegments(t)]]
    <2>1. reg = [merges |-> reg.merges, pending |-> reg.pending,
                 running |-> reg.running, merging |-> reg.merging]
      BY DEF IInv, RegInv, RegTyped
    <2>2. reg' = [reg EXCEPT !.merges = ms]
      BY <1>7 DEF OptimizeMark
    <2>3. \A id \in DOMAIN reg.merges : reg.merges[id] \in Merge
      BY RegIds DEF IInv, Typed
    <2>4. \A id \in DOMAIN ms : ms[id].aborted
      BY <2>3 DEF NoneLeft, Merge
    <2> HIDE DEF ms
    <2>5. reg'.merges = ms /\ reg'.pending = reg.pending
      BY <2>1, <2>2
    <2> QED
      BY <2>4, <2>5 DEF NoneLeft
  <1>8. ASSUME NEW t \in Thread, OptimizeWait(t)
        PROVE  NoneLeft(reg')
    BY <1>8
      DEF OptimizeWait, GoTo, GoToThen, Stays, infoVars, commitVars, optVars,
         closeVars, lockVars, threadVars, NoneLeft
  <1>9. ASSUME NEW t \in Thread, PauseAllThreads(t)
        PROVE  NoneLeft(reg')
    BY <1>9
      DEF PauseAllThreads, GoTo, GoToThen, Stays, infoVars, commitVars,
         optVars, closeVars, lockVars, threadVars, NoneLeft
  <1>10. ASSUME NEW t \in Thread, AcquireRead(t)
        PROVE  NoneLeft(reg')
    BY <1>10
      DEF AcquireRead, GoTo, GoToThen, Stays, infoVars, commitVars, optVars,
         closeVars, lockVars, threadVars, NoneLeft
  <1>11. ASSUME NEW t \in Thread, StartTransaction(t)
        PROVE  NoneLeft(reg')
    BY <1>11
      DEF StartTransaction, TakesWriteLock, UpgradeReadToWrite, AcquireWrite,
         TakesLock, GoTo, GoToThen, Stays, infoVars, commitVars, optVars,
         closeVars, lockVars, threadVars, NoneLeft
  <1>12. ASSUME NEW t \in Thread, AddExternal(t)
        PROVE  NoneLeft(reg')
    BY <1>12
      DEF AddExternal, GoTo, GoToThen, Stays, infoVars, commitVars, optVars,
         closeVars, lockVars, threadVars, NoneLeft
  <1>13. ASSUME NEW t \in Thread, TransactionOpen(t)
        PROVE  NoneLeft(reg')
    BY <1>13
      DEF TransactionOpen, GoTo, GoToThen, Stays, infoVars, commitVars,
         optVars, closeVars, lockVars, threadVars, NoneLeft
  <1>14. ASSUME NEW t \in Thread, ResolveExternal(t)
        PROVE  NoneLeft(reg')
    BY <1>14 DEF ResolveExternal
  <1>15. ASSUME NEW t \in Thread, ReadersGet(t)
        PROVE  NoneLeft(reg')
    BY <1>15
      DEF ReadersGet, GoTo, GoToThen, Stays, infoVars, commitVars, optVars,
         closeVars, lockVars, threadVars, NoneLeft
  <1>16. ASSUME NEW t \in Thread, ReadersPut(t)
        PROVE  NoneLeft(reg')
    BY <1>16
      DEF ReadersPut, GoTo, GoToThen, Stays, infoVars, commitVars, optVars,
         closeVars, lockVars, threadVars, NoneLeft
  <1>17. ASSUME NEW t \in Thread, CommitTransaction(t)
        PROVE  NoneLeft(reg')
    BY <1>17
      DEF CommitTransaction, GoTo, GoToThen, Stays, infoVars, commitVars,
         optVars, closeVars, lockVars, threadVars, NoneLeft
  <1>18. ASSUME NEW t \in Thread, FinishMerges(t)
        PROVE  NoneLeft(reg')
    <2>1. RegInv(reg, counter) /\ counter \in Nat
      BY DEF IInv, Typed
    <2> QED
      BY <1>18, <2>1, AbortedLeavesNone DEF FinishMerges
  <1>19. ASSUME NEW t \in Thread, FinishMergesWait(t)
        PROVE  NoneLeft(reg')
    BY <1>19
      DEF FinishMergesWait, MergesFinished, RolledBack, AllDeleted, GoTo,
         GoToThen, Stays, infoVars, commitVars, optVars, closeVars, lockVars,
         threadVars, NoneLeft
  <1>20. ASSUME NEW t \in Thread, WaitForMerges(t)
        PROVE  NoneLeft(reg')
    BY <1>20
      DEF WaitForMerges, GoTo, GoToThen, Stays, infoVars, commitVars, optVars,
         closeVars, lockVars, threadVars, NoneLeft
  <1>21. ASSUME NEW t \in Thread, ShouldClose(t)
        PROVE  NoneLeft(reg')
    BY <1>21
      DEF ShouldClose, GoTo, GoToThen, Stays, infoVars, commitVars, optVars,
         closeVars, lockVars, threadVars, NoneLeft
  <1>22. ASSUME NEW t \in Thread, SyncThreads(t)
        PROVE  NoneLeft(reg')
    BY <1>22
      DEF SyncThreads, GoTo, GoToThen, Stays, infoVars, commitVars, optVars,
         closeVars, lockVars, threadVars, NoneLeft
  <1>23. ASSUME NEW t \in Thread, Revert(t)
        PROVE  NoneLeft(reg')
    BY <1>23
      DEF Revert, GoTo, GoToThen, Stays, infoVars, commitVars, optVars,
         closeVars, lockVars, threadVars, NoneLeft
  <1>24. ASSUME NEW t \in Thread, Recount(t)
        PROVE  NoneLeft(reg')
    BY <1>24
      DEF Recount, GoTo, GoToThen, Stays, infoVars, commitVars, optVars,
         closeVars, lockVars, threadVars, NoneLeft
  <1>25. ASSUME NEW t \in Thread, CloseInternal(t)
        PROVE  NoneLeft(reg')
    BY <1>25
      DEF CloseInternal, GoTo, GoToThen, Stays, infoVars, commitVars, optVars,
         closeVars, lockVars, threadVars, NoneLeft
  <1>26. ASSUME NEW t \in Thread, CloseMerges(t)
        PROVE  NoneLeft(reg')
    BY <1>26
      DEF CloseMerges, GoTo, GoToThen, Stays, infoVars, commitVars, optVars,
         closeVars, lockVars, threadVars, NoneLeft
  <1>27. ASSUME NEW t \in Thread, CloseStop(t)
        PROVE  NoneLeft(reg')
    BY <1>27
      DEF CloseStop, GoTo, GoToThen, Stays, infoVars, commitVars, optVars,
         closeVars, lockVars, threadVars, NoneLeft
  <1>28. ASSUME NEW t \in Thread, Closed(t)
        PROVE  NoneLeft(reg')
    BY <1>28
      DEF Closed, GoTo, GoToThen, Stays, infoVars, commitVars, optVars,
         closeVars, lockVars, threadVars, NoneLeft
  <1>29. ASSUME NEW t \in Thread, Schedule(t)
        PROVE  NoneLeft(reg')
    BY <1>29 DEF Schedule, NoneLeft
  <1>30. ASSUME NEW t \in Thread, NEW m \in MergeThread, StartThread(t, m)
        PROVE  NoneLeft(reg')
    BY <1>30
      DEF StartThread, GoTo, GoToThen, Stays, infoVars, commitVars, optVars,
         closeVars, lockVars, threadVars, NoneLeft
  <1>31. ASSUME NEW p \in Process, MergeInit(p)
        PROVE  NoneLeft(reg')
    <2>1. /\ merge[p] \in reg.running /\ RegInv(reg, counter)
          /\ counter \in Nat
      BY <1>31 DEF MergeInit, IInv, Typed, ProcInv, Merging
    <2>2. merge[p] \in DOMAIN reg.merges
      BY <2>1, RegIds
    <2>3. MergeOf(p).aborted
      BY <2>2 DEF NoneLeft, MergeOf
    <2> QED
      BY <1>31, <2>3 DEF MergeInit
  <1>32. ASSUME NEW p \in Process, MergeMiddle(p)
        PROVE  NoneLeft(reg')
    BY <1>32
      DEF MergeMiddle, GoTo, GoToThen, Stays, infoVars, commitVars, optVars,
         closeVars, lockVars, threadVars, NoneLeft
  <1>33. ASSUME NEW p \in Process, CommitMerge(p)
        PROVE  NoneLeft(reg')
    BY <1>33
      DEF CommitMerge, GoTo, GoToThen, Stays, infoVars, commitVars, optVars,
         closeVars, lockVars, threadVars, NoneLeft
  <1>34. ASSUME NEW p \in Process, MergeDone(p)
        PROVE  NoneLeft(reg')
    <2>1. /\ merge[p] \in reg.running /\ RegInv(reg, counter)
          /\ counter \in Nat
      BY <1>34 DEF MergeDone, IInv, Typed, ProcInv, Merging
    <2>2. merge[p] \in DOMAIN reg.merges
      BY <2>1, RegIds
    <2>3. MergeOf(p).aborted
      BY <2>2 DEF NoneLeft, MergeOf
    <2>4. NoneLeft(FinishedMerge(reg, merge[p]))
      BY <2>1, FinishedLeavesNone
    <2> QED
      BY <1>34, <2>3, <2>4 DEF MergeDone
  <1>35. ASSUME NEW p \in Process, MergeFailed(p)
        PROVE  NoneLeft(reg')
    <2>1. /\ merge[p] \in reg.running /\ RegInv(reg, counter)
          /\ counter \in Nat
      BY <1>35 DEF MergeFailed, IInv, Typed, ProcInv, Merging
    <2>2. merge[p] \in DOMAIN reg.merges
      BY <2>1, RegIds
    <2>3. MergeOf(p).aborted
      BY <2>2 DEF NoneLeft, MergeOf
    <2>4. NoneLeft(FinishedMerge(reg, merge[p]))
      BY <2>1, FinishedLeavesNone
    <2> QED
      BY <1>35, <2>3, <2>4 DEF MergeFailed
  <1>36. ASSUME NEW m \in MergeThread, NextMerge(m)
        PROVE  NoneLeft(reg')
    BY <1>36 DEF NextMerge, NoneLeft
  <1>37. CASE UNCHANGED vars
    BY <1>37
      DEF vars, infoVars, commitVars, optVars, closeVars, lockVars,
         threadVars, NoneLeft
  <1> QED
    BY <1>1, <1>2, <1>3, <1>4, <1>5, <1>6, <1>7, <1>8, <1>9, <1>10, <1>11,
       <1>12, <1>13, <1>14, <1>15, <1>16, <1>17, <1>18, <1>19, <1>20, <1>21,
       <1>22, <1>23, <1>24, <1>25, <1>26, <1>27, <1>28, <1>29, <1>30, <1>31,
       <1>32, <1>33, <1>34, <1>35, <1>36, <1>37
      DEF Next, CallStep, MergeStep, Process

\* Where a call waits in finishMerges
Finishing == {"finishRead", "finishWait"}

\* Who comes to wait there, and who sets or clears stopMerges
StopMoves ==
    /\ \A s \in Thread :
          /\ pc'[s] \in Finishing => \/ pc'[s] = pc[s]
                                     \/ FinishMerges(s)
                                     \/ FinishMergesWait(s)
          /\ pc[s] \in Finishing => pc'[s] = pc[s] \/ FinishMergesWait(s)
    /\ \/ UNCHANGED stopMerges
       \/ \E s \in Thread :
             FinishMerges(s) \/ FinishMergesWait(s) \/ CloseStop(s)

\* finishMerges and close alone move stopMerges.
LEMMA StopMovesStep ==
    ASSUME IInv, [Next]_vars
    PROVE  StopMoves
  <1>1. ASSUME NEW t \in Thread, Call(t)
        PROVE  StopMoves
    <2>1. /\ pc = [q \in Process |-> pc[q]] /\ Thread \subseteq Process
          /\ then \in [Thread -> Continuations]
      BY DEF IInv, Typed, Process
    <2>2. UNCHANGED stopMerges
      BY <1>1
         DEF Call, closeVars
    <2>3. \A s \in Thread :
             pc'[s] \in Finishing \/ pc[s] \in Finishing => pc'[s] = pc[s]
      BY <1>1, <2>1
         DEF Call, GoTo, GoToThen, Stays, threadVars, Finishing,
            Continuations, AddIndexes
    <2> QED
      BY <2>2, <2>3 DEF StopMoves
  <1>2. ASSUME NEW t \in Thread, AddDocument(t)
        PROVE  StopMoves
    <2>1. /\ pc = [q \in Process |-> pc[q]] /\ Thread \subseteq Process
          /\ then \in [Thread -> Continuations]
      BY DEF IInv, Typed, Process
    <2>2. UNCHANGED stopMerges
      BY <1>2
         DEF AddDocument, closeVars
    <2>3. \A s \in Thread :
             pc'[s] \in Finishing \/ pc[s] \in Finishing => pc'[s] = pc[s]
      BY <1>2, <2>1
         DEF AddDocument, GoTo, GoToThen, Stays, threadVars, Finishing,
            Continuations, AddIndexes
    <2> QED
      BY <2>2, <2>3 DEF StopMoves
  <1>3. ASSUME NEW t \in Thread, Flush(t)
        PROVE  StopMoves
    <2>1. /\ pc = [q \in Process |-> pc[q]] /\ Thread \subseteq Process
          /\ then \in [Thread -> Continuations]
      BY DEF IInv, Typed, Process
    <2>2. UNCHANGED stopMerges
      BY <1>3
         DEF Flush, closeVars
    <2>3. \A s \in Thread :
             pc'[s] \in Finishing \/ pc[s] \in Finishing => pc'[s] = pc[s]
      BY <1>3, <2>1
         DEF Flush, GoTo, GoToThen, Stays, threadVars, Finishing,
            Continuations, AddIndexes
    <2> QED
      BY <2>2, <2>3 DEF StopMoves
  <1>4. ASSUME NEW t \in Thread, UpdatePendingMerges(t)
        PROVE  StopMoves
    <2>1. /\ pc = [q \in Process |-> pc[q]] /\ Thread \subseteq Process
          /\ then \in [Thread -> Continuations]
      BY DEF IInv, Typed, Process
    <2>2. UNCHANGED stopMerges
      BY <1>4
         DEF UpdatePendingMerges, closeVars
    <2>3. \A s \in Thread :
             pc'[s] \in Finishing \/ pc[s] \in Finishing => pc'[s] = pc[s]
      BY <1>4, <2>1
         DEF UpdatePendingMerges, GoTo, GoToThen, Stays, threadVars,
            Finishing, Continuations, AddIndexes
    <2> QED
      BY <2>2, <2>3 DEF StopMoves
  <1>5. ASSUME NEW t \in Thread, Commit(t)
        PROVE  StopMoves
    <2>1. /\ pc = [q \in Process |-> pc[q]] /\ Thread \subseteq Process
          /\ then \in [Thread -> Continuations]
      BY DEF IInv, Typed, Process
    <2>2. UNCHANGED stopMerges
      BY <1>5
         DEF Commit, closeVars
    <2>3. \A s \in Thread :
             pc'[s] \in Finishing \/ pc[s] \in Finishing => pc'[s] = pc[s]
      BY <1>5, <2>1
         DEF Commit, GoTo, GoToThen, Stays, threadVars, Finishing,
            Continuations, AddIndexes
    <2> QED
      BY <2>2, <2>3 DEF StopMoves
  <1>6. ASSUME NEW t \in Thread, Leave(t)
        PROVE  StopMoves
    <2>1. /\ pc = [q \in Process |-> pc[q]] /\ Thread \subseteq Process
          /\ then \in [Thread -> Continuations]
      BY DEF IInv, Typed, Process
    <2>2. UNCHANGED stopMerges
      BY <1>6
         DEF Leave, closeVars
    <2>3. \A s \in Thread :
             pc'[s] \in Finishing \/ pc[s] \in Finishing => pc'[s] = pc[s]
      BY <1>6, <2>1
         DEF Leave, GoTo, GoToThen, Stays, threadVars, Finishing,
            Continuations, AddIndexes
    <2> QED
      BY <2>2, <2>3 DEF StopMoves
  <1>7. ASSUME NEW t \in Thread, OptimizeMark(t)
        PROVE  StopMoves
    <2>1. /\ pc = [q \in Process |-> pc[q]] /\ Thread \subseteq Process
          /\ then \in [Thread -> Continuations]
      BY DEF IInv, Typed, Process
    <2>2. UNCHANGED stopMerges
      BY <1>7
         DEF OptimizeMark, closeVars
    <2>3. \A s \in Thread :
             pc'[s] \in Finishing \/ pc[s] \in Finishing => pc'[s] = pc[s]
      BY <1>7, <2>1
         DEF OptimizeMark, GoTo, GoToThen, Stays, threadVars, Finishing,
            Continuations, AddIndexes
    <2> QED
      BY <2>2, <2>3 DEF StopMoves
  <1>8. ASSUME NEW t \in Thread, OptimizeWait(t)
        PROVE  StopMoves
    <2>1. /\ pc = [q \in Process |-> pc[q]] /\ Thread \subseteq Process
          /\ then \in [Thread -> Continuations]
      BY DEF IInv, Typed, Process
    <2>2. UNCHANGED stopMerges
      BY <1>8
         DEF OptimizeWait, closeVars
    <2>3. \A s \in Thread :
             pc'[s] \in Finishing \/ pc[s] \in Finishing => pc'[s] = pc[s]
      BY <1>8, <2>1
         DEF OptimizeWait, GoTo, GoToThen, Stays, threadVars, Finishing,
            Continuations, AddIndexes
    <2> QED
      BY <2>2, <2>3 DEF StopMoves
  <1>9. ASSUME NEW t \in Thread, PauseAllThreads(t)
        PROVE  StopMoves
    <2>1. /\ pc = [q \in Process |-> pc[q]] /\ Thread \subseteq Process
          /\ then \in [Thread -> Continuations]
      BY DEF IInv, Typed, Process
    <2>2. UNCHANGED stopMerges
      BY <1>9
         DEF PauseAllThreads, closeVars
    <2>3. \A s \in Thread :
             pc'[s] \in Finishing \/ pc[s] \in Finishing => pc'[s] = pc[s]
      BY <1>9, <2>1
         DEF PauseAllThreads, GoTo, GoToThen, Stays, threadVars, Finishing,
            Continuations, AddIndexes
    <2> QED
      BY <2>2, <2>3 DEF StopMoves
  <1>10. ASSUME NEW t \in Thread, AcquireRead(t)
        PROVE  StopMoves
    <2>1. /\ pc = [q \in Process |-> pc[q]] /\ Thread \subseteq Process
          /\ then \in [Thread -> Continuations]
      BY DEF IInv, Typed, Process
    <2>2. UNCHANGED stopMerges
      BY <1>10
         DEF AcquireRead, closeVars
    <2>3. \A s \in Thread :
             pc'[s] \in Finishing \/ pc[s] \in Finishing => pc'[s] = pc[s]
      BY <1>10, <2>1
         DEF AcquireRead, GoTo, GoToThen, Stays, threadVars, Finishing,
            Continuations, AddIndexes
    <2> QED
      BY <2>2, <2>3 DEF StopMoves
  <1>11. ASSUME NEW t \in Thread, StartTransaction(t)
        PROVE  StopMoves
    <2>1. /\ pc = [q \in Process |-> pc[q]] /\ Thread \subseteq Process
          /\ then \in [Thread -> Continuations]
      BY DEF IInv, Typed, Process
    <2>2. UNCHANGED stopMerges
      BY <1>11
         DEF StartTransaction, TakesWriteLock, UpgradeReadToWrite,
            AcquireWrite, TakesLock, closeVars
    <2>3. \A s \in Thread :
             pc'[s] \in Finishing \/ pc[s] \in Finishing => pc'[s] = pc[s]
      BY <1>11, <2>1
         DEF StartTransaction, TakesWriteLock, UpgradeReadToWrite,
            AcquireWrite, TakesLock, GoTo, GoToThen, Stays, threadVars,
            Finishing, Continuations, AddIndexes
    <2> QED
      BY <2>2, <2>3 DEF StopMoves
  <1>12. ASSUME NEW t \in Thread, AddExternal(t)
        PROVE  StopMoves
    <2>1. /\ pc = [q \in Process |-> pc[q]] /\ Thread \subseteq Process
          /\ then \in [Thread -> Continuations]
      BY DEF IInv, Typed, Process
    <2>2. UNCHANGED stopMerges
      BY <1>12
         DEF AddExternal, closeVars
    <2>3. \A s \in Thread :
             pc'[s] \in Finishing \/ pc[s] \in Finishing => pc'[s] = pc[s]
      BY <1>12, <2>1
         DEF AddExternal, GoTo, GoToThen, Stays, threadVars, Finishing,
            Continuations, AddIndexes
    <2> QED
      BY <2>2, <2>3 DEF StopMoves
  <1>13. ASSUME NEW t \in Thread, TransactionOpen(t)
        PROVE  StopMoves
    <2>1. /\ pc = [q \in Process |-> pc[q]] /\ Thread \subseteq Process
          /\ then \in [Thread -> Continuations]
      BY DEF IInv, Typed, Process
    <2>2. UNCHANGED stopMerges
      BY <1>13
         DEF TransactionOpen, closeVars
    <2>3. \A s \in Thread :
             pc'[s] \in Finishing \/ pc[s] \in Finishing => pc'[s] = pc[s]
      BY <1>13, <2>1
         DEF TransactionOpen, GoTo, GoToThen, Stays, threadVars, Finishing,
            Continuations, AddIndexes
    <2> QED
      BY <2>2, <2>3 DEF StopMoves
  <1>14. ASSUME NEW t \in Thread, ResolveExternal(t)
        PROVE  StopMoves
    <2>1. /\ pc = [q \in Process |-> pc[q]] /\ Thread \subseteq Process
          /\ then \in [Thread -> Continuations]
      BY DEF IInv, Typed, Process
    <2>2. UNCHANGED stopMerges
      BY <1>14
         DEF ResolveExternal, closeVars
    <2>3. \A s \in Thread :
             pc'[s] \in Finishing \/ pc[s] \in Finishing => pc'[s] = pc[s]
      BY <1>14, <2>1
         DEF ResolveExternal, GoTo, GoToThen, Stays, threadVars, Finishing,
            Continuations, AddIndexes
    <2> QED
      BY <2>2, <2>3 DEF StopMoves
  <1>15. ASSUME NEW t \in Thread, ReadersGet(t)
        PROVE  StopMoves
    <2>1. /\ pc = [q \in Process |-> pc[q]] /\ Thread \subseteq Process
          /\ then \in [Thread -> Continuations]
      BY DEF IInv, Typed, Process
    <2>2. UNCHANGED stopMerges
      BY <1>15
         DEF ReadersGet, closeVars
    <2>3. \A s \in Thread :
             pc'[s] \in Finishing \/ pc[s] \in Finishing => pc'[s] = pc[s]
      BY <1>15, <2>1
         DEF ReadersGet, GoTo, GoToThen, Stays, threadVars, Finishing,
            Continuations, AddIndexes
    <2> QED
      BY <2>2, <2>3 DEF StopMoves
  <1>16. ASSUME NEW t \in Thread, ReadersPut(t)
        PROVE  StopMoves
    <2>1. /\ pc = [q \in Process |-> pc[q]] /\ Thread \subseteq Process
          /\ then \in [Thread -> Continuations]
      BY DEF IInv, Typed, Process
    <2>2. UNCHANGED stopMerges
      BY <1>16
         DEF ReadersPut, closeVars
    <2>3. \A s \in Thread :
             pc'[s] \in Finishing \/ pc[s] \in Finishing => pc'[s] = pc[s]
      BY <1>16, <2>1
         DEF ReadersPut, GoTo, GoToThen, Stays, threadVars, Finishing,
            Continuations, AddIndexes
    <2> QED
      BY <2>2, <2>3 DEF StopMoves
  <1>17. ASSUME NEW t \in Thread, CommitTransaction(t)
        PROVE  StopMoves
    <2>1. /\ pc = [q \in Process |-> pc[q]] /\ Thread \subseteq Process
          /\ then \in [Thread -> Continuations]
      BY DEF IInv, Typed, Process
    <2>2. UNCHANGED stopMerges
      BY <1>17
         DEF CommitTransaction, closeVars
    <2>3. \A s \in Thread :
             pc'[s] \in Finishing \/ pc[s] \in Finishing => pc'[s] = pc[s]
      BY <1>17, <2>1
         DEF CommitTransaction, GoTo, GoToThen, Stays, threadVars, Finishing,
            Continuations, AddIndexes
    <2> QED
      BY <2>2, <2>3 DEF StopMoves
  <1>18. ASSUME NEW t \in Thread, FinishMerges(t)
        PROVE  StopMoves
    <2>1. \A s \in Thread \ {t} : pc'[s] = pc[s]
      BY <1>18
         DEF FinishMerges, MergesFinished, GoTo, IInv, Typed, Process
    <2>2. FinishMerges(t) => pc[t] \notin Finishing
      BY DEF FinishMerges, Finishing
    <2> QED
      BY <1>18, <2>1, <2>2 DEF StopMoves
  <1>19. ASSUME NEW t \in Thread, FinishMergesWait(t)
        PROVE  StopMoves
    <2>1. \A s \in Thread \ {t} : pc'[s] = pc[s]
      BY <1>19
         DEF FinishMergesWait, MergesFinished, GoTo, IInv, Typed, Process
    <2>2. FinishMerges(t) => pc[t] \notin Finishing
      BY DEF FinishMerges, Finishing
    <2> QED
      BY <1>19, <2>1, <2>2 DEF StopMoves
  <1>20. ASSUME NEW t \in Thread, WaitForMerges(t)
        PROVE  StopMoves
    <2>1. /\ pc = [q \in Process |-> pc[q]] /\ Thread \subseteq Process
          /\ then \in [Thread -> Continuations]
      BY DEF IInv, Typed, Process
    <2>2. UNCHANGED stopMerges
      BY <1>20
         DEF WaitForMerges, closeVars
    <2>3. \A s \in Thread :
             pc'[s] \in Finishing \/ pc[s] \in Finishing => pc'[s] = pc[s]
      BY <1>20, <2>1
         DEF WaitForMerges, GoTo, GoToThen, Stays, threadVars, Finishing,
            Continuations, AddIndexes
    <2> QED
      BY <2>2, <2>3 DEF StopMoves
  <1>21. ASSUME NEW t \in Thread, ShouldClose(t)
        PROVE  StopMoves
    <2>1. /\ pc = [q \in Process |-> pc[q]] /\ Thread \subseteq Process
          /\ then \in [Thread -> Continuations]
      BY DEF IInv, Typed, Process
    <2>2. UNCHANGED stopMerges
      BY <1>21
         DEF ShouldClose, closeVars
    <2>3. \A s \in Thread :
             pc'[s] \in Finishing \/ pc[s] \in Finishing => pc'[s] = pc[s]
      BY <1>21, <2>1
         DEF ShouldClose, GoTo, GoToThen, Stays, threadVars, Finishing,
            Continuations, AddIndexes
    <2> QED
      BY <2>2, <2>3 DEF StopMoves
  <1>22. ASSUME NEW t \in Thread, SyncThreads(t)
        PROVE  StopMoves
    <2>1. /\ pc = [q \in Process |-> pc[q]] /\ Thread \subseteq Process
          /\ then \in [Thread -> Continuations]
      BY DEF IInv, Typed, Process
    <2>2. UNCHANGED stopMerges
      BY <1>22
         DEF SyncThreads, closeVars
    <2>3. \A s \in Thread :
             pc'[s] \in Finishing \/ pc[s] \in Finishing => pc'[s] = pc[s]
      BY <1>22, <2>1
         DEF SyncThreads, GoTo, GoToThen, Stays, threadVars, Finishing,
            Continuations, AddIndexes
    <2> QED
      BY <2>2, <2>3 DEF StopMoves
  <1>23. ASSUME NEW t \in Thread, Revert(t)
        PROVE  StopMoves
    <2>1. /\ pc = [q \in Process |-> pc[q]] /\ Thread \subseteq Process
          /\ then \in [Thread -> Continuations]
      BY DEF IInv, Typed, Process
    <2>2. UNCHANGED stopMerges
      BY <1>23
         DEF Revert, closeVars
    <2>3. \A s \in Thread :
             pc'[s] \in Finishing \/ pc[s] \in Finishing => pc'[s] = pc[s]
      BY <1>23, <2>1
         DEF Revert, GoTo, GoToThen, Stays, threadVars, Finishing,
            Continuations, AddIndexes
    <2> QED
      BY <2>2, <2>3 DEF StopMoves
  <1>24. ASSUME NEW t \in Thread, Recount(t)
        PROVE  StopMoves
    <2>1. /\ pc = [q \in Process |-> pc[q]] /\ Thread \subseteq Process
          /\ then \in [Thread -> Continuations]
      BY DEF IInv, Typed, Process
    <2>2. UNCHANGED stopMerges
      BY <1>24
         DEF Recount, closeVars
    <2>3. \A s \in Thread :
             pc'[s] \in Finishing \/ pc[s] \in Finishing => pc'[s] = pc[s]
      BY <1>24, <2>1
         DEF Recount, GoTo, GoToThen, Stays, threadVars, Finishing,
            Continuations, AddIndexes
    <2> QED
      BY <2>2, <2>3 DEF StopMoves
  <1>25. ASSUME NEW t \in Thread, CloseInternal(t)
        PROVE  StopMoves
    <2>1. /\ pc = [q \in Process |-> pc[q]] /\ Thread \subseteq Process
          /\ then \in [Thread -> Continuations]
      BY DEF IInv, Typed, Process
    <2>2. UNCHANGED stopMerges
      BY <1>25
         DEF CloseInternal, closeVars
    <2>3. \A s \in Thread :
             pc'[s] \in Finishing \/ pc[s] \in Finishing => pc'[s] = pc[s]
      BY <1>25, <2>1
         DEF CloseInternal, GoTo, GoToThen, Stays, threadVars, Finishing,
            Continuations, AddIndexes
    <2> QED
      BY <2>2, <2>3 DEF StopMoves
  <1>26. ASSUME NEW t \in Thread, CloseMerges(t)
        PROVE  StopMoves
    <2>1. /\ pc = [q \in Process |-> pc[q]] /\ Thread \subseteq Process
          /\ then \in [Thread -> Continuations]
      BY DEF IInv, Typed, Process
    <2>2. UNCHANGED stopMerges
      BY <1>26
         DEF CloseMerges, closeVars
    <2>3. \A s \in Thread :
             pc'[s] \in Finishing \/ pc[s] \in Finishing => pc'[s] = pc[s]
      BY <1>26, <2>1
         DEF CloseMerges, GoTo, GoToThen, Stays, threadVars, Finishing,
            Continuations, AddIndexes
    <2> QED
      BY <2>2, <2>3 DEF StopMoves
  <1>27. ASSUME NEW t \in Thread, CloseStop(t)
        PROVE  StopMoves
    <2>1. \A s \in Thread :
             pc'[s] \in Finishing \/ pc[s] \in Finishing => pc'[s] = pc[s]
      BY <1>27 DEF CloseStop, GoTo, IInv, Typed, Process, Finishing
    <2> QED
      BY <1>27, <2>1 DEF StopMoves
  <1>28. ASSUME NEW t \in Thread, Closed(t)
        PROVE  StopMoves
    <2>1. /\ pc = [q \in Process |-> pc[q]] /\ Thread \subseteq Process
          /\ then \in [Thread -> Continuations]
      BY DEF IInv, Typed, Process
    <2>2. UNCHANGED stopMerges
      BY <1>28
         DEF Closed, closeVars
    <2>3. \A s \in Thread :
             pc'[s] \in Finishing \/ pc[s] \in Finishing => pc'[s] = pc[s]
      BY <1>28, <2>1
         DEF Closed, GoTo, GoToThen, Stays, threadVars, Finishing,
            Continuations, AddIndexes
    <2> QED
      BY <2>2, <2>3 DEF StopMoves
  <1>29. ASSUME NEW t \in Thread, Schedule(t)
        PROVE  StopMoves
    <2>1. /\ pc = [q \in Process |-> pc[q]] /\ Thread \subseteq Process
          /\ then \in [Thread -> Continuations]
      BY DEF IInv, Typed, Process
    <2>2. UNCHANGED stopMerges
      BY <1>29
         DEF Schedule, closeVars
    <2>3. \A s \in Thread :
             pc'[s] \in Finishing \/ pc[s] \in Finishing => pc'[s] = pc[s]
      BY <1>29, <2>1
         DEF Schedule, GoTo, GoToThen, Stays, threadVars, Finishing,
            Continuations, AddIndexes
    <2> QED
      BY <2>2, <2>3 DEF StopMoves
  <1>30. ASSUME NEW t \in Thread, NEW m \in MergeThread, StartThread(t, m)
        PROVE  StopMoves
    <2>1. /\ pc = [q \in Process |-> pc[q]] /\ Thread \subseteq Process
          /\ then \in [Thread -> Continuations]
      BY DEF IInv, Typed, Process
    <2>2. UNCHANGED stopMerges
      BY <1>30
         DEF StartThread, closeVars
    <2>3. \A s \in Thread :
             pc'[s] \in Finishing \/ pc[s] \in Finishing => pc'[s] = pc[s]
      BY <1>30, <2>1, MergesAssumption
         DEF StartThread, GoTo, GoToThen, Stays, threadVars, Finishing,
            Continuations, AddIndexes
    <2> QED
      BY <2>2, <2>3 DEF StopMoves
  <1>31. ASSUME NEW p \in Process, MergeInit(p)
        PROVE  StopMoves
    <2>1. /\ pc = [q \in Process |-> pc[q]] /\ Thread \subseteq Process
          /\ then \in [Thread -> Continuations]
      BY DEF IInv, Typed, Process
    <2>2. UNCHANGED stopMerges
      BY <1>31
         DEF MergeInit, Fails, Throws, closeVars
    <2>3. \A s \in Thread :
             pc'[s] \in Finishing \/ pc[s] \in Finishing => pc'[s] = pc[s]
      BY <1>31, <2>1, MergesAssumption
         DEF MergeInit, Fails, Throws, GoTo, GoToThen, Stays, threadVars,
            Finishing, Continuations, AddIndexes
    <2> QED
      BY <2>2, <2>3 DEF StopMoves
  <1>32. ASSUME NEW p \in Process, MergeMiddle(p)
        PROVE  StopMoves
    <2>1. /\ pc = [q \in Process |-> pc[q]] /\ Thread \subseteq Process
          /\ then \in [Thread -> Continuations]
      BY DEF IInv, Typed, Process
    <2>2. UNCHANGED stopMerges
      BY <1>32
         DEF MergeMiddle, closeVars
    <2>3. \A s \in Thread :
             pc'[s] \in Finishing \/ pc[s] \in Finishing => pc'[s] = pc[s]
      BY <1>32, <2>1, MergesAssumption
         DEF MergeMiddle, GoTo, GoToThen, Stays, threadVars, Finishing,
            Continuations, AddIndexes
    <2> QED
      BY <2>2, <2>3 DEF StopMoves
  <1>33. ASSUME NEW p \in Process, CommitMerge(p)
        PROVE  StopMoves
    <2>1. /\ pc = [q \in Process |-> pc[q]] /\ Thread \subseteq Process
          /\ then \in [Thread -> Continuations]
      BY DEF IInv, Typed, Process
    <2>2. UNCHANGED stopMerges
      BY <1>33
         DEF CommitMerge, closeVars
    <2>3. \A s \in Thread :
             pc'[s] \in Finishing \/ pc[s] \in Finishing => pc'[s] = pc[s]
      BY <1>33, <2>1, MergesAssumption
         DEF CommitMerge, GoTo, GoToThen, Stays, threadVars, Finishing,
            Continuations, AddIndexes
    <2> QED
      BY <2>2, <2>3 DEF StopMoves
  <1>34. ASSUME NEW p \in Process, MergeDone(p)
        PROVE  StopMoves
    <2>1. /\ pc = [q \in Process |-> pc[q]] /\ Thread \subseteq Process
          /\ then \in [Thread -> Continuations]
      BY DEF IInv, Typed, Process
    <2>2. UNCHANGED stopMerges
      BY <1>34
         DEF MergeDone, closeVars
    <2>3. \A s \in Thread :
             pc'[s] \in Finishing \/ pc[s] \in Finishing => pc'[s] = pc[s]
      BY <1>34, <2>1, MergesAssumption
         DEF MergeDone, GoTo, GoToThen, Stays, threadVars, Finishing,
            Continuations, AddIndexes
    <2> QED
      BY <2>2, <2>3 DEF StopMoves
  <1>35. ASSUME NEW p \in Process, MergeFailed(p)
        PROVE  StopMoves
    <2>1. /\ pc = [q \in Process |-> pc[q]] /\ Thread \subseteq Process
          /\ then \in [Thread -> Continuations]
      BY DEF IInv, Typed, Process
    <2>2. UNCHANGED stopMerges
      BY <1>35
         DEF MergeFailed, Fails, Throws, closeVars
    <2>3. \A s \in Thread :
             pc'[s] \in Finishing \/ pc[s] \in Finishing => pc'[s] = pc[s]
      BY <1>35, <2>1, MergesAssumption
         DEF MergeFailed, Fails, Throws, GoTo, GoToThen, Stays, threadVars,
            Finishing, Continuations, AddIndexes
    <2> QED
      BY <2>2, <2>3 DEF StopMoves
  <1>36. ASSUME NEW m \in MergeThread, NextMerge(m)
        PROVE  StopMoves
    <2>1. /\ pc = [q \in Process |-> pc[q]] /\ Thread \subseteq Process
          /\ then \in [Thread -> Continuations]
      BY DEF IInv, Typed, Process
    <2>2. UNCHANGED stopMerges
      BY <1>36
         DEF NextMerge, closeVars
    <2>3. \A s \in Thread :
             pc'[s] \in Finishing \/ pc[s] \in Finishing => pc'[s] = pc[s]
      BY <1>36, <2>1, MergesAssumption
         DEF NextMerge, GoTo, GoToThen, Stays, threadVars, Finishing,
            Continuations, AddIndexes
    <2> QED
      BY <2>2, <2>3 DEF StopMoves
  <1>37. CASE UNCHANGED vars
    BY <1>37 DEF vars, closeVars, threadVars, StopMoves
  <1> QED
    BY <1>1, <1>2, <1>3, <1>4, <1>5, <1>6, <1>7, <1>8, <1>9, <1>10, <1>11,
       <1>12, <1>13, <1>14, <1>15, <1>16, <1>17, <1>18, <1>19, <1>20, <1>21,
       <1>22, <1>23, <1>24, <1>25, <1>26, <1>27, <1>28, <1>29, <1>30, <1>31,
       <1>32, <1>33, <1>34, <1>35, <1>36, <1>37
      DEF Next, CallStep, MergeStep, Process

\* What finishMerges does at once.
LEMMA FinishMergesIs ==
    ASSUME IInv, NEW t \in Thread, FinishMerges(t)
    PROVE  /\ NoneLeft(reg')
           /\ pc[t] \in {"finishMerges", "rollbackTransaction", "deleteAll"}
           /\ UNCHANGED <<op, then>>
           /\ \/ MayRead(t) /\ ~stopMerges' /\ pc'[t] \notin Finishing
              \/ /\ stopMerges' /\ UNCHANGED writeThread
                 /\ pc'[t] = IF MayRead(t) THEN "finishWait" ELSE "finishRead"
  <1>1. NoneLeft(reg')
    <2>1. RegInv(reg, counter) /\ counter \in Nat
      BY DEF IInv, Typed
    <2> QED
      BY <2>1, AbortedLeavesNone DEF FinishMerges
  <1> QED
    BY <1>1 DEF FinishMerges, MergesFinished, GoTo, Stays, Finishing, IInv,
                Typed, Process

\* What it does when it need wait no more.
LEMMA FinishMergesWaitIs ==
    ASSUME IInv, NEW t \in Thread, FinishMergesWait(t)
    PROVE  /\ UNCHANGED <<reg, op, then>>
           /\ \/ pc[t] = "finishRead" /\ MayRead(t)
              \/ pc[t] = "finishWait" /\ reg.running = {}
           /\ \/ /\ reg.running = {}
                 /\ ~stopMerges' /\ pc'[t] \notin Finishing
              \/ /\ pc[t] = "finishRead" /\ pc'[t] = "finishWait"
                 /\ UNCHANGED <<stopMerges, writeThread>>
  <1>1. /\ UNCHANGED <<reg, op, then>>
        /\ \/ pc[t] = "finishRead" /\ MayRead(t)
           \/ pc[t] = "finishWait" /\ reg.running = {}
    BY DEF FinishMergesWait, Stays
  <1>2. CASE reg.running = {}
    <2>1. MergesFinished(t)
      BY <1>2 DEF FinishMergesWait
    <2>2. ~stopMerges' /\ pc'[t] \notin Finishing
      <3>1. ~stopMerges'
        BY <2>1 DEF MergesFinished
      <3>2. \E l : l \notin Finishing /\ pc' = [pc EXCEPT ![t] = l]
        BY <2>1 DEF MergesFinished, GoTo, Finishing
      <3>3. pc = [p \in Process |-> pc[p]] /\ t \in Process
        BY DEF IInv, Typed, Process
      <3> QED
        BY <3>1, <3>2, <3>3
    <2> QED
      BY <1>1, <1>2, <2>2
  <1>3. CASE reg.running # {}
    <2>1. pc'[t] = "finishWait" /\ UNCHANGED <<stopMerges, writeThread>>
      BY <1>3 DEF FinishMergesWait, GoTo, IInv, Typed, Process
    <2> QED
      BY <1>1, <1>3, <2>1
  <1> QED
    BY <1>2, <1>3

\* Whoever finishes merges has the write lock or closes.
LEMMA FinisherIs ==
    ASSUME IInv, Exclusive, NoneTaken, NEW t \in Thread,
           pc[t] \in Finishing \cup {"finishMerges", "rollbackTransaction",
                                     "deleteAll"}
    PROVE  writeThread = t \/ Closer(t)
  <1>1. op[t] \in Calls \cup {"none"} /\ op[t] # "deleteAll"
    BY DEF IInv, Typed, NoneTaken
  <1>2. Kind(t) /\ Holder(t) /\ InLock(t)
    BY DEF Exclusive, IInv, Transactions
  <1> QED
    BY <1>1, <1>2
       DEF Finishing, Kind, Holder, InLock, InTransaction, OnlyTransaction,
           Closer

\* What stopMerges stands for while a call waits in finishMerges: a transaction
\* that rolls back, and a writer that closes, have it set as long as they wait;
\* and when it is set no merge is left.
Stopped ==
    /\ \A t \in Thread :
          /\ pc[t] = "finishWait" => writeThread \in {None, t}
          /\ pc[t] \in Finishing /\ writeThread = t => stopMerges
          /\ pc[t] \in Finishing /\ stopMerges => NoneLeft(reg)
          /\ Reverted(t) =>
                /\ writeThread = None
                /\ pc[t] \in Finishing => pc[t] = "finishWait" /\ stopMerges

\* No transaction starts while somebody closes.
LEMMA NoneStarts ==
    ASSUME IInv, Exclusive, NoneTaken, NEW t \in Thread, Closer(t),
           [Next]_vars
    PROVE  writeThread' \in {None, writeThread}
  <1>1. LockMoves
    BY NoneTakenReplaces, LockStep
  <1>2. closing
    BY DEF Exclusive
  <1> QED
    BY <1>1, <1>2 DEF LockMoves, IsOpen

\* Who clears stopMerges, and has set it.
LEMMA WhoClears ==
    ASSUME IInv, Exclusive, NoneTaken, Stopped, NEW u \in Thread,
           FinishMerges(u) \/ FinishMergesWait(u)
    PROVE  /\ stopMerges' \/ writeThread \in {None, u}
                          \/ UNCHANGED stopMerges
           /\ writeThread = u \/ Closer(u)
  <1>1. writeThread = u \/ Closer(u)
    <2>1. pc[u] \in Finishing \cup {"finishMerges", "rollbackTransaction",
                                    "deleteAll"}
      BY FinishMergesIs, FinishMergesWaitIs DEF Finishing
    <2> QED
      BY <2>1, FinisherIs
  <1>2. CASE FinishMerges(u)
    BY <1>1, <1>2, FinishMergesIs DEF MayRead
  <1>3. CASE FinishMergesWait(u)
    BY <1>1, <1>3, FinishMergesWaitIs DEF MayRead, Stopped
  <1> QED
    BY <1>2, <1>3

\* A step keeps what stopMerges stands for.
LEMMA StoppedStep ==
    ASSUME IInv, Exclusive, NoneTaken, Paths, Stopped, [Next]_vars,
           NEW t \in Thread
    PROVE  /\ pc'[t] = "finishWait" => writeThread' \in {None, t}
           /\ pc'[t] \in Finishing /\ writeThread' = t => stopMerges'
           /\ pc'[t] \in Finishing /\ stopMerges' => NoneLeft(reg')
           /\ Reverted(t)' =>
                /\ writeThread' = None
                /\ pc'[t] \in Finishing => pc'[t] = "finishWait" /\ stopMerges'
  <1>0. /\ StopMoves /\ t # None /\ stopMerges \in BOOLEAN
        /\ stopMerges' \in BOOLEAN
    <2>1. Typed'
      BY TypedStep
    <2> QED
      BY <2>1, StopMovesStep, MergesAssumption DEF None, IInv, Typed
  <1>1. pc'[t] = "finishWait" => writeThread' \in {None, t}
    <2>1. SUFFICES ASSUME pc'[t] = "finishWait"
                   PROVE  writeThread' \in {None, t}
      OBVIOUS
    <2>2. /\ pc[t] \in Finishing \cup {"finishMerges", "rollbackTransaction",
                                       "deleteAll"}
          /\ writeThread \in {None, t}
      <3>1. pc[t] = "finishWait" \/ FinishMerges(t) \/ FinishMergesWait(t)
        BY <1>0, <2>1 DEF StopMoves, Finishing
      <3>2. CASE pc[t] = "finishWait"
        BY <3>2 DEF Stopped, Finishing
      <3>3. CASE FinishMerges(t)
        BY <2>1, <3>3, FinishMergesIs DEF Finishing, MayRead
      <3>4. CASE FinishMergesWait(t)
        BY <2>1, <3>4, FinishMergesWaitIs DEF Finishing, MayRead, Stopped
      <3> QED
        BY <3>1, <3>2, <3>3, <3>4
    <2>3. CASE writeThread = t
      <3>1. LockMoves
        BY NoneTakenReplaces, LockStep
      <3> QED
        BY <1>0, <2>3, <3>1 DEF LockMoves
    <2>4. CASE writeThread # t
      <3>1. Closer(t)
        BY <2>2, <2>4, FinisherIs
      <3> QED
        BY <2>2, <3>1, NoneStarts
    <2> QED
      BY <2>3, <2>4
  <1>2. ASSUME pc'[t] \in Finishing
        PROVE  \/ FinishMerges(t) /\ stopMerges' /\ UNCHANGED writeThread
               \/ /\ FinishMergesWait(t)
                  /\ UNCHANGED <<stopMerges, writeThread>>
               \/ pc'[t] = pc[t]
    <2>1. CASE FinishMerges(t)
      BY <1>2, <2>1, FinishMergesIs
    <2>2. CASE FinishMergesWait(t)
      BY <1>2, <2>2, FinishMergesWaitIs
    <2> QED
      BY <1>0, <1>2, <2>1, <2>2 DEF StopMoves
  <1>3. ASSUME pc'[t] \in Finishing, writeThread' = t
        PROVE  stopMerges'
    <2>1. CASE FinishMerges(t) /\ stopMerges'
      BY <2>1
    <2>2. CASE ~(FinishMerges(t) /\ stopMerges')
      <3>1. pc[t] \in Finishing
        BY <1>2, <1>3, <2>2, FinishMergesWaitIs DEF Finishing
      <3>2. writeThread = t
        <4>1. CASE Closer(t)
          BY <1>0, <1>3, <4>1, NoneStarts
        <4>2. CASE ~Closer(t)
          BY <3>1, <4>2, FinisherIs
        <4> QED
          BY <4>1, <4>2
      <3>3. stopMerges
        BY <3>1, <3>2 DEF Stopped
      <3>4. ASSUME NEW u \in Thread, CloseStop(u) PROVE stopMerges'
        BY <3>4 DEF CloseStop
      <3>5. ASSUME NEW u \in Thread, FinishMerges(u) \/ FinishMergesWait(u),
                   u # t
            PROVE  stopMerges'
        BY <1>0, <3>2, <3>3, <3>5, WhoClears
      <3>6. ASSUME FinishMerges(t) \/ FinishMergesWait(t)
            PROVE  stopMerges'
        <4>1. CASE FinishMerges(t)
          BY <1>3, <4>1, FinishMergesIs
        <4>2. CASE FinishMergesWait(t)
          BY <1>3, <3>3, <4>2, FinishMergesWaitIs
        <4> QED
          BY <3>6, <4>1, <4>2
      <3> QED
        BY <1>0, <3>3, <3>4, <3>5, <3>6 DEF StopMoves
    <2> QED
      BY <2>1, <2>2
  <1>4. ASSUME pc'[t] \in Finishing, stopMerges'
        PROVE  NoneLeft(reg')
    <2>1. CASE \E u \in Thread : FinishMerges(u)
      BY <2>1, FinishMergesIs
    <2>2. CASE ~\E u \in Thread : FinishMerges(u)
      <3>1. pc[t] \in Finishing
        BY <1>2, <1>4, <2>2, FinishMergesWaitIs DEF Finishing
      <3>2. stopMerges
        <4>1. ASSUME NEW u \in Thread, FinishMergesWait(u)
              PROVE  stopMerges
          BY <1>4, <4>1, FinishMergesWaitIs
        <4>2. ASSUME NEW u \in Thread, CloseStop(u)
              PROVE  stopMerges
          <5>1. Closer(u)
            BY <4>2 DEF CloseStop, Exclusive, Kind, Closer
          <5>2. pc[u] \notin Finishing
            BY <4>2 DEF CloseStop, Finishing
          <5>3. ~Closer(t)
            BY <3>1, <5>1, <5>2 DEF Exclusive
          <5>4. writeThread = t
            BY <3>1, <5>3, FinisherIs
          <5> QED
            BY <3>1, <5>4 DEF Stopped
        <4> QED
          BY <1>0, <1>4, <2>2, <4>1, <4>2 DEF StopMoves
      <3>3. NoneLeft(reg)
        BY <3>1, <3>2 DEF Stopped
      <3> QED
        BY <3>2, <3>3, NoneLeftStep
    <2> QED
      BY <2>1, <2>2
  <1>5. ASSUME Reverted(t)'
        PROVE  /\ writeThread' = None
               /\ pc'[t] \in Finishing => pc'[t] = "finishWait" /\ stopMerges'
    <2>1. Reverted(t) \/ Revert(t)
      BY <1>5, RevertedFrom
    <2>2. writeThread = None /\ Closer(t)
      <3>1. CASE Reverted(t)
        BY <3>1 DEF Stopped, Reverted, Closer, Closing
      <3>2. CASE Revert(t)
        BY <3>2
           DEF Revert, Exclusive, Reverting, Kind, Closer, Closing
      <3> QED
        BY <2>1, <3>1, <3>2
    <2>3. writeThread' = None
      BY <2>2, NoneStarts
    <2>4. ASSUME pc'[t] \in Finishing
          PROVE  pc'[t] = "finishWait" /\ stopMerges'
      <3>1. CASE FinishMerges(t)
        BY <2>2, <2>4, <3>1, FinishMergesIs DEF MayRead
      <3>2. CASE ~FinishMerges(t)
        <4>1. pc[t] \in Finishing
          BY <1>2, <2>4, <3>2, FinishMergesWaitIs DEF Finishing
        <4>2. Reverted(t)
          BY <2>1, <4>1 DEF Revert, Finishing
        <4>3. pc[t] = "finishWait" /\ stopMerges
          BY <4>1, <4>2 DEF Stopped
        <4>4. pc'[t] = "finishWait"
          <5>1. ~FinishMergesWait(t)
            BY <2>4, <4>3, FinishMergesWaitIs
          <5> QED
            BY <1>0, <2>4, <3>2, <4>3, <5>1 DEF StopMoves
        <4>5. ASSUME NEW u \in Thread, FinishMerges(u) \/ FinishMergesWait(u)
              PROVE  u = t
          <5>1. writeThread # u
            BY <2>2, MergesAssumption DEF None
          <5>2. Closer(u)
            BY <4>5, <5>1, WhoClears
          <5> QED
            BY <2>2, <5>2 DEF Exclusive
        <4>6. ~FinishMergesWait(t)
          BY <2>4, <4>3, FinishMergesWaitIs
        <4>7. ASSUME NEW u \in Thread, CloseStop(u) PROVE stopMerges'
          BY <4>7 DEF CloseStop
        <4> QED
          BY <1>0, <3>2, <4>3, <4>4, <4>5, <4>6, <4>7 DEF StopMoves
      <3> QED
        BY <3>1, <3>2
    <2> QED
      BY <2>3, <2>4
  <1> QED
    BY <1>1, <1>3, <1>4, <1>5

\* When finishMerges ends, and nobody has cleared stopMerges since it began, no
\* segment is being merged.
LEMMA StoppedMoves ==
    ASSUME IInv, Exclusive, NoneTaken, Stopped, [Next]_vars,
           NEW t \in Thread, stopMerges, pc[t] \in Finishing,
           pc'[t] \notin Finishing
    PROVE  reg'.merging = {}
  <1>1. FinishMergesWait(t)
    BY StopMovesStep DEF StopMoves, Finishing
  <1>2. UNCHANGED reg /\ reg.running = {}
    BY <1>1, FinishMergesWaitIs DEF Finishing
  <1>3. reg.pending = <<>>
    BY DEF Stopped, NoneLeft
  <1>4. DOMAIN reg.merges = {}
    BY <1>2, <1>3 DEF IInv, RegInv, RegQueued, ToSet
  <1> QED
    BY <1>2, <1>4 DEF IInv, RegInv, RegMerging

-----------------------------------------------------------------------------
\* At the beginning nobody closes or finishes merges.
LEMMA StoppedInit == Init => Paths /\ Stopped
  <1>1. SUFFICES ASSUME Init PROVE Paths /\ Stopped
    OBVIOUS
  <1>2. \A t \in Thread : pc[t] = "idle" /\ op[t] = "none"
    <2>1. \A t \in Thread : t \in Process
      BY DEF Process
    <2> QED
      BY <1>1, <2>1 DEF Init
  <1>3. \A t \in Thread : Path(t)
    BY <1>2 DEF Path
  <1>4. Stopped
    BY <1>2 DEF Stopped, Finishing, Reverted
  <1> QED
    BY <1>3, <1>4 DEF Paths

\* What holds while calls that take segments away, and closes, wait for merges.
LEMMA StoppedAlways ==
    ASSUME NoneTaken
    PROVE  Spec => [](Exclusive /\ Paths /\ Stopped)
  <1> DEFINE SInv == Exclusive /\ Paths /\ Stopped
  <1>1. Init => SInv
    BY KeptInit, StoppedInit
  <1>2. IInv /\ SInv /\ [Next]_vars => SInv'
    <2> SUFFICES ASSUME IInv, SInv, [Next]_vars PROVE SInv'
      OBVIOUS
    <2>1. Exclusive'
      BY NoneTakenReplaces, ExclusiveStep
    <2>2. Paths'
      BY PathsStep DEF Paths
    <2>3. Stopped'
      BY StoppedStep DEF Stopped
    <2> QED
      BY <2>1, <2>2, <2>3
  <1> HIDE DEF SInv
  <1>3. Spec => []SInv
    BY <1>1, <1>2, Invariant, PTL DEF Spec
  <1> QED
    BY <1>3, PTL DEF SInv

\* When finishMerges(false) ends no segment is being merged, as it asserts, unless
\* stopMerges was cleared meanwhile: not so with deleteAll, which others may
\* overtake while it waits.  addIndexes(readers), which starts its transaction
\* although the writer closes, is beyond the argument.
THEOREM MergesHaveStopped ==
    ASSUME NoneTaken
    PROVE  Spec => MergesStopped
  <1> DEFINE Ended == \A t \in Thread :
                        LET finishing == {"finishRead", "finishWait"} IN
                        stopMerges /\ pc[t] \in finishing
                              /\ pc'[t] \notin finishing
                           => reg'.merging = {}
  <1>1. IInv /\ Exclusive /\ Paths /\ Stopped /\ [Next]_vars => Ended
    BY StoppedMoves DEF Finishing
  <1>2. [Ended]_vars => [\A t \in Thread :
                        LET finishing == {"finishRead", "finishWait"} IN
                        stopMerges /\ pc[t] \in finishing
                              /\ pc'[t] \notin finishing
                           => reg'.merging = {}]_vars
    OBVIOUS
  <1> HIDE DEF Ended
  <1> QED
    BY <1>1, <1>2, StoppedAlways, Invariant, PTL DEF Spec, MergesStopped

-----------------------------------------------------------------------------
(***************************************************************************)
(* rollback.                                                               *)
(***************************************************************************)
\* A rollback that has put the segments of the last commit back
Restored(t) ==
    /\ op[t] = "rollback"
    /\ \/ pc[t] \in {"recount", "closeInternal", "flush", "closeStop",
                     "closeSync", "commit"}
       \/ /\ pc[t] \in {"finishMerges", "finishRead", "finishWait"}
          /\ then[t] = "finishMerges"

\* Where it comes from.
LEMMA RestoredFrom ==
    ASSUME IInv, Exclusive, NoneTaken, Paths, [Next]_vars
    PROVE  \A s \in Thread : Restored(s)' => Restored(s) \/ Revert(s)
  <1>1. ASSUME NEW t \in Thread, Call(t)
        PROVE  \A s \in Thread : Restored(s)' => Restored(s) \/ Revert(s)
    <2>1. \A s \in Thread : Kind(s) /\ Path(s)
      BY DEF Exclusive, Paths
    <2>2. /\ pc = [q \in Process |-> pc[q]] /\ Thread \subseteq Process
          /\ then \in [Thread -> Continuations]
          /\ op \in [Thread -> Calls \cup {"none"}]
      BY DEF IInv, Typed, Process
    <2> QED
      BY <1>1, <2>1, <2>2, MergesAssumption
         DEF Call, GoTo, GoToThen, Stays, threadVars, Restored, Path,
            Continuations, AddIndexes
  <1>2. ASSUME NEW t \in Thread, AddDocument(t)
        PROVE  \A s \in Thread : Restored(s)' => Restored(s) \/ Revert(s)
    <2>1. \A s \in Thread : Kind(s) /\ Path(s)
      BY DEF Exclusive, Paths
    <2>2. /\ pc = [q \in Process |-> pc[q]] /\ Thread \subseteq Process
          /\ then \in [Thread -> Continuations]
          /\ op \in [Thread -> Calls \cup {"none"}]
      BY DEF IInv, Typed, Process
    <2> QED
      BY <1>2, <2>1, <2>2
         DEF AddDocument, GoTo, GoToThen, Stays, threadVars, Restored, Path,
            Continuations, AddIndexes
  <1>3. ASSUME NEW t \in Thread, Flush(t)
        PROVE  \A s \in Thread : Restored(s)' => Restored(s) \/ Revert(s)
    <2>1. \A s \in Thread : Kind(s) /\ Path(s)
      BY DEF Exclusive, Paths
    <2>2. /\ pc = [q \in Process |-> pc[q]] /\ Thread \subseteq Process
          /\ then \in [Thread -> Continuations]
          /\ op \in [Thread -> Calls \cup {"none"}]
      BY DEF IInv, Typed, Process
    <2> QED
      BY <1>3, <2>1, <2>2
         DEF Flush, GoTo, GoToThen, Stays, threadVars, Restored, Path,
            Continuations, AddIndexes
  <1>4. ASSUME NEW t \in Thread, UpdatePendingMerges(t)
        PROVE  \A s \in Thread : Restored(s)' => Restored(s) \/ Revert(s)
    <2>1. \A s \in Thread : Kind(s) /\ Path(s)
      BY DEF Exclusive, Paths
    <2>2. /\ pc = [q \in Process |-> pc[q]] /\ Thread \subseteq Process
          /\ then \in [Thread -> Continuations]
          /\ op \in [Thread -> Calls \cup {"none"}]
      BY DEF IInv, Typed, Process
    <2> QED
      BY <1>4, <2>1, <2>2
         DEF UpdatePendingMerges, GoTo, GoToThen, Stays, threadVars, Restored,
            Path, Continuations, AddIndexes
  <1>5. ASSUME NEW t \in Thread, Commit(t)
        PROVE  \A s \in Thread : Restored(s)' => Restored(s) \/ Revert(s)
    <2>1. \A s \in Thread : Kind(s) /\ Path(s)
      BY DEF Exclusive, Paths
    <2>2. /\ pc = [q \in Process |-> pc[q]] /\ Thread \subseteq Process
          /\ then \in [Thread -> Continuations]
          /\ op \in [Thread -> Calls \cup {"none"}]
      BY DEF IInv, Typed, Process
    <2> QED
      BY <1>5, <2>1, <2>2
         DEF Commit, GoTo, GoToThen, Stays, threadVars, Restored, Path,
            Continuations, AddIndexes
  <1>6. ASSUME NEW t \in Thread, Leave(t)
        PROVE  \A s \in Thread : Restored(s)' => Restored(s) \/ Revert(s)
    <2>1. \A s \in Thread : Kind(s) /\ Path(s)
      BY DEF Exclusive, Paths
    <2>2. /\ pc = [q \in Process |-> pc[q]] /\ Thread \subseteq Process
          /\ then \in [Thread -> Continuations]
          /\ op \in [Thread -> Calls \cup {"none"}]
      BY DEF IInv, Typed, Process
    <2> QED
      BY <1>6, <2>1, <2>2
         DEF Leave, GoTo, GoToThen, Stays, threadVars, Restored, Path,
            Continuations, AddIndexes
  <1>7. ASSUME NEW t \in Thread, OptimizeMark(t)
        PROVE  \A s \in Thread : Restored(s)' => Restored(s) \/ Revert(s)
    <2>1. \A s \in Thread : Kind(s) /\ Path(s)
      BY DEF Exclusive, Paths
    <2>2. /\ pc = [q \in Process |-> pc[q]] /\ Thread \subseteq Process
          /\ then \in [Thread -> Continuations]
          /\ op \in [Thread -> Calls \cup {"none"}]
      BY DEF IInv, Typed, Process
    <2> QED
      BY <1>7, <2>1, <2>2
         DEF OptimizeMark, GoTo, GoToThen, Stays, threadVars, Restored, Path,
            Continuations, AddIndexes
  <1>8. ASSUME NEW t \in Thread, OptimizeWait(t)
        PROVE  \A s \in Thread : Restored(s)' => Restored(s) \/ Revert(s)
    <2>1. \A s \in Thread : Kind(s) /\ Path(s)
      BY DEF Exclusive, Paths
    <2>2. /\ pc = [q \in Process |-> pc[q]] /\ Thread \subseteq Process
          /\ then \in [Thread -> Continuations]
          /\ op \in [Thread -> Calls \cup {"none"}]
      BY DEF IInv, Typed, Process
    <2> QED
      BY <1>8, <2>1, <2>2
         DEF OptimizeWait, GoTo, GoToThen, Stays, threadVars, Restored, Path,
            Continuations, AddIndexes
  <1>9. ASSUME NEW t \in Thread, PauseAllThreads(t)
        PROVE  \A s \in Thread : Restored(s)' => Restored(s) \/ Revert(s)
    <2>1. \A s \in Thread : Kind(s) /\ Path(s)
      BY DEF Exclusive, Paths
    <2>2. /\ pc = [q \in Process |-> pc[q]] /\ Thread \subseteq Process
          /\ then \in [Thread -> Continuations]
          /\ op \in [Thread -> Calls \cup {"none"}]
      BY DEF IInv, Typed, Process
    <2> QED
      BY <1>9, <2>1, <2>2
         DEF PauseAllThreads, GoTo, GoToThen, Stays, threadVars, Restored,
            Path, Continuations, AddIndexes
  <1>10. ASSUME NEW t \in Thread, AcquireRead(t)
        PROVE  \A s \in Thread : Restored(s)' => Restored(s) \/ Revert(s)
    <2>1. \A s \in Thread : Kind(s) /\ Path(s)
      BY DEF Exclusive, Paths
    <2>2. /\ pc = [q \in Process |-> pc[q]] /\ Thread \subseteq Process
          /\ then \in [Thread -> Continuations]
          /\ op \in [Thread -> Calls \cup {"none"}]
      BY DEF IInv, Typed, Process
    <2> QED
      BY <1>10, <2>1, <2>2
         DEF AcquireRead, GoTo, GoToThen, Stays, threadVars, Restored, Path,
            Continuations, AddIndexes
  <1>11. ASSUME NEW t \in Thread, StartTransaction(t)
        PROVE  \A s \in Thread : Restored(s)' => Restored(s) \/ Revert(s)
    <2>1. \A s \in Thread : Kind(s) /\ Path(s)
      BY DEF Exclusive, Paths
    <2>2. /\ pc = [q \in Process |-> pc[q]] /\ Thread \subseteq Process
          /\ then \in [Thread -> Continuations]
          /\ op \in [Thread -> Calls \cup {"none"}]
      BY DEF IInv, Typed, Process
    <2> QED
      BY <1>11, <2>1, <2>2
         DEF StartTransaction, TakesWriteLock, UpgradeReadToWrite,
            AcquireWrite, TakesLock, GoTo, GoToThen, Stays, threadVars,
            Restored, Path, Continuations, AddIndexes
  <1>12. ASSUME NEW t \in Thread, AddExternal(t)
        PROVE  \A s \in Thread : Restored(s)' => Restored(s) \/ Revert(s)
    <2>1. \A s \in Thread : Kind(s) /\ Path(s)
      BY DEF Exclusive, Paths
    <2>2. /\ pc = [q \in Process |-> pc[q]] /\ Thread \subseteq Process
          /\ then \in [Thread -> Continuations]
          /\ op \in [Thread -> Calls \cup {"none"}]
      BY DEF IInv, Typed, Process
    <2> QED
      BY <1>12, <2>1, <2>2
         DEF AddExternal, GoTo, GoToThen, Stays, threadVars, Restored, Path,
            Continuations, AddIndexes
  <1>13. ASSUME NEW t \in Thread, TransactionOpen(t)
        PROVE  \A s \in Thread : Restored(s)' => Restored(s) \/ Revert(s)
    <2>1. \A s \in Thread : Kind(s) /\ Path(s)
      BY DEF Exclusive, Paths
    <2>2. /\ pc = [q \in Process |-> pc[q]] /\ Thread \subseteq Process
          /\ then \in [Thread -> Continuations]
          /\ op \in [Thread -> Calls \cup {"none"}]
      BY DEF IInv, Typed, Process
    <2> QED
      BY <1>13, <2>1, <2>2
         DEF TransactionOpen, GoTo, GoToThen, Stays, threadVars, Restored,
            Path, Continuations, AddIndexes
  <1>14. ASSUME NEW t \in Thread, ResolveExternal(t)
        PROVE  \A s \in Thread : Restored(s)' => Restored(s) \/ Revert(s)
    <2>1. \A s \in Thread : Kind(s) /\ Path(s)
      BY DEF Exclusive, Paths
    <2>2. /\ pc = [q \in Process |-> pc[q]] /\ Thread \subseteq Process
          /\ then \in [Thread -> Continuations]
          /\ op \in [Thread -> Calls \cup {"none"}]
      BY DEF IInv, Typed, Process
    <2> QED
      BY <1>14, <2>1, <2>2
         DEF ResolveExternal, GoTo, GoToThen, Stays, threadVars, Restored,
            Path, Continuations, AddIndexes
  <1>15. ASSUME NEW t \in Thread, ReadersGet(t)
        PROVE  \A s \in Thread : Restored(s)' => Restored(s) \/ Revert(s)
    <2>1. \A s \in Thread : Kind(s) /\ Path(s)
      BY DEF Exclusive, Paths
    <2>2. /\ pc = [q \in Process |-> pc[q]] /\ Thread \subseteq Process
          /\ then \in [Thread -> Continuations]
          /\ op \in [Thread -> Calls \cup {"none"}]
      BY DEF IInv, Typed, Process
    <2> QED
      BY <1>15, <2>1, <2>2
         DEF ReadersGet, GoTo, GoToThen, Stays, threadVars, Restored, Path,
            Continuations, AddIndexes
  <1>16. ASSUME NEW t \in Thread, ReadersPut(t)
        PROVE  \A s \in Thread : Restored(s)' => Restored(s) \/ Revert(s)
    <2>1. \A s \in Thread : Kind(s) /\ Path(s)
      BY DEF Exclusive, Paths
    <2>2. /\ pc = [q \in Process |-> pc[q]] /\ Thread \subseteq Process
          /\ then \in [Thread -> Continuations]
          /\ op \in [Thread -> Calls \cup {"none"}]
      BY DEF IInv, Typed, Process
    <2> QED
      BY <1>16, <2>1, <2>2
         DEF ReadersPut, GoTo, GoToThen, Stays, threadVars, Restored, Path,
            Continuations, AddIndexes
  <1>17. ASSUME NEW t \in Thread, CommitTransaction(t)
        PROVE  \A s \in Thread : Restored(s)' => Restored(s) \/ Revert(s)
    <2>1. \A s \in Thread : Kind(s) /\ Path(s)
      BY DEF Exclusive, Paths
    <2>2. /\ pc = [q \in Process |-> pc[q]] /\ Thread \subseteq Process
          /\ then \in [Thread -> Continuations]
          /\ op \in [Thread -> Calls \cup {"none"}]
      BY DEF IInv, Typed, Process
    <2> QED
      BY <1>17, <2>1, <2>2
         DEF CommitTransaction, GoTo, GoToThen, Stays, threadVars, Restored,
            Path, Continuations, AddIndexes
  <1>18. ASSUME NEW t \in Thread, FinishMerges(t)
        PROVE  \A s \in Thread : Restored(s)' => Restored(s) \/ Revert(s)
    <2>1. UNCHANGED <<op, then>> /\ \A s \in Thread \ {t} : pc'[s] = pc[s]
      BY <1>18
         DEF FinishMerges, MergesFinished, GoTo, Stays, IInv, Typed, Process
    <2>2. \A s \in Thread : Path(s) /\ Kind(s)
      BY DEF Exclusive, Paths
    <2>3. /\ pc[t] \in {"finishRead", "finishWait", "finishMerges",
                        "rollbackTransaction", "deleteAll"}
          /\ \/ pc'[t] \in {"throw", "return", "finishWait", "finishRead",
                            "sync"}
             \/ pc'[t] = "closeStop" /\ then[t] # "revert"
      BY <1>18
         DEF FinishMerges, MergesFinished, GoTo, Stays, IInv, Typed, Process
    <2>4. Restored(t)' => Restored(t)
      BY <2>1, <2>2, <2>3 DEF Path, Restored
    <2> QED
      BY <2>1, <2>4 DEF Restored
  <1>19. ASSUME NEW t \in Thread, FinishMergesWait(t)
        PROVE  \A s \in Thread : Restored(s)' => Restored(s) \/ Revert(s)
    <2>1. UNCHANGED <<op, then>> /\ \A s \in Thread \ {t} : pc'[s] = pc[s]
      BY <1>19
         DEF FinishMergesWait, MergesFinished, GoTo, Stays, IInv, Typed, Process
    <2>2. \A s \in Thread : Path(s) /\ Kind(s)
      BY DEF Exclusive, Paths
    <2>3. /\ pc[t] \in {"finishRead", "finishWait", "finishMerges",
                        "rollbackTransaction", "deleteAll"}
          /\ \/ pc'[t] \in {"throw", "return", "finishWait", "finishRead",
                            "sync"}
             \/ pc'[t] = "closeStop" /\ then[t] # "revert"
      BY <1>19
         DEF FinishMergesWait, MergesFinished, GoTo, Stays, IInv, Typed, Process
    <2>4. Restored(t)' => Restored(t)
      BY <2>1, <2>2, <2>3 DEF Path, Restored
    <2> QED
      BY <2>1, <2>4 DEF Restored
  <1>20. ASSUME NEW t \in Thread, WaitForMerges(t)
        PROVE  \A s \in Thread : Restored(s)' => Restored(s) \/ Revert(s)
    <2>1. \A s \in Thread : Kind(s) /\ Path(s)
      BY DEF Exclusive, Paths
    <2>2. /\ pc = [q \in Process |-> pc[q]] /\ Thread \subseteq Process
          /\ then \in [Thread -> Continuations]
          /\ op \in [Thread -> Calls \cup {"none"}]
      BY DEF IInv, Typed, Process
    <2> QED
      BY <1>20, <2>1, <2>2
         DEF WaitForMerges, GoTo, GoToThen, Stays, threadVars, Restored, Path,
            Continuations, AddIndexes
  <1>21. ASSUME NEW t \in Thread, ShouldClose(t)
        PROVE  \A s \in Thread : Restored(s)' => Restored(s) \/ Revert(s)
    <2>1. \A s \in Thread : Kind(s) /\ Path(s)
      BY DEF Exclusive, Paths
    <2>2. /\ pc = [q \in Process |-> pc[q]] /\ Thread \subseteq Process
          /\ then \in [Thread -> Continuations]
          /\ op \in [Thread -> Calls \cup {"none"}]
      BY DEF IInv, Typed, Process
    <2> QED
      BY <1>21, <2>1, <2>2
         DEF ShouldClose, GoTo, GoToThen, Stays, threadVars, Restored, Path,
            Continuations, AddIndexes
  <1>22. ASSUME NEW t \in Thread, SyncThreads(t)
        PROVE  \A s \in Thread : Restored(s)' => Restored(s) \/ Revert(s)
    <2>1. \A s \in Thread : Kind(s) /\ Path(s)
      BY DEF Exclusive, Paths
    <2>2. /\ pc = [q \in Process |-> pc[q]] /\ Thread \subseteq Process
          /\ then \in [Thread -> Continuations]
          /\ op \in [Thread -> Calls \cup {"none"}]
      BY DEF IInv, Typed, Process
    <2> QED
      BY <1>22, <2>1, <2>2
         DEF SyncThreads, GoTo, GoToThen, Stays, threadVars, Restored, Path,
            Continuations, AddIndexes
  <1>23. ASSUME NEW t \in Thread, Revert(t)
        PROVE  \A s \in Thread : Restored(s)' => Restored(s) \/ Revert(s)
    <2>1. /\ pc = [q \in Process |-> pc[q]] /\ Thread \subseteq Process
          /\ then' = then /\ op' = op /\ pc' = [pc EXCEPT ![t] = "recount"]
      BY <1>23 DEF Revert, GoTo, Stays, IInv, Typed, Process
    <2>2. \A s \in Thread \ {t} : pc'[s] = pc[s]
      BY <2>1
    <2> QED
      BY <1>23, <2>1, <2>2 DEF Restored
  <1>24. ASSUME NEW t \in Thread, Recount(t)
        PROVE  \A s \in Thread : Restored(s)' => Restored(s) \/ Revert(s)
    <2>1. \A s \in Thread : Kind(s) /\ Path(s)
      BY DEF Exclusive, Paths
    <2>2. /\ pc = [q \in Process |-> pc[q]] /\ Thread \subseteq Process
          /\ then \in [Thread -> Continuations]
          /\ op \in [Thread -> Calls \cup {"none"}]
      BY DEF IInv, Typed, Process
    <2> QED
      BY <1>24, <2>1, <2>2
         DEF Recount, GoTo, GoToThen, Stays, threadVars, Restored, Path,
            Continuations, AddIndexes
  <1>25. ASSUME NEW t \in Thread, CloseInternal(t)
        PROVE  \A s \in Thread : Restored(s)' => Restored(s) \/ Revert(s)
    <2>1. \A s \in Thread : Kind(s) /\ Path(s)
      BY DEF Exclusive, Paths
    <2>2. /\ pc = [q \in Process |-> pc[q]] /\ Thread \subseteq Process
          /\ then \in [Thread -> Continuations]
          /\ op \in [Thread -> Calls \cup {"none"}]
      BY DEF IInv, Typed, Process
    <2> QED
      BY <1>25, <2>1, <2>2
         DEF CloseInternal, GoTo, GoToThen, Stays, threadVars, Restored, Path,
            Continuations, AddIndexes
  <1>26. ASSUME NEW t \in Thread, CloseMerges(t)
        PROVE  \A s \in Thread : Restored(s)' => Restored(s) \/ Revert(s)
    <2>1. \A s \in Thread : Kind(s) /\ Path(s)
      BY DEF Exclusive, Paths
    <2>2. /\ pc = [q \in Process |-> pc[q]] /\ Thread \subseteq Process
          /\ then \in [Thread -> Continuations]
          /\ op \in [Thread -> Calls \cup {"none"}]
      BY DEF IInv, Typed, Process
    <2> QED
      BY <1>26, <2>1, <2>2
         DEF CloseMerges, GoTo, GoToThen, Stays, threadVars, Restored, Path,
            Continuations, AddIndexes
  <1>27. ASSUME NEW t \in Thread, CloseStop(t)
        PROVE  \A s \in Thread : Restored(s)' => Restored(s) \/ Revert(s)
    <2>1. \A s \in Thread : Kind(s) /\ Path(s)
      BY DEF Exclusive, Paths
    <2>2. /\ pc = [q \in Process |-> pc[q]] /\ Thread \subseteq Process
          /\ then \in [Thread -> Continuations]
          /\ op \in [Thread -> Calls \cup {"none"}]
      BY DEF IInv, Typed, Process
    <2> QED
      BY <1>27, <2>1, <2>2
         DEF CloseStop, GoTo, GoToThen, Stays, threadVars, Restored, Path,
            Continuations, AddIndexes
  <1>28. ASSUME NEW t \in Thread, Closed(t)
        PROVE  \A s \in Thread : Restored(s)' => Restored(s) \/ Revert(s)
    <2>1. \A s \in Thread : Kind(s) /\ Path(s)
      BY DEF Exclusive, Paths
    <2>2. /\ pc = [q \in Process |-> pc[q]] /\ Thread \subseteq Process
          /\ then \in [Thread -> Continuations]
          /\ op \in [Thread -> Calls \cup {"none"}]
      BY DEF IInv, Typed, Process
    <2> QED
      BY <1>28, <2>1, <2>2
         DEF Closed, GoTo, GoToThen, Stays, threadVars, Restored, Path,
            Continuations, AddIndexes
  <1>29. ASSUME NEW t \in Thread, Schedule(t)
        PROVE  \A s \in Thread : Restored(s)' => Restored(s) \/ Revert(s)
    <2>1. \A s \in Thread : Kind(s) /\ Path(s)
      BY DEF Exclusive, Paths
    <2>2. /\ pc = [q \in Process |-> pc[q]] /\ Thread \subseteq Process
          /\ then \in [Thread -> Continuations]
          /\ op \in [Thread -> Calls \cup {"none"}]
      BY DEF IInv, Typed, Process
    <2> QED
      BY <1>29, <2>1, <2>2
         DEF Schedule, GoTo, GoToThen, Stays, threadVars, Restored, Path,
            Continuations, AddIndexes
  <1>30. ASSUME NEW t \in Thread, NEW m \in MergeThread, StartThread(t, m)
        PROVE  \A s \in Thread : Restored(s)' => Restored(s) \/ Revert(s)
    <2>1. \A s \in Thread : Kind(s) /\ Path(s)
      BY DEF Exclusive, Paths
    <2>2. /\ pc = [q \in Process |-> pc[q]] /\ Thread \subseteq Process
          /\ then \in [Thread -> Continuations]
          /\ op \in [Thread -> Calls \cup {"none"}]
      BY DEF IInv, Typed, Process
    <2> QED
      BY <1>30, <2>1, <2>2, MergesAssumption
         DEF StartThread, GoTo, GoToThen, Stays, threadVars, Restored, Path,
            Continuations, AddIndexes
  <1>31. ASSUME NEW p \in Process, MergeInit(p)
        PROVE  \A s \in Thread : Restored(s)' => Restored(s) \/ Revert(s)
    <2>1. \A s \in Thread : Kind(s) /\ Path(s)
      BY DEF Exclusive, Paths
    <2>2. /\ pc = [q \in Process |-> pc[q]] /\ Thread \subseteq Process
          /\ then \in [Thread -> Continuations]
          /\ op \in [Thread -> Calls \cup {"none"}]
      BY DEF IInv, Typed, Process
    <2> QED
      BY <1>31, <2>1, <2>2
         DEF MergeInit, Fails, Throws, GoTo, GoToThen, Stays, threadVars,
            Restored, Path, Continuations, AddIndexes
  <1>32. ASSUME NEW p \in Process, MergeMiddle(p)
        PROVE  \A s \in Thread : Restored(s)' => Restored(s) \/ Revert(s)
    <2>1. \A s \in Thread : Kind(s) /\ Path(s)
      BY DEF Exclusive, Paths
    <2>2. /\ pc = [q \in Process |-> pc[q]] /\ Thread \subseteq Process
          /\ then \in [Thread -> Continuations]
          /\ op \in [Thread -> Calls \cup {"none"}]
      BY DEF IInv, Typed, Process
    <2> QED
      BY <1>32, <2>1, <2>2
         DEF MergeMiddle, GoTo, GoToThen, Stays, threadVars, Restored, Path,
            Continuations, AddIndexes
  <1>33. ASSUME NEW p \in Process, CommitMerge(p)
        PROVE  \A s \in Thread : Restored(s)' => Restored(s) \/ Revert(s)
    <2>1. \A s \in Thread : Kind(s) /\ Path(s)
      BY DEF Exclusive, Paths
    <2>2. /\ pc = [q \in Process |-> pc[q]] /\ Thread \subseteq Process
          /\ then \in [Thread -> Continuations]
          /\ op \in [Thread -> Calls \cup {"none"}]
      BY DEF IInv, Typed, Process
    <2> QED
      BY <1>33, <2>1, <2>2
         DEF CommitMerge, GoTo, GoToThen, Stays, threadVars, Restored, Path,
            Continuations, AddIndexes
  <1>34. ASSUME NEW p \in Process, MergeDone(p)
        PROVE  \A s \in Thread : Restored(s)' => Restored(s) \/ Revert(s)
    <2>1. \A s \in Thread : Kind(s) /\ Path(s)
      BY DEF Exclusive, Paths
    <2>2. /\ pc = [q \in Process |-> pc[q]] /\ Thread \subseteq Process
          /\ then \in [Thread -> Continuations]
          /\ op \in [Thread -> Calls \cup {"none"}]
      BY DEF IInv, Typed, Process
    <2> QED
      BY <1>34, <2>1, <2>2
         DEF MergeDone, GoTo, GoToThen, Stays, threadVars, Restored, Path,
            Continuations, AddIndexes
  <1>35. ASSUME NEW p \in Process, MergeFailed(p)
        PROVE  \A s \in Thread : Restored(s)' => Restored(s) \/ Revert(s)
    <2>1. \A s \in Thread : Kind(s) /\ Path(s)
      BY DEF Exclusive, Paths
    <2>2. /\ pc = [q \in Process |-> pc[q]] /\ Thread \subseteq Process
          /\ then \in [Thread -> Continuations]
          /\ op \in [Thread -> Calls \cup {"none"}]
      BY DEF IInv, Typed, Process
    <2> QED
      BY <1>35, <2>1, <2>2
         DEF MergeFailed, Fails, Throws, GoTo, GoToThen, Stays, threadVars,
            Restored, Path, Continuations, AddIndexes
  <1>36. ASSUME NEW m \in MergeThread, NextMerge(m)
        PROVE  \A s \in Thread : Restored(s)' => Restored(s) \/ Revert(s)
    <2>1. \A s \in Thread : Kind(s) /\ Path(s)
      BY DEF Exclusive, Paths
    <2>2. /\ pc = [q \in Process |-> pc[q]] /\ Thread \subseteq Process
          /\ then \in [Thread -> Continuations]
          /\ op \in [Thread -> Calls \cup {"none"}]
      BY DEF IInv, Typed, Process
    <2> QED
      BY <1>36, <2>1, <2>2
         DEF NextMerge, GoTo, GoToThen, Stays, threadVars, Restored, Path,
            Continuations, AddIndexes
  <1>37. CASE UNCHANGED vars
    BY <1>37
      DEF vars, infoVars, commitVars, optVars, closeVars, lockVars,
         threadVars, Restored
  <1> QED
    BY <1>1, <1>2, <1>3, <1>4, <1>5, <1>6, <1>7, <1>8, <1>9, <1>10, <1>11,
       <1>12, <1>13, <1>14, <1>15, <1>16, <1>17, <1>18, <1>19, <1>20, <1>21,
       <1>22, <1>23, <1>24, <1>25, <1>26, <1>27, <1>28, <1>29, <1>30, <1>31,
       <1>32, <1>33, <1>34, <1>35, <1>36, <1>37
      DEF Next, CallStep, MergeStep, Process

\* What a step does to the documents that are to be there.
Expects ==
    \/ UNCHANGED <<expected, buffered, committed>>
    \/ \E t \in Thread :
          \/ AddDocument(t) \/ Flush(t) \/ Commit(t) \/ AddExternal(t)
          \/ FinishMerges(t) \/ FinishMergesWait(t) \/ Revert(t)

\* So it does.
LEMMA ExpectsStep ==
    ASSUME IInv, Exclusive, [Next]_vars
    PROVE  Expects
  <1>1. ASSUME NEW t \in Thread, Call(t)
        PROVE  Expects
    BY <1>1
       DEF Call, infoVars, commitVars, lockVars, Expects
  <1>2. ASSUME NEW t \in Thread, AddDocument(t)
        PROVE  Expects
    BY <1>2 DEF Expects
  <1>3. ASSUME NEW t \in Thread, Flush(t)
        PROVE  Expects
    BY <1>3 DEF Expects
  <1>4. ASSUME NEW t \in Thread, UpdatePendingMerges(t)
        PROVE  Expects
    BY <1>4
       DEF UpdatePendingMerges, infoVars, commitVars, lockVars, Expects
  <1>5. ASSUME NEW t \in Thread, Commit(t)
        PROVE  Expects
    BY <1>5 DEF Expects
  <1>6. ASSUME NEW t \in Thread, Leave(t)
        PROVE  Expects
    BY <1>6
       DEF Leave, infoVars, commitVars, lockVars, Expects
  <1>7. ASSUME NEW t \in Thread, OptimizeMark(t)
        PROVE  Expects
    BY <1>7
       DEF OptimizeMark, infoVars, commitVars, lockVars, Expects
  <1>8. ASSUME NEW t \in Thread, OptimizeWait(t)
        PROVE  Expects
    BY <1>8
       DEF OptimizeWait, infoVars, commitVars, lockVars, Expects
  <1>9. ASSUME NEW t \in Thread, PauseAllThreads(t)
        PROVE  Expects
    BY <1>9
       DEF PauseAllThreads, infoVars, commitVars, lockVars, Expects
  <1>10. ASSUME NEW t \in Thread, AcquireRead(t)
        PROVE  Expects
    BY <1>10
       DEF AcquireRead, infoVars, commitVars, lockVars, Expects
  <1>11. ASSUME NEW t \in Thread, StartTransaction(t)
        PROVE  Expects
    BY <1>11
       DEF StartTransaction, TakesWriteLock, UpgradeReadToWrite, AcquireWrite,
          TakesLock, infoVars, commitVars, lockVars, Expects
  <1>12. ASSUME NEW t \in Thread, AddExternal(t)
        PROVE  Expects
    BY <1>12 DEF Expects
  <1>13. ASSUME NEW t \in Thread, TransactionOpen(t)
        PROVE  Expects
    BY <1>13
       DEF TransactionOpen, infoVars, commitVars, lockVars, Expects
  <1>14. ASSUME NEW t \in Thread, ResolveExternal(t)
        PROVE  Expects
    BY <1>14
       DEF ResolveExternal, infoVars, commitVars, lockVars, Expects
  <1>15. ASSUME NEW t \in Thread, ReadersGet(t)
        PROVE  Expects
    BY <1>15
       DEF ReadersGet, infoVars, commitVars, lockVars, Expects
  <1>16. ASSUME NEW t \in Thread, ReadersPut(t)
        PROVE  Expects
    <2>1. pc[t] # "readersPut"
      BY DEF Exclusive, Kind
    <2> QED
      BY <1>16, <2>1 DEF ReadersPut
  <1>17. ASSUME NEW t \in Thread, CommitTransaction(t)
        PROVE  Expects
    BY <1>17
       DEF CommitTransaction, infoVars, commitVars, lockVars, Expects
  <1>18. ASSUME NEW t \in Thread, FinishMerges(t)
        PROVE  Expects
    BY <1>18 DEF Expects
  <1>19. ASSUME NEW t \in Thread, FinishMergesWait(t)
        PROVE  Expects
    BY <1>19 DEF Expects
  <1>20. ASSUME NEW t \in Thread, WaitForMerges(t)
        PROVE  Expects
    BY <1>20
       DEF WaitForMerges, infoVars, commitVars, lockVars, Expects
  <1>21. ASSUME NEW t \in Thread, ShouldClose(t)
        PROVE  Expects
    BY <1>21
       DEF ShouldClose, infoVars, commitVars, lockVars, Expects
  <1>22. ASSUME NEW t \in Thread, SyncThreads(t)
        PROVE  Expects
    BY <1>22
       DEF SyncThreads, infoVars, commitVars, lockVars, Expects
  <1>23. ASSUME NEW t \in Thread, Revert(t)
        PROVE  Expects
    BY <1>23 DEF Expects
  <1>24. ASSUME NEW t \in Thread, Recount(t)
        PROVE  Expects
    BY <1>24
       DEF Recount, infoVars, commitVars, lockVars, Expects
  <1>25. ASSUME NEW t \in Thread, CloseInternal(t)
        PROVE  Expects
    BY <1>25
       DEF CloseInternal, infoVars, commitVars, lockVars, Expects
  <1>26. ASSUME NEW t \in Thread, CloseMerges(t)
        PROVE  Expects
    BY <1>26
       DEF CloseMerges, infoVars, commitVars, lockVars, Expects
  <1>27. ASSUME NEW t \in Thread, CloseStop(t)
        PROVE  Expects
    BY <1>27
       DEF CloseStop, infoVars, commitVars, lockVars, Expects
  <1>28. ASSUME NEW t \in Thread, Closed(t)
        PROVE  Expects
    BY <1>28
       DEF Closed, infoVars, commitVars, lockVars, Expects
  <1>29. ASSUME NEW t \in Thread, Schedule(t)
        PROVE  Expects
    BY <1>29
       DEF Schedule, infoVars, commitVars, lockVars, Expects
  <1>30. ASSUME NEW t \in Thread, NEW m \in MergeThread, StartThread(t, m)
        PROVE  Expects
    BY <1>30
       DEF StartThread, infoVars, commitVars, lockVars, Expects
  <1>31. ASSUME NEW p \in Process, MergeInit(p)
        PROVE  Expects
    BY <1>31
       DEF MergeInit, Fails, Throws, infoVars, commitVars, lockVars, Expects
  <1>32. ASSUME NEW p \in Process, MergeMiddle(p)
        PROVE  Expects
    BY <1>32
       DEF MergeMiddle, infoVars, commitVars, lockVars, Expects
  <1>33. ASSUME NEW p \in Process, CommitMerge(p)
        PROVE  Expects
    BY <1>33
       DEF CommitMerge, infoVars, commitVars, lockVars, Expects
  <1>34. ASSUME NEW p \in Process, MergeDone(p)
        PROVE  Expects
    BY <1>34
       DEF MergeDone, infoVars, commitVars, lockVars, Expects
  <1>35. ASSUME NEW p \in Process, MergeFailed(p)
        PROVE  Expects
    BY <1>35
       DEF MergeFailed, Fails, Throws, infoVars, commitVars, lockVars, Expects
  <1>36. ASSUME NEW m \in MergeThread, NextMerge(m)
        PROVE  Expects
    BY <1>36
       DEF NextMerge, infoVars, commitVars, lockVars, Expects
  <1>37. CASE UNCHANGED vars
    BY <1>37 DEF vars, infoVars, commitVars, Expects
  <1> QED
    BY <1>1, <1>2, <1>3, <1>4, <1>5, <1>6, <1>7, <1>8, <1>9, <1>10, <1>11,
       <1>12, <1>13, <1>14, <1>15, <1>16, <1>17, <1>18, <1>19, <1>20, <1>21,
       <1>22, <1>23, <1>24, <1>25, <1>26, <1>27, <1>28, <1>29, <1>30, <1>31,
       <1>32, <1>33, <1>34, <1>35, <1>36, <1>37
      DEF Next, CallStep, MergeStep, Process

\* Nothing is to be there that was not committed, once a rollback has put the
\* segments back.
Restores(t) == Restored(t) => /\ expected = committed /\ buffered = 0
                              /\ writeThread = None

\* A step keeps it so.
LEMMA RestoresStep ==
    ASSUME IInv, Exclusive, NoneTaken, Paths, [Next]_vars, NEW t \in Thread,
           Restores(t), Restored(t)'
    PROVE  expected' = committed' /\ buffered' = 0 /\ writeThread' = None
  <1>1. CASE Revert(t)
    <2>1. writeThread = None
      BY <1>1 DEF Revert, Exclusive, Reverting
    <2> QED
      BY <1>1, <2>1 DEF Revert, commitVars, lockVars
  <1>2. CASE Restored(t)
    <2>1. /\ expected = committed /\ buffered = 0 /\ writeThread = None
          /\ Closer(t) /\ closing /\ ~IsOpen
      BY <1>2
         DEF Restores, Restored, Closer, Closing, Exclusive, IsOpen
    <2>2. writeThread' = None
      BY <2>1, NoneStarts
    <2>3. pauseThreads # 0
      <3>1. Owes(t)
        BY <1>2 DEF Restored, Owes, Closing
      <3> QED
        BY <3>1, OwesPauses DEF IInv
    <2>4. ASSUME NEW u \in Thread,
                 \/ AddDocument(u) \/ Flush(u) \/ Commit(u) \/ AddExternal(u)
                 \/ FinishMerges(u) \/ FinishMergesWait(u) \/ Revert(u)
          PROVE  expected' = committed' /\ buffered' = 0
      <3>1. writeThread # u /\ op[u] # "deleteAll"
        BY <2>1, MergesAssumption DEF None, IInv, Typed, NoneTaken
      <3>2. CASE AddDocument(u)
        BY <2>1, <2>3, <3>2 DEF AddDocument, commitVars
      <3>3. CASE Flush(u)
        BY <2>1, <3>3 DEF Flush, commitVars, infoVars
      <3>4. CASE Commit(u)
        BY <2>1, <3>4 DEF Commit, commitVars
      <3>5. CASE AddExternal(u)
        BY <2>1, <3>5 DEF AddExternal, commitVars, infoVars
      <3>6. CASE FinishMerges(u)
        BY <2>1, <3>1, <3>6
           DEF FinishMerges, MergesFinished, commitVars, infoVars
      <3>7. CASE FinishMergesWait(u)
        BY <2>1, <3>1, <3>7
           DEF FinishMergesWait, MergesFinished, commitVars, infoVars
      <3>8. CASE Revert(u)
        BY <3>8 DEF Revert, commitVars
      <3> QED
        BY <2>4, <3>2, <3>3, <3>4, <3>5, <3>6, <3>7, <3>8
    <2>5. expected' = committed' /\ buffered' = 0
      BY <2>1, <2>4, ExpectsStep DEF Expects
    <2> QED
      BY <2>2, <2>5
  <1> QED
    BY <1>1, <1>2, RestoredFrom

\* The commit of a rollback commits what was committed.
LEMMA RestoredCommits ==
    ASSUME IInv, Exclusive, NoneTaken, [Next]_vars, NEW t \in Thread,
           Restores(t), pc[t] = "commit", op[t] = "rollback"
    PROVE  committed' = committed
  <1>1. expected = committed
    BY DEF Restores, Restored
  <1>2. ASSUME NEW u \in Thread,
               \/ AddDocument(u) \/ Flush(u) \/ Commit(u) \/ AddExternal(u)
               \/ FinishMerges(u) \/ FinishMergesWait(u) \/ Revert(u)
        PROVE  committed' = committed
    BY <1>1, <1>2
       DEF AddDocument, Flush, Commit, AddExternal, FinishMerges,
           FinishMergesWait, Revert, commitVars
  <1> QED
    BY <1>2, ExpectsStep DEF Expects

\* rollback leaves the last commit as it was, whatever merges, indexing threads
\* and other calls did since it put the segments back: not so when deleteAll may
\* come between, or addIndexes(readers), whose transaction starts although the
\* writer closes.
THEOREM RollbackRestores ==
    ASSUME NoneTaken
    PROVE  Spec => RollbackReverts
  <1> DEFINE RInv == \A t \in Thread : Restores(t)
             Kept1 == \A t \in Thread :
                        pc[t] = "commit" /\ op[t] = "rollback"
                              /\ pc'[t] # "commit"
                          => committed' = committed
  <1>1. Init => RInv
    <2> SUFFICES ASSUME Init, NEW t \in Thread PROVE Restores(t)
      OBVIOUS
    <2>1. op[t] = "none"
      BY DEF Init
    <2> QED
      BY <2>1 DEF Restores, Restored
  <1>2. IInv /\ Exclusive /\ Paths /\ RInv /\ [Next]_vars => RInv'
    BY RestoresStep DEF Restores
  <1>3. IInv /\ Exclusive /\ RInv /\ [Next]_vars => Kept1
    BY RestoredCommits
  <1>4. [Kept1]_vars => [\A t \in Thread :
                        pc[t] = "commit" /\ op[t] = "rollback"
                              /\ pc'[t] # "commit"
                          => committed' = committed]_vars
    OBVIOUS
  <1>5. Spec => [](Exclusive /\ Paths)
    BY StoppedAlways, PTL
  <1> HIDE DEF RInv, Kept1
  <1> QED
    BY <1>1, <1>2, <1>3, <1>4, <1>5, Invariant, PTL DEF Spec, RollbackReverts

-----------------------------------------------------------------------------
(***************************************************************************)
(* ensureContiguousMerge.                                                  *)
(***************************************************************************)
\* Nothing, or nothing any more, keeps commitMerge from committing a merge.
Fits(m, infos) == \/ m.aborted \/ m.info \in Names(infos)
                  \/ Contiguous(m.segs, infos)

AllFit(r, infos) == \A id \in DOMAIN r.merges : Fits(r.merges[id], infos)

\* A run is contiguous.
LEMMA RunContiguous ==
    ASSUME NEW infos \in Seq(Info), NEW r \in Runs(infos)
    PROVE  Contiguous(r, infos)
  <1>1. PICK a, b \in 1..Len(infos) :
           /\ r \in Seq(Info) /\ a <= b /\ Len(r) = b - a + 1
           /\ \A i \in 1..Len(r) : r[i] = infos[a + i - 1]
    BY RunElim
  <1>2. a \in DOMAIN infos /\ a + Len(r) - 1 <= Len(infos)
    BY <1>1
  <1>3. \A i \in DOMAIN r : infos[a + i - 1].name = r[i].name
    BY <1>1
  <1> QED
    BY <1>2, <1>3 DEF Contiguous

\* Segments that are put behind the others part none.
LEMMA ContiguousStays ==
    ASSUME NEW infos \in Seq(Info), NEW new \in Seq(Info),
           NEW segs \in Seq(Info), Contiguous(segs, infos)
    PROVE  Contiguous(segs, infos \o new)
  <1> DEFINE n == Len(infos)
             k == Len(segs)
             all == infos \o new
  <1>1. /\ n \in Nat /\ k \in Nat /\ DOMAIN infos = 1..n /\ DOMAIN segs = 1..k
        /\ Len(all) \in Nat /\ n <= Len(all) /\ DOMAIN all = 1..Len(all)
        /\ \A i \in 1..n : all[i] = infos[i]
    OBVIOUS
  <1>2. PICK f \in 1..n : /\ f + k - 1 <= n
                          /\ \A i \in 1..k : infos[f + i - 1].name = segs[i].name
    BY <1>1 DEF Contiguous
  <1> HIDE DEF n, k, all
  <1>3. f \in 1..Len(all) /\ f + k - 1 <= Len(all)
    BY <1>1, <1>2
  <1>4. \A i \in 1..k : all[f + i - 1].name = segs[i].name
    <2> TAKE i \in 1..k
    <2>1. f + i - 1 \in 1..n
      BY <1>1, <1>2
    <2> QED
      BY <1>1, <1>2, <2>1
  <1>5. Contiguous(segs, all)
    BY <1>1, <1>3, <1>4 DEF Contiguous, k
  <1> QED
    BY <1>5 DEF all

\* A segment in the place of the k from f on
InPlace(infos, f, k, x) == (SubSeq(infos, 1, f - 1) \o <<x>>)
                              \o SubSeq(infos, f + k, Len(infos))

\* What that does to the places of the others
PutInPlace(new, infos, f, k, x) ==
    /\ new \in Seq(Info)
    /\ Len(new) = Len(infos) - k + 1
    /\ \A i \in 1..f - 1 : new[i] = infos[i]
    /\ new[f] = x
    /\ \A i \in f + k..Len(infos) : new[i - k + 1] = infos[i]

\* InPlace is a list with the segment in the place of the k from f on, and the
\* others before and behind it as they were.
LEMMA InPlaceOf ==
    ASSUME NEW infos \in Seq(Info), NEW f \in 1..Len(infos),
           NEW k \in Nat \ {0}, f + k - 1 <= Len(infos), NEW x \in Info
    PROVE  PutInPlace(InPlace(infos, f, k, x), infos, f, k, x)
  <1> DEFINE new == InPlace(infos, f, k, x)
             n == Len(infos)
             left == SubSeq(infos, 1, f - 1)
             right == SubSeq(infos, f + k, n)
             one == <<x>>
             most == left \o one
  <1>1. /\ n \in Nat /\ f \in Nat /\ f <= n /\ k \in Nat \ {0} /\ f + k - 1 <= n
        /\ 0 < f
    OBVIOUS
  <1>2. /\ left \in Seq(Info) /\ Len(left) = f - 1
        /\ \A i \in 1..f - 1 : left[i] = infos[i]
    BY <1>1
  <1>3. /\ right \in Seq(Info) /\ Len(right) = n - f - k + 1
        /\ \A i \in 1..n - f - k + 1 : right[i] = infos[f + k + i - 1]
    <2>1. f + k \in Nat \ {0} /\ f + k <= n + 1
      BY <1>1
    <2>2. CASE f + k = n + 1
      <3>1. right = <<>> /\ n - f - k + 1 = 0
        BY <1>1, <2>1, <2>2
      <3>2. <<>> \in Seq(Info) /\ Len(<<>>) = 0 /\ 1..0 = {}
        OBVIOUS
      <3> HIDE DEF right
      <3>3. \A i \in 1..n - f - k + 1 : FALSE
        BY <3>1, <3>2
      <3> QED
        BY <3>1, <3>2, <3>3
    <2>3. CASE f + k <= n
      <3> DEFINE b == f + k
      <3>1. b \in 1..n /\ n - f - k + 1 = n - b + 1 /\ right = SubSeq(infos, b, n)
        BY <1>1, <2>1, <2>3
      <3>2. \A i : f + k + i - 1 = b + i - 1
        OBVIOUS
      <3> HIDE DEF b, right
      <3>3. /\ right \in Seq(Info) /\ Len(right) = n - b + 1
            /\ \A i \in 1..n - b + 1 : right[i] = infos[b + i - 1]
        BY <1>1, <3>1
      <3> QED
        BY <3>1, <3>2, <3>3
    <2> QED
      BY <1>1, <2>1, <2>2, <2>3
  <1>4. new = most \o right
    BY DEF InPlace
  <1>5. one \in Seq(Info) /\ Len(one) = 1 /\ one[1] = x
    OBVIOUS
  <1> HIDE DEF left, right, one, n, new
  <1>6. /\ most \in Seq(Info) /\ Len(most) = f
        /\ \A i \in 1..f - 1 : most[i] = infos[i]
        /\ most[f] = x
    <2>1. /\ most \in Seq(Info) /\ Len(most) = Len(left) + Len(one)
          /\ \A i \in 1..Len(left) + Len(one) :
                most[i] = IF i <= Len(left) THEN left[i] ELSE one[i - Len(left)]
      BY <1>2, <1>5, ConcatProperties
    <2> HIDE DEF most
    <2>2. f - 1 + 1 = f /\ f - (f - 1) = 1 /\ ~(f <= f - 1) /\ f \in 1..f
          /\ 1..f - 1 \subseteq 1..f
      BY <1>1
    <2>3. most[f] = one[1]
      BY <1>2, <1>5, <2>1, <2>2
    <2>4. \A i \in 1..f - 1 : most[i] = infos[i]
      BY <1>1, <1>2, <1>5, <2>1, SMTT(30)
    <2> QED
      BY <1>2, <1>5, <2>1, <2>2, <2>3, <2>4
  <1> HIDE DEF most
  <1>7. /\ new \in Seq(Info) /\ Len(new) = n - k + 1
        /\ \A i \in 1..f : new[i] = most[i]
        /\ \A i \in 1..n - f - k + 1 : new[f + i] = right[i]
    <2> DEFINE all == most \o right
    <2>1. /\ all \in Seq(Info) /\ Len(all) = Len(most) + Len(right)
          /\ \A i \in 1..Len(most) + Len(right) :
                all[i] = IF i <= Len(most) THEN most[i] ELSE right[i - Len(most)]
      BY <1>3, <1>6, ConcatProperties
    <2>a. new = all
      BY <1>4
    <2> HIDE DEF all
    <2>2. Len(most) = f /\ Len(most) + Len(right) = n - k + 1
      BY <1>1, <1>3, <1>6
    <2>3. \A i \in 1..f : new[i] = most[i]
      <3> TAKE i \in 1..f
      <3>1. i \in 1..n - k + 1 /\ i <= f
        BY <1>1
      <3> QED
        BY <2>1, <2>2, <2>a, <3>1
    <2>4. \A i \in 1..n - f - k + 1 : new[f + i] = right[i]
      <3> TAKE i \in 1..n - f - k + 1
      <3>1. f + i \in 1..n - k + 1 /\ ~(f + i <= f) /\ f + i - f = i
        BY <1>1
      <3>2. all[f + i] = right[f + i - f]
        BY <2>1, <2>2, <3>1
      <3> QED
        BY <2>a, <3>1, <3>2
    <2>5. new \in Seq(Info) /\ Len(new) = n - k + 1
      BY <2>1, <2>2, <2>a
    <2> QED
      BY <2>3, <2>4, <2>5
  <1>8. \A i \in 1..f - 1 : new[i] = infos[i]
    <2> TAKE i \in 1..f - 1
    <2>1. i \in 1..f
      BY <1>1
    <2> QED
      BY <1>6, <1>7, <2>1
  <1>9. new[f] = x
    <2>1. f \in 1..f
      BY <1>1
    <2> QED
      BY <1>6, <1>7, <2>1
  <1>10. \A i \in f + k..n : new[i - k + 1] = infos[i]
    <2> TAKE i \in f + k..n
    <2> DEFINE j == i - f - k + 1
    <2>1. j \in 1..n - f - k + 1 /\ f + j = i - k + 1 /\ f + k + j - 1 = i
      BY <1>1
    <2> HIDE DEF j
    <2>2. new[f + j] = right[j] /\ right[j] = infos[f + k + j - 1]
      BY <1>3, <1>7, <2>1
    <2> QED
      BY <2>1, <2>2
  <1> QED
    BY <1>7, <1>8, <1>9, <1>10 DEF n, new, PutInPlace

\* Those who are not in the run stay where they are, one behind the other.
LEMMA ContiguousMerged ==
    ASSUME NEW infos \in Seq(Info), NEW f \in 1..Len(infos),
           NEW k \in Nat \ {0}, f + k - 1 <= Len(infos), NEW x \in Info,
           NEW segs \in Seq(Info) \ {<<>>}, Contiguous(segs, infos),
           \A i \in f..f + k - 1 : infos[i].name \notin Names(segs)
    PROVE  Contiguous(segs, InPlace(infos, f, k, x))
  <1> DEFINE new == InPlace(infos, f, k, x)
             n == Len(infos)
             c == Len(segs)
  <1>1. /\ n \in Nat /\ c \in Nat \ {0} /\ DOMAIN segs = 1..c
        /\ DOMAIN infos = 1..n
    OBVIOUS
  <1>2. PICK g \in 1..n : /\ g + c - 1 <= n
                          /\ \A i \in 1..c : infos[g + i - 1].name = segs[i].name
    BY <1>1 DEF Contiguous
  <1>3. /\ new \in Seq(Info) /\ Len(new) = n - k + 1
        /\ \A i \in 1..f - 1 : new[i] = infos[i]
        /\ \A i \in f + k..n : new[i - k + 1] = infos[i]
    <2>1. PutInPlace(new, infos, f, k, x)
      BY InPlaceOf, Zenon
    <2> HIDE DEF new
    <2> QED
      BY <2>1 DEF PutInPlace
  <1> HIDE DEF new
  <1>4. DOMAIN new = 1..n - k + 1
    BY <1>3
  <1>5. \A i \in f..f + k - 1, j \in 1..c : g + j - 1 # i
    <2> SUFFICES ASSUME NEW j \in 1..c, g + j - 1 \in f..f + k - 1 PROVE FALSE
      OBVIOUS
    <2>1. segs[j].name \in Names(segs)
      BY <1>1 DEF Names
    <2> QED
      BY <1>2, <2>1
  <1> HIDE DEF n, c
  <1>6. g + c - 1 < f \/ f + k - 1 < g
    <2> SUFFICES ASSUME g + c - 1 >= f, f + k - 1 >= g PROVE FALSE
      BY <1>1, <1>2
    <2>1. CASE g >= f
      <3>1. g \in f..f + k - 1 /\ 1 \in 1..c /\ g + 1 - 1 = g
        BY <1>1, <1>2, <2>1
      <3> QED
        BY <1>5, <3>1
    <2>2. CASE g < f
      <3>1. f \in f..f + k - 1 /\ f - g + 1 \in 1..c /\ g + (f - g + 1) - 1 = f
        BY <1>1, <1>2, <2>2
      <3> QED
        BY <1>5, <3>1
    <2> QED
      BY <1>1, <1>2, <2>1, <2>2
  <1>7. CASE g + c - 1 < f
    <2>1. g \in 1..n - k + 1 /\ g + c - 1 <= n - k + 1
      BY <1>1, <1>2, <1>7 DEF n
    <2>2. \A i \in 1..c : new[g + i - 1].name = segs[i].name
      <3> TAKE i \in 1..c
      <3>1. g + i - 1 \in 1..f - 1
        BY <1>1, <1>2, <1>7
      <3> QED
        BY <1>2, <1>3, <3>1
    <2> QED
      BY <1>1, <1>3, <1>4, <2>1, <2>2 DEF Contiguous, c, new
  <1>8. CASE f + k - 1 < g
    <2> DEFINE h == g - k + 1
    <2>1. h \in 1..n - k + 1 /\ h + c - 1 <= n - k + 1
      BY <1>1, <1>2, <1>8 DEF n
    <2>2. \A i \in 1..c : new[h + i - 1].name = segs[i].name
      <3> TAKE i \in 1..c
      <3>1. g + i - 1 \in f + k..n /\ (g + i - 1) - k + 1 = h + i - 1
        BY <1>1, <1>2, <1>8
      <3>2. new[(g + i - 1) - k + 1] = infos[g + i - 1]
        BY <1>3, <3>1
      <3> QED
        BY <1>2, <3>1, <3>2
    <2> HIDE DEF h
    <2> QED
      BY <1>1, <1>3, <1>4, <2>1, <2>2 DEF Contiguous, c, new
  <1> QED
    BY <1>6, <1>7, <1>8 DEF new

\* A name that is not in the run stays, and the new one comes.
LEMMA NamesMerged ==
    ASSUME NEW infos \in Seq(Info), NEW f \in 1..Len(infos),
           NEW k \in Nat \ {0}, f + k - 1 <= Len(infos), NEW x \in Info,
           NEW y \in Names(infos),
           \A i \in f..f + k - 1 : infos[i].name # y
    PROVE  y \in Names(InPlace(infos, f, k, x))
  <1> DEFINE new == InPlace(infos, f, k, x)
             n == Len(infos)
  <1>1. /\ new \in Seq(Info) /\ Len(new) = n - k + 1
        /\ \A i \in 1..f - 1 : new[i] = infos[i]
        /\ \A i \in f + k..n : new[i - k + 1] = infos[i]
    <2>1. PutInPlace(new, infos, f, k, x)
      BY InPlaceOf, Zenon
    <2> HIDE DEF new
    <2> QED
      BY <2>1 DEF PutInPlace
  <1> HIDE DEF new
  <1>2. n \in Nat /\ DOMAIN infos = 1..n /\ DOMAIN new = 1..n - k + 1
    BY <1>1
  <1>3. PICK j \in 1..n : infos[j].name = y
    BY <1>2 DEF Names
  <1> HIDE DEF n
  <1>4. j \in 1..f - 1 \/ j \in f + k..n
    BY <1>2, <1>3
  <1>5. CASE j \in 1..f - 1
    <2>1. j \in 1..n - k + 1
      BY <1>2, <1>5 DEF n
    <2> QED
      BY <1>1, <1>2, <1>3, <1>5, <2>1 DEF Names, new
  <1>6. CASE j \in f + k..n
    <2>1. j - k + 1 \in 1..n - k + 1
      BY <1>2, <1>6
    <2> QED
      BY <1>1, <1>2, <1>3, <1>6, <2>1 DEF Names, new
  <1> QED
    BY <1>4, <1>5, <1>6 DEF new

\* The name of the merge comes.
LEMMA NameMerged ==
    ASSUME NEW infos \in Seq(Info), NEW f \in 1..Len(infos),
           NEW k \in Nat \ {0}, f + k - 1 <= Len(infos), NEW x \in Info
    PROVE  x.name \in Names(InPlace(infos, f, k, x))
  <1> DEFINE new == InPlace(infos, f, k, x)
  <1>1. /\ new \in Seq(Info) /\ Len(new) = Len(infos) - k + 1 /\ new[f] = x
    <2>1. PutInPlace(new, infos, f, k, x)
      BY InPlaceOf, Zenon
    <2> HIDE DEF new
    <2> QED
      BY <2>1 DEF PutInPlace
  <1> HIDE DEF new
  <1>2. f \in DOMAIN new
    BY <1>1
  <1> QED
    BY <1>1, <1>2 DEF Names, new

\* A step that puts segments behind the others, or none, keeps what a merge
\* needs, and a new merge has it.
LEMMA FitsStays ==
    ASSUME NEW r, NEW q, NEW n \in Nat, RegInv(q, n),
           NEW infos \in Seq(Info), NEW new \in Seq(Info),
           None \notin Names(infos), Stems(r, q, infos), AllFit(r, infos)
    PROVE  AllFit(q, infos \o new)
  <1> DEFINE all == infos \o new
  <1>1. Names(infos) \subseteq Names(all)
    <2>1. /\ DOMAIN infos \subseteq DOMAIN all
          /\ \A i \in DOMAIN infos : all[i] = infos[i]
      OBVIOUS
    <2> HIDE DEF all
    <2> QED
      BY <2>1 DEF Names
  <1>2. \A segs \in Seq(Info) :
           Contiguous(segs, infos) => Contiguous(segs, all)
    BY ContiguousStays
  <1> HIDE DEF all
  <1>3. ASSUME NEW id \in DOMAIN q.merges
        PROVE  Fits(q.merges[id], all)
    <2> DEFINE m == q.merges[id]
    <2>1. m.segs \in Seq(Info)
      BY RegIds
    <2>2. CASE m.segs \in Runs(infos)
      <3>1. Contiguous(m.segs, all)
        BY <1>2, <2>1, <2>2, RunContiguous
      <3> QED
        BY <3>1 DEF Fits
    <2>3. CASE /\ id \in DOMAIN r.merges
               /\ m.segs = r.merges[id].segs
               /\ r.merges[id].info \in {m.info, None}
               /\ r.merges[id].aborted => m.aborted
      <3>1. Fits(r.merges[id], infos)
        BY <2>3 DEF AllFit
      <3>2. \/ m.aborted \/ m.info \in Names(infos)
            \/ Contiguous(m.segs, infos)
        BY <2>3, <3>1 DEF Fits
      <3> QED
        BY <1>1, <1>2, <2>1, <3>2 DEF Fits
    <2> QED
      BY <2>2, <2>3 DEF Stems
  <1>4. AllFit(q, all)
    BY <1>3 DEF AllFit
  <1> QED
    BY <1>4 DEF all

\* What is known of the segments and the registry
LEMMA FittingTypes ==
    ASSUME IInv
    PROVE  /\ segmentInfos \in Seq(Info)
           /\ Names(segmentInfos) \subseteq 1..counter
           /\ None \notin Names(segmentInfos) /\ counter \in Nat
           /\ RegInv(reg, counter)
  BY DEF IInv, Typed, AllNamed, Named, None

\* A step that puts segments behind the others
LEMMA PutsFit ==
    ASSUME IInv, IInv', Comes, AllFit(reg, segmentInfos), NEW new, Puts(new)
    PROVE  AllFit(reg', segmentInfos')
  <1>1. new \in Seq(Info) /\ segmentInfos' = segmentInfos \o new
    BY DEF Puts
  <1>2. counter' \in Nat /\ RegInv(reg', counter')
    BY DEF IInv, Typed
  <1>3. AllFit(reg', segmentInfos \o new)
    BY <1>1, <1>2, FittingTypes, FitsStays DEF Comes
  <1> QED
    BY <1>1, <1>3

\* A step that leaves the segments alone
LEMMA SameFit ==
    ASSUME IInv, IInv', Comes, AllFit(reg, segmentInfos), UNCHANGED segmentInfos
    PROVE  AllFit(reg', segmentInfos')
  <1>1. <<>> \in Seq(Info)
    OBVIOUS
  <1>2. segmentInfos \o <<>> = segmentInfos
    BY FittingTypes
  <1>3. counter' \in Nat /\ RegInv(reg', counter')
    BY DEF IInv, Typed
  <1>4. AllFit(reg', segmentInfos \o <<>>)
    BY <1>1, <1>3, FittingTypes, FitsStays DEF Comes
  <1> QED
    BY <1>2, <1>4

\* commitMerge parts the segments of no other merge.
LEMMA CommitFits ==
    ASSUME IInv, IInv', Identified, Comes, AllFit(reg, segmentInfos),
           NEW p \in Process, CommitMerge(p)
    PROVE  AllFit(reg', segmentInfos')
  <1>1. CASE UNCHANGED segmentInfos
    BY <1>1, SameFit
  <1>2. CASE ~UNCHANGED segmentInfos
    <2> DEFINE m == MergeOf(p)
               k == Len(m.segs)
               infos == segmentInfos
    <2>1. /\ pc[p] = "commitMerge" /\ ~m.aborted
          /\ Contiguous(m.segs, infos)
          /\ segmentInfos' = WithMerged(infos, m) /\ UNCHANGED reg
      BY <1>2 DEF CommitMerge
    <2>2. /\ m \in Merge /\ m.info \in 1..counter /\ m.segs \in Seq(Info) \ {<<>>}
      BY <2>1, MergeIsNamed
    <2>3. /\ merge[p] \in DOMAIN reg.merges /\ m = reg.merges[merge[p]]
          /\ counter \in Nat /\ RegInv(reg, counter)
      <3>1. merge[p] \in reg.running /\ merge[p] # None
            /\ RegInv(reg, counter) /\ counter \in Nat
        BY <2>1 DEF IInv, Typed, ProcInv, Merging, None
      <3> QED
        BY <3>1, RegIds DEF MergeOf
    <2>4. infos \in Seq(Info) /\ Distinct(infos)
      BY RecordsNamed DEF Lists, Identified
    <2>5. \A a \in ToSet(m.segs), b \in ToSet(infos) :
             a.name = b.name => a = b
      BY <2>3 DEF Identified, Records, Lists
    <2>6. m.info \in Nat /\ Docs(m.segs) \in Seq(Nat)
      BY <2>2, <2>3, DocsType
    <2> HIDE DEF m
    <2>7. Merged(m) \in Info /\ Merged(m).name = m.info
      BY <2>6 DEF Merged, Info
    <2>8. PICK f \in 1..Len(infos) :
              /\ f + k - 1 <= Len(infos)
              /\ \A i \in 1..k : infos[f + i - 1] = m.segs[i]
              /\ WithMerged(infos, m) = InPlace(infos, f, k, Merged(m))
      BY <2>1, <2>2, <2>4, <2>5, MergedAt DEF InPlace
    <2>9. k \in Nat \ {0} /\ DOMAIN m.segs = 1..k
      BY <2>2
    <2>10. \A i \in f..f + k - 1 : infos[i].name \in Names(m.segs)
      <3> TAKE i \in f..f + k - 1
      <3> DEFINE j == i - f + 1
      <3>1. j \in 1..k /\ f + j - 1 = i
        BY <2>4, <2>8, <2>9
      <3> HIDE DEF j
      <3>2. infos[i] = m.segs[j]
        BY <2>8, <3>1
      <3> QED
        BY <2>9, <3>1, <3>2 DEF Names
    <2> HIDE DEF k, infos
    <2> DEFINE most == InPlace(infos, f, k, Merged(m))
    <2>11. m.info \in Names(most)
      BY <2>4, <2>7, <2>8, <2>9, NameMerged
    <2>12. \A y \in Names(infos) : y \notin Names(m.segs) => y \in Names(most)
      BY <2>4, <2>7, <2>8, <2>9, <2>10, NamesMerged
    <2>13. \A segs \in Seq(Info) \ {<<>>} :
             Contiguous(segs, infos) /\ Names(segs) \cap Names(m.segs) = {}
               => Contiguous(segs, most)
      BY <2>4, <2>7, <2>8, <2>9, <2>10, ContiguousMerged
    <2> HIDE DEF most
    <2>14. ASSUME NEW id \in DOMAIN reg.merges
           PROVE  Fits(reg.merges[id], most)
      <3> DEFINE o == reg.merges[id]
      <3>1. CASE id = merge[p]
        BY <2>3, <2>11, <3>1 DEF Fits
      <3>2. CASE id # merge[p]
        <4>1. /\ o.info \notin Names(m.segs)
              /\ Names(o.segs) \cap Names(m.segs) = {}
          BY <2>3, <3>2 DEF RegInv, RegDisjoint
        <4>2. o.segs \in Seq(Info) \ {<<>>}
          BY <2>3, RegIds
        <4>3. \/ o.aborted \/ o.info \in Names(infos)
              \/ Contiguous(o.segs, infos)
          BY DEF AllFit, Fits, infos
        <4> QED
          BY <2>12, <2>13, <4>1, <4>2, <4>3 DEF Fits
      <3> QED
        BY <3>1, <3>2
    <2>15. reg' = reg /\ segmentInfos' = most
      BY <2>1, <2>8 DEF most, infos
    <2> QED
      BY <2>14, <2>15 DEF AllFit
  <1> QED
    BY <1>1, <1>2

\* Nothing fits but what was aborted.
LEMMA NoneLeftFits ==
    ASSUME NEW r, NEW infos, NoneLeft(r)
    PROVE  AllFit(r, infos)
  BY DEF NoneLeft, AllFit, Fits

\* The merges can be committed, unless a rollback is on its way to finishMerges.
Fitting == (\E t \in Thread : Reverted(t)) \/ AllFit(reg, segmentInfos)

\* A step keeps it so.
LEMMA FittingStep ==
    ASSUME IInv, IInv', Exclusive, Identified, NoneTaken, Paths, Stopped,
           Fitting, [Next]_vars
    PROVE  Fitting'
  <1> SUFFICES ASSUME \A t \in Thread : ~Reverted(t)'
               PROVE  AllFit(reg', segmentInfos')
    BY DEF Fitting
  <1>1. Comes
    BY RegStep
  <1>2. ASSUME NEW t \in Thread, FinishMerges(t)
        PROVE  AllFit(reg', segmentInfos')
    BY <1>2, FinishMergesIs, NoneLeftFits
  <1>3. ASSUME NEW t \in Thread, FinishMergesWait(t), stopMerges
        PROVE  AllFit(reg', segmentInfos')
    <2>1. reg' = reg /\ pc[t] \in Finishing
      BY <1>3, FinishMergesWaitIs DEF Finishing
    <2>2. NoneLeft(reg)
      BY <1>3, <2>1 DEF Stopped
    <2> QED
      BY <2>1, <2>2, NoneLeftFits
  <1>4. CASE \E t \in Thread : Reverted(t)
    <2>1. PICK t \in Thread : Reverted(t)
      BY <1>4
    <2>2. FinishMerges(t) \/ FinishMergesWait(t)
      BY <2>1, RevertedTo
    <2>3. CASE FinishMerges(t)
      BY <1>2, <2>3
    <2>4. CASE FinishMergesWait(t)
      <3>1. pc[t] \in Finishing
        BY <2>4, FinishMergesWaitIs DEF Finishing
      <3>2. stopMerges
        BY <2>1, <3>1 DEF Stopped
      <3> QED
        BY <1>3, <2>4, <3>2
    <2> QED
      BY <2>2, <2>3, <2>4
  <1>5. CASE AllFit(reg, segmentInfos)
    <2>1. CASE UNCHANGED segmentInfos
      BY <1>1, <1>5, <2>1, SameFit
    <2>2. ASSUME NEW t \in Thread, Flush(t) \/ AddExternal(t)
          PROVE  AllFit(reg', segmentInfos')
      <3>1. UNCHANGED segmentInfos \/ \E new : Puts(new)
        BY <2>2, FlushPuts, AddExternalPuts DEF infoVars
      <3> QED
        BY <1>1, <1>5, <2>1, <3>1, PutsFit
    <2>3. ASSUME NEW t \in Thread, FinishMergesWait(t)
          PROVE  AllFit(reg', segmentInfos')
      <3>1. CASE writeThread = t
        <4>1. pc[t] \in Finishing
          BY <2>3, FinishMergesWaitIs DEF Finishing
        <4>2. stopMerges
          BY <3>1, <4>1 DEF Stopped
        <4> QED
          BY <1>3, <2>3, <4>2
      <3>2. CASE writeThread # t
        <4>1. op[t] # "deleteAll"
          BY DEF NoneTaken, IInv, Typed
        <4>2. UNCHANGED infoVars
          BY <2>3, <3>2, <4>1 DEF FinishMergesWait, MergesFinished
        <4> QED
          BY <2>1, <4>2 DEF infoVars
      <3> QED
        BY <3>1, <3>2
    <2>4. ASSUME NEW t \in Thread, Revert(t) PROVE FALSE
      <3>1. Reverted(t)'
        BY <2>4
           DEF Revert, Reverted, Exclusive, Kind, GoTo, Stays, IInv, Typed,
                    Process
      <3> QED
        BY <3>1
    <2>5. ASSUME NEW p \in Process, CommitMerge(p)
          PROVE  AllFit(reg', segmentInfos')
      BY <1>1, <1>5, <2>5, CommitFits
    <2>6. ASSUME NEW t \in Thread,
                 Commit(t) \/ StartTransaction(t) \/ CommitTransaction(t)
          PROVE  UNCHANGED segmentInfos
      BY <2>6 DEF Commit, StartTransaction, CommitTransaction, infoVars
    <2> QED
      BY <1>2, <2>1, <2>2, <2>3, <2>4, <2>5, <2>6, NoneTakenReplaces, DocsStep
         DEF DocsMove, Quiet
  <1> QED
    BY <1>4, <1>5 DEF Fitting

\* While the writer is open, the segments of a merge that runs or waits are next
\* to each other until commitMerge has replaced them, whatever was flushed,
\* merged, added or rolled back since: not so when deleteAll, or
\* addIndexes(readers), takes the segments away.
THEOREM MergesCommit ==
    ASSUME NoneTaken
    PROVE  Spec => []MergesCanCommit
  <1> DEFINE FInv == Fitting
             KInv == Exclusive /\ Identified
             SInv == Exclusive /\ Paths /\ Stopped
  <1>1. Init => KInv /\ FInv
    <2> SUFFICES ASSUME Init PROVE KInv /\ FInv
      OBVIOUS
    <2>1. reg.merges = <<>>
      BY DEF Init, NoMerges
    <2>2. DOMAIN reg.merges = {}
      BY <2>1
    <2>3. AllFit(reg, segmentInfos)
      BY <2>2 DEF AllFit
    <2> QED
      BY <2>3, KeptInit DEF Fitting
  <1>2. IInv /\ KInv /\ [Next]_vars => KInv'
    BY NoneTakenReplaces, ExclusiveStep, IdentifiedStep
  <1>3. IInv /\ IInv' /\ KInv /\ SInv /\ FInv /\ [Next]_vars => FInv'
    BY FittingStep
  <1>4. KInv /\ FInv => MergesCanCommit
    <2> SUFFICES ASSUME Exclusive, Fitting PROVE MergesCanCommit
      OBVIOUS
    <2>1. ASSUME NEW t \in Thread, Reverted(t) PROVE closing
      <3>1. Closer(t)
        BY <2>1 DEF Reverted, Closer, Closing
      <3> QED
        BY <3>1 DEF Exclusive
    <2>2. closing \/ AllFit(reg, segmentInfos)
      BY <2>1 DEF Fitting
    <2> QED
      BY <2>2 DEF AllFit, Fits, MergesCanCommit
  <1>5. Spec => []SInv
    BY StoppedAlways
  <1> HIDE DEF FInv, KInv, SInv
  <1> QED
    BY <1>1, <1>2, <1>3, <1>4, <1>5, Invariant, PTL DEF Spec
===============================================================================
