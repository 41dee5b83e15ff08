---------------------------- MODULE LogMergePolicy ----------------------------
(***************************************************************************)
(* LogDocMergePolicy, which picks merges of neighbouring segments by their *)
(* numbers of documents.  A segment is a record with its documents "docs"  *)
(* and whether it is in another directory, "ext"; it has no deletions, and *)
(* is in the file format that the writer uses.  A merge is the sequence of *)
(* its segments.                                                           *)
(*                                                                         *)
(* The code compares logarithms to the base mergeFactor, in floating       *)
(* point; here the sizes themselves are compared:                          *)
(*     log s >= log m - 0.75   iff   s^4 * mergeFactor^3 >= m^4.           *)
(***************************************************************************)
EXTENDS Integers, FiniteSets, Sequences, SequencesExt

CONSTANTS MergeFactor, MinMergeDocs, MaxMergeDocs

ASSUME PolicyAssumption ==
    /\ MergeFactor \in Nat \ {0, 1}
    /\ MinMergeDocs \in Nat \ {0} /\ MaxMergeDocs \in Nat

SizeDocs(info) == Len(info.docs)

AtLeastOne(n) == IF n = 0 THEN 1 ELSE n

\* The largest size of the segments from start on
MaxSize(infos, start) ==
    LET size(i) == AtLeastOne(SizeDocs(infos[i]))
    IN  CHOOSE m \in {size(i) : i \in start..Len(infos)} :
            \A i \in start..Len(infos) : size(i) <= m

Fourth(n) == n * n * n * n

\* Whether a segment is in the level of the largest size m
InLevel(info, m) ==
    LET s == AtLeastOne(SizeDocs(info))
    IN  \/ m < MinMergeDocs
        \/ /\ s >= MinMergeDocs
           /\ Fourth(s) * MergeFactor * MergeFactor * MergeFactor >= Fourth(m)

\* The last segment, from start on, that is in the level
Upto(infos, start) ==
    LET in(i) == InLevel(infos[i], MaxSize(infos, start))
    IN  CHOOSE u \in start..Len(infos) :
            in(u) /\ \A i \in u + 1..Len(infos) : ~in(i)

SmallEnough(merge) ==
    \A i \in DOMAIN merge : SizeDocs(merge[i]) < MaxMergeDocs

\* The merges of mergeFactor segments each between two segments
FullMerges(infos, start, upto) ==
    LET n == (upto - start + 1) \div MergeFactor
        run(k) == SubSeq(infos, start + (k - 1) * MergeFactor,
                                start + k * MergeFactor - 1)
        upTo[k \in 0..n] ==
            IF k = 0 THEN <<>>
            ELSE IF SmallEnough(run(k)) THEN Append(upTo[k - 1], run(k))
            ELSE upTo[k - 1]
    IN  upTo[n]

FindMerges(infos) ==
    LET from[start \in 1..Len(infos) + 1] ==
            IF start > Len(infos) THEN <<>>
            ELSE FullMerges(infos, start, Upto(infos, start))
                    \o from[Upto(infos, start) + 1]
    IN  from[1]

-----------------------------------------------------------------------------
InfoOptimized(info) == ~info.ext

\* isOptimized: few enough are left of the segments that were there when
\* optimize began and of those they were merged to
IsOptimized(infos, maxSegments, toOptimize) ==
    LET these == {i \in DOMAIN infos : infos[i].name \in toOptimize}
    IN  /\ Cardinality(these) <= maxSegments
        /\ Cardinality(these) = 1 => \A i \in these : InfoOptimized(infos[i])

\* The newest segment that needs to be optimized, or 0
LastToOptimize(infos, toOptimize) ==
    CHOOSE i \in 0..Len(infos) :
        /\ i # 0 => infos[i].name \in toOptimize
        /\ \A j \in i + 1..Len(infos) : infos[j].name \notin toOptimize

SumSize(infos, first, last) ==
    SizeDocs([docs |-> FlattenSeq([i \in 1..last - first + 1 |->
                                     infos[first + i - 1].docs])])

\* Where a partial merge of n segments is best begun
BestStart(infos, n, last) ==
    LET sum(i) == SumSize(infos, i, i + n - 1)
        best[i \in 1..last - n + 1] ==
            IF i = 1 THEN 1
            ELSE IF /\ sum(i) < 2 * SizeDocs(infos[i - 1])
                    /\ sum(i) < sum(best[i - 1])
                 THEN i ELSE best[i - 1]
    IN  best[last - n + 1]

\* The merge when no full one is left to do
PartialMerge(infos, maxSegments, last) ==
    IF maxSegments = 1
    THEN IF last > 1 \/ ~InfoOptimized(infos[1])
         THEN <<SubSeq(infos, 1, last)>> ELSE <<>>
    ELSE IF last > maxSegments
    THEN LET n == last - maxSegments + 1
             start == BestStart(infos, n, last)
         IN  <<SubSeq(infos, start, start + n - 1)>>
    ELSE <<>>

\* From the right, full merges as long as they leave maxSegments, else the
\* partial one
FindMergesForOptimize(infos, maxSegments, toOptimize) ==
    LET last == LastToOptimize(infos, toOptimize)
        spare == last - maxSegments + 1
        full == IF spare < MergeFactor THEN 0 ELSE spare \div MergeFactor
    IN  IF IsOptimized(infos, maxSegments, toOptimize) \/ last = 0 THEN <<>>
        ELSE IF full = 0 THEN PartialMerge(infos, maxSegments, last)
        ELSE [k \in 1..full |-> SubSeq(infos, last - k * MergeFactor + 1,
                                       last - (k - 1) * MergeFactor)]
=============================================================================
