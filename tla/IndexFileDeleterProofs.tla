----------------------- MODULE IndexFileDeleterProofs -----------------------
(***************************************************************************)
(* What the operations of IndexFileDeleter do to the reference counts, for *)
(* every deleter and every set of files.                                   *)
(***************************************************************************)
EXTENDS IndexFileDeleter, FiniteSetTheorems, TLAPS

\* One reference, or none
Ref(f, F) == IF f \in F THEN 1 ELSE 0

IsRecord(d) == DOMAIN d = {"refCounts", "lastFiles", "commits", "deletable",
                           "doomed", "synced"}

(***************************************************************************)
(* Every file is counted exactly as often as the last checkpoint, the      *)
(* commit points and the set T, that of a commit under way, hold it.       *)
(***************************************************************************)
Exact(d, T) ==
    /\ IsRecord(d)
    /\ IsFiniteSet(d.commits)
    /\ \A f : Count(d.refCounts, f) =
                  Ref(f, d.lastFiles[1]) + Ref(f, d.lastFiles[2])
                    + Holders(d.commits, f) + Ref(f, T)

\* The number of holders among finitely many commit points is a natural.
LEMMA HoldersType ==
    ASSUME NEW C, IsFiniteSet(C), NEW f
    PROVE  Holders(C, f) \in Nat
  <1>1. {c \in C : f \in c.files} \in SUBSET C
    OBVIOUS
  <1> QED
    BY <1>1, FS_Subset, FS_CardinalityType DEF Holders

\* A new commit point adds one holder to each of its files.
LEMMA HoldersAdd ==
    ASSUME NEW C, IsFiniteSet(C), NEW p, p \notin C, NEW f
    PROVE  Holders(C \cup {p}, f) = Holders(C, f) + Ref(f, p.files)
  <1> DEFINE H == {c \in C : f \in c.files}
  <1>1. IsFiniteSet(H) /\ Cardinality(H) \in Nat
    BY FS_Subset, FS_CardinalityType
  <1>2. CASE f \in p.files
    <2>1. {c \in C \cup {p} : f \in c.files} = H \cup {p}
      BY <1>2
    <2>2. p \notin H
      OBVIOUS
    <2> QED
      BY <1>1, <1>2, <2>1, <2>2, FS_AddElement DEF Holders, Ref
  <1>3. CASE f \notin p.files
    <2>1. {c \in C \cup {p} : f \in c.files} = H
      BY <1>3
    <2>2. Holders(C \cup {p}, f) = Cardinality(H) /\ Holders(C, f) = Cardinality(H)
      BY <2>1 DEF Holders
    <2>3. Ref(f, p.files) = 0
      BY <1>3 DEF Ref
    <2> HIDE DEF H
    <2> QED
      BY <1>1, <2>2, <2>3
  <1> QED
    BY <1>2, <1>3

\* Removing commit points takes away exactly the holders among them.
LEMMA HoldersRemove ==
    ASSUME NEW C, IsFiniteSet(C), NEW V \in SUBSET C, NEW f
    PROVE  Holders(C \ V, f) = Holders(C, f) - Holders(V, f)
  <1> DEFINE H == {c \in C : f \in c.files}
             A == {c \in C \ V : f \in c.files}
             B == {c \in V : f \in c.files}
  <1>1. IsFiniteSet(A) /\ IsFiniteSet(B)
    BY FS_Subset
  <1>2. A \cup B = H /\ A \cap B = {}
    OBVIOUS
  <1>3. Cardinality(A) \in Nat /\ Cardinality(B) \in Nat
    BY <1>1, FS_CardinalityType
  <1>4. Cardinality(A \cap B) = 0
    BY <1>2, FS_EmptySet
  <1>5. /\ Holders(C, f) = Cardinality(A \cup B)
        /\ Holders(C \ V, f) = Cardinality(A)
        /\ Holders(V, f) = Cardinality(B)
    BY <1>2 DEF Holders
  <1> HIDE DEF A, B, H
  <1>6. Cardinality(A \cup B) =
            Cardinality(A) + Cardinality(B) - Cardinality(A \cap B)
    BY <1>1, FS_Union
  <1> QED
    BY <1>3, <1>4, <1>5, <1>6

-----------------------------------------------------------------------------
\* incRef adds one to the count of each of its files and changes no more.
LEMMA IncRefCounts ==
    ASSUME NEW d, IsRecord(d), NEW F,
           \A f : Count(d.refCounts, f) \in Int
    PROVE  /\ IsRecord(IncRef(d, F))
           /\ IncRef(d, F).commits = d.commits
           /\ IncRef(d, F).lastFiles = d.lastFiles
           /\ \A f : Count(IncRef(d, F).refCounts, f) =
                         Count(d.refCounts, f) + Ref(f, F)
  <1>1. /\ IsRecord(IncRef(d, F))
        /\ IncRef(d, F).commits = d.commits
        /\ IncRef(d, F).lastFiles = d.lastFiles
        /\ IncRef(d, F).refCounts =
              [f \in DOMAIN d.refCounts \cup F |->
                  Count(d.refCounts, f) + (IF f \in F THEN 1 ELSE 0)]
    BY DEF IncRef, IsRecord
  <1>2. ASSUME NEW f
        PROVE  Count(IncRef(d, F).refCounts, f) =
                   Count(d.refCounts, f) + Ref(f, F)
    BY <1>1 DEF Count, Ref
  <1> QED
    BY <1>1, <1>2

\* decRef takes one from the count of each of its files: the entry of a file
\* that had one reference goes, which counts as none.
LEMMA DecRefCounts ==
    ASSUME NEW d, IsRecord(d), NEW F,
           \A f : Count(d.refCounts, f) \in Int
    PROVE  /\ IsRecord(DecRef(d, F))
           /\ DecRef(d, F).commits = d.commits
           /\ DecRef(d, F).lastFiles = d.lastFiles
           /\ \A f : Count(DecRef(d, F).refCounts, f) =
                         Count(d.refCounts, f) - Ref(f, F)
  <1> DEFINE zero == {f \in F : Count(d.refCounts, f) = 1}
  <1>1. /\ IsRecord(DecRef(d, F))
        /\ DecRef(d, F).commits = d.commits
        /\ DecRef(d, F).lastFiles = d.lastFiles
        /\ DecRef(d, F).refCounts =
              [f \in (DOMAIN d.refCounts \cup F) \ zero |->
                  Count(d.refCounts, f) - (IF f \in F THEN 1 ELSE 0)]
    BY DEF DecRef, DecRefBy, IsRecord
  <1>2. ASSUME NEW f
        PROVE  Count(DecRef(d, F).refCounts, f) =
                   Count(d.refCounts, f) - Ref(f, F)
    BY <1>1 DEF Count, Ref
  <1> QED
    BY <1>1, <1>2

\* The counts of a deleter that is exact are integers.
LEMMA ExactCounts ==
    ASSUME NEW d, NEW T, Exact(d, T)
    PROVE  \A f : Count(d.refCounts, f) \in Nat /\ Holders(d.commits, f) \in Nat
  BY HoldersType DEF Exact, Ref

\* Referencing a commit under way keeps the counts exact.
LEMMA ExactIncRef ==
    ASSUME NEW d, NEW T, Exact(d, {})
    PROVE  Exact(IncRef(d, T), T)
  <1>1. \A f : Count(d.refCounts, f) \in Int /\ Holders(d.commits, f) \in Nat
    BY ExactCounts
  <1>2. IsRecord(d)
    BY DEF Exact
  <1>3. \A f : Count(IncRef(d, T).refCounts, f) =
                   Count(d.refCounts, f) + Ref(f, T)
    BY <1>1, <1>2, IncRefCounts
  <1> QED
    BY <1>1, <1>2, <1>3, IncRefCounts DEF Exact, Ref

\* Releasing the commit under way keeps the counts exact.
LEMMA ExactDecRef ==
    ASSUME NEW d, NEW T, Exact(d, T)
    PROVE  Exact(DecRef(d, T), {})
  <1>1. \A f : Count(d.refCounts, f) \in Int /\ Holders(d.commits, f) \in Nat
    BY ExactCounts
  <1>2. IsRecord(d)
    BY DEF Exact
  <1>3. \A f : Count(DecRef(d, T).refCounts, f) =
                   Count(d.refCounts, f) - Ref(f, T)
    BY <1>1, <1>2, DecRefCounts
  <1> QED
    BY <1>1, <1>2, <1>3, DecRefCounts DEF Exact, Ref

\* Retrying the deletions that failed touches no count.
LEMMA ExactPending ==
    ASSUME NEW d, NEW T, Exact(d, T)
    PROVE  /\ Exact(DeletePendingFiles(d), T)
           /\ DeletePendingFiles(d).lastFiles = d.lastFiles
           /\ DeletePendingFiles(d).commits = d.commits
  <1>1. /\ IsRecord(DeletePendingFiles(d))
        /\ DeletePendingFiles(d).lastFiles = d.lastFiles
        /\ DeletePendingFiles(d).commits = d.commits
        /\ DeletePendingFiles(d).refCounts = d.refCounts
    BY DEF DeletePendingFiles, Exact, IsRecord
  <1> QED
    BY <1>1 DEF Exact

\* Removing unreferenced files touches no count.
LEMMA ExactRefresh ==
    ASSUME NEW d, NEW T, NEW S, Exact(d, T)
    PROVE  Exact(Refresh(d, S), T) /\ Refresh(d, S).commits = d.commits
  <1>1. /\ IsRecord(Refresh(d, S))
        /\ Refresh(d, S).lastFiles = d.lastFiles
        /\ Refresh(d, S).commits = d.commits
        /\ Refresh(d, S).refCounts = d.refCounts
    BY DEF Refresh, Exact, IsRecord
  <1> QED
    BY <1>1 DEF Exact

\* checkpoint(segmentInfos, false) keeps the counts exact: every reference
\* of the last checkpoint is dropped once and every new one taken once.
LEMMA ExactCheckpoint ==
    ASSUME NEW d, NEW T, NEW I, NEW O, Exact(d, T)
    PROVE  /\ Exact(Checkpoint(d, I, O), T)
           /\ Checkpoint(d, I, O).commits = d.commits
  <1> DEFINE d0 == DeletePendingFiles(d)
             d1 == IncRef(d0, I)
             d2 == IncRef(d1, O)
             d3 == DecRef(d2, d.lastFiles[1])
             d4 == DecRef(d3, d.lastFiles[2])
             L1 == d.lastFiles[1]
             L2 == d.lastFiles[2]
             c(e, f) == Count(e.refCounts, f)
  <1>0. /\ Exact(d0, T) /\ d0.commits = d.commits
        /\ d0.lastFiles = d.lastFiles
    BY ExactPending
  <1>a. /\ IsRecord(d0) /\ IsFiniteSet(d.commits)
        /\ \A f : Holders(d.commits, f) \in Nat /\ c(d0, f) \in Int
        /\ \A f : c(d0, f) = Ref(f, L1) + Ref(f, L2) + Holders(d.commits, f)
                               + Ref(f, T)
    BY <1>0, ExactCounts DEF Exact
  <1>5. Checkpoint(d, I, O) = [d4 EXCEPT !.lastFiles = <<I, O>>]
    BY DEF Checkpoint
  <1> HIDE DEF d0
  <1>1. /\ IsRecord(d1) /\ d1.commits = d0.commits
        /\ \A f : c(d1, f) = c(d0, f) + Ref(f, I)
    BY <1>a, IncRefCounts
  <1>r. \A f, F : Ref(f, F) \in Int
    BY DEF Ref
  <1>1i. \A f : c(d1, f) \in Int
    BY <1>a, <1>1, <1>r
  <1> HIDE DEF d1
  <1>2. /\ IsRecord(d2) /\ d2.commits = d1.commits
        /\ \A f : c(d2, f) = c(d1, f) + Ref(f, O)
    BY <1>1, <1>1i, IncRefCounts
  <1>2i. \A f : c(d2, f) \in Int
    BY <1>1i, <1>2, <1>r
  <1> HIDE DEF d2
  <1>3. /\ IsRecord(d3) /\ d3.commits = d2.commits
        /\ \A f : c(d3, f) = c(d2, f) - Ref(f, L1)
    BY <1>2, <1>2i, DecRefCounts
  <1>3i. \A f : c(d3, f) \in Int
    BY <1>2i, <1>3, <1>r
  <1> HIDE DEF d3
  <1>4. /\ IsRecord(d4) /\ d4.commits = d3.commits
        /\ \A f : c(d4, f) = c(d3, f) - Ref(f, L2)
    BY <1>3, <1>3i, DecRefCounts
  <1> HIDE DEF d4
  <1>6. \A f : c(d4, f) = Ref(f, I) + Ref(f, O) + Holders(d.commits, f)
                            + Ref(f, T)
    BY <1>a, <1>1, <1>2, <1>3, <1>4, <1>r
  <1>7. /\ IsRecord(Checkpoint(d, I, O))
        /\ Checkpoint(d, I, O).commits = d.commits
        /\ Checkpoint(d, I, O).refCounts = d4.refCounts
        /\ Checkpoint(d, I, O).lastFiles = <<I, O>>
    BY <1>0, <1>1, <1>2, <1>3, <1>4, <1>5 DEF IsRecord
  <1> QED
    BY <1>a, <1>6, <1>7 DEF Exact

\* deleteCommits keeps the counts exact: each deleted commit point drops its
\* references once, also when several hold the same file.
LEMMA ExactDeleteCommits ==
    ASSUME NEW d, NEW T, NEW V, Exact(d, T), V \subseteq d.commits
    PROVE  /\ Exact(DeleteCommits(d, V), T)
           /\ DeleteCommits(d, V).commits = d.commits \ V
  <1> DEFINE held == UNION {c.files : c \in V}
             zero == {f \in held : Count(d.refCounts, f) = Holders(V, f)}
             e == DeleteCommits(d, V)
  <1>1. /\ IsRecord(d) /\ IsFiniteSet(d.commits) /\ IsFiniteSet(V)
        /\ IsFiniteSet(d.commits \ V)
    BY FS_Subset DEF Exact
  <1>2. ASSUME NEW f
        PROVE  /\ Count(d.refCounts, f) \in Int
               /\ Holders(V, f) \in Nat
               /\ Holders(d.commits \ V, f) = Holders(d.commits, f) - Holders(V, f)
               /\ Holders(d.commits, f) \in Nat
    <2>1. Count(d.refCounts, f) \in Int /\ Holders(d.commits, f) \in Nat
      BY ExactCounts
    <2>2. Holders(V, f) \in Nat
      BY <1>1, HoldersType
    <2>3. Holders(d.commits \ V, f) = Holders(d.commits, f) - Holders(V, f)
      BY <1>1, HoldersRemove
    <2> QED
      BY <2>1, <2>2, <2>3
  <1>3. /\ IsRecord(e)
        /\ e.commits = d.commits \ V
        /\ e.lastFiles = d.lastFiles
        /\ e.refCounts =
              [f \in (DOMAIN d.refCounts \cup held) \ zero |->
                  Count(d.refCounts, f)
                    - (IF f \in held THEN Holders(V, f) ELSE 0)]
    BY <1>1 DEF DeleteCommits, DecRefBy, IsRecord
  <1>4. ASSUME NEW f, f \notin held
        PROVE  Holders(V, f) = 0
    <2>1. {c \in V : f \in c.files} = {}
      BY <1>4
    <2> QED
      BY <2>1, FS_EmptySet DEF Holders
  <1>5. ASSUME NEW f
        PROVE  Count(e.refCounts, f) = Count(d.refCounts, f) - Holders(V, f)
    <2>1. CASE f \in zero
      BY <1>2, <1>3, <2>1 DEF Count
    <2>2. CASE f \in held \ zero
      BY <1>2, <1>3, <2>2 DEF Count
    <2>3. CASE f \notin held
      BY <1>2, <1>3, <1>4, <2>3 DEF Count
    <2> QED
      BY <2>1, <2>2, <2>3
  <1> HIDE DEF e
  <1>6. ASSUME NEW f
        PROVE  Count(e.refCounts, f) =
                   Ref(f, e.lastFiles[1]) + Ref(f, e.lastFiles[2])
                     + Holders(e.commits, f) + Ref(f, T)
    <2>1. Count(d.refCounts, f) =
              Ref(f, d.lastFiles[1]) + Ref(f, d.lastFiles[2])
                + Holders(d.commits, f) + Ref(f, T)
      BY DEF Exact
    <2>2. /\ Ref(f, d.lastFiles[1]) \in Int /\ Ref(f, d.lastFiles[2]) \in Int
          /\ Ref(f, T) \in Int
      BY DEF Ref
    <2>3. Count(e.refCounts, f) = Count(d.refCounts, f) - Holders(V, f)
      BY <1>5
    <2>4. /\ Holders(V, f) \in Nat /\ Holders(d.commits, f) \in Nat
          /\ Holders(e.commits, f) = Holders(d.commits, f) - Holders(V, f)
      BY <1>2, <1>3
    <2>5. e.lastFiles = d.lastFiles
      BY <1>3
    <2> QED
      BY <2>1, <2>2, <2>3, <2>4, <2>5
  <1>7. IsFiniteSet(e.commits)
    BY <1>1, <1>3
  <1>8. Exact(e, T)
    BY <1>3, <1>6, <1>7 DEF Exact
  <1> QED
    BY <1>3, <1>8 DEF e

\* The policies only choose among the commit points they are given.
LEMMA VictimsAreCommits ==
    ASSUME NEW C, NEW s
    PROVE  PolicyVictims(C, s) \subseteq C
  BY DEF PolicyVictims

\* The commit points after p, the commit that succeeded.
Onwards(C, p, s) == (C \cup {p}) \ PolicyVictims(C \cup {p}, s)

\* checkpoint(segmentInfos, true) keeps the counts exact, given that the
\* commit is a new one.
LEMMA ExactCommitCheckpoint ==
    ASSUME NEW d, NEW T, NEW g, NEW F, NEW s, Exact(d, T),
           [generation |-> g, files |-> F] \notin d.commits
    PROVE  /\ Exact(CommitCheckpoint(d, g, F, s), T)
           /\ CommitCheckpoint(d, g, F, s).commits =
                Onwards(d.commits, [generation |-> g, files |-> F], s)
  <1> DEFINE p == [generation |-> g, files |-> F]
             d0 == DeletePendingFiles(d)
             d1 == IncRef(d0, F)
             d2 == [d1 EXCEPT !.commits = d.commits \cup {p}]
  <1>0. Exact(d0, T) /\ d0.commits = d.commits
    BY ExactPending
  <1>1. /\ IsRecord(d0) /\ IsFiniteSet(d.commits)
        /\ \A f : Count(d0.refCounts, f) \in Int
        /\ \A f : Holders(d.commits, f) \in Nat
        /\ \A f : Count(d0.refCounts, f) =
                     Ref(f, d0.lastFiles[1]) + Ref(f, d0.lastFiles[2])
                       + Holders(d.commits, f) + Ref(f, T)
    BY <1>0, ExactCounts DEF Exact
  <1> HIDE DEF d0
  <1>2. /\ IsRecord(d1) /\ d1.lastFiles = d0.lastFiles
        /\ \A f : Count(d1.refCounts, f) = Count(d0.refCounts, f) + Ref(f, F)
    BY <1>1, IncRefCounts
  <1> HIDE DEF d1
  <1>3. /\ IsRecord(d2) /\ d2.lastFiles = d0.lastFiles
        /\ d2.commits = d.commits \cup {p} /\ d2.refCounts = d1.refCounts
    BY <1>2 DEF IsRecord
  <1> HIDE DEF d2
  <1>4. p.files = F /\ p \notin d.commits
    OBVIOUS
  <1> HIDE DEF p
  <1>5. IsFiniteSet(d2.commits)
    BY <1>1, <1>3, FS_AddElement
  <1>6. ASSUME NEW f
        PROVE  Count(d2.refCounts, f) =
                   Ref(f, d2.lastFiles[1]) + Ref(f, d2.lastFiles[2])
                     + Holders(d2.commits, f) + Ref(f, T)
    <2>1. Holders(d2.commits, f) = Holders(d.commits, f) + Ref(f, F)
      BY <1>1, <1>3, <1>4, HoldersAdd
    <2>2. Count(d2.refCounts, f) =
              Ref(f, d0.lastFiles[1]) + Ref(f, d0.lastFiles[2])
                + Holders(d.commits, f) + Ref(f, T) + Ref(f, F)
      BY <1>1, <1>2, <1>3
    <2>3. \A G : Ref(f, G) \in Int
      BY DEF Ref
    <2> QED
      BY <1>1, <1>3, <2>1, <2>2, <2>3
  <1>7. Exact(d2, T)
    BY <1>3, <1>5, <1>6 DEF Exact
  <1>8. CommitCheckpoint(d, g, F, s) =
            DeleteCommits(d2, PolicyVictims(d2.commits, s))
    BY DEF CommitCheckpoint, d2, d1, d0, p
  <1> DEFINE V == PolicyVictims(d2.commits, s)
  <1>9. V \subseteq d2.commits
    BY VictimsAreCommits
  <1> HIDE DEF V
  <1>10. Exact(DeleteCommits(d2, V), T) /\ DeleteCommits(d2, V).commits = d2.commits \ V
    BY <1>7, <1>9, ExactDeleteCommits
  <1> QED
    BY <1>3, <1>8, <1>10 DEF V, p, Onwards

\* close gives up the references of the last checkpoint only.
LEMMA ExactClose ==
    ASSUME NEW d, NEW T, Exact(d, T)
    PROVE  Exact(CloseDeleter(d), T) /\ CloseDeleter(d).commits = d.commits
  <1> DEFINE L1 == d.lastFiles[1]
             L2 == d.lastFiles[2]
             d1 == DecRef(d, L1)
             d2 == DecRef(d1, L2)
             d3 == [d2 EXCEPT !.lastFiles = <<{}, {}>>]
  <1>1. /\ IsRecord(d) /\ IsFiniteSet(d.commits)
        /\ \A f : Count(d.refCounts, f) \in Int
        /\ \A f : Holders(d.commits, f) \in Nat
        /\ \A f : Count(d.refCounts, f) = Ref(f, L1) + Ref(f, L2)
                     + Holders(d.commits, f) + Ref(f, T)
    <2>1. \A f : Count(d.refCounts, f) \in Int /\ Holders(d.commits, f) \in Nat
      BY ExactCounts
    <2> QED
      BY <2>1 DEF Exact
  <1>r. \A f, F : Ref(f, F) \in Int
    BY DEF Ref
  <1>2. /\ IsRecord(d1) /\ d1.commits = d.commits
        /\ \A f : Count(d1.refCounts, f) = Count(d.refCounts, f) - Ref(f, L1)
    BY <1>1, DecRefCounts
  <1>2i. \A f : Count(d1.refCounts, f) \in Int
    BY <1>1, <1>2, <1>r
  <1> HIDE DEF d1
  <1>3. /\ IsRecord(d2) /\ d2.commits = d.commits
        /\ \A f : Count(d2.refCounts, f) = Count(d1.refCounts, f) - Ref(f, L2)
    BY <1>2, <1>2i, DecRefCounts
  <1> HIDE DEF d2
  <1>4. /\ IsRecord(d3) /\ d3.commits = d.commits
        /\ d3.refCounts = d2.refCounts /\ d3.lastFiles = <<{}, {}>>
    BY <1>3 DEF IsRecord
  <1>5. \A f : Count(d2.refCounts, f) = Holders(d.commits, f) + Ref(f, T)
    BY <1>1, <1>2, <1>3, <1>r
  <1>6. \A f : Ref(f, <<{}, {}>>[1]) = 0 /\ Ref(f, <<{}, {}>>[2]) = 0
    BY DEF Ref
  <1>7. Exact(d3, T)
    BY <1>1, <1>4, <1>5, <1>6, <1>r DEF Exact
  <1>8. CloseDeleter(d) = DeletePendingFiles(d3)
    BY DEF CloseDeleter, d1, d2
  <1> HIDE DEF d3
  <1> QED
    BY <1>4, <1>7, <1>8, ExactPending

\* The constructor starts with exact counts.
LEMMA ExactInit ==
    ASSUME NEW F, NEW C, NEW I, NEW s, NEW y, IsFiniteSet(C)
    PROVE  /\ Exact(InitDeleter(F, C, I, s, y), {})
           /\ InitDeleter(F, C, I, s, y).commits \subseteq C
  <1> DEFINE held == UNION {c.files : c \in C}
             d0 == [NoDeleter EXCEPT
                      !.refCounts = [f \in F \cup held |-> Holders(C, f)],
                      !.commits = C, !.doomed = F \ held, !.synced = y]
  <1>1. /\ IsRecord(d0) /\ d0.commits = C /\ d0.lastFiles = <<{}, {}>>
        /\ d0.refCounts = [f \in F \cup held |-> Holders(C, f)]
    BY DEF NoDeleter, IsRecord
  <1>2. ASSUME NEW f
        PROVE  Count(d0.refCounts, f) = Holders(C, f)
    <2>1. CASE f \in F \cup held
      BY <1>1, <2>1 DEF Count
    <2>2. CASE f \notin F \cup held
      <3>1. {c \in C : f \in c.files} = {}
        BY <2>2
      <3>2. Holders(C, f) = 0
        BY <3>1, FS_EmptySet DEF Holders
      <3> QED
        BY <1>1, <2>2, <3>2 DEF Count
    <2> QED
      BY <2>1, <2>2
  <1>3. InitDeleter(F, C, I, s, y) =
            DeleteCommits(Checkpoint(d0, I, {}), PolicyVictims(C, s))
    BY DEF InitDeleter
  <1> HIDE DEF d0
  <1>4. \A f : Holders(C, f) \in Nat
    BY HoldersType
  <1>5. \A f : Ref(f, <<{}, {}>>[1]) = 0 /\ Ref(f, <<{}, {}>>[2]) = 0
               /\ Ref(f, {}) = 0
    BY DEF Ref
  <1>6. Exact(d0, {})
    BY <1>1, <1>2, <1>4, <1>5 DEF Exact
  <1>7. Exact(Checkpoint(d0, I, {}), {}) /\ Checkpoint(d0, I, {}).commits = C
    BY <1>1, <1>6, ExactCheckpoint
  <1> DEFINE d1 == Checkpoint(d0, I, {})
             V == PolicyVictims(C, s)
  <1>8. V \subseteq d1.commits
    BY <1>7, VictimsAreCommits
  <1> HIDE DEF d1, V
  <1>9. Exact(DeleteCommits(d1, V), {}) /\ DeleteCommits(d1, V).commits = C \ V
    BY <1>7, <1>8, ExactDeleteCommits DEF d1
  <1> QED
    BY <1>3, <1>9 DEF d1, V

-----------------------------------------------------------------------------
(***************************************************************************)
(* The deleter speaks of files only.                                       *)
(***************************************************************************)
ArePoints(C, File) == \A c \in C : c \in [generation: Nat, files: SUBSET File]

AreLast(L, File) == L \in (SUBSET File) \X (SUBSET File)

InFile(d, File) ==
    /\ IsRecord(d)
    /\ DOMAIN d.refCounts \subseteq File
    /\ AreLast(d.lastFiles, File)
    /\ ArePoints(d.commits, File)
    /\ d.deletable \subseteq File
    /\ d.doomed \subseteq File
    /\ d.synced \subseteq File

\* Exact counts are naturals.
LEMMA InFileType ==
    ASSUME NEW d, NEW File, NEW T, InFile(d, File), Exact(d, T)
    PROVE  IsDeleter(d, File)
  <1>1. \A f \in DOMAIN d.refCounts : d.refCounts[f] \in Nat
    BY ExactCounts DEF Count
  <1> QED
    BY <1>1 DEF InFile, IsDeleter, IsRecord, ArePoints, AreLast

\* A deleter of the right type speaks of files only.
LEMMA TypeInFile ==
    ASSUME NEW d, NEW File, IsDeleter(d, File)
    PROVE  InFile(d, File)
  BY DEF InFile, IsDeleter, IsRecord, ArePoints, AreLast

\* incRef, decRef and deletePendingFiles speak of no other files.
LEMMA InFileIncRef ==
    ASSUME NEW d, NEW File, NEW F \in SUBSET File, InFile(d, File)
    PROVE  InFile(IncRef(d, F), File)
  <1> DEFINE e == IncRef(d, F)
  <1> SUFFICES InFile(e, File)
    OBVIOUS
  <1>1. /\ IsRecord(e) /\ e.lastFiles = d.lastFiles
        /\ DOMAIN e.refCounts = DOMAIN d.refCounts \cup F
        /\ e.commits = d.commits /\ e.deletable = d.deletable
        /\ e.doomed = d.doomed /\ e.synced = d.synced
    BY DEF IncRef, InFile, IsRecord
  <1> HIDE DEF e
  <1> QED
    BY <1>1 DEF InFile

\* Letting go of files several times speaks of no other files.
LEMMA InFileDecRefBy ==
    ASSUME NEW d, NEW File, NEW times, DOMAIN times \subseteq File,
           InFile(d, File)
    PROVE  InFile(DecRefBy(d, times), File)
  <1> DEFINE e == DecRefBy(d, times)
  <1> SUFFICES InFile(e, File)
    OBVIOUS
  <1>1. /\ IsRecord(e) /\ e.lastFiles = d.lastFiles
        /\ DOMAIN e.refCounts \subseteq DOMAIN d.refCounts \cup DOMAIN times
        /\ e.commits = d.commits /\ e.deletable = d.deletable
        /\ e.doomed \subseteq d.doomed \cup DOMAIN times
        /\ e.synced \subseteq d.synced
    BY DEF DecRefBy, InFile, IsRecord
  <1> HIDE DEF e
  <1> QED
    BY <1>1 DEF InFile

\* Nor does letting go of them once.
LEMMA InFileDecRef ==
    ASSUME NEW d, NEW File, NEW F \in SUBSET File, InFile(d, File)
    PROVE  InFile(DecRef(d, F), File)
  <1>1. DOMAIN [f \in F |-> 1] \subseteq File
    OBVIOUS
  <1> QED
    BY <1>1, InFileDecRefBy DEF DecRef

\* Nor does trying the outstanding deletions again.
LEMMA InFilePending ==
    ASSUME NEW d, NEW File, InFile(d, File)
    PROVE  InFile(DeletePendingFiles(d), File)
  <1> DEFINE e == DeletePendingFiles(d)
  <1> SUFFICES InFile(e, File)
    OBVIOUS
  <1>1. /\ IsRecord(e) /\ e.lastFiles = d.lastFiles
        /\ e.refCounts = d.refCounts
        /\ e.commits = d.commits /\ e.deletable = {}
        /\ e.doomed = d.doomed \cup d.deletable /\ e.synced = d.synced
    BY DEF DeletePendingFiles, InFile, IsRecord
  <1> HIDE DEF e
  <1> QED
    BY <1>1 DEF InFile

\* Nor does refresh(segment), which gives up files without references.
LEMMA InFileRefresh ==
    ASSUME NEW d, NEW File, NEW S \in SUBSET File, InFile(d, File)
    PROVE  InFile(Refresh(d, S), File)
  <1> DEFINE e == Refresh(d, S)
  <1> SUFFICES InFile(e, File)
    OBVIOUS
  <1>1. /\ IsRecord(e) /\ e.lastFiles = d.lastFiles
        /\ e.refCounts = d.refCounts
        /\ e.commits = d.commits /\ e.deletable = d.deletable
        /\ e.doomed \subseteq d.doomed \cup S /\ e.synced = d.synced
    BY DEF Refresh, InFile, IsRecord
  <1> HIDE DEF e
  <1> QED
    BY <1>1 DEF InFile

\* A record that differs in the files of the last checkpoint only
LEMMA InFileLast ==
    ASSUME NEW d, NEW File, InFile(d, File),
           NEW I \in SUBSET File, NEW O \in SUBSET File
    PROVE  InFile([d EXCEPT !.lastFiles = <<I, O>>], File)
  <1> DEFINE e == [d EXCEPT !.lastFiles = <<I, O>>]
  <1> SUFFICES InFile(e, File)
    OBVIOUS
  <1>1. /\ IsRecord(e) /\ e.lastFiles = <<I, O>>
        /\ e.refCounts = d.refCounts
        /\ e.commits = d.commits /\ e.deletable = d.deletable
        /\ e.doomed = d.doomed /\ e.synced = d.synced
    BY DEF InFile, IsRecord
  <1>2. AreLast(<<I, O>>, File)
    BY DEF AreLast
  <1> HIDE DEF e
  <1> QED
    BY <1>1, <1>2 DEF InFile

\* or in the commit points only
LEMMA InFileCommits ==
    ASSUME NEW d, NEW File, InFile(d, File),
           NEW C, ArePoints(C, File)
    PROVE  InFile([d EXCEPT !.commits = C], File)
  <1> DEFINE e == [d EXCEPT !.commits = C]
  <1> SUFFICES InFile(e, File)
    OBVIOUS
  <1>1. /\ IsRecord(e) /\ e.lastFiles = d.lastFiles
        /\ e.refCounts = d.refCounts
        /\ e.commits = C /\ e.deletable = d.deletable
        /\ e.doomed = d.doomed /\ e.synced = d.synced
    BY DEF InFile, IsRecord
  <1> HIDE DEF e
  <1> QED
    BY <1>1 DEF InFile

\* So do the operations built from these.
LEMMA InFileCheckpoint ==
    ASSUME NEW d, NEW File, InFile(d, File),
           NEW I \in SUBSET File, NEW O \in SUBSET File
    PROVE  InFile(Checkpoint(d, I, O), File)
  <1> DEFINE d1 == IncRef(IncRef(DeletePendingFiles(d), I), O)
             d2 == DecRef(DecRef(d1, d.lastFiles[1]), d.lastFiles[2])
  <1>1. InFile(d1, File)
    BY InFilePending, InFileIncRef
  <1>2. d.lastFiles[1] \in SUBSET File /\ d.lastFiles[2] \in SUBSET File
    BY DEF InFile, AreLast
  <1>3. Checkpoint(d, I, O) = [d2 EXCEPT !.lastFiles = <<I, O>>]
    BY DEF Checkpoint
  <1> HIDE DEF d1
  <1>4. InFile(d2, File)
    BY <1>1, <1>2, InFileDecRef
  <1> HIDE DEF d2
  <1>5. InFile([d2 EXCEPT !.lastFiles = <<I, O>>], File)
    BY <1>4, InFileLast
  <1> QED
    BY <1>3, <1>5

\* Nor does deleteCommits: the files of the commits it deletes were known.
LEMMA InFileDeleteCommits ==
    ASSUME NEW d, NEW File, InFile(d, File), NEW V, V \subseteq d.commits
    PROVE  InFile(DeleteCommits(d, V), File)
  <1> DEFINE held == UNION {c.files : c \in V}
             times == [f \in held |-> Holders(V, f)]
             e == DecRefBy(d, times)
  <1>1. DOMAIN times \subseteq File
    BY DEF InFile, ArePoints
  <1>2. DeleteCommits(d, V) = [e EXCEPT !.commits = d.commits \ V]
    BY DEF DeleteCommits
  <1> HIDE DEF times
  <1>3. InFile(e, File)
    BY <1>1, InFileDecRefBy
  <1> HIDE DEF e
  <1>4. ArePoints(d.commits \ V, File)
    BY DEF InFile, ArePoints
  <1> QED
    BY <1>2, <1>3, <1>4, InFileCommits

\* A commit adds the files it holds, and no other.
LEMMA InFileCommitCheckpoint ==
    ASSUME NEW d, NEW File, InFile(d, File), NEW g \in Nat,
           NEW F \in SUBSET File, NEW s
    PROVE  InFile(CommitCheckpoint(d, g, F, s), File)
  <1> DEFINE C == d.commits \cup {[generation |-> g, files |-> F]}
             d1 == IncRef(DeletePendingFiles(d), F)
             d2 == [d1 EXCEPT !.commits = C]
  <1>1. InFile(d1, File)
    BY InFilePending, InFileIncRef
  <1>2. ArePoints(C, File)
    BY DEF InFile, ArePoints
  <1>3. CommitCheckpoint(d, g, F, s) =
            DeleteCommits(d2, PolicyVictims(d2.commits, s))
    BY DEF CommitCheckpoint
  <1> HIDE DEF d1, C
  <1>4. InFile(d2, File)
    BY <1>1, <1>2, InFileCommits
  <1> HIDE DEF d2
  <1> QED
    BY <1>3, <1>4, VictimsAreCommits, InFileDeleteCommits

\* close() lets go of what was known.
LEMMA InFileClose ==
    ASSUME NEW d, NEW File, InFile(d, File)
    PROVE  InFile(CloseDeleter(d), File)
  <1> DEFINE d1 == DecRef(DecRef(d, d.lastFiles[1]), d.lastFiles[2])
             d2 == [d1 EXCEPT !.lastFiles = <<{}, {}>>]
  <1>1. d.lastFiles[1] \in SUBSET File /\ d.lastFiles[2] \in SUBSET File
    BY DEF InFile, AreLast
  <1>2. CloseDeleter(d) = DeletePendingFiles(d2)
    BY DEF CloseDeleter
  <1>3. InFile(d1, File)
    BY <1>1, InFileDecRef
  <1> HIDE DEF d1
  <1>4. InFile(d2, File)
    BY <1>3, InFileLast
  <1> HIDE DEF d2
  <1> QED
    BY <1>2, <1>4, InFilePending

\* The constructor speaks of the files of the directory and of its commits.
LEMMA InFileInit ==
    ASSUME NEW File, NEW F \in SUBSET File, NEW I \in SUBSET File,
           NEW y \in SUBSET File, NEW s, NEW C,
           ArePoints(C, File)
    PROVE  InFile(InitDeleter(F, C, I, s, y), File)
  <1> DEFINE held == UNION {c.files : c \in C}
             d0 == [NoDeleter EXCEPT
                      !.refCounts = [f \in F \cup held |-> Holders(C, f)],
                      !.commits = C, !.doomed = F \ held, !.synced = y]
             d1 == Checkpoint(d0, I, {})
             V == PolicyVictims(C, s)
  <1>1. InitDeleter(F, C, I, s, y) = DeleteCommits(d1, V)
    BY DEF InitDeleter
  <1>2. /\ IsRecord(d0) /\ d0.lastFiles = <<{}, {}>>
        /\ DOMAIN d0.refCounts = F \cup held
        /\ d0.commits = C /\ d0.deletable = {}
        /\ d0.doomed = F \ held /\ d0.synced = y
    BY DEF NoDeleter, IsRecord
  <1>3. held \subseteq File /\ AreLast(<<{}, {}>>, File)
    BY DEF ArePoints, AreLast
  <1> HIDE DEF d0, held
  <1>4. InFile(d0, File)
    BY <1>2, <1>3 DEF InFile
  <1>5. InFile(d1, File)
    BY <1>4, InFileCheckpoint
  <1>6. d1.commits = d0.commits
    BY DEF Checkpoint, IncRef, DecRef, DecRefBy, DeletePendingFiles
  <1>7. V \subseteq d1.commits
    BY <1>2, <1>6, VictimsAreCommits
  <1> HIDE DEF d1, V
  <1> QED
    BY <1>1, <1>5, <1>7, InFileDeleteCommits
-----------------------------------------------------------------------------
(***************************************************************************)
(* Which files are held, which are to go, and which count as synced.       *)
(***************************************************************************)
\* The files somebody refers to
Held(d, T) == d.lastFiles[1] \cup d.lastFiles[2]
                 \cup (UNION {c.files : c \in d.commits}) \cup T

\* No deletion has failed that is to be tried again.
Settled(d) == d.deletable = {}

\* The deleter and the directory F agree.
Tidy(d, T, F) ==
    /\ d.deletable = {}
    /\ Held(d, T) \subseteq F
    /\ d.doomed \cap Held(d, T) = {}
    /\ d.synced \subseteq Held(d, T)

\* A file is held exactly when its count is not 0.
LEMMA HeldCounts ==
    ASSUME NEW d, NEW T, Exact(d, T)
    PROVE  \A f : f \in Held(d, T) <=> Count(d.refCounts, f) # 0
  <1> SUFFICES ASSUME NEW f
               PROVE  f \in Held(d, T) <=> Count(d.refCounts, f) # 0
    OBVIOUS
  <1> DEFINE H == {c \in d.commits : f \in c.files}
  <1>1. Holders(d.commits, f) \in Nat
    BY ExactCounts
  <1>2. IsFiniteSet(H)
    BY FS_Subset DEF Exact
  <1>3. Holders(d.commits, f) = 0 <=> H = {}
    BY <1>2, FS_EmptySet DEF Holders
  <1>4. H = {} <=> f \notin UNION {c.files : c \in d.commits}
    OBVIOUS
  <1>5. Count(d.refCounts, f) =
            Ref(f, d.lastFiles[1]) + Ref(f, d.lastFiles[2])
              + Holders(d.commits, f) + Ref(f, T)
    BY DEF Exact
  <1> DEFINE U == UNION {c.files : c \in d.commits}
  <1>6. f \in Held(d, T) <=> \/ f \in d.lastFiles[1] \/ f \in d.lastFiles[2]
                             \/ ~(H = {}) \/ f \in T
    <2>1. Held(d, T) = d.lastFiles[1] \cup d.lastFiles[2] \cup U \cup T
      BY DEF Held
    <2> HIDE DEF U, H
    <2> QED
      BY <1>4, <2>1 DEF U
  <1>7. \A F : Ref(f, F) \in {0, 1} /\ (f \in F <=> Ref(f, F) = 1)
    BY DEF Ref
  <1>8. f \in Held(d, T) <=> \/ Ref(f, d.lastFiles[1]) = 1
                             \/ Ref(f, d.lastFiles[2]) = 1
                             \/ Holders(d.commits, f) # 0 \/ Ref(f, T) = 1
    BY <1>3, <1>6, <1>7
  <1> QED
    BY <1>1, <1>5, <1>7, <1>8

\* From d to e exactly the files that are held no longer are given up.
Releases(d, T, e, T1) ==
    /\ e.deletable = {}
    /\ e.doomed = d.doomed \cup (Held(d, T) \ Held(e, T1))
    /\ e.synced = d.synced \ (Held(d, T) \ Held(e, T1))

\* The deleter and the directory still agree then.
LEMMA TidyReleases ==
    ASSUME NEW d, NEW T, NEW F, NEW e, NEW T1, NEW F1,
           Tidy(d, T, F), Releases(d, T, e, T1), Held(e, T1) \subseteq F1,
           d.doomed \cap Held(e, T1) = {}
    PROVE  Tidy(e, T1, F1)
  BY DEF Tidy, Releases

\* What decRef changes beside the counts
LEMMA DecRefFields ==
    ASSUME NEW d, IsRecord(d), NEW F
    PROVE  LET e == DecRef(d, F)
               zero == {f \in F : Count(d.refCounts, f) = 1}
           IN  /\ IsRecord(e)
               /\ e.lastFiles = d.lastFiles /\ e.commits = d.commits
               /\ e.deletable = d.deletable
               /\ e.doomed = d.doomed \cup zero
               /\ e.synced = d.synced \ zero
  <1> DEFINE zero == {f \in F : Count(d.refCounts, f) = 1}
             times == [f \in F |-> 1]
  <1>1. {f \in DOMAIN times : Count(d.refCounts, f) = times[f]} = zero
    OBVIOUS
  <1> QED
    BY <1>1 DEF DecRef, DecRefBy, IsRecord

\* And incRef
LEMMA IncRefFields ==
    ASSUME NEW d, IsRecord(d), NEW F
    PROVE  LET e == IncRef(d, F)
           IN  /\ IsRecord(e)
               /\ e.lastFiles = d.lastFiles /\ e.commits = d.commits
               /\ e.deletable = d.deletable
               /\ e.doomed = d.doomed /\ e.synced = d.synced
  BY DEF IncRef, IsRecord

\* A commit under way holds its files.
LEMMA ReleasesIncRef ==
    ASSUME NEW d, NEW T, Exact(d, {}), Settled(d)
    PROVE  /\ Releases(d, {}, IncRef(d, T), T)
           /\ Held(IncRef(d, T), T) = Held(d, {}) \cup T
           /\ IncRef(d, T).lastFiles = d.lastFiles
           /\ IncRef(d, T).commits = d.commits
           /\ IncRef(d, T).doomed = d.doomed
           /\ IncRef(d, T).synced = d.synced
  <1> DEFINE e == IncRef(d, T)
  <1>1. /\ e.lastFiles = d.lastFiles /\ e.commits = d.commits
        /\ e.deletable = d.deletable
        /\ e.doomed = d.doomed /\ e.synced = d.synced
    BY IncRefFields DEF Exact
  <1>s. d.deletable = {}
    BY DEF Settled
  <1> HIDE DEF e
  <1>2. Held(e, T) = Held(d, {}) \cup T
    BY <1>1 DEF Held
  <1>3. Releases(d, {}, e, T)
    BY <1>1, <1>2, <1>s DEF Releases
  <1> QED
    BY <1>1, <1>2, <1>3 DEF e

\* When it ends they are held no longer, unless somebody else does.
LEMMA ReleasesDecRef ==
    ASSUME NEW d, NEW T, Exact(d, T), Settled(d)
    PROVE  /\ Releases(d, T, DecRef(d, T), {})
           /\ DecRef(d, T).lastFiles = d.lastFiles
           /\ DecRef(d, T).commits = d.commits
  <1> DEFINE e == DecRef(d, T)
             zero == {f \in T : Count(d.refCounts, f) = 1}
  <1>1. /\ e.lastFiles = d.lastFiles /\ e.commits = d.commits
        /\ e.deletable = d.deletable
        /\ e.doomed = d.doomed \cup zero
        /\ e.synced = d.synced \ zero
    BY DecRefFields DEF Exact
  <1>2. Exact(e, {})
    BY ExactDecRef
  <1>3. \A f : Count(d.refCounts, f) \in Nat
    BY ExactCounts
  <1>4. \A f : Count(e.refCounts, f) = Count(d.refCounts, f) - Ref(f, T)
    BY <1>3, DecRefCounts DEF Exact
  <1>5. /\ \A f : f \in Held(d, T) <=> Count(d.refCounts, f) # 0
        /\ \A f : f \in Held(e, {}) <=> Count(e.refCounts, f) # 0
    BY <1>2, HeldCounts
  <1> HIDE DEF e
  <1>6. \A f : Ref(f, T) \in {0, 1} /\ (f \in T <=> Ref(f, T) = 1)
    BY DEF Ref
  <1>7. ASSUME NEW f
        PROVE  f \in zero <=> f \in Held(d, T) \ Held(e, {})
    <2>1. f \in zero <=> f \in T /\ Count(d.refCounts, f) = 1
      OBVIOUS
    <2>2. Ref(f, T) \in {0, 1} /\ Count(d.refCounts, f) \in Nat
          /\ Count(e.refCounts, f) = Count(d.refCounts, f) - Ref(f, T)
      BY <1>3, <1>4, <1>6
    <2>3. f \in Held(d, T) \ Held(e, {}) <=>
            Count(d.refCounts, f) # 0 /\ Count(e.refCounts, f) = 0
      BY <1>5
    <2>4. f \in T <=> Ref(f, T) = 1
      BY <1>6
    <2> HIDE DEF zero
    <2> QED
      BY <2>1, <2>2, <2>3, <2>4
  <1>8. zero = Held(d, T) \ Held(e, {})
    BY <1>7
  <1>9. Releases(d, T, e, {})
    BY <1>1, <1>8 DEF Releases, Settled
  <1> QED
    BY <1>1, <1>9 DEF e

\* A file that the last checkpoint held once or twice, with h and t other
\* references and i and o new ones, loses the last of them exactly when a
\* decRef finds it with one.
LEMMA LastReference ==
    ASSUME NEW h \in Nat, NEW t \in {0, 1}, NEW l1 \in {0, 1},
           NEW l2 \in {0, 1}, NEW i \in {0, 1}, NEW o \in {0, 1}
    PROVE  l1 + l2 + h + t # 0 /\ h + t + i + o = 0
             <=> \/ l1 = 1 /\ l1 + l2 + h + t + i + o = 1
                 \/ l2 = 1 /\ l2 + h + t + i + o = 1
  <1>1. h + t + i + o \in Nat
    OBVIOUS
  <1> QED
    BY <1>1

\* checkpoint(segmentInfos, false)
LEMMA ReleasesCheckpoint ==
    ASSUME NEW d, NEW T, NEW I, NEW O, Exact(d, T), Settled(d)
    PROVE  /\ Releases(d, T, Checkpoint(d, I, O), T)
           /\ Checkpoint(d, I, O).lastFiles[1] = I
           /\ Checkpoint(d, I, O).lastFiles[2] = O
           /\ Checkpoint(d, I, O).commits = d.commits
  <1> DEFINE L1 == d.lastFiles[1]
             L2 == d.lastFiles[2]
             d0 == DeletePendingFiles(d)
             d1 == IncRef(d0, I)
             d2 == IncRef(d1, O)
             d3 == DecRef(d2, L1)
             d4 == DecRef(d3, L2)
             e == Checkpoint(d, I, O)
             c(x, f) == Count(x.refCounts, f)
             zero1 == {f \in L1 : c(d2, f) = 1}
             zero2 == {f \in L2 : c(d3, f) = 1}
  <1>1. /\ IsRecord(d0) /\ d0.refCounts = d.refCounts
        /\ d0.lastFiles = d.lastFiles /\ d0.commits = d.commits
        /\ d0.deletable = {} /\ d0.doomed = d.doomed /\ d0.synced = d.synced
    BY DEF DeletePendingFiles, Exact, IsRecord, Settled
  <1>e. e = [d4 EXCEPT !.lastFiles = <<I, O>>]
    BY DEF Checkpoint
  <1>c. \A f : c(d, f) \in Nat /\ Holders(d.commits, f) \in Nat
    BY ExactCounts
  <1>x. \A f : c(d, f) = Ref(f, L1) + Ref(f, L2) + Holders(d.commits, f) + Ref(f, T)
    BY DEF Exact
  <1>r. \A f, F : Ref(f, F) \in {0, 1} /\ (f \in F <=> Ref(f, F) = 1)
    BY DEF Ref
  <1>d0. \A f : c(d0, f) = c(d, f)
    BY <1>1
  <1> HIDE DEF d0
  <1>2. /\ IsRecord(d1)
        /\ d1.lastFiles = d.lastFiles /\ d1.commits = d.commits
        /\ d1.deletable = {} /\ d1.doomed = d.doomed /\ d1.synced = d.synced
    BY <1>1, IncRefFields
  <1>2c. \A f : c(d1, f) = c(d, f) + Ref(f, I)
    BY <1>1, <1>d0, <1>c, IncRefCounts
  <1>2i. \A f : c(d1, f) \in Nat
    BY <1>2c, <1>c, <1>r
  <1> HIDE DEF d1
  <1>3. /\ IsRecord(d2)
        /\ d2.lastFiles = d.lastFiles /\ d2.commits = d.commits
        /\ d2.deletable = {} /\ d2.doomed = d.doomed /\ d2.synced = d.synced
    BY <1>2, IncRefFields
  <1>3c. \A f : c(d2, f) = c(d1, f) + Ref(f, O)
    BY <1>2, <1>2i, IncRefCounts
  <1>3i. \A f : c(d2, f) \in Nat
    BY <1>3c, <1>2i, <1>r
  <1> HIDE DEF d2
  <1>4. /\ IsRecord(d3) /\ d3.commits = d.commits /\ d3.deletable = {}
        /\ d3.doomed = d.doomed \cup zero1 /\ d3.synced = d.synced \ zero1
    BY <1>3, DecRefFields
  <1>4c. \A f : c(d3, f) = c(d2, f) - Ref(f, L1)
    BY <1>3, <1>3i, DecRefCounts
  <1>4i. \A f : c(d3, f) \in Int
    BY <1>4c, <1>3i, <1>r
  <1> HIDE DEF d3
  <1>5. /\ IsRecord(d4) /\ d4.commits = d.commits /\ d4.deletable = {}
        /\ d4.doomed = d3.doomed \cup zero2 /\ d4.synced = d3.synced \ zero2
    BY <1>4, DecRefFields
  <1>5c. \A f : c(d4, f) = c(d3, f) - Ref(f, L2)
    BY <1>4, <1>4i, DecRefCounts
  <1> HIDE DEF d4
  <1>6. /\ e.commits = d.commits /\ e.deletable = {} /\ e.lastFiles = <<I, O>>
        /\ e.doomed = d.doomed \cup (zero1 \cup zero2)
        /\ e.synced = d.synced \ (zero1 \cup zero2)
        /\ e.refCounts = d4.refCounts
    BY <1>4, <1>5, <1>e DEF IsRecord
  <1>7. Exact(e, T)
    BY ExactCheckpoint
  <1>8. /\ \A f : f \in Held(d, T) <=> c(d, f) # 0
        /\ \A f : f \in Held(e, T) <=> c(d4, f) # 0
    BY <1>6, <1>7, HeldCounts
  <1> HIDE DEF e
  <1>9. ASSUME NEW f
        PROVE  f \in zero1 \cup zero2 <=> f \in Held(d, T) \ Held(e, T)
    <2>1. f \in Held(d, T) \ Held(e, T) <=> c(d, f) # 0 /\ c(d4, f) = 0
      BY <1>8
    <2>2. f \in zero1 \cup zero2 <=> \/ Ref(f, L1) = 1 /\ c(d2, f) = 1
                                     \/ Ref(f, L2) = 1 /\ c(d3, f) = 1
      BY <1>r
    <2>3. /\ c(d, f) \in Nat /\ Holders(d.commits, f) \in Nat
          /\ c(d, f) = Ref(f, L1) + Ref(f, L2) + Holders(d.commits, f) + Ref(f, T)
          /\ c(d1, f) = c(d, f) + Ref(f, I)
          /\ c(d2, f) = c(d1, f) + Ref(f, O)
          /\ c(d3, f) = c(d2, f) - Ref(f, L1)
          /\ c(d4, f) = c(d3, f) - Ref(f, L2)
      BY <1>c, <1>x, <1>2c, <1>3c, <1>4c, <1>5c
    <2>4. /\ Ref(f, L1) \in {0, 1} /\ Ref(f, L2) \in {0, 1}
          /\ Ref(f, T) \in {0, 1} /\ Ref(f, I) \in {0, 1} /\ Ref(f, O) \in {0, 1}
      BY <1>r
    <2> HIDE DEF zero1, zero2, c, L1, L2
    <2>5. /\ c(d, f) = Ref(f, L1) + Ref(f, L2) + Holders(d.commits, f) + Ref(f, T)
          /\ c(d2, f) = Ref(f, L1) + Ref(f, L2) + Holders(d.commits, f) + Ref(f, T)
                          + Ref(f, I) + Ref(f, O)
          /\ c(d3, f) = Ref(f, L2) + Holders(d.commits, f) + Ref(f, T)
                          + Ref(f, I) + Ref(f, O)
          /\ c(d4, f) = Holders(d.commits, f) + Ref(f, T)
                          + Ref(f, I) + Ref(f, O)
      BY <2>3, <2>4
    <2>6. c(d, f) # 0 /\ c(d4, f) = 0
             <=> \/ Ref(f, L1) = 1 /\ c(d2, f) = 1
                 \/ Ref(f, L2) = 1 /\ c(d3, f) = 1
      BY <2>3, <2>4, <2>5, LastReference
    <2> QED
      BY <2>1, <2>2, <2>6
  <1>10. zero1 \cup zero2 = Held(d, T) \ Held(e, T)
    BY <1>9
  <1>11. Releases(d, T, e, T)
    <2> HIDE DEF zero1, zero2
    <2> QED
      BY <1>6, <1>10 DEF Releases
  <1> QED
    BY <1>6, <1>11 DEF e

\* deleteCommits
LEMMA ReleasesDeleteCommits ==
    ASSUME NEW d, NEW T, NEW V, Exact(d, T), V \subseteq d.commits,
           Settled(d)
    PROVE  /\ Releases(d, T, DeleteCommits(d, V), T)
           /\ DeleteCommits(d, V).lastFiles = d.lastFiles
           /\ DeleteCommits(d, V).commits = d.commits \ V
  <1> DEFINE held == UNION {c.files : c \in V}
             times == [f \in held |-> Holders(V, f)]
             zero == {f \in held : Count(d.refCounts, f) = Holders(V, f)}
             e == DeleteCommits(d, V)
  <1>1. {f \in DOMAIN times : Count(d.refCounts, f) = times[f]} = zero
    OBVIOUS
  <1>2. /\ e.lastFiles = d.lastFiles /\ e.commits = d.commits \ V
        /\ e.deletable = {}
        /\ e.doomed = d.doomed \cup zero /\ e.synced = d.synced \ zero
    <2>1. /\ DecRefBy(d, times).lastFiles = d.lastFiles
          /\ DecRefBy(d, times).deletable = d.deletable
          /\ DecRefBy(d, times).doomed = d.doomed \cup zero
          /\ DecRefBy(d, times).synced = d.synced \ zero
          /\ IsRecord(DecRefBy(d, times))
      <3> HIDE DEF times, zero
      <3> QED
        BY <1>1 DEF DecRefBy, IsRecord, Exact
    <2>2. e = [DecRefBy(d, times) EXCEPT !.commits = d.commits \ V]
      BY DEF DeleteCommits
    <2> HIDE DEF times, zero, e
    <2> QED
      BY <2>1, <2>2 DEF IsRecord, Settled
  <1>3. Exact(e, T)
    BY ExactDeleteCommits
  <1>4. /\ \A f : f \in Held(d, T) <=> Count(d.refCounts, f) # 0
        /\ \A f : f \in Held(e, T) <=> Count(e.refCounts, f) # 0
    BY <1>3, HeldCounts
  <1> HIDE DEF e
  <1>f. IsFiniteSet(d.commits) /\ IsFiniteSet(V)
    BY FS_Subset DEF Exact
  <1>5. ASSUME NEW f
        PROVE  f \in zero <=> f \in Held(d, T) \ Held(e, T)
    <2> DEFINE cd == Count(d.refCounts, f)
               ce == Count(e.refCounts, f)
               hv == Holders(V, f)
    <2>1. f \in Held(d, T) \ Held(e, T) <=> cd # 0 /\ ce = 0
      BY <1>4
    <2>2. cd \in Nat /\ hv \in Nat /\ ce \in Nat /\ Holders(d.commits, f) \in Nat
      BY <1>3, <1>f, ExactCounts, HoldersType
    <2>3. ce = cd - hv
      <3>1. Holders(d.commits \ V, f) = Holders(d.commits, f) - hv
        BY <1>f, HoldersRemove
      <3>2. cd = Ref(f, d.lastFiles[1]) + Ref(f, d.lastFiles[2])
                   + Holders(d.commits, f) + Ref(f, T)
        BY DEF Exact
      <3>3. ce = Ref(f, e.lastFiles[1]) + Ref(f, e.lastFiles[2])
                   + Holders(e.commits, f) + Ref(f, T)
        BY <1>3 DEF Exact
      <3>4. \A F : Ref(f, F) \in Nat
        BY DEF Ref
      <3>5. e.lastFiles = d.lastFiles /\ e.commits = d.commits \ V
        BY <1>2
      <3> HIDE DEF cd, ce, hv
      <3> QED
        BY <2>2, <3>1, <3>2, <3>3, <3>4, <3>5
    <2>4. f \in held <=> hv # 0
      <3> DEFINE S == {c \in V : f \in c.files}
      <3>1. IsFiniteSet(S)
        BY <1>f, FS_Subset
      <3>2. hv = 0 <=> S = {}
        BY <3>1, FS_EmptySet DEF Holders
      <3>3. S = {} <=> f \notin held
        OBVIOUS
      <3> QED
        BY <3>2, <3>3
    <2>5. f \in zero <=> f \in held /\ cd = hv
      OBVIOUS
    <2> HIDE DEF zero, held, cd, ce, hv
    <2> QED
      BY <2>1, <2>2, <2>3, <2>4, <2>5
  <1>6. zero = Held(d, T) \ Held(e, T)
    BY <1>5
  <1>7. Releases(d, T, e, T)
    <2> HIDE DEF zero
    <2> QED
      BY <1>2, <1>6 DEF Releases
  <1> QED
    BY <1>2, <1>7 DEF e

\* e holds the files F of a new commit point, and gives up what nobody holds.
MakesPoint(d, T, F, e) ==
    LET freed == (Held(d, T) \cup F) \ Held(e, T)
    IN  /\ e.deletable = {} /\ e.lastFiles = d.lastFiles
        /\ e.doomed = d.doomed \cup freed
        /\ e.synced = d.synced \ freed
        /\ Held(e, T) \subseteq Held(d, T) \cup F

\* checkpoint(segmentInfos, true): the new commit point holds its files,
\* unless the policy takes it away at once.
LEMMA ReleasesCommitCheckpoint ==
    ASSUME NEW d, NEW T, NEW g, NEW F, NEW s, Exact(d, T), Settled(d),
           [generation |-> g, files |-> F] \notin d.commits
    PROVE  MakesPoint(d, T, F, CommitCheckpoint(d, g, F, s))
  <1> DEFINE p == [generation |-> g, files |-> F]
             d0 == DeletePendingFiles(d)
             d1 == IncRef(d0, F)
             d2 == [d1 EXCEPT !.commits = d.commits \cup {p}]
             V == PolicyVictims(d2.commits, s)
             e == DeleteCommits(d2, V)
  <1>0. /\ Exact(d0, T) /\ IsRecord(d0) /\ d0.commits = d.commits
        /\ d0.lastFiles = d.lastFiles
        /\ d0.deletable = {} /\ d0.doomed = d.doomed /\ d0.synced = d.synced
    <2>1. /\ d0.deletable = {} /\ d0.doomed = d.doomed /\ d0.synced = d.synced
      BY DEF DeletePendingFiles, Exact, IsRecord, Settled
    <2> QED
      BY <2>1, ExactPending DEF Exact
  <1>1. /\ IsFiniteSet(d.commits)
        /\ \A f : Count(d0.refCounts, f) \in Int
        /\ \A f : Count(d0.refCounts, f) =
                     Ref(f, d.lastFiles[1]) + Ref(f, d.lastFiles[2])
                       + Holders(d.commits, f) + Ref(f, T)
        /\ \A f : Holders(d.commits, f) \in Nat
    <2>1. /\ \A f : Count(d0.refCounts, f) \in Int
          /\ \A f : Holders(d.commits, f) \in Nat
      BY <1>0, ExactCounts
    <2>2. \A f : Count(d0.refCounts, f) =
                    Ref(f, d0.lastFiles[1]) + Ref(f, d0.lastFiles[2])
                      + Holders(d0.commits, f) + Ref(f, T)
      BY <1>0 DEF Exact
    <2>3. IsFiniteSet(d.commits)
      BY DEF Exact
    <2> HIDE DEF d0
    <2> QED
      BY <1>0, <2>1, <2>2, <2>3
  <1> HIDE DEF d0
  <1>2. /\ IsRecord(d1) /\ d1.lastFiles = d.lastFiles
        /\ d1.deletable = {} /\ d1.doomed = d.doomed /\ d1.synced = d.synced
    BY <1>0, IncRefFields
  <1>2c. \A f : Count(d1.refCounts, f) = Count(d0.refCounts, f) + Ref(f, F)
    BY <1>0, <1>1, IncRefCounts
  <1> HIDE DEF d1
  <1>3. /\ IsRecord(d2) /\ d2.lastFiles = d.lastFiles
        /\ d2.commits = d.commits \cup {p} /\ d2.refCounts = d1.refCounts
        /\ d2.deletable = {} /\ d2.doomed = d.doomed /\ d2.synced = d.synced
    BY <1>2 DEF IsRecord
  <1>4. p.files = F /\ p \notin d.commits
    OBVIOUS
  <1>8. CommitCheckpoint(d, g, F, s) = e
    BY DEF CommitCheckpoint, d1, d0
  <1> HIDE DEF d2, p
  <1>5. IsFiniteSet(d2.commits)
    BY <1>1, <1>3, FS_AddElement
  <1>6. ASSUME NEW f
        PROVE  Count(d2.refCounts, f) =
                   Ref(f, d2.lastFiles[1]) + Ref(f, d2.lastFiles[2])
                     + Holders(d2.commits, f) + Ref(f, T)
    <2>1. Holders(d2.commits, f) = Holders(d.commits, f) + Ref(f, F)
      BY <1>1, <1>3, <1>4, HoldersAdd
    <2>2. Count(d2.refCounts, f) =
              Ref(f, d.lastFiles[1]) + Ref(f, d.lastFiles[2])
                + Holders(d.commits, f) + Ref(f, T) + Ref(f, F)
      BY <1>1, <1>2c, <1>3
    <2>3. \A G : Ref(f, G) \in Int
      BY DEF Ref
    <2> QED
      BY <1>1, <1>3, <2>1, <2>2, <2>3
  <1>7. Exact(d2, T)
    BY <1>3, <1>5, <1>6 DEF Exact
  <1>9. Held(d2, T) = Held(d, T) \cup F
    <2>1. UNION {c.files : c \in d2.commits} = (UNION {c.files : c \in d.commits}) \cup F
      BY <1>3, <1>4
    <2> QED
      BY <1>3, <2>1 DEF Held
  <1>10. V \subseteq d2.commits
    BY VictimsAreCommits
  <1> HIDE DEF V
  <1>11. Releases(d2, T, e, T) /\ e.lastFiles = d2.lastFiles
         /\ e.commits = d2.commits \ V
    <2>1. Settled(d2)
      BY <1>3 DEF Settled
    <2> QED
      BY <2>1, <1>7, <1>10, ReleasesDeleteCommits, ZenonT(60)
  <1>12. Held(e, T) \subseteq Held(d2, T)
    <2> HIDE DEF e
    <2> QED
      BY <1>11 DEF Held
  <1> HIDE DEF e
  <1> QED
    BY <1>3, <1>8, <1>9, <1>11, <1>12 DEF Releases, MakesPoint

\* e gives up files of S besides, none that is held.
Spares(d, T, S, e) ==
    /\ e.deletable = d.deletable /\ e.lastFiles = d.lastFiles
    /\ e.synced = d.synced /\ e.commits = d.commits
    /\ d.doomed \subseteq e.doomed
    /\ e.doomed \subseteq d.doomed \cup (S \ Held(d, T))
    /\ Held(e, T) = Held(d, T)

\* refresh gives up nothing that is held.
LEMMA RefreshSpares ==
    ASSUME NEW d, NEW T, NEW S, Exact(d, T)
    PROVE  Spares(d, T, S, Refresh(d, S))
  <1> DEFINE e == Refresh(d, S)
  <1>1. /\ e.deletable = d.deletable /\ e.lastFiles = d.lastFiles
        /\ e.synced = d.synced /\ e.commits = d.commits
        /\ e.doomed = d.doomed \cup (S \ DOMAIN d.refCounts)
    BY DEF Refresh, Exact, IsRecord
  <1>2. \A f : f \in Held(d, T) => f \in DOMAIN d.refCounts
    BY HeldCounts DEF Count
  <1> HIDE DEF e
  <1>3. Held(e, T) = Held(d, T)
    BY <1>1 DEF Held
  <1> QED
    BY <1>1, <1>2, <1>3 DEF e, Spares

\* close lets go of what the last checkpoint held.
LEMMA ReleasesClose ==
    ASSUME NEW d, NEW T, Exact(d, T), Settled(d)
    PROVE  /\ Releases(d, T, CloseDeleter(d), T)
           /\ CloseDeleter(d).lastFiles[1] = {}
           /\ CloseDeleter(d).lastFiles[2] = {}
           /\ CloseDeleter(d).commits = d.commits
  <1> DEFINE L1 == d.lastFiles[1]
             L2 == d.lastFiles[2]
             d1 == DecRef(d, L1)
             d2 == DecRef(d1, L2)
             d3 == [d2 EXCEPT !.lastFiles = <<{}, {}>>]
             e == CloseDeleter(d)
             c(x, f) == Count(x.refCounts, f)
             zero1 == {f \in L1 : c(d, f) = 1}
             zero2 == {f \in L2 : c(d1, f) = 1}
  <1>c. \A f : c(d, f) \in Nat /\ Holders(d.commits, f) \in Nat
    BY ExactCounts
  <1>x. \A f : c(d, f) = Ref(f, L1) + Ref(f, L2) + Holders(d.commits, f) + Ref(f, T)
    BY DEF Exact
  <1>r. \A f, F : Ref(f, F) \in {0, 1} /\ (f \in F <=> Ref(f, F) = 1)
    BY DEF Ref
  <1>1. /\ IsRecord(d1) /\ d1.commits = d.commits /\ d1.deletable = {}
        /\ d1.doomed = d.doomed \cup zero1 /\ d1.synced = d.synced \ zero1
    BY DecRefFields DEF Exact, Settled
  <1>1c. \A f : c(d1, f) = c(d, f) - Ref(f, L1)
    BY <1>c, DecRefCounts DEF Exact
  <1>1i. \A f : c(d1, f) \in Int
    BY <1>1c, <1>c, <1>r
  <1>e. e = DeletePendingFiles(d3)
    BY DEF CloseDeleter
  <1> HIDE DEF d1, e
  <1>2. /\ IsRecord(d2) /\ d2.commits = d.commits /\ d2.deletable = {}
        /\ d2.doomed = d1.doomed \cup zero2 /\ d2.synced = d1.synced \ zero2
    BY <1>1, DecRefFields
  <1>2c. \A f : c(d2, f) = c(d1, f) - Ref(f, L2)
    BY <1>1, <1>1i, DecRefCounts
  <1> HIDE DEF d2
  <1>3. /\ e.commits = d.commits /\ e.deletable = {} /\ e.lastFiles = <<{}, {}>>
        /\ e.doomed = d.doomed \cup (zero1 \cup zero2)
        /\ e.synced = d.synced \ (zero1 \cup zero2)
        /\ e.refCounts = d2.refCounts
    <2>1. /\ IsRecord(d3) /\ d3.lastFiles = <<{}, {}>> /\ d3.commits = d.commits
          /\ d3.deletable = {} /\ d3.doomed = d2.doomed /\ d3.synced = d2.synced
          /\ d3.refCounts = d2.refCounts
      BY <1>2 DEF IsRecord
    <2> HIDE DEF d3
    <2>2. /\ e.commits = d3.commits /\ e.deletable = {}
          /\ e.lastFiles = d3.lastFiles /\ e.doomed = d3.doomed
          /\ e.synced = d3.synced /\ e.refCounts = d3.refCounts
      BY <1>e, <2>1 DEF DeletePendingFiles, IsRecord
    <2> HIDE DEF zero1, zero2
    <2> QED
      BY <1>1, <1>2, <2>1, <2>2
  <1>7. Exact(e, T)
    BY ExactClose DEF e
  <1>8. /\ \A f : f \in Held(d, T) <=> c(d, f) # 0
        /\ \A f : f \in Held(e, T) <=> c(d2, f) # 0
    BY <1>3, <1>7, HeldCounts
  <1>9. ASSUME NEW f
        PROVE  f \in zero1 \cup zero2 <=> f \in Held(d, T) \ Held(e, T)
    <2>1. f \in Held(d, T) \ Held(e, T) <=> c(d, f) # 0 /\ c(d2, f) = 0
      BY <1>8
    <2>2. f \in zero1 \cup zero2 <=> \/ Ref(f, L1) = 1 /\ c(d, f) = 1
                                     \/ Ref(f, L2) = 1 /\ c(d1, f) = 1
      BY <1>r
    <2>3. /\ c(d, f) \in Nat /\ Holders(d.commits, f) \in Nat
          /\ c(d, f) = Ref(f, L1) + Ref(f, L2) + Holders(d.commits, f) + Ref(f, T)
          /\ c(d1, f) = c(d, f) - Ref(f, L1)
          /\ c(d2, f) = c(d1, f) - Ref(f, L2)
      BY <1>c, <1>x, <1>1c, <1>2c
    <2>4. /\ Ref(f, L1) \in {0, 1} /\ Ref(f, L2) \in {0, 1} /\ Ref(f, T) \in {0, 1}
      BY <1>r
    <2> HIDE DEF zero1, zero2, c, L1, L2
    <2>5. /\ c(d, f) = Ref(f, L1) + Ref(f, L2) + Holders(d.commits, f) + Ref(f, T) + 0 + 0
          /\ c(d1, f) = Ref(f, L2) + Holders(d.commits, f) + Ref(f, T) + 0 + 0
          /\ c(d2, f) = Holders(d.commits, f) + Ref(f, T) + 0 + 0
      BY <2>3, <2>4
    <2>6. c(d, f) # 0 /\ c(d2, f) = 0
             <=> \/ Ref(f, L1) = 1 /\ c(d, f) = 1
                 \/ Ref(f, L2) = 1 /\ c(d1, f) = 1
      BY <2>3, <2>4, <2>5, LastReference
    <2> QED
      BY <2>1, <2>2, <2>6
  <1>10. zero1 \cup zero2 = Held(d, T) \ Held(e, T)
    BY <1>9
  <1>11. Releases(d, T, e, T)
    <2> HIDE DEF zero1, zero2
    <2> QED
      BY <1>3, <1>10 DEF Releases
  <1> QED
    BY <1>3, <1>11 DEF e

\* The deleter e of a writer that finds the files F, the commit points C and
\* the incoming files I
StartsWith(F, C, I, s, y, e) ==
    LET held == UNION {c.files : c \in C}
        freed == (I \cup held) \ Held(e, {})
    IN  /\ e.deletable = {}
        /\ e.lastFiles[1] = I /\ e.lastFiles[2] = {}
        /\ e.commits = C \ PolicyVictims(C, s)
        /\ e.doomed = (F \ held) \cup freed
        /\ e.synced = y \ freed
        /\ Held(e, {}) \subseteq I \cup held

\* The constructor gives up what no commit point and not the incoming
\* segmentInfos hold, and the commit points the policy does not keep.
LEMMA InitReleases ==
    ASSUME NEW F, NEW C, NEW I, NEW s, NEW y, IsFiniteSet(C)
    PROVE  StartsWith(F, C, I, s, y, InitDeleter(F, C, I, s, y))
  <1> DEFINE held == UNION {c.files : c \in C}
             d0 == [NoDeleter EXCEPT
                      !.refCounts = [f \in F \cup held |-> Holders(C, f)],
                      !.commits = C, !.doomed = F \ held, !.synced = y]
             d1 == Checkpoint(d0, I, {})
             V == PolicyVictims(C, s)
             e == InitDeleter(F, C, I, s, y)
  <1>1. /\ IsRecord(d0) /\ d0.commits = C /\ d0.lastFiles = <<{}, {}>>
        /\ d0.refCounts = [f \in F \cup held |-> Holders(C, f)]
        /\ d0.deletable = {} /\ d0.doomed = F \ held /\ d0.synced = y
    BY DEF NoDeleter, IsRecord
  <1>2. ASSUME NEW f
        PROVE  Count(d0.refCounts, f) = Holders(C, f)
    <2>1. CASE f \in F \cup held
      BY <1>1, <2>1 DEF Count
    <2>2. CASE f \notin F \cup held
      <3>1. {c \in C : f \in c.files} = {}
        BY <2>2
      <3>2. Holders(C, f) = 0
        BY <3>1, FS_EmptySet DEF Holders
      <3> QED
        BY <1>1, <2>2, <3>2 DEF Count
    <2> QED
      BY <2>1, <2>2
  <1>3. e = DeleteCommits(d1, V)
    BY DEF InitDeleter
  <1> HIDE DEF d0, e
  <1>4. \A f : Holders(C, f) \in Nat
    BY HoldersType
  <1>5. \A f : Ref(f, <<{}, {}>>[1]) = 0 /\ Ref(f, <<{}, {}>>[2]) = 0
               /\ Ref(f, {}) = 0
    BY DEF Ref
  <1>6. Exact(d0, {})
    BY <1>1, <1>2, <1>4, <1>5 DEF Exact
  <1>7. /\ Exact(d1, {}) /\ d1.commits = C 
        /\ d1.lastFiles[1] = I /\ d1.lastFiles[2] = {}
        /\ Releases(d0, {}, d1, {}) /\ Settled(d1)
    <2>1. Settled(d0) /\ d0.commits = C
      BY <1>1 DEF Settled
    <2>2. Exact(d1, {})
      BY <1>6, ExactCheckpoint
    <2>3. /\ Releases(d0, {}, d1, {}) /\ d1.commits = d0.commits
          /\ d1.lastFiles[1] = I /\ d1.lastFiles[2] = {}
      <3>1. ASSUME NEW T, NEW O, Exact(d0, T)
            PROVE  /\ Releases(d0, T, Checkpoint(d0, I, O), T)
                   /\ Checkpoint(d0, I, O).lastFiles[1] = I
                   /\ Checkpoint(d0, I, O).lastFiles[2] = O
                   /\ Checkpoint(d0, I, O).commits = d0.commits
        BY <2>1, <3>1, ReleasesCheckpoint
      <3> QED
        BY <1>6, <3>1
    <2> QED
      BY <2>1, <2>2, <2>3 DEF Releases, Settled
  <1>h0. Held(d0, {}) = held
    BY <1>1 DEF Held
  <1>8. V \subseteq d1.commits
    BY <1>7, VictimsAreCommits
  <1> HIDE DEF d1, V
  <1>h1. Held(d1, {}) = I \cup held
    BY <1>7 DEF Held
  <1>9. /\ Releases(d1, {}, e, {}) /\ e.commits = C \ V
        /\ e.lastFiles[1] = I /\ e.lastFiles[2] = {}
    <2>1. ASSUME NEW T, Exact(d1, T)
          PROVE  /\ Releases(d1, T, DeleteCommits(d1, V), T)
                 /\ DeleteCommits(d1, V).lastFiles = d1.lastFiles
                 /\ DeleteCommits(d1, V).commits = d1.commits \ V
      <3>1. Settled(d1)
        BY <1>7
      <3> QED
        BY <1>8, <2>1, <3>1, ReleasesDeleteCommits
    <2> QED
      BY <1>3, <1>7, <2>1
  <1>h2. Held(e, {}) \subseteq I \cup held
    BY <1>9 DEF Held
  <1> HIDE DEF held
  <1>10. /\ d1.doomed = F \ held /\ d1.synced = y
    BY <1>1, <1>7, <1>h0, <1>h1 DEF Releases
  <1>11. /\ e.deletable = {}
         /\ e.doomed = (F \ held) \cup ((I \cup held) \ Held(e, {}))
         /\ e.synced = y \ ((I \cup held) \ Held(e, {}))
    BY <1>9, <1>10, <1>h1 DEF Releases
  <1> QED
    BY <1>9, <1>11, <1>h2 DEF e, held, V, StartsWith
=============================================================================
