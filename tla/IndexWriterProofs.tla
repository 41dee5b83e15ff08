-------------------------- MODULE IndexWriterProofs --------------------------
(***************************************************************************)
(* For every value of the bounds and switches, the reference counts of the *)
(* deleter stay exact (RefCountsExact).                                    *)
(***************************************************************************)
EXTENDS IndexWriter, IndexFileDeleterProofs, WellFoundedInduction,
        SequenceTheorems

-----------------------------------------------------------------------------
(***************************************************************************)
(* Finding the current commit.                                             *)
(***************************************************************************)
\* A set of natural numbers that is not empty has a least element.
LEMMA LeastNat ==
    ASSUME NEW S \in SUBSET Nat, S # {}
    PROVE  \E m \in S : \A n \in S : m <= n
  <1>1. IsWellFoundedOn(OpToRel(<, Nat), Nat)
    BY NatLessThanWellFounded
  <1>2. PICK m \in S : \A n \in S : <<n, m>> \notin OpToRel(<, Nat)
    BY <1>1, WFMin
  <1>3. \A n \in S : ~(n < m)
    BY <1>2 DEF OpToRel
  <1> QED
    BY <1>3

\* A set of natural numbers that is bounded and not empty has a greatest one.
LEMMA GreatestNat ==
    ASSUME NEW S \in SUBSET Nat, S # {}, NEW b \in Nat, \A n \in S : n <= b
    PROVE  \E m \in S : \A n \in S : n <= m
  <1> DEFINE U == {u \in Nat : \A n \in S : n <= u}
  <1>1. b \in U
    OBVIOUS
  <1>2. PICK m \in U : \A u \in U : m <= u
    BY <1>1, LeastNat
  <1>3. m \in S
    <2> SUFFICES ASSUME m \notin S PROVE FALSE
      OBVIOUS
    <2>1. \A n \in S : n < m
      BY <1>2
    <2>2. PICK n \in S : TRUE
      OBVIOUS
    <2>3. m - 1 \in Nat
      BY <1>2, <2>1, <2>2
    <2>4. m - 1 \in U
      BY <1>2, <2>1, <2>3
    <2> QED
      BY <1>2, <2>3, <2>4
  <1> QED
    BY <1>2, <1>3

\* The generations in use are naturals, and there is a last one.
Generations(gens) == gens \subseteq Nat /\ \E b \in Nat : \A g \in gens : g <= b

\* What FindSegmentsFile returns is there, and no readable commit is newer.
LEMMA FindSegmentsNewest ==
    ASSUME NEW F, NEW S, NEW s \in Nat \cup {None}, Generations(DOMAIN S),
           FindSegments(F, S, s) # None
    PROVE  /\ FindSegments(F, S, s) \in DOMAIN S
           /\ \A h \in DOMAIN S :
                  Readable(F, S, h) => h <= FindSegments(F, S, s)
  <1> DEFINE gens == CommitGenerations(F, S)
             genA == CurrentSegmentGeneration(F, S)
             gen == IF s > genA THEN s ELSE genA
             ok(g) == g \in DOMAIN S /\ Readable(F, S, g)
             ahead == {g \in (gen + 1)..(gen + LookaheadCount) : ok(g)}
  <1>1. gens \in SUBSET Nat /\ \A h \in DOMAIN S : Readable(F, S, h) => h \in gens
    BY DEF Generations, CommitGenerations, Readable
  <1>2. genA \in Nat \cup {None} /\ \A h \in gens : h <= genA
    <2>1. CASE gens = {}
      BY <2>1 DEF CurrentSegmentGeneration, None
    <2>2. CASE gens # {}
      <3>1. \E g \in gens : \A h \in gens : h <= g
        BY <1>1, <2>2, GreatestNat DEF Generations, CommitGenerations
      <3>2. genA = CHOOSE g \in gens : \A h \in gens : h <= g
        BY <2>2 DEF CurrentSegmentGeneration
      <3> QED
        BY <1>1, <3>1, <3>2
    <2> QED
      BY <2>1, <2>2
  <1>3. gen \in Nat \cup {None} /\ \A h \in gens : h <= gen
    BY <1>1, <1>2 DEF None
  <1>4. FindSegments(F, S, s) =
            IF gen = None THEN None
            ELSE IF ok(gen) THEN gen
            ELSE IF gen > 1 /\ ok(gen - 1) THEN gen - 1
            ELSE IF ahead # {} THEN CHOOSE g \in ahead : \A h \in ahead : g <= h
            ELSE None
    BY DEF FindSegments
  <1>5. ahead = {}
    BY <1>1, <1>3 DEF LookaheadCount, None
  <1> HIDE DEF gens, genA, gen, ahead
  <1>6. CASE ok(gen)
    BY <1>1, <1>3, <1>4, <1>6
  <1>7. CASE ~ok(gen) /\ gen > 1 /\ ok(gen - 1)
    <2>1. FindSegments(F, S, s) = gen - 1
      BY <1>3, <1>4, <1>7 DEF None
    <2>2. \A h \in DOMAIN S : Readable(F, S, h) => h # gen
      BY <1>7
    <2>3. \A h \in DOMAIN S : Readable(F, S, h) => h \in Nat /\ h <= gen
      BY <1>1, <1>3
    <2> QED
      BY <1>3, <1>7, <2>1, <2>2, <2>3 DEF None
  <1> QED
    BY <1>4, <1>5, <1>6, <1>7

-----------------------------------------------------------------------------
(***************************************************************************)
(* The inductive invariant.                                                *)
(***************************************************************************)
\* The files of the commit under way
Committing == InfosFiles(toSync.segs)

IsInfos(si) == /\ DOMAIN si = {"segs", "generation", "lastGeneration",
                               "counter"}
               /\ si.generation \in Nat \cup {None}

\* Where the user thread is determines whether a commit is prepared, and
\* toSync is set only during a commit or while one is prepared.
CallInv ==
    /\ ~pending /\ pc \notin {"sync", "turn", "unwind"} => toSync = NoInfos
    /\ pc \in {"fcWrite", "fcSync", "fcGen", "fcCheckpoint"} => pending
    /\ pc \in {"flushed", "sync", "turn", "unwind"} => ~pending
    /\ status # "open" => ~pending /\ pc = "idle"

\* The counts are exact.
CountsInv == status = "open" => Exact(ifd, Committing)

\* A commit that is prepared has a generation of its own: the deleter's
\* commit points are all older.
GenInv ==
    /\ IsInfos(infos) /\ IsInfos(toSync)
    /\ Generations(DOMAIN sis)
    /\ segGen \in Nat \cup {None}
    /\ pending => toSync.generation \in Nat
    /\ status = "open" =>
          \A c \in ifd.commits :
              /\ c.generation \in Nat
              /\ c.generation <= infos.generation
              /\ pending => c.generation < toSync.generation

IInv == CallInv /\ CountsInv /\ GenInv

-----------------------------------------------------------------------------
(***************************************************************************)
(* The pieces of the handlers keep the counts exact and the commit points. *)
(***************************************************************************)
Fine(w, C, T) == /\ DOMAIN w = {"files", "created", "segs", "ifd"}
                 /\ Exact(w.ifd, T)
                 /\ w.ifd.commits = C

\* Changing other fields, or the deleter for one that is exact, is fine.
LEMMA FineSegs ==
    ASSUME NEW w, NEW C, NEW T, NEW segs, NEW F, Fine(w, C, T)
    PROVE  /\ Fine([w EXCEPT !.segs = segs], C, T)
           /\ Fine(Create(w, F), C, T)
           /\ Fine([Create(w, F) EXCEPT !.segs = segs], C, T)
  BY DEF Fine, Create

\* Replacing the deleter by one that is exact is fine.
LEMMA FineDeleter ==
    ASSUME NEW w, NEW C, NEW T, NEW d, Fine(w, C, T),
           Exact(d, T), d.commits = C
    PROVE  Fine([w EXCEPT !.ifd = d], C, T)
  BY DEF Fine

\* So is a checkpoint.
LEMMA FineCheckpoint ==
    ASSUME NEW w, NEW C, NEW T, NEW open, Fine(w, C, T)
    PROVE  Fine(CheckpointW(w, open), C, T)
  <1> DEFINE d == Checkpoint(w.ifd, InfosFiles(w.segs), open)
  <1>1. Exact(d, T) /\ d.commits = C
    BY ExactCheckpoint DEF Fine
  <1>2. CheckpointW(w, open) = [w EXCEPT !.ifd = d]
    BY DEF CheckpointW
  <1> HIDE DEF d
  <1> QED
    BY <1>1, <1>2, FineDeleter

\* So is the removal of files that nobody references.
LEMMA FineRefresh ==
    ASSUME NEW w, NEW C, NEW T, NEW S, Fine(w, C, T)
    PROVE  Fine([w EXCEPT !.ifd = Refresh(w.ifd, S)], C, T)
  <1>1. Exact(Refresh(w.ifd, S), T) /\ Refresh(w.ifd, S).commits = C
    BY ExactRefresh DEF Fine
  <1> QED
    BY <1>1, FineDeleter

\* flushDocStores is fine.
LEMMA FineFlushDocStores ==
    ASSUME NEW w, NEW C, NEW T, NEW store, Fine(w, C, T)
    PROVE  Fine(FlushDocStores(w, store), C, T)
  <1> DEFINE segs1 == [k \in DOMAIN w.segs |->
                         IF w.segs[k].ds = store
                         THEN [w.segs[k] EXCEPT !.dsc = TRUE] ELSE w.segs[k]]
             w0 == [Create(w, {Cfx(store)}) EXCEPT !.segs = segs1]
             w1 == CheckpointW(w0, {})
  <1>0. FlushDocStores(w, store) =
            IF UseCompoundFile
            THEN [w1 EXCEPT !.ifd = Refresh(w1.ifd, {Store(store)})] ELSE w
    BY DEF FlushDocStores
  <1>1. Fine(w0, C, T)
    BY FineSegs
  <1> HIDE DEF w0
  <1>2. Fine(w1, C, T)
    BY <1>1, FineCheckpoint
  <1> HIDE DEF w1
  <1>3. Fine([w1 EXCEPT !.ifd = Refresh(w1.ifd, {Store(store)})], C, T)
    BY <1>2, FineRefresh
  <1> QED
    BY <1>0, <1>3

\* A new segment, written and checkpointed, is fine.
LEMMA FineAddSegment ==
    ASSUME NEW w, NEW C, NEW T, NEW name, NEW ds, NEW dsc, NEW open,
           Fine(w, C, T)
    PROVE  Fine(AddSegment(w, name, ds, dsc, open), C, T)
  <1> DEFINE seg == [name |-> name, ds |-> ds, dsc |-> dsc, cfs |-> FALSE,
                     delGen |-> 0]
             w0 == [Create(w, {Core(name)}) EXCEPT !.segs = Append(w.segs, seg)]
  <1>0. AddSegment(w, name, ds, dsc, open) = CheckpointW(w0, open)
    BY DEF AddSegment
  <1>1. Fine(w0, C, T)
    BY FineSegs
  <1> HIDE DEF w0
  <1> QED
    BY <1>0, <1>1, FineCheckpoint

\* Its compound file is.
LEMMA FineBuildCompound ==
    ASSUME NEW w, NEW C, NEW T, NEW name, NEW open, Fine(w, C, T)
    PROVE  Fine(BuildCompound(w, name, open), C, T)
  <1> DEFINE segs1 == [k \in DOMAIN w.segs |->
                         IF w.segs[k].name = name
                         THEN [w.segs[k] EXCEPT !.cfs = TRUE] ELSE w.segs[k]]
             w0 == [Create(w, {Cfs(name)}) EXCEPT !.segs = segs1]
  <1>0. BuildCompound(w, name, open) =
            IF UseCompoundFile THEN CheckpointW(w0, open) ELSE w
    BY DEF BuildCompound
  <1>1. Fine(w0, C, T)
    BY FineSegs
  <1> HIDE DEF w0
  <1>2. Fine(CheckpointW(w0, open), C, T)
    BY <1>1, FineCheckpoint
  <1> QED
    BY <1>0, <1>2

\* Saving the deletes of pooled readers is.
LEMMA FineWriteDeletes ==
    ASSUME NEW w, NEW C, NEW T, NEW names, NEW open, Fine(w, C, T)
    PROVE  Fine(WriteDeletes(w, names, open), C, T)
  <1> DEFINE segs1 == [k \in DOMAIN w.segs |->
                         IF w.segs[k].name \in names
                         THEN [w.segs[k] EXCEPT !.delGen = @ + 1]
                         ELSE w.segs[k]]
             new == {Del(segs1[k].name, segs1[k].delGen) :
                        k \in {j \in DOMAIN segs1 : segs1[j].name \in names}}
             w0 == [Create(w, new) EXCEPT !.segs = segs1]
  <1>0. WriteDeletes(w, names, open) =
            IF names = {} THEN w ELSE CheckpointW(w0, open)
    BY DEF WriteDeletes
  <1>1. Fine(w0, C, T)
    <2> HIDE DEF segs1, new
    <2> QED
      BY FineSegs
  <1> HIDE DEF w0
  <1>2. Fine(CheckpointW(w0, open), C, T)
    BY <1>1, FineCheckpoint
  <1> QED
    BY <1>0, <1>2

\* doFlushInternal is, with everything it calls.
LEMMA FineFlushed ==
    ASSUME NEW w, NEW C, NEW T, NEW c, NEW names, Fine(w, C, T)
    PROVE  /\ Fine(StoresFlushed(w, c), C, T)
           /\ Fine(SegmentFlushed(w, c), C, T)
           /\ Fine(FlushedW(w, c, names), C, T)
  <1>1. Fine(StoresFlushed(w, c), C, T)
    BY FineFlushDocStores DEF StoresFlushed
  <1>2. Fine(SegmentFlushed(w, c), C, T)
    BY <1>1, FineAddSegment DEF SegmentFlushed
  <1> DEFINE w1 == IF ram = None THEN SegmentFlushed(w, c)
                   ELSE BuildCompound(SegmentFlushed(w, c), ram, OpenAfter(c))
             w2 == WriteDeletes(w1, names, OpenAfter(c))
  <1>3. Fine(w1, C, T)
    BY <1>2, FineBuildCompound
  <1>4. FlushedW(w, c, names) =
            IF ram = None THEN w2 ELSE CheckpointW(w2, OpenAfter(c))
    BY DEF FlushedW
  <1> HIDE DEF w1
  <1>5. Fine(w2, C, T)
    BY <1>3, FineWriteDeletes
  <1> HIDE DEF w2
  <1>6. Fine(FlushedW(w, c, names), C, T)
    BY <1>4, <1>5, FineCheckpoint
  <1> QED
    BY <1>1, <1>2, <1>6

\* A file that is to be deleted leaves a fine record fine.
LEMMA FineDoomed ==
    ASSUME NEW w, NEW C, NEW T, NEW F, Fine(w, C, T)
    PROVE  Fine([w EXCEPT !.ifd.doomed = @ \cup F], C, T)
  <1> DEFINE d == [w.ifd EXCEPT !.doomed = @ \cup F]
  <1>1. [w EXCEPT !.ifd.doomed = @ \cup F] = [w EXCEPT !.ifd = d]
    BY DEF Fine
  <1>2. /\ IsRecord(d) /\ d.commits = w.ifd.commits
        /\ d.refCounts = w.ifd.refCounts /\ d.lastFiles = w.ifd.lastFiles
    BY DEF Fine, Exact, IsRecord
  <1> HIDE DEF d
  <1>3. Exact(d, T) /\ d.commits = C
    BY <1>2 DEF Fine, Exact
  <1> QED
    BY <1>1, <1>3, FineDeleter

\* So is a flush that throws.
LEMMA FineFlushFailed ==
    ASSUME NEW w, NEW C, NEW T, NEW c, Fine(w, C, T)
    PROVE  Fine(FlushFailedW(w, c), C, T) /\ Fine(CompoundFailedW(w, c), C, T)
  <1>1. Fine(Create(StoresFlushed(w, c), {Core(ram)}), C, T)
    BY FineFlushed, FineSegs
  <1>2. Fine(FlushFailedW(w, c), C, T)
    BY <1>1, FineRefresh DEF FlushFailedW
  <1> DEFINE w1 == Create(SegmentFlushed(w, c), {Cfs(ram)})
  <1>3. Fine(w1, C, T)
    BY FineFlushed, FineSegs
  <1>4. CompoundFailedW(w, c) = [w1 EXCEPT !.ifd.doomed = @ \cup {Cfs(ram)}]
    BY DEF CompoundFailedW
  <1> HIDE DEF w1
  <1> QED
    BY <1>2, <1>3, <1>4, FineDoomed

\* And one that throws while it builds the doc store's .cfx.
LEMMA FineStoresFailed ==
    ASSUME NEW C, NEW T, Fine(W, C, T)
    PROVE  Fine(StoresFailedW, C, T)
  <1> DEFINE w == Create(W, {Cfx(docStore)})
  <1>1. Fine(w, C, T)
    BY FineSegs
  <1>2. StoresFailedW = [w EXCEPT !.ifd.doomed = @ \cup {Cfx(docStore)}]
    BY DEF StoresFailedW
  <1> HIDE DEF w
  <1> QED
    BY <1>1, <1>2, FineDoomed

-----------------------------------------------------------------------------
(***************************************************************************)
(* Every action keeps the counts and the generations.                      *)
(***************************************************************************)
\* A subset of the generations in use has a last one too.
LEMMA FewerGenerations ==
    ASSUME NEW G, NEW H, Generations(G), H \subseteq G
    PROVE  Generations(H)
  BY DEF Generations

\* And so has one more generation.
LEMMA OneMoreGeneration ==
    ASSUME NEW G, NEW g \in Nat, Generations(G)
    PROVE  Generations(G \cup {g})
  <1>1. PICK b \in Nat : \A h \in G : h <= b
    BY DEF Generations
  <1>2. \A h \in G \cup {g} : h \in Nat
    BY DEF Generations
  <1>3. CASE g <= b
    BY <1>1, <1>2, <1>3 DEF Generations
  <1>4. CASE ~(g <= b)
    <2>1. \A h \in G \cup {g} : h <= g
      BY <1>1, <1>2, <1>4
    <2> QED
      BY <1>2, <2>1 DEF Generations
  <1> QED
    BY <1>3, <1>4

\* A step that leaves the commit under way, the commit points and the
\* generation alone keeps the invariant when the counts stay exact.
LEMMA QuietStep ==
    ASSUME IInv, status = "open", Exact(ifd', Committing),
           ifd'.commits = ifd.commits,
           IsInfos(infos'), infos'.generation = infos.generation,
           toSync' = toSync, pending' = pending,
           DOMAIN sis' \subseteq DOMAIN sis, segGen' = segGen
    PROVE  CountsInv' /\ GenInv'
  <1>1. Committing' = Committing
    BY DEF Committing
  <1>2. CountsInv'
    BY <1>1 DEF CountsInv
  <1>3. Generations(DOMAIN sis')
    BY FewerGenerations DEF IInv, GenInv
  <1> QED
    BY <1>2, <1>3 DEF IInv, GenInv

\* The handlers' work record starts out fine.
LEMMA FineW ==
    ASSUME IInv, status = "open"
    PROVE  Fine(W, ifd.commits, Committing)
  BY DEF IInv, CountsInv, W, Fine

\* A step that ends in a fine record, with new segments, is quiet.
LEMMA QuietBecomes ==
    ASSUME IInv, status = "open", NEW w, Fine(w, ifd.commits, Committing),
           ifd' = w.ifd, NEW segs, NEW counter,
           infos' = [infos EXCEPT !.segs = segs, !.counter = counter],
           toSync' = toSync, pending' = pending, sis' = sis, segGen' = segGen
    PROVE  CountsInv' /\ GenInv'
  <1>1. Exact(ifd', Committing) /\ ifd'.commits = ifd.commits
    BY DEF Fine
  <1>2. IsInfos(infos') /\ infos'.generation = infos.generation
    BY DEF IInv, GenInv, IsInfos
  <1> QED
    BY <1>1, <1>2, QuietStep

\* So is one that leaves the deleter and the generation alone.
LEMMA QuietSame ==
    ASSUME IInv, status = "open", ifd' = ifd, IsInfos(infos'),
           infos'.generation = infos.generation,
           toSync' = toSync, pending' = pending, sis' = sis, segGen' = segGen
    PROVE  CountsInv' /\ GenInv'
  BY QuietStep DEF IInv, CountsInv

\* A step that ends the life of the writer.
LEMMA QuietForget ==
    ASSUME IInv, Forget, status' # "open", DOMAIN sis' \subseteq DOMAIN sis,
           segGen' \in Nat \cup {None}
    PROVE  IInv'
  <1>1. CallInv'
    BY DEF Forget, GoTo, CallInv
  <1>2. CountsInv'
    BY DEF CountsInv
  <1>3. Generations(DOMAIN sis')
    BY FewerGenerations DEF IInv, GenInv
  <1>4. IsInfos(NoInfos)
    BY DEF IsInfos, NoInfos
  <1>5. GenInv'
    BY <1>3, <1>4 DEF Forget, GenInv
  <1> QED
    BY <1>1, <1>2, <1>5 DEF IInv

\* Steps that change nothing the invariant looks at.
LEMMA StepSame ==
    ASSUME IInv, UNCHANGED <<sis, segGen, ifd, status, infos, toSync, pending,
                             pc>>
    PROVE  IInv'
  BY DEF IInv, CallInv, CountsInv, GenInv, Committing

\* CallInv looks at the user thread only.
LEMMA StepElsewhere ==
    ASSUME IInv, UNCHANGED <<status, toSync, pending, pc>>
    PROVE  CallInv'
  BY DEF IInv, CallInv

\* A flush, in whichever way it ends.
LEMMA StepFlush ==
    ASSUME IInv, status = "open", NEW c \in BOOLEAN, NEW applies \in BOOLEAN,
           \/ FlushSucceeds(c, applies)
           \/ FlushThrows(c)
           \/ CompoundThrows(c)
           \/ StoresThrow,
           UNCHANGED <<sis, segGen, toSync, pending>>
    PROVE  CountsInv' /\ GenInv'
  <1>0. Fine(W, ifd.commits, Committing)
    BY FineW
  <1>1. CASE FlushSucceeds(c, applies)
    <2>1. PICK names : LET w == FlushedW(W, c, names \ HeldByMerge)
                       IN  /\ ifd' = w.ifd
                           /\ infos' = [infos EXCEPT !.segs = w.segs]
      BY <1>1 DEF FlushSucceeds, Becomes
    <2> DEFINE w == FlushedW(W, c, names \ HeldByMerge)
    <2>2. Fine(w, ifd.commits, Committing)
      BY <1>0, FineFlushed
    <2> HIDE DEF w
    <2>3. infos' = [infos EXCEPT !.segs = w.segs, !.counter = infos.counter]
      BY <2>1 DEF IInv, GenInv, IsInfos, w
    <2> QED
      BY <2>1, <2>2, <2>3, QuietBecomes DEF w
  <1>2. CASE FlushThrows(c)
    <2> DEFINE w == FlushFailedW(W, c)
    <2>1. ifd' = w.ifd /\ infos' = [infos EXCEPT !.segs = w.segs]
      BY <1>2 DEF FlushThrows, Becomes
    <2>2. Fine(w, ifd.commits, Committing)
      BY <1>0, FineFlushFailed
    <2> HIDE DEF w
    <2>3. infos' = [infos EXCEPT !.segs = w.segs, !.counter = infos.counter]
      BY <2>1 DEF IInv, GenInv, IsInfos
    <2> QED
      BY <2>1, <2>2, <2>3, QuietBecomes
  <1>3. CASE CompoundThrows(c)
    <2> DEFINE w == CompoundFailedW(W, c)
    <2>1. ifd' = w.ifd /\ infos' = [infos EXCEPT !.segs = w.segs]
      BY <1>3 DEF CompoundThrows, Becomes
    <2>2. Fine(w, ifd.commits, Committing)
      BY <1>0, FineFlushFailed
    <2> HIDE DEF w
    <2>3. infos' = [infos EXCEPT !.segs = w.segs, !.counter = infos.counter]
      BY <2>1 DEF IInv, GenInv, IsInfos
    <2> QED
      BY <2>1, <2>2, <2>3, QuietBecomes
  <1>4. CASE StoresThrow
    <2>1. PICK w \in {W, StoresFailedW} : ifd' = w.ifd
      BY <1>4 DEF StoresThrow, Becomes
    <2>2. infos' = infos
      BY <1>4 DEF StoresThrow
    <2>3. Fine(w, ifd.commits, Committing)
      BY <1>0, <2>1, FineStoresFailed
    <2>4. /\ Exact(ifd', Committing) /\ ifd'.commits = ifd.commits
          /\ IsInfos(infos') /\ infos'.generation = infos.generation
      BY <2>1, <2>2, <2>3 DEF Fine, IInv, GenInv
    <2> QED
      BY <2>4, QuietStep
  <1> QED
    BY <1>1, <1>2, <1>3, <1>4

\* The indexing threads.
LEMMA StepIndexing ==
    ASSUME IInv, AddDocument \/ DeleteDocuments \/ Flush
    PROVE  IInv'
  <1>1. CASE AddDocument
    <2>1. UNCHANGED <<sis, segGen, ifd, status, toSync, pending, pc>>
          /\ status = "open"
      BY <1>1 DEF AddDocument, Indexing, userVars
    <2>2. IsInfos(infos') /\ infos'.generation = infos.generation
      BY <1>1 DEF AddDocument, IInv, GenInv, IsInfos
    <2> QED
      BY <2>1, <2>2, QuietSame, StepElsewhere DEF IInv
  <1>2. CASE DeleteDocuments
    BY <1>2, StepSame DEF DeleteDocuments, dirVars, userVars
  <1>3. CASE Flush
    <2>1. UNCHANGED <<sis, segGen, status, toSync, pending, pc>>
          /\ status = "open"
      BY <1>3 DEF Flush, Indexing, userVars
    <2>2. \E c \in BOOLEAN, applies \in BOOLEAN :
             \/ FlushSucceeds(c, applies) \/ FlushThrows(c)
             \/ CompoundThrows(c) \/ StoresThrow
      BY <1>3 DEF Flush
    <2>3. CountsInv' /\ GenInv'
      BY <2>1, <2>2, StepFlush
    <2> QED
      BY <2>1, <2>3, StepElsewhere DEF IInv
  <1> QED
    BY <1>1, <1>2, <1>3

\* A merge begins.
LEMMA StepMergeInit ==
    ASSUME IInv, NEW i, NEW j, MergeInit(i, j)
    PROVE  IInv'
  <1>1. UNCHANGED <<sis, segGen, status, toSync, pending, pc>>
        /\ status = "open"
    BY DEF MergeInit, LockFree, userVars
  <1>2. PICK names :
          LET w1 == WriteDeletes(W, names, OpenFiles(docStore))
              mds == MergeDocStores(w1.segs, i, j)
              flushes == mds /\ SharesOpenStore(w1.segs, i..j)
              w2 == IF flushes THEN FlushedW(w1, TRUE, {}) ELSE w1
          IN  /\ Becomes(w2)
              /\ infos' = [infos EXCEPT !.segs = w2.segs, !.counter = @ + 1]
    BY DEF MergeInit
  <1> DEFINE w1 == WriteDeletes(W, names, OpenFiles(docStore))
             flushes == /\ MergeDocStores(w1.segs, i, j)
                        /\ SharesOpenStore(w1.segs, i..j)
             w2 == IF flushes THEN FlushedW(w1, TRUE, {}) ELSE w1
  <1>3. Fine(w1, ifd.commits, Committing)
    BY <1>1, FineW, FineWriteDeletes
  <1>4. Becomes(w2) /\ infos' = [infos EXCEPT !.segs = w2.segs,
                                              !.counter = infos.counter + 1]
    BY <1>2 DEF IInv, GenInv, IsInfos
  <1> HIDE DEF w1, flushes
  <1>5. Fine(w2, ifd.commits, Committing)
    BY <1>3, FineFlushed
  <1> HIDE DEF w2
  <1>6. ifd' = w2.ifd
    BY <1>4 DEF Becomes
  <1>7. CountsInv' /\ GenInv'
    BY <1>1, <1>4, <1>5, <1>6, QuietBecomes
  <1> QED
    BY <1>1, <1>7, StepElsewhere DEF IInv

\* It opens its readers, perhaps after a flush.
LEMMA StepMergeOpen ==
    ASSUME IInv, MergeOpen
    PROVE  IInv'
  <1>1. UNCHANGED <<sis, segGen, status, toSync, pending, pc>>
        /\ status = "open"
    BY DEF MergeOpen, LockFree, userVars
  <1>2. \E b \in BOOLEAN : LET w == IF b THEN FlushedW(W, TRUE, {}) ELSE W
                           IN  /\ Becomes(w)
                               /\ infos' = [infos EXCEPT !.segs = w.segs]
    BY DEF MergeOpen
  <1>3. PICK b \in BOOLEAN : LET w == IF b THEN FlushedW(W, TRUE, {}) ELSE W
                             IN  /\ Becomes(w)
                                 /\ infos' = [infos EXCEPT !.segs = w.segs]
    BY <1>2
  <1> DEFINE w == IF b THEN FlushedW(W, TRUE, {}) ELSE W
  <1>4. Fine(w, ifd.commits, Committing)
    BY <1>1, FineW, FineFlushed
  <1>5. Becomes(w) /\ infos' = [infos EXCEPT !.segs = w.segs]
    BY <1>3
  <1> HIDE DEF w
  <1>6. infos' = [infos EXCEPT !.segs = w.segs, !.counter = infos.counter]
        /\ ifd' = w.ifd
    BY <1>5 DEF IInv, GenInv, IsInfos, Becomes
  <1>7. CountsInv' /\ GenInv'
    BY <1>1, <1>4, <1>6, QuietBecomes
  <1> QED
    BY <1>1, <1>7, StepElsewhere DEF IInv

\* It writes its files.
LEMMA StepMergeWrite ==
    ASSUME IInv, MergeWrite
    PROVE  IInv'
  <1>1. UNCHANGED <<sis, segGen, status, infos, toSync, pending, pc>>
        /\ status = "open"
    BY DEF MergeWrite, LockFree, userVars
  <1> DEFINE parts == {Core(merge.name)}
                      \cup (IF merge.mds THEN {Store(merge.name)} ELSE {})
             w1 == Create(W, parts \cup {Cfs(merge.name)})
             w == IF UseCompoundFile
                  THEN [w1 EXCEPT !.ifd = Refresh(w1.ifd, parts)]
                  ELSE Create(W, parts)
  <1>2. ifd' = w.ifd
    BY DEF MergeWrite, Becomes
  <1> HIDE DEF parts
  <1>3. Fine(w1, ifd.commits, Committing)
        /\ Fine(Create(W, parts), ifd.commits, Committing)
    BY <1>1, FineW, FineSegs
  <1> HIDE DEF w1
  <1>4. Fine(w, ifd.commits, Committing)
    BY <1>3, FineRefresh
  <1> HIDE DEF w
  <1>5. IsInfos(infos') /\ Exact(ifd', Committing)
        /\ ifd'.commits = ifd.commits
    BY <1>1, <1>2, <1>4 DEF IInv, GenInv, Fine
  <1>6. CountsInv' /\ GenInv'
    BY <1>1, <1>5, QuietStep
  <1> QED
    BY <1>1, <1>6, StepElsewhere DEF IInv

\* It is committed.
LEMMA StepCommitMerge ==
    ASSUME IInv, CommitMerge
    PROVE  IInv'
  <1>1. UNCHANGED <<sis, segGen, status, toSync, pending, pc>>
        /\ status = "open"
    BY DEF CommitMerge, LockFree, userVars
  <1>2. PICK segs1 :
          /\ Becomes(CheckpointW([W EXCEPT !.segs = segs1],
                                 OpenFiles(docStore)))
          /\ infos' = [infos EXCEPT !.segs = segs1]
    BY DEF CommitMerge
  <1> DEFINE w == CheckpointW([W EXCEPT !.segs = segs1], OpenFiles(docStore))
  <1>3. Fine(w, ifd.commits, Committing)
    BY <1>1, FineW, FineSegs, FineCheckpoint
  <1>4. Becomes(w) /\ infos' = [infos EXCEPT !.segs = segs1]
    BY <1>2
  <1> HIDE DEF w
  <1>5. infos' = [infos EXCEPT !.segs = segs1, !.counter = infos.counter]
        /\ ifd' = w.ifd
    BY <1>4 DEF IInv, GenInv, IsInfos, Becomes
  <1>6. CountsInv' /\ GenInv'
    BY <1>1, <1>3, <1>5, QuietBecomes
  <1> QED
    BY <1>1, <1>6, StepElsewhere DEF IInv

\* The reader of the merged segment is released.
LEMMA StepReleaseMerged ==
    ASSUME IInv, ReleaseMerged
    PROVE  IInv'
  <1>1. UNCHANGED <<sis, segGen, status, toSync, pending, pc>>
        /\ status = "open"
    BY DEF ReleaseMerged, LockFree, userVars
  <1> DEFINE w == WriteDeletes(W, pooled \cap merge.srcs, OpenFiles(docStore))
  <1>2. Becomes(w) /\ infos' = [infos EXCEPT !.segs = w.segs]
    BY DEF ReleaseMerged
  <1>3. Fine(w, ifd.commits, Committing)
    BY <1>1, FineW, FineWriteDeletes
  <1> HIDE DEF w
  <1>4. infos' = [infos EXCEPT !.segs = w.segs, !.counter = infos.counter]
        /\ ifd' = w.ifd
    BY <1>2 DEF IInv, GenInv, IsInfos, Becomes
  <1>5. CountsInv' /\ GenInv'
    BY <1>1, <1>3, <1>4, QuietBecomes
  <1> QED
    BY <1>1, <1>5, StepElsewhere DEF IInv

\* It is given up.
LEMMA StepAbortMerge ==
    ASSUME IInv, AbortMerge
    PROVE  IInv'
  <1>1. UNCHANGED <<sis, segGen, status, toSync, pending, pc>>
        /\ status = "open"
    BY DEF AbortMerge, LockFree, userVars
  <1> DEFINE w1 == WriteDeletes(W, pooled \cap merge.srcs, OpenFiles(docStore))
             w2 == [w1 EXCEPT !.ifd =
                      Refresh(w1.ifd, Prefixed(w1.files, merge.name))]
             w == IF AbortsMerges /\ merge.stage = "written" THEN w1 ELSE w2
  <1>2. Becomes(w) /\ infos' = [infos EXCEPT !.segs = w.segs]
    BY DEF AbortMerge
  <1>3. Fine(w1, ifd.commits, Committing)
    BY <1>1, FineW, FineWriteDeletes
  <1> HIDE DEF w1
  <1>4. Fine(w, ifd.commits, Committing)
    BY <1>3, FineRefresh
  <1> HIDE DEF w
  <1>5. infos' = [infos EXCEPT !.segs = w.segs, !.counter = infos.counter]
        /\ ifd' = w.ifd
    BY <1>2 DEF IInv, GenInv, IsInfos, Becomes
  <1>6. CountsInv' /\ GenInv'
    BY <1>1, <1>4, <1>5, QuietBecomes
  <1> QED
    BY <1>1, <1>6, StepElsewhere DEF IInv

\* A commit begins, or finds that there is nothing to do.
LEMMA StepBeginCommit ==
    ASSUME IInv, (\E o : BeginCommit(o)) \/ CommitPrepared \/ NothingToCommit
    PROVE  IInv'
  <1>1. CASE \E o : BeginCommit(o)
    <2>1. /\ UNCHANGED <<sis, segGen, status, toSync, pending>>
          /\ status = "open" /\ pc = "idle" /\ ~pending
          /\ pc' \in {"flushed", "idle"}
      BY <1>1 DEF BeginCommit, LockFree, GoTo
    <2>2. \/ FlushSucceeds(TRUE, TRUE) \/ FlushThrows(TRUE)
          \/ CompoundThrows(TRUE) \/ StoresThrow
      BY <1>1 DEF BeginCommit
    <2>3. CountsInv' /\ GenInv'
      BY <2>1, <2>2, StepFlush
    <2>4. CallInv'
      BY <2>1 DEF IInv, CallInv
    <2> QED
      BY <2>3, <2>4 DEF IInv
  <1>2. CASE CommitPrepared \/ NothingToCommit
    <2>1. /\ UNCHANGED <<sis, segGen, ifd, infos, status, toSync, pending>>
          /\ status = "open" /\ pc \in {"idle", "flushed"}
          /\ pc' \in {"fcWrite", "closing", "idle"}
          /\ pc' = "fcWrite" => pending
      BY <1>2 DEF CommitPrepared, NothingToCommit, LockFree, GoTo, dirVars
    <2>2. IsInfos(infos')
      BY <2>1 DEF IInv, GenInv
    <2>3. CountsInv' /\ GenInv'
      BY <2>1, <2>2, QuietSame
    <2>4. CallInv'
      BY <2>1 DEF IInv, CallInv
    <2> QED
      BY <2>3, <2>4 DEF IInv
  <1> QED
    BY <1>1, <1>2

\* No commit is under way when toSync is not set.
LEMMA NotCommitting ==
    ASSUME toSync = NoInfos
    PROVE  Committing = {}
  BY DEF Committing, NoInfos, InfosFiles

\* startCommit references the files of its copy.
LEMMA StepStartCommit ==
    ASSUME IInv, StartCommit
    PROVE  IInv'
  <1> DEFINE w == WriteDeletes(W, pooled, OpenFiles(docStore))
             segs == BeforeTail(w.segs, docStore)
  <1>1. /\ UNCHANGED <<sis, segGen, status, pending>>
        /\ status = "open" /\ pc = "flushed" /\ pc' = "sync"
        /\ ifd' = IncRef(w.ifd, InfosFiles(segs))
        /\ infos' = [infos EXCEPT !.segs = w.segs]
        /\ toSync' = [infos EXCEPT !.segs = segs]
    BY DEF StartCommit, LockFree
  <1>2. ~pending /\ toSync = NoInfos
    BY <1>1 DEF IInv, CallInv
  <1>3. Fine(w, ifd.commits, {})
    BY <1>1, <1>2, FineW, FineWriteDeletes, NotCommitting
  <1> HIDE DEF w, segs
  <1>4. /\ IsInfos(infos') /\ infos'.generation = infos.generation
        /\ IsInfos(toSync') /\ toSync'.segs = segs
    BY <1>1 DEF IInv, GenInv, IsInfos
  <1>5. Exact(ifd', InfosFiles(segs))
    BY <1>1, <1>3, ExactIncRef DEF Fine
  <1>6. ifd'.commits = ifd.commits
    <2>1. \A f : Count(w.ifd.refCounts, f) \in Int
      BY <1>3, ExactCounts DEF Fine
    <2>2. IncRef(w.ifd, InfosFiles(segs)).commits = w.ifd.commits
      BY <1>3, <2>1, IncRefCounts DEF Fine, Exact
    <2> QED
      BY <1>1, <1>3, <2>2 DEF Fine
  <1>7. CountsInv'
    BY <1>4, <1>5 DEF CountsInv, Committing
  <1>8. GenInv'
    BY <1>1, <1>2, <1>4, <1>6 DEF IInv, GenInv
  <1>9. CallInv'
    BY <1>1, <1>2 DEF IInv, CallInv
  <1> QED
    BY <1>7, <1>8, <1>9 DEF IInv

\* Syncing changes only the synced set.
LEMMA StepSync ==
    ASSUME IInv, (\E f : SyncFile(f)) \/ SyncFails \/ SyncDone
    PROVE  IInv'
  <1>1. /\ UNCHANGED <<sis, segGen, status, infos, toSync, pending>>
        /\ pc = "sync" /\ pc' \in {"sync", "turn", "unwind"}
    BY DEF SyncFile, SyncFails, SyncDone, dirVars, userVars
  <1>2. status = "open"
    BY <1>1 DEF IInv, CallInv
  <1>3. Exact(ifd, Committing)
    BY <1>2 DEF IInv, CountsInv
  <1>4. Exact(ifd', Committing) /\ ifd'.commits = ifd.commits
    <2>1. CASE \E f : SyncFile(f)
      <3>1. PICK f : ifd' = [ifd EXCEPT !.synced = @ \cup {f}]
        BY <2>1 DEF SyncFile
      <3>2. /\ IsRecord(ifd') /\ ifd'.commits = ifd.commits
            /\ ifd'.refCounts = ifd.refCounts /\ ifd'.lastFiles = ifd.lastFiles
        BY <1>3, <3>1 DEF Exact, IsRecord
      <3> QED
        BY <1>3, <3>2 DEF Exact
    <2>2. CASE SyncFails \/ SyncDone
      BY <1>3, <2>2 DEF SyncFails, SyncDone
    <2> QED
      BY <2>1, <2>2
  <1>5. IsInfos(infos')
    BY <1>1 DEF IInv, GenInv
  <1>6. CountsInv' /\ GenInv'
    BY <1>1, <1>2, <1>4, <1>5, QuietStep
  <1>7. CallInv'
    BY <1>1, <1>2 DEF IInv, CallInv
  <1> QED
    BY <1>6, <1>7 DEF IInv

\* SegmentInfos::write takes a generation above all those in use.
LEMMA PreparedIsNew ==
    ASSUME IInv
    PROVE  /\ IsInfos(Prepared) /\ Prepared.segs = toSync.segs
           /\ Prepared.generation \in Nat
           /\ infos.generation < Prepared.generation
  <1> DEFINE t == IF infos.generation > toSync.generation
                  THEN UpdateGeneration(toSync, infos) ELSE toSync
  <1>1. IsInfos(infos) /\ IsInfos(toSync)
    BY DEF IInv, GenInv
  <1>2. /\ IsInfos(t) /\ t.segs = toSync.segs
        /\ infos.generation <= t.generation
    BY <1>1 DEF IsInfos, UpdateGeneration, None
  <1>3. Prepared = [t EXCEPT !.generation = NextGeneration(t)]
    BY DEF Prepared
  <1> HIDE DEF t
  <1>4. NextGeneration(t) \in Nat /\ infos.generation < NextGeneration(t)
    BY <1>1, <1>2 DEF NextGeneration, IsInfos, None
  <1> QED
    BY <1>2, <1>3, <1>4 DEF IsInfos

\* segments_N is written, or fails to be.
LEMMA StepPrepare ==
    ASSUME IInv, PrepareCommit \/ PrepareFails
    PROVE  IInv'
  <1> DEFINE g == Prepared.generation
  <1>1. /\ UNCHANGED <<segGen, ifd, status>>
        /\ status = "open" /\ pc = "turn"
        /\ toSync' = Prepared /\ infos' = UpdateGeneration(infos, Prepared)
    BY DEF PrepareCommit, PrepareFails, LockFree, dirVars
  <1>2. /\ pc' \in {"idle", "fcWrite", "unwind"}
        /\ pc' = "unwind" => pending' = pending
        /\ pc' # "unwind" => pending' = TRUE
    BY DEF PrepareCommit, PrepareFails, GoTo, IInv, CallInv
  <1>3. DOMAIN sis' \subseteq DOMAIN sis \cup {g}
    BY DEF PrepareCommit, PrepareFails, SegmentsFileStarted
  <1>4. ~pending
    BY <1>1 DEF IInv, CallInv
  <1>5. /\ IsInfos(toSync') /\ toSync'.segs = toSync.segs
        /\ toSync'.generation = g /\ g \in Nat /\ infos.generation < g
    BY <1>1, PreparedIsNew
  <1>6. IsInfos(infos') /\ infos'.generation = g
    BY <1>1, <1>5 DEF UpdateGeneration, IInv, GenInv, IsInfos
  <1> HIDE DEF g
  <1>7. CountsInv'
    BY <1>1, <1>5 DEF IInv, CountsInv, Committing
  <1>8. Generations(DOMAIN sis')
    BY <1>3, <1>5, OneMoreGeneration, FewerGenerations DEF IInv, GenInv
  <1>9. \A c \in ifd'.commits : c.generation \in Nat /\ c.generation < g
    BY <1>1, <1>5 DEF IInv, GenInv, IsInfos, None
  <1>10. GenInv'
    BY <1>1, <1>5, <1>6, <1>8, <1>9 DEF IInv, GenInv
  <1>11. CallInv'
    BY <1>1, <1>2, <1>4 DEF IInv, CallInv
  <1> QED
    BY <1>7, <1>10, <1>11 DEF IInv

\* The references of a commit under way are dropped, once.
LEMMA ReleaseExact ==
    ASSUME NEW d, Exact(d, Committing)
    PROVE  /\ Exact(DecRef(d, InfosFiles(toSync.segs)), {})
           /\ DecRef(d, InfosFiles(toSync.segs)).commits = d.commits
  <1>1. \A f : Count(d.refCounts, f) \in Int
    BY ExactCounts
  <1>2. IsRecord(d)
    BY DEF Exact
  <1> QED
    BY <1>1, <1>2, ExactDecRef, DecRefCounts DEF Committing

\* A step that ends the commit under way, and leaves commit points that are
\* no newer than the segmentInfos.
LEMMA StepRelease ==
    ASSUME IInv, NEW d, Exact(d, Committing), status = "open",
           \A c \in d.commits : /\ c.generation \in Nat
                                /\ c.generation <= infos'.generation,
           ifd' = DecRef(d, InfosFiles(toSync.segs)),
           toSync' = NoInfos, pending' = FALSE, IsInfos(infos'),
           pc' \in {"idle", "closing"}, status' = status,
           DOMAIN sis' \subseteq DOMAIN sis, segGen' = segGen
    PROVE  IInv'
  <1>1. Exact(ifd', {}) /\ ifd'.commits = d.commits
    BY ReleaseExact
  <1>2. CountsInv'
    <2>1. Committing' = {}
      BY DEF Committing, NoInfos, InfosFiles
    <2> QED
      BY <1>1, <2>1 DEF CountsInv
  <1>3. IsInfos(NoInfos)
    BY DEF IsInfos, NoInfos
  <1>4. Generations(DOMAIN sis')
    BY FewerGenerations DEF IInv, GenInv
  <1>5. GenInv'
    BY <1>1, <1>3, <1>4 DEF IInv, GenInv
  <1>6. CallInv'
    BY DEF IInv, CallInv
  <1> QED
    BY <1>2, <1>5, <1>6 DEF IInv

\* A commit that failed before segments_N was there is undone.
LEMMA StepUnwind ==
    ASSUME IInv, Unwind
    PROVE  IInv'
  <1>1. /\ UNCHANGED <<sis, segGen, status, infos, pending>>
        /\ status = "open" /\ pc = "unwind" /\ pc' = "idle"
        /\ ifd' = DecRef(ifd, InfosFiles(toSync.segs)) /\ toSync' = NoInfos
    BY DEF Unwind, LockFree, GoTo, dirVars
  <1>2. ~pending'
    BY <1>1 DEF IInv, CallInv
  <1>3. pending' = FALSE
    BY <1>1, <1>2 DEF IInv, CallInv
  <1>4. Exact(ifd, Committing)
    BY <1>1 DEF IInv, CountsInv
  <1>5. /\ IsInfos(infos')
        /\ \A c \in ifd.commits : /\ c.generation \in Nat
                                  /\ c.generation <= infos'.generation
    BY <1>1 DEF IInv, GenInv
  <1> QED
    BY <1>1, <1>3, <1>4, <1>5, StepRelease

\* finishCommit, up to the checkpoint.
LEMMA StepFinishCommit ==
    ASSUME IInv, FinishCommitWrite \/ FinishCommitSync \/ FinishCommitGen
    PROVE  IInv'
  <1>1. /\ UNCHANGED <<status, infos>>
        /\ pc \in {"fcWrite", "fcSync", "fcGen"}
    BY DEF FinishCommitWrite, FinishCommitSync, FinishCommitGen
  <1>2. status = "open" /\ pending
    BY <1>1 DEF IInv, CallInv
  <1>3. Exact(ifd, Committing)
    BY <1>2 DEF IInv, CountsInv
  <1>4. DOMAIN sis' \subseteq DOMAIN sis
    BY DEF FinishCommitWrite, FinishCommitSync, FinishCommitGen, Removed,
           Without
  <1>5. /\ IsInfos(infos')
        /\ \A c \in ifd.commits : /\ c.generation \in Nat
                                  /\ c.generation <= infos'.generation
    BY <1>1, <1>2 DEF IInv, GenInv
  <1>6. CASE ReleasePending(ifd) /\ GoTo("idle", "none") /\ segGen' = segGen
    <2>1. /\ ifd' = DecRef(ifd, InfosFiles(toSync.segs))
          /\ toSync' = NoInfos /\ pending' = FALSE /\ pc' = "idle"
      BY <1>6 DEF ReleasePending, GoTo
    <2> QED
      BY <1>1, <1>2, <1>3, <1>4, <1>5, <1>6, <2>1, StepRelease
  <1>7. CASE ~(ReleasePending(ifd) /\ GoTo("idle", "none") /\ segGen' = segGen)
    <2>1. /\ UNCHANGED <<ifd, pending>>
          /\ pc' \in {"fcSync", "fcGen", "fcCheckpoint"}
          /\ segGen' \in {segGen, toSync.generation, None}
          /\ \/ toSync' = toSync
             \/ toSync' = [toSync EXCEPT !.lastGeneration = toSync.generation]
      BY <1>7 DEF FinishCommitWrite, FinishCommitSync, FinishCommitGen,
                  SegmentsFileDone
    <2>2. /\ IsInfos(toSync') /\ toSync'.segs = toSync.segs
          /\ toSync'.generation = toSync.generation
      BY <2>1 DEF IInv, GenInv, IsInfos
    <2>3. segGen' \in Nat \cup {None}
      BY <2>1 DEF IInv, GenInv, IsInfos
    <2>4. Generations(DOMAIN sis')
      BY <1>4, FewerGenerations DEF IInv, GenInv
    <2>5. CountsInv'
      BY <1>3, <2>1, <2>2 DEF CountsInv, Committing
    <2>6. GenInv'
      BY <1>1, <1>2, <2>1, <2>2, <2>3, <2>4 DEF IInv, GenInv
    <2>7. CallInv'
      BY <1>1, <1>2, <2>1 DEF IInv, CallInv
    <2> QED
      BY <2>5, <2>6, <2>7 DEF IInv
  <1> QED
    BY <1>6, <1>7

\* The new commit point enters, and the policy's victims leave.
LEMMA StepFinishCheckpoint ==
    ASSUME IInv, FinishCommitCheckpoint
    PROVE  IInv'
  <1> DEFINE F == InfosFiles(toSync.segs)
                    \cup {Segments(toSync.lastGeneration)}
             p == [generation |-> toSync.generation, files |-> F]
             d == CommitCheckpoint(ifd, toSync.generation, F, snapshot)
  <1>1. /\ UNCHANGED <<sis, segGen, status>>
        /\ pc = "fcCheckpoint" /\ pc' \in {"idle", "closing"}
        /\ ifd' = DecRef(d, InfosFiles(toSync.segs))
        /\ toSync' = NoInfos /\ pending' = FALSE
        /\ infos' = UpdateGeneration(infos, toSync)
    BY DEF FinishCommitCheckpoint, ReleasePending, GoTo, dirVars
  <1>2. status = "open" /\ pending
    BY <1>1 DEF IInv, CallInv
  <1>3. /\ Exact(ifd, Committing) /\ toSync.generation \in Nat
        /\ \A c \in ifd.commits : /\ c.generation \in Nat
                                  /\ c.generation < toSync.generation
    BY <1>2 DEF IInv, CountsInv, GenInv
  <1> HIDE DEF F
  <1>4. p \notin ifd.commits
    BY <1>3
  <1>5. Exact(d, Committing) /\ d.commits \subseteq ifd.commits \cup {p}
    <2>1. Exact(d, Committing) /\ d.commits = Onwards(ifd.commits, p, snapshot)
      BY <1>3, <1>4, ExactCommitCheckpoint
    <2> QED
      BY <2>1 DEF Onwards
  <1>6. IsInfos(infos') /\ infos'.generation = toSync.generation
    BY <1>1 DEF UpdateGeneration, IInv, GenInv, IsInfos
  <1>7. \A c \in d.commits : /\ c.generation \in Nat
                             /\ c.generation <= infos'.generation
    BY <1>3, <1>5, <1>6
  <1> HIDE DEF d
  <1> QED
    BY <1>1, <1>2, <1>5, <1>6, <1>7, StepRelease

\* Rollback undoes what was prepared.
LEMMA StepRollback ==
    ASSUME IInv, Rollback
    PROVE  IInv'
  <1> DEFINE d1 == DecRef(ifd, InfosFiles(toSync.segs))
             d2 == Checkpoint(d1, InfosFiles(rollbackInfos), {})
  <1>1. PICK gone : Removed(gone) /\ ifd' = Refresh(d2, files \ gone)
    BY DEF Rollback
  <1>2. /\ UNCHANGED <<segGen, status>>
        /\ status = "open" /\ pc' = "closing"
        /\ toSync' = NoInfos /\ pending' = FALSE
        /\ infos' = [infos EXCEPT !.segs = rollbackInfos]
    BY DEF Rollback, LockFree, GoTo
  <1>3. DOMAIN sis' \subseteq DOMAIN sis
    BY <1>1 DEF Removed, Without
  <1>4. Exact(ifd, Committing)
    BY <1>2 DEF IInv, CountsInv
  <1>5. Exact(d1, {}) /\ d1.commits = ifd.commits
    BY <1>4, ReleaseExact
  <1> HIDE DEF d1
  <1>6. Exact(d2, {}) /\ d2.commits = ifd.commits
    BY <1>5, ExactCheckpoint
  <1> HIDE DEF d2
  <1>7. Exact(ifd', {}) /\ ifd'.commits = ifd.commits
    BY <1>1, <1>6, ExactRefresh
  <1>8. CountsInv'
    <2>1. Committing' = {}
      BY <1>2 DEF Committing, NoInfos, InfosFiles
    <2> QED
      BY <1>7, <2>1 DEF CountsInv
  <1>9. /\ IsInfos(infos') /\ infos'.generation = infos.generation
        /\ IsInfos(NoInfos)
    BY <1>2 DEF IInv, GenInv, IsInfos, NoInfos
  <1>10. Generations(DOMAIN sis')
    BY <1>3, FewerGenerations DEF IInv, GenInv
  <1>11. GenInv'
    BY <1>2, <1>7, <1>9, <1>10 DEF IInv, GenInv
  <1>12. CallInv'
    BY <1>2 DEF IInv, CallInv
  <1> QED
    BY <1>8, <1>11, <1>12 DEF IInv

\* finishMerges, deleteAll and the close of the deleter.
LEMMA StepShutDown ==
    ASSUME IInv, (\E o : FinishMerges(o)) \/ DeleteAll \/ Close
    PROVE  IInv'
  <1>1. /\ UNCHANGED <<sis, segGen, status, toSync, pending>>
        /\ status = "open" /\ pc \in {"idle", "aborting", "closing"}
        /\ pc' \in {"idle", "aborting", "drain"}
    BY DEF FinishMerges, DeleteAll, Close, LockFree, GoTo, dirVars
  <1>2. Exact(ifd, Committing)
    BY <1>1 DEF IInv, CountsInv
  <1>3. IsInfos(infos') /\ infos'.generation = infos.generation
    BY DEF FinishMerges, DeleteAll, Close, IInv, GenInv, IsInfos
  <1>4. Exact(ifd', Committing) /\ ifd'.commits = ifd.commits
    <2>1. CASE \E o : FinishMerges(o)
      BY <1>2, <2>1 DEF FinishMerges
    <2>2. CASE DeleteAll
      <3>1. ifd' = Refresh(Checkpoint(ifd, {}, {}), files)
        BY <2>2 DEF DeleteAll
      <3> QED
        BY <1>2, <3>1, ExactCheckpoint, ExactRefresh
    <2>3. CASE Close
      <3> DEFINE w == WriteDeletes(W, pooled, OpenFiles(docStore))
      <3>1. ifd' = CloseDeleter(w.ifd)
        BY <2>3 DEF Close
      <3>2. Fine(w, ifd.commits, Committing)
        BY <1>1, FineW, FineWriteDeletes
      <3> HIDE DEF w
      <3> QED
        BY <3>1, <3>2, ExactClose DEF Fine
    <2> QED
      BY <2>1, <2>2, <2>3
  <1>5. CountsInv' /\ GenInv'
    BY <1>1, <1>3, <1>4, QuietStep
  <1>6. CallInv'
    BY <1>1 DEF IInv, CallInv
  <1> QED
    BY <1>5, <1>6 DEF IInv

\* Unlinking changes no count.
LEMMA StepUnlink ==
    ASSUME IInv, Unlink
    PROVE  IInv'
  <1>1. UNCHANGED <<segGen, status, infos, toSync, pending, pc>>
    BY DEF Unlink, userVars
  <1>2. DOMAIN sis' \subseteq DOMAIN sis
    BY DEF Unlink, Removed, Without
  <1>3. PICK failed :
          ifd' = [ifd EXCEPT !.doomed = {}, !.deletable = @ \cup failed]
    BY DEF Unlink
  <1>4. CASE status = "open"
    <2>1. Exact(ifd, Committing)
      BY <1>4 DEF IInv, CountsInv
    <2>2. /\ IsRecord(ifd') /\ ifd'.commits = ifd.commits
          /\ ifd'.refCounts = ifd.refCounts /\ ifd'.lastFiles = ifd.lastFiles
      BY <1>3, <2>1 DEF Exact, IsRecord
    <2>3. Exact(ifd', Committing)
      BY <2>1, <2>2 DEF Exact
    <2>4. IsInfos(infos')
      BY <1>1 DEF IInv, GenInv
    <2> QED
      BY <1>1, <1>2, <1>4, <2>2, <2>3, <2>4, QuietStep, StepElsewhere DEF IInv
  <1>5. CASE status # "open"
    <2>1. Generations(DOMAIN sis')
      BY <1>2, FewerGenerations DEF IInv, GenInv
    <2> QED
      BY <1>1, <1>5, <2>1, StepElsewhere DEF IInv, CountsInv, GenInv
  <1> QED
    BY <1>4, <1>5

\* The writer ends, in peace or not.
LEMMA StepEnd ==
    ASSUME IInv, CloseDone \/ Crash \/ StartCommitOutOfRange
    PROVE  IInv'
  <1>1. CASE CloseDone
    <2>1. Forget /\ status' # "open" /\ UNCHANGED <<sis, segGen>>
      BY <1>1 DEF CloseDone, dirVars
    <2> QED
      BY <2>1, QuietForget DEF IInv, GenInv
  <1>2. CASE Crash \/ StartCommitOutOfRange
    <2>1. /\ Forget /\ status' # "open" /\ segGen' \in {segGen, None}
          /\ DOMAIN sis' \subseteq DOMAIN sis
      BY <1>2 DEF Crash, StartCommitOutOfRange, Die
    <2> QED
      BY <2>1, QuietForget DEF IInv, GenInv
  <1> QED
    BY <1>1, <1>2

\* There are finitely many commits to read.
LEMMA FiniteCommits ==
    ASSUME NEW G, Generations(G), NEW K, K \subseteq G, NEW S
    PROVE  IsFiniteSet({[generation |-> h,
                         files |-> InfosFiles(S[h].segs) \cup {Segments(h)}] :
                           h \in K})
  <1> DEFINE pt(h) == [generation |-> h,
                       files |-> InfosFiles(S[h].segs) \cup {Segments(h)}]
             P == {pt(h) : h \in K}
             f == [h \in K |-> pt(h)]
  <1>1. IsFiniteSet(K)
    BY FS_BoundedSetOfNaturals DEF Generations
  <1>2. f \in Surjection(K, P)
    BY DEF Surjection
  <1> QED
    BY <1>1, <1>2, FS_Surjection

\* The next writer starts from the commit points it finds.
LEMMA StepOpen ==
    ASSUME IInv, NEW create, Open(create)
    PROVE  IInv'
  <1> DEFINE g == FindSegments(files, sis, segGen)
             K == {k \in DOMAIN sis : Readable(files, sis, k)}
             points == {[generation |-> h,
                         files |-> InfosFiles(sis[h].segs) \cup {Segments(h)}] :
                           h \in K}
  <1>1. /\ UNCHANGED <<sis, segGen, toSync, pending, pc>>
        /\ g # None /\ status' = "open" /\ status # "open"
        /\ DOMAIN infos' = {"segs", "generation", "lastGeneration", "counter"}
        /\ infos'.generation = g
    BY DEF Open, userVars, dirVars
  <1>2. PICK I, y : ifd' = InitDeleter(files, points, I, snapshot, y)
    BY DEF Open
  <1>3. Generations(DOMAIN sis) /\ segGen \in Nat \cup {None}
    BY DEF IInv, GenInv
  <1>4. g \in DOMAIN sis /\ \A h \in K : h <= g
    BY <1>1, <1>3, FindSegmentsNewest
  <1>5. IsFiniteSet(points)
    BY <1>3, FiniteCommits
  <1>6. Exact(ifd', {}) /\ ifd'.commits \subseteq points
    BY <1>2, <1>5, ExactInit
  <1>7. \A c \in points : c.generation \in Nat /\ c.generation <= g
    BY <1>3, <1>4 DEF Generations
  <1>8. IsInfos(infos')
    BY <1>1, <1>3, <1>4 DEF IsInfos, Generations
  <1> HIDE DEF g, K, points
  <1>9. ~pending /\ pc = "idle" /\ toSync = NoInfos
    BY <1>1 DEF IInv, CallInv
  <1>10. CountsInv'
    <2>1. Committing' = {}
      BY <1>1, <1>9 DEF Committing, NoInfos, InfosFiles
    <2> QED
      BY <1>6, <2>1 DEF CountsInv
  <1>11. GenInv'
    BY <1>1, <1>3, <1>6, <1>7, <1>8, <1>9 DEF IInv, GenInv
  <1>12. CallInv'
    BY <1>1, <1>9 DEF CallInv
  <1> QED
    BY <1>10, <1>11, <1>12 DEF IInv

-----------------------------------------------------------------------------
(***************************************************************************)
(* The theorem.                                                            *)
(***************************************************************************)
\* Initially there is no writer.
LEMMA InitIInv ==
    ASSUME Init
    PROVE  IInv
  <1>1. CallInv
    BY DEF Init, CallInv
  <1>2. CountsInv
    BY DEF Init, CountsInv
  <1>3. DOMAIN sis = {1} /\ segGen = 1 /\ IsInfos(NoInfos)
    BY DEF Init, IsInfos, NoInfos
  <1>4. Generations({1})
    BY DEF Generations
  <1>5. GenInv
    BY <1>3, <1>4 DEF Init, GenInv
  <1> QED
    BY <1>1, <1>2, <1>5 DEF IInv

\* Every step of IndexWriter keeps the inductive invariant.
LEMMA NextIInv ==
    ASSUME IInv, [Next]_vars
    PROVE  IInv'
  <1>1. CASE AddDocument \/ DeleteDocuments \/ Flush
    BY <1>1, StepIndexing
  <1>2. CASE \E i, j \in DOMAIN infos.segs : MergeInit(i, j)
    BY <1>2, StepMergeInit
  <1>3. CASE \/ MergeOpen \/ MergeWrite \/ CommitMerge \/ ReleaseMerged
             \/ AbortMerge
    BY <1>3, StepMergeOpen, StepMergeWrite, StepCommitMerge,
       StepReleaseMerged, StepAbortMerge
  <1>4. CASE \/ \E o \in {"prepare", "commit", "close"} : BeginCommit(o)
             \/ CommitPrepared \/ NothingToCommit
    BY <1>4, StepBeginCommit
  <1>5. CASE StartCommit
    BY <1>5, StepStartCommit
  <1>6. CASE (\E f \in InfosFiles(toSync.segs) : SyncFile(f)) \/ SyncFails
             \/ SyncDone
    BY <1>6, StepSync
  <1>7. CASE PrepareCommit \/ PrepareFails \/ Unwind
    BY <1>7, StepPrepare, StepUnwind
  <1>8. CASE FinishCommitWrite \/ FinishCommitSync \/ FinishCommitGen
    BY <1>8, StepFinishCommit
  <1>9. CASE FinishCommitCheckpoint
    BY <1>9, StepFinishCheckpoint
  <1>10. CASE \/ \E o \in {"rollback", "deleteAll"} : FinishMerges(o)
              \/ DeleteAll \/ Close
    BY <1>10, StepShutDown
  <1>11. CASE Rollback
    BY <1>11, StepRollback
  <1>12. CASE CloseDone \/ Crash \/ StartCommitOutOfRange
    BY <1>12, StepEnd
  <1>13. CASE TakeSnapshot \/ ReleaseSnapshot
    BY <1>13, StepSame DEF TakeSnapshot, ReleaseSnapshot, dirVars, userVars
  <1>14. CASE Unlink
    BY <1>14, StepUnlink
  <1>15. CASE \E create \in BOOLEAN : Open(create)
    BY <1>15, StepOpen
  <1>16. CASE UNCHANGED vars
    BY <1>16, StepSame DEF vars, dirVars, userVars
  <1> QED
    BY <1>1, <1>2, <1>3, <1>4, <1>5, <1>6, <1>7, <1>8, <1>9, <1>10, <1>11,
       <1>12, <1>13, <1>14, <1>15, <1>16 DEF Next

\* For every bound, every choice of the switches and any interleaving of
\* flushes, merges, commits that succeed or fail, rollbacks, deleteAll,
\* snapshots, crashes and restarts, the count IndexFileDeleter keeps of a
\* file is the number of holders the file has (incRef and decRef balance).
THEOREM RefCountsAreExact == Spec => []RefCountsExact
  <1>1. Init => IInv
    BY InitIInv
  <1>2. IInv /\ [Next]_vars => IInv'
    BY NextIInv
  <1>3. IInv => RefCountsExact
    BY DEF IInv, CountsInv, Exact, Ref, Committing, RefCountsExact, References
  <1> QED
    BY <1>1, <1>2, <1>3, PTL DEF Spec

-----------------------------------------------------------------------------
(***************************************************************************)
(* The commit points move forward.                                         *)
(***************************************************************************)
\* A step that neither adds nor removes a commit point, nor acknowledges one.
CommitsKept == ifd'.commits = ifd.commits /\ acked' = acked

\* A handler's result keeps the commit points.
LEMMA KeptBecomes ==
    ASSUME IInv, status = "open", NEW w, Fine(w, ifd.commits, Committing),
           ifd' = w.ifd, UNCHANGED histVars
    PROVE  CommitsKept
  BY DEF Fine, CommitsKept, histVars

\* A flush does, in whichever way it ends.
LEMMA KeptFlush ==
    ASSUME IInv, status = "open", NEW c \in BOOLEAN, NEW applies \in BOOLEAN,
           \/ FlushSucceeds(c, applies) \/ FlushThrows(c)
           \/ CompoundThrows(c) \/ StoresThrow,
           UNCHANGED histVars
    PROVE  CommitsKept
  <1>1. Fine(W, ifd.commits, Committing)
    BY FineW
  <1>2. \E w : Fine(w, ifd.commits, Committing) /\ ifd' = w.ifd
    <2>1. CASE FlushSucceeds(c, applies)
      <3>1. PICK names : ifd' = FlushedW(W, c, names \ HeldByMerge).ifd
        BY <2>1 DEF FlushSucceeds, Becomes
      <3>2. Fine(FlushedW(W, c, names \ HeldByMerge), ifd.commits, Committing)
        BY <1>1, FineFlushed
      <3> QED
        BY <3>1, <3>2
    <2>2. CASE FlushThrows(c)
      <3>1. ifd' = FlushFailedW(W, c).ifd
        BY <2>2 DEF FlushThrows, Becomes
      <3> QED
        BY <1>1, <3>1, FineFlushFailed
    <2>3. CASE CompoundThrows(c)
      <3>1. ifd' = CompoundFailedW(W, c).ifd
        BY <2>3 DEF CompoundThrows, Becomes
      <3> QED
        BY <1>1, <3>1, FineFlushFailed
    <2>4. CASE StoresThrow
      <3>1. ifd' = W.ifd \/ ifd' = StoresFailedW.ifd
        BY <2>4 DEF StoresThrow, Becomes
      <3> QED
        BY <1>1, <3>1, FineStoresFailed
    <2> QED
      BY <2>1, <2>2, <2>3, <2>4
  <1> QED
    BY <1>2, KeptBecomes

\* The indexing threads do, and the flush a commit begins with.
LEMMA KeptIndexing ==
    ASSUME IInv, \/ AddDocument \/ DeleteDocuments \/ Flush
                 \/ \E o : BeginCommit(o)
    PROVE  CommitsKept
  <1>1. CASE AddDocument \/ DeleteDocuments
    BY <1>1 DEF AddDocument, DeleteDocuments, CommitsKept, histVars
  <1>2. CASE Flush
    <2>1. status = "open" /\ UNCHANGED histVars
      BY <1>2 DEF Flush, Indexing
    <2>2. \E c \in BOOLEAN, applies \in BOOLEAN :
             \/ FlushSucceeds(c, applies) \/ FlushThrows(c)
             \/ CompoundThrows(c) \/ StoresThrow
      BY <1>2 DEF Flush
    <2> QED
      BY <2>1, <2>2, KeptFlush
  <1>3. CASE \E o : BeginCommit(o)
    <2>1. status = "open" /\ UNCHANGED histVars
      BY <1>3 DEF BeginCommit, LockFree
    <2>2. \/ FlushSucceeds(TRUE, TRUE) \/ FlushThrows(TRUE)
          \/ CompoundThrows(TRUE) \/ StoresThrow
      BY <1>3 DEF BeginCommit
    <2> QED
      BY <2>1, <2>2, KeptFlush
  <1> QED
    BY <1>1, <1>2, <1>3

\* So do merges.
LEMMA KeptMerges ==
    ASSUME IInv, \/ \E i, j : MergeInit(i, j)
                 \/ MergeOpen \/ MergeWrite \/ CommitMerge \/ ReleaseMerged
                 \/ AbortMerge
    PROVE  CommitsKept
  <1>1. status = "open" /\ UNCHANGED histVars
    BY DEF MergeInit, MergeOpen, MergeWrite, CommitMerge, ReleaseMerged,
           AbortMerge, LockFree
  <1>2. Fine(W, ifd.commits, Committing)
    BY <1>1, FineW
  <1> SUFFICES \E w : Fine(w, ifd.commits, Committing) /\ ifd' = w.ifd
    BY <1>1, KeptBecomes
  <1>3. CASE \E i, j : MergeInit(i, j)
    <2>1. PICK i, j : MergeInit(i, j)
      BY <1>3
    <2>2. PICK names :
            LET w1 == WriteDeletes(W, names, OpenFiles(docStore))
                mds == MergeDocStores(w1.segs, i, j)
                flushes == mds /\ SharesOpenStore(w1.segs, i..j)
                w2 == IF flushes THEN FlushedW(w1, TRUE, {}) ELSE w1
            IN  ifd' = w2.ifd
      BY <2>1 DEF MergeInit, Becomes
    <2> DEFINE w1 == WriteDeletes(W, names, OpenFiles(docStore))
    <2>3. Fine(w1, ifd.commits, Committing)
      BY <1>2, FineWriteDeletes
    <2>4. ifd' = FlushedW(w1, TRUE, {}).ifd \/ ifd' = w1.ifd
      BY <2>2
    <2> HIDE DEF w1
    <2> QED
      BY <2>3, <2>4, FineFlushed
  <1>4. CASE MergeOpen
    <2>1. ifd' = FlushedW(W, TRUE, {}).ifd \/ ifd' = W.ifd
      BY <1>4 DEF MergeOpen, Becomes
    <2> QED
      BY <1>2, <2>1, FineFlushed
  <1>5. CASE MergeWrite
    <2>1. \E P, R : \/ ifd' = [Create(W, P) EXCEPT
                                 !.ifd = Refresh(Create(W, P).ifd, R)].ifd
                    \/ ifd' = Create(W, P).ifd
      BY <1>5 DEF MergeWrite, Becomes
    <2>2. PICK P, R : \/ ifd' = [Create(W, P) EXCEPT
                                   !.ifd = Refresh(Create(W, P).ifd, R)].ifd
                      \/ ifd' = Create(W, P).ifd
      BY <2>1
    <2>3. Fine(Create(W, P), ifd.commits, Committing)
      BY <1>2, FineSegs
    <2> QED
      BY <2>2, <2>3, FineRefresh
  <1>6. CASE CommitMerge
    <2>1. \E segs : ifd' = CheckpointW([W EXCEPT !.segs = segs],
                                        OpenFiles(docStore)).ifd
      BY <1>6 DEF CommitMerge, Becomes
    <2>2. PICK segs : ifd' = CheckpointW([W EXCEPT !.segs = segs],
                                         OpenFiles(docStore)).ifd
      BY <2>1
    <2>3. Fine([W EXCEPT !.segs = segs], ifd.commits, Committing)
      BY <1>2, FineSegs
    <2> QED
      BY <2>2, <2>3, FineCheckpoint
  <1>7. CASE AbortMerge
    <2> DEFINE w1 == WriteDeletes(W, pooled \cap merge.srcs, OpenFiles(docStore))
    <2>1. \E S : \/ ifd' = [w1 EXCEPT !.ifd = Refresh(w1.ifd, S)].ifd
                 \/ ifd' = w1.ifd
      BY <1>7 DEF AbortMerge, Becomes
    <2>2. Fine(w1, ifd.commits, Committing)
      BY <1>2, FineWriteDeletes
    <2> HIDE DEF w1
    <2> QED
      BY <2>1, <2>2, FineRefresh
  <1>8. CASE ReleaseMerged
    <2>1. ifd' = WriteDeletes(W, pooled \cap merge.srcs,
                              OpenFiles(docStore)).ifd
      BY <1>8 DEF ReleaseMerged, Becomes
    <2> QED
      BY <1>2, <2>1, FineWriteDeletes
  <1> QED
    BY <1>3, <1>4, <1>5, <1>6, <1>7, <1>8

\* incRef and decRef leave the commit points alone.
LEMMA KeptByDecRef ==
    ASSUME NEW d, NEW T, Exact(d, T), NEW F
    PROVE  DecRef(d, F).commits = d.commits /\ IncRef(d, F).commits = d.commits
  <1>1. IsRecord(d)
    BY DEF Exact
  <1>2. \A f : Count(d.refCounts, f) \in Int
    BY ExactCounts
  <1> QED
    BY <1>1, <1>2, DecRefCounts, IncRefCounts

\* The steps of a commit do, up to its checkpoint.
LEMMA KeptCommitting ==
    ASSUME IInv, \/ CommitPrepared \/ NothingToCommit \/ StartCommit
                 \/ (\E f : SyncFile(f)) \/ SyncFails \/ SyncDone
                 \/ PrepareCommit \/ PrepareFails \/ Unwind
                 \/ FinishCommitWrite \/ FinishCommitSync \/ FinishCommitGen
    PROVE  CommitsKept
  <1>1. status = "open" /\ UNCHANGED acked
    BY DEF CommitPrepared, NothingToCommit, StartCommit, SyncFile, SyncFails,
           SyncDone, PrepareCommit, PrepareFails, Unwind, FinishCommitWrite,
           FinishCommitSync, FinishCommitGen, LockFree, histVars, IInv, CallInv
  <1>2. Exact(ifd, Committing)
    BY <1>1 DEF IInv, CountsInv
  <1>3. CASE StartCommit
    <2> DEFINE w == WriteDeletes(W, pooled, OpenFiles(docStore))
    <2>1. ifd' = IncRef(w.ifd, InfosFiles(BeforeTail(w.segs, docStore)))
      BY <1>3 DEF StartCommit
    <2>2. Fine(w, ifd.commits, Committing)
      BY <1>1, FineW, FineWriteDeletes
    <2> HIDE DEF w
    <2> QED
      BY <1>1, <2>1, <2>2, KeptByDecRef DEF Fine, CommitsKept
  <1>4. CASE \E f : SyncFile(f)
    <2>1. PICK f : ifd' = [ifd EXCEPT !.synced = @ \cup {f}]
      BY <1>4 DEF SyncFile
    <2> QED
      BY <1>1, <1>2, <2>1 DEF Exact, IsRecord, CommitsKept
  <1>5. CASE ~StartCommit /\ ~(\E f : SyncFile(f))
    <2>1. ifd' = ifd \/ ifd' = DecRef(ifd, InfosFiles(toSync.segs))
      BY <1>5 DEF CommitPrepared, NothingToCommit, SyncFails, SyncDone,
             PrepareCommit, PrepareFails, Unwind, FinishCommitWrite,
             FinishCommitSync, FinishCommitGen, ReleasePending,
             SegmentsFileDone
    <2> QED
      BY <1>1, <1>2, <2>1, KeptByDecRef DEF CommitsKept
  <1> QED
    BY <1>3, <1>4, <1>5

\* So do rollback, deleteAll, close, snapshots and the unlinking of files.
LEMMA KeptShutDown ==
    ASSUME IInv, status = "open",
           \/ \E o : FinishMerges(o)
           \/ Rollback \/ DeleteAll \/ Close \/ TakeSnapshot
           \/ ReleaseSnapshot \/ Unlink \/ UNCHANGED vars
    PROVE  CommitsKept
  <1>1. UNCHANGED acked
    BY DEF FinishMerges, Rollback, DeleteAll, Close, TakeSnapshot,
           ReleaseSnapshot, Unlink, histVars, vars
  <1>2. Exact(ifd, Committing)
    BY DEF IInv, CountsInv
  <1>3. CASE Rollback
    <2> DEFINE d1 == DecRef(ifd, InfosFiles(toSync.segs))
               d2 == Checkpoint(d1, InfosFiles(rollbackInfos), {})
    <2>1. PICK gone : ifd' = Refresh(d2, files \ gone)
      BY <1>3 DEF Rollback
    <2>2. Exact(d1, {}) /\ d1.commits = ifd.commits
      BY <1>2, ReleaseExact
    <2> HIDE DEF d1
    <2>3. Exact(d2, {}) /\ d2.commits = d1.commits
      BY <2>2, ExactCheckpoint
    <2> HIDE DEF d2
    <2> QED
      BY <1>1, <2>1, <2>2, <2>3, ExactRefresh DEF CommitsKept
  <1>4. CASE DeleteAll
    <2>1. ifd' = Refresh(Checkpoint(ifd, {}, {}), files)
      BY <1>4 DEF DeleteAll
    <2> QED
      BY <1>1, <1>2, <2>1, ExactCheckpoint, ExactRefresh DEF CommitsKept
  <1>5. CASE Close
    <2> DEFINE w == WriteDeletes(W, pooled, OpenFiles(docStore))
    <2>1. ifd' = CloseDeleter(w.ifd)
      BY <1>5 DEF Close
    <2>2. Fine(w, ifd.commits, Committing)
      BY FineW, FineWriteDeletes
    <2> HIDE DEF w
    <2> QED
      BY <1>1, <2>1, <2>2, ExactClose DEF Fine, CommitsKept
  <1>6. CASE Unlink
    <2>1. PICK F : ifd' = [ifd EXCEPT !.doomed = {}, !.deletable = @ \cup F]
      BY <1>6 DEF Unlink
    <2> QED
      BY <1>1, <1>2, <2>1 DEF Exact, IsRecord, CommitsKept
  <1>7. CASE \/ \E o : FinishMerges(o)
             \/ TakeSnapshot \/ ReleaseSnapshot \/ UNCHANGED vars
    BY <1>1, <1>7 DEF FinishMerges, TakeSnapshot, ReleaseSnapshot, vars,
                      CommitsKept
  <1> QED
    BY <1>3, <1>4, <1>5, <1>6, <1>7

\* What the commit points of a step have to do with those before.
Advance ==
    status = "open" /\ status' = "open" =>
        /\ acked' # acked =>
              /\ \A c \in ifd.commits : c.generation < acked'
              /\ \E c \in ifd'.commits : c.generation = acked'
        /\ \A c \in ifd.commits \ ifd'.commits :
              \E b \in ifd'.commits : b.generation > c.generation

\* finishCommit's checkpoint adds the newest commit point, which the policy
\* cannot have marked, and only that can make the others go.
LEMMA AdvanceCheckpoint ==
    ASSUME IInv, FinishCommitCheckpoint
    PROVE  Advance
  <1> DEFINE F == InfosFiles(toSync.segs)
                    \cup {Segments(toSync.lastGeneration)}
             p == [generation |-> toSync.generation, files |-> F]
             d == CommitCheckpoint(ifd, toSync.generation, F, snapshot)
  <1>1. /\ pc = "fcCheckpoint" /\ acked' = toSync.generation
        /\ ifd' = DecRef(d, InfosFiles(toSync.segs))
    BY DEF FinishCommitCheckpoint, ReleasePending
  <1>2. status = "open" /\ pending
    BY <1>1 DEF IInv, CallInv
  <1>3. /\ Exact(ifd, Committing) /\ toSync.generation \in Nat
        /\ \A c \in ifd.commits : /\ c.generation \in Nat
                                  /\ c.generation < toSync.generation
    BY <1>2 DEF IInv, CountsInv, GenInv
  <1> HIDE DEF F
  <1>4. p \notin ifd.commits /\ p.generation = toSync.generation
    BY <1>3
  <1>5. /\ Exact(d, Committing)
        /\ d.commits = Onwards(ifd.commits, p, snapshot)
    <2>1. [generation |-> toSync.generation, files |-> F] \notin ifd.commits
      BY <1>4
    <2>2. Exact(ifd, Committing)
      BY <1>3
    <2> QED
      BY <2>1, <2>2, ExactCommitCheckpoint
  <1> HIDE DEF d, p
  <1>6. ifd'.commits = d.commits
    BY <1>1, <1>5, KeptByDecRef
  <1>7. \A c \in ifd.commits \cup {p} : c.generation <= p.generation
    BY <1>3, <1>4
  <1>8. p \notin PolicyVictims(ifd.commits \cup {p}, snapshot)
    BY <1>3, <1>4, <1>7 DEF PolicyVictims
  <1>9. p \in ifd'.commits
    BY <1>5, <1>6, <1>8 DEF Onwards
  <1> QED
    BY <1>1, <1>3, <1>4, <1>9 DEF Advance

\* Every step of a writer keeps the commit points, or advances them.
LEMMA NextAdvances ==
    ASSUME IInv, [Next]_vars
    PROVE  Advance
  <1>1. SUFFICES ASSUME status = "open", status' = "open"
                 PROVE  Advance
    BY DEF Advance
  <1>2. CommitsKept => Advance
    BY DEF CommitsKept, Advance
  <1>3. CASE AddDocument \/ DeleteDocuments \/ Flush
             \/ \E o \in {"prepare", "commit", "close"} : BeginCommit(o)
    BY <1>2, <1>3, KeptIndexing
  <1>4. CASE \/ \E i, j \in DOMAIN infos.segs : MergeInit(i, j)
             \/ MergeOpen \/ MergeWrite \/ CommitMerge \/ ReleaseMerged
             \/ AbortMerge
    BY <1>2, <1>4, KeptMerges
  <1>5. CASE \/ CommitPrepared \/ NothingToCommit \/ StartCommit
             \/ (\E f \in InfosFiles(toSync.segs) : SyncFile(f))
             \/ SyncFails \/ SyncDone
             \/ PrepareCommit \/ PrepareFails \/ Unwind
             \/ FinishCommitWrite \/ FinishCommitSync \/ FinishCommitGen
    BY <1>2, <1>5, KeptCommitting
  <1>6. CASE FinishCommitCheckpoint
    BY <1>6, AdvanceCheckpoint
  <1>7. CASE \/ \E o \in {"rollback", "deleteAll"} : FinishMerges(o)
             \/ Rollback \/ DeleteAll \/ Close \/ TakeSnapshot
             \/ ReleaseSnapshot \/ Unlink \/ UNCHANGED vars
    BY <1>1, <1>2, <1>7, KeptShutDown
  <1>8. CASE \/ CloseDone \/ Crash \/ StartCommitOutOfRange
             \/ \E create \in BOOLEAN : Open(create)
    BY <1>1, <1>8 DEF CloseDone, Crash, StartCommitOutOfRange, Die, Open
  <1> QED
    BY <1>3, <1>4, <1>5, <1>6, <1>7, <1>8 DEF Next

\* A commit that succeeds is newer than every commit point and becomes one,
\* whatever failed before it, and KeepOnlyLastCommitDeletionPolicy::onCommit
\* lets a commit point go only when a newer one is there.
THEOREM CommitPointsAdvance == Spec => CommitsAdvance
  <1>1. Init => IInv
    BY InitIInv
  <1>2. IInv /\ [Next]_vars => IInv'
    BY NextIInv
  <1>3. IInv /\ [Next]_vars => [Advance]_vars
    BY NextAdvances
  <1>4. CommitsAdvance <=> [][Advance]_vars
    BY PTL DEF CommitsAdvance, Advance
  <1> QED
    BY <1>1, <1>2, <1>3, <1>4, PTL DEF Spec

-----------------------------------------------------------------------------
(***************************************************************************)
(* Types: the pieces of the handlers.                                      *)
(***************************************************************************)
\* What the constructors of file names make is a file name.
LEMMA FileNames ==
    ASSUME NEW n \in Nat
    PROVE  /\ Core(n) \in FileName /\ Store(n) \in FileName
           /\ Cfs(n) \in FileName /\ Cfx(n) \in FileName
           /\ Segments(n) \in FileName
           /\ \A g \in Nat : Del(n, g) \in FileName
  BY DEF Core, Store, Cfs, Cfx, Segments, Del, FileName

\* A segment, and a list of segments, has files.
LEMMA SegmentFilesType ==
    ASSUME NEW s \in SegmentInfo
    PROVE  SegmentFiles(s) \subseteq FileName
  <1>1. /\ s.name \in Nat /\ s.ds \in Nat \cup {None} /\ s.delGen \in Nat
    BY DEF SegmentInfo
  <1>2. /\ Core(s.name) \in FileName /\ Store(s.name) \in FileName
        /\ Cfs(s.name) \in FileName /\ Del(s.name, s.delGen) \in FileName
    BY <1>1, FileNames
  <1>3. s.ds # None => Store(s.ds) \in FileName /\ Cfx(s.ds) \in FileName
    BY <1>1, FileNames
  <1> QED
    BY <1>2, <1>3 DEF SegmentFiles

\* The files of segments are file names.
LEMMA InfosFilesType ==
    ASSUME NEW S \in Seq(SegmentInfo)
    PROVE  InfosFiles(S) \subseteq FileName
  <1>1. \A k \in DOMAIN S : S[k] \in SegmentInfo
    OBVIOUS
  <1> QED
    BY <1>1, SegmentFilesType DEF InfosFiles

(***************************************************************************)
(* S1 is what the segments S have become: they keep their places, names    *)
(* and doc stores, and more of them may have come.                         *)
(***************************************************************************)
GrownInfo(s, t) == /\ t.name = s.name /\ t.ds = s.ds /\ (s.dsc => t.dsc)
                   /\ s.delGen <= t.delGen

Grows(S, S1) == \A k \in DOMAIN S : k \in DOMAIN S1 /\ GrownInfo(S[k], S1[k])

\* The changes the handlers make to one segment
LEMMA ChangedInfo ==
    ASSUME NEW s \in SegmentInfo
    PROVE  /\ GrownInfo(s, s)
           /\ [s EXCEPT !.dsc = TRUE] \in SegmentInfo
           /\ GrownInfo(s, [s EXCEPT !.dsc = TRUE])
           /\ [s EXCEPT !.cfs = TRUE] \in SegmentInfo
           /\ GrownInfo(s, [s EXCEPT !.cfs = TRUE])
           /\ [s EXCEPT !.delGen = @ + 1] \in SegmentInfo
           /\ GrownInfo(s, [s EXCEPT !.delGen = @ + 1])
  <1>1. /\ s.name \in Nat /\ s.ds \in Nat \cup {None} /\ s.dsc \in BOOLEAN
        /\ s.cfs \in BOOLEAN /\ s.delGen \in Nat
    BY DEF SegmentInfo
  <1>2. s.delGen <= s.delGen /\ s.delGen <= s.delGen + 1 /\ s.delGen + 1 \in Nat
    BY <1>1
  <1>3. GrownInfo(s, s)
    BY <1>2 DEF GrownInfo
  <1>4. [s EXCEPT !.dsc = TRUE] \in SegmentInfo
        /\ GrownInfo(s, [s EXCEPT !.dsc = TRUE])
    BY <1>2 DEF SegmentInfo, GrownInfo
  <1>5. [s EXCEPT !.cfs = TRUE] \in SegmentInfo
        /\ GrownInfo(s, [s EXCEPT !.cfs = TRUE])
    BY <1>2 DEF SegmentInfo, GrownInfo
  <1>6. [s EXCEPT !.delGen = @ + 1] \in SegmentInfo
        /\ GrownInfo(s, [s EXCEPT !.delGen = @ + 1])
    BY <1>2 DEF SegmentInfo, GrownInfo
  <1> QED
    BY <1>3, <1>4, <1>5, <1>6

\* Segments that stay as they are have only grown.
LEMMA GrowsRefl ==
    ASSUME NEW S \in Seq(SegmentInfo)
    PROVE  Grows(S, S)
  <1>1. \A k \in DOMAIN S : S[k] \in SegmentInfo
    OBVIOUS
  <1> QED
    BY <1>1 DEF Grows, GrownInfo, SegmentInfo

\* What grew from what grew has grown.
LEMMA GrowsTrans ==
    ASSUME NEW S \in Seq(SegmentInfo), NEW S1 \in Seq(SegmentInfo),
           NEW S2 \in Seq(SegmentInfo), Grows(S, S1), Grows(S1, S2)
    PROVE  Grows(S, S2)
  <1> SUFFICES ASSUME NEW k \in DOMAIN S
               PROVE  k \in DOMAIN S2 /\ GrownInfo(S[k], S2[k])
    BY DEF Grows
  <1>1. k \in DOMAIN S1 /\ k \in DOMAIN S2
    BY DEF Grows
  <1>2. GrownInfo(S[k], S1[k]) /\ GrownInfo(S1[k], S2[k])
    BY <1>1 DEF Grows
  <1>3. /\ S[k].delGen \in Nat /\ S1[k].delGen \in Nat /\ S2[k].delGen \in Nat
    <2>1. /\ S[k] \in SegmentInfo /\ S1[k] \in SegmentInfo
          /\ S2[k] \in SegmentInfo
      BY <1>1
    <2> QED
      BY <2>1 DEF SegmentInfo
  <1>4. S[k].delGen <= S2[k].delGen
    BY <1>2, <1>3 DEF GrownInfo
  <1> QED
    BY <1>1, <1>2, <1>4 DEF GrownInfo

\* Changing the elements of a sequence one by one
LEMMA MapSegs ==
    ASSUME NEW S \in Seq(SegmentInfo), NEW S1, DOMAIN S1 = DOMAIN S,
           S1 = [k \in DOMAIN S |-> S1[k]],
           \A k \in DOMAIN S : S1[k] \in SegmentInfo
    PROVE  S1 \in Seq(SegmentInfo)
  <1>1. DOMAIN S = 1..Len(S) /\ Len(S) \in Nat
    OBVIOUS
  <1> QED
    BY <1>1

\* A handler's record that is typed, and whose segments S have become
Made(w, S) == /\ DOMAIN w = {"files", "created", "segs", "ifd"}
              /\ w.files \subseteq FileName
              /\ w.created \subseteq FileName
              /\ InFile(w.ifd, FileName)
              /\ w.segs \in Seq(SegmentInfo)
              /\ Grows(S, w.segs)

\* A handler's record starts well made: nothing created, no segment changed.
LEMMA MadeW ==
    ASSUME TypeOK
    PROVE  Made(W, infos.segs)
  <1>1. infos.segs \in Seq(SegmentInfo)
    BY DEF TypeOK, InfosRecord
  <1>2. files \subseteq FileName /\ InFile(ifd, FileName)
    BY TypeInFile DEF TypeOK
  <1>3. /\ W.files = files /\ W.created = {} /\ W.segs = infos.segs
        /\ W.ifd = ifd /\ DOMAIN W = {"files", "created", "segs", "ifd"}
    BY DEF W
  <1> QED
    BY <1>1, <1>2, <1>3, GrowsRefl DEF Made

\* Creating files and changing segments
LEMMA MadeSegs ==
    ASSUME NEW S \in Seq(SegmentInfo), NEW w, Made(w, S),
           NEW F \in SUBSET FileName, NEW S1 \in Seq(SegmentInfo),
           Grows(w.segs, S1)
    PROVE  /\ Made(Create(w, F), S)
           /\ Made([Create(w, F) EXCEPT !.segs = S1], S)
  <1>1. Grows(S, S1)
    BY GrowsTrans DEF Made
  <1> DEFINE w1 == Create(w, F)
             w2 == [w1 EXCEPT !.segs = S1]
  <1>2. /\ DOMAIN w1 = {"files", "created", "segs", "ifd"}
        /\ w1.files = w.files \cup F /\ w1.created = w.created \cup F
        /\ w1.segs = w.segs /\ w1.ifd = w.ifd
    BY DEF Create, Made
  <1>3. Made(w1, S)
    BY <1>2 DEF Made
  <1> HIDE DEF w1
  <1>4. /\ DOMAIN w2 = {"files", "created", "segs", "ifd"}
        /\ w2.files = w1.files /\ w2.created = w1.created
        /\ w2.segs = S1 /\ w2.ifd = w1.ifd
    BY <1>2
  <1> HIDE DEF w2
  <1>5. Made(w2, S)
    BY <1>1, <1>3, <1>4 DEF Made
  <1> QED
    BY <1>3, <1>5 DEF w1, w2

\* Creating files keeps the record well made.
LEMMA MadeCreate ==
    ASSUME NEW S \in Seq(SegmentInfo), NEW w, Made(w, S),
           NEW F \in SUBSET FileName
    PROVE  Made(Create(w, F), S)
  BY MadeSegs, GrowsRefl DEF Made

\* Replacing the deleter
LEMMA MadeDeleter ==
    ASSUME NEW S, NEW w, Made(w, S), NEW d, InFile(d, FileName)
    PROVE  Made([w EXCEPT !.ifd = d], S)
  <1> DEFINE w1 == [w EXCEPT !.ifd = d]
  <1>1. /\ DOMAIN w1 = {"files", "created", "segs", "ifd"}
        /\ w1.files = w.files /\ w1.created = w.created
        /\ w1.segs = w.segs /\ w1.ifd = d
    BY DEF Made
  <1> SUFFICES Made(w1, S)
    OBVIOUS
  <1> HIDE DEF w1
  <1> QED
    BY <1>1 DEF Made

\* So does a checkpoint.
LEMMA MadeCheckpoint ==
    ASSUME NEW S, NEW w, Made(w, S), NEW open \in SUBSET FileName
    PROVE  Made(CheckpointW(w, open), S)
  <1>1. InfosFiles(w.segs) \in SUBSET FileName
    BY InfosFilesType DEF Made
  <1>2. InFile(Checkpoint(w.ifd, InfosFiles(w.segs), open), FileName)
    BY <1>1, InFileCheckpoint DEF Made
  <1> QED
    BY <1>2, MadeDeleter DEF CheckpointW

\* A checkpoint leaves the segments alone.
LEMMA CheckpointSegs ==
    ASSUME NEW w, NEW open, "segs" \in DOMAIN w
    PROVE  CheckpointW(w, open).segs = w.segs
  BY DEF CheckpointW

\* So does a refresh of the deleter.
LEMMA MadeRefresh ==
    ASSUME NEW S, NEW w, Made(w, S), NEW F \in SUBSET FileName
    PROVE  Made([w EXCEPT !.ifd = Refresh(w.ifd, F)], S)
  <1>1. InFile(Refresh(w.ifd, F), FileName)
    BY InFileRefresh DEF Made
  <1> QED
    BY <1>1, MadeDeleter

\* So does closing a doc store: the segments that share it only note that.
LEMMA MadeFlushDocStores ==
    ASSUME NEW S \in Seq(SegmentInfo), NEW w, Made(w, S), NEW store \in Nat
    PROVE  Made(FlushDocStores(w, store), S)
  <1> DEFINE S1 == [k \in DOMAIN w.segs |->
                       IF w.segs[k].ds = store
                       THEN [w.segs[k] EXCEPT !.dsc = TRUE] ELSE w.segs[k]]
             w0 == [Create(w, {Cfx(store)}) EXCEPT !.segs = S1]
             w1 == CheckpointW(w0, {})
  <1>0. FlushDocStores(w, store) =
            IF UseCompoundFile
            THEN [w1 EXCEPT !.ifd = Refresh(w1.ifd, {Store(store)})] ELSE w
    BY DEF FlushDocStores
  <1>1. {Cfx(store)} \in SUBSET FileName /\ {Store(store)} \in SUBSET FileName
    BY FileNames
  <1>2. w.segs \in Seq(SegmentInfo)
        /\ \A k \in DOMAIN w.segs : w.segs[k] \in SegmentInfo
    BY DEF Made
  <1>3. \A k \in DOMAIN w.segs : S1[k] \in SegmentInfo /\ GrownInfo(w.segs[k], S1[k])
    BY <1>2, ChangedInfo
  <1>4. DOMAIN S1 = DOMAIN w.segs /\ S1 = [k \in DOMAIN w.segs |-> S1[k]]
    OBVIOUS
  <1> HIDE DEF S1
  <1>5. S1 \in Seq(SegmentInfo)
    BY <1>2, <1>3, <1>4, MapSegs
  <1>6. Grows(w.segs, S1)
    BY <1>3, <1>4 DEF Grows
  <1>7. Made(w0, S)
    BY <1>1, <1>5, <1>6, MadeSegs
  <1> HIDE DEF w0
  <1>8. Made(w1, S)
    BY <1>7, MadeCheckpoint
  <1> HIDE DEF w1
  <1>9. Made([w1 EXCEPT !.ifd = Refresh(w1.ifd, {Store(store)})], S)
    BY <1>1, <1>8, MadeRefresh
  <1> QED
    BY <1>0, <1>9

\* So does adding the flushed segment.
LEMMA MadeAddSegment ==
    ASSUME NEW S \in Seq(SegmentInfo), NEW w, Made(w, S), NEW name \in Nat,
           NEW ds \in Nat \cup {None}, NEW dsc \in BOOLEAN,
           NEW open \in SUBSET FileName
    PROVE  Made(AddSegment(w, name, ds, dsc, open), S)
  <1> DEFINE seg == [name |-> name, ds |-> ds, dsc |-> dsc, cfs |-> FALSE,
                     delGen |-> 0]
             S1 == Append(w.segs, seg)
             w0 == [Create(w, {Core(name)}) EXCEPT !.segs = S1]
  <1>0. AddSegment(w, name, ds, dsc, open) = CheckpointW(w0, open)
    BY DEF AddSegment
  <1>1. {Core(name)} \in SUBSET FileName /\ seg \in SegmentInfo
    BY FileNames DEF SegmentInfo
  <1>2. w.segs \in Seq(SegmentInfo)
    BY DEF Made
  <1> HIDE DEF seg
  <1>3. S1 \in Seq(SegmentInfo)
    BY <1>1, <1>2
  <1>4. Grows(w.segs, S1)
    <2>1. \A k \in DOMAIN w.segs : k \in DOMAIN S1 /\ S1[k] = w.segs[k]
      BY <1>1, <1>2
    <2>2. Grows(w.segs, w.segs)
      BY <1>2, GrowsRefl
    <2> QED
      BY <2>1, <2>2 DEF Grows
  <1> HIDE DEF S1
  <1>5. Made(w0, S)
    BY <1>1, <1>3, <1>4, MadeSegs
  <1> HIDE DEF w0
  <1> QED
    BY <1>0, <1>5, MadeCheckpoint

\* So does turning a segment into a compound file.
LEMMA MadeBuildCompound ==
    ASSUME NEW S \in Seq(SegmentInfo), NEW w, Made(w, S), NEW name \in Nat,
           NEW open \in SUBSET FileName
    PROVE  Made(BuildCompound(w, name, open), S)
  <1> DEFINE S1 == [k \in DOMAIN w.segs |->
                       IF w.segs[k].name = name
                       THEN [w.segs[k] EXCEPT !.cfs = TRUE] ELSE w.segs[k]]
             w0 == [Create(w, {Cfs(name)}) EXCEPT !.segs = S1]
  <1>0. BuildCompound(w, name, open) =
            IF UseCompoundFile THEN CheckpointW(w0, open) ELSE w
    BY DEF BuildCompound
  <1>1. {Cfs(name)} \in SUBSET FileName
    BY FileNames
  <1>2. w.segs \in Seq(SegmentInfo)
        /\ \A k \in DOMAIN w.segs : w.segs[k] \in SegmentInfo
    BY DEF Made
  <1>3. \A k \in DOMAIN w.segs : S1[k] \in SegmentInfo /\ GrownInfo(w.segs[k], S1[k])
    BY <1>2, ChangedInfo
  <1>4. DOMAIN S1 = DOMAIN w.segs /\ S1 = [k \in DOMAIN w.segs |-> S1[k]]
    OBVIOUS
  <1> HIDE DEF S1
  <1>5. S1 \in Seq(SegmentInfo)
    BY <1>2, <1>3, <1>4, MapSegs
  <1>6. Grows(w.segs, S1)
    BY <1>3, <1>4 DEF Grows
  <1>7. Made(w0, S)
    BY <1>1, <1>5, <1>6, MadeSegs
  <1> HIDE DEF w0
  <1> QED
    BY <1>0, <1>7, MadeCheckpoint

\* So does writing the buffered deletes of some segments.
LEMMA MadeWriteDeletes ==
    ASSUME NEW S \in Seq(SegmentInfo), NEW w, Made(w, S), NEW names,
           NEW open \in SUBSET FileName
    PROVE  Made(WriteDeletes(w, names, open), S)
  <1> DEFINE S1 == [k \in DOMAIN w.segs |->
                       IF w.segs[k].name \in names
                       THEN [w.segs[k] EXCEPT !.delGen = @ + 1]
                       ELSE w.segs[k]]
             new == {Del(S1[k].name, S1[k].delGen) :
                        k \in {j \in DOMAIN S1 : S1[j].name \in names}}
             w0 == [Create(w, new) EXCEPT !.segs = S1]
  <1>0. WriteDeletes(w, names, open) =
            IF names = {} THEN w ELSE CheckpointW(w0, open)
    BY DEF WriteDeletes
  <1>2. w.segs \in Seq(SegmentInfo)
        /\ \A k \in DOMAIN w.segs : w.segs[k] \in SegmentInfo
    BY DEF Made
  <1>3. \A k \in DOMAIN w.segs : S1[k] \in SegmentInfo /\ GrownInfo(w.segs[k], S1[k])
    BY <1>2, ChangedInfo
  <1>4. DOMAIN S1 = DOMAIN w.segs /\ S1 = [k \in DOMAIN w.segs |-> S1[k]]
    OBVIOUS
  <1> HIDE DEF S1
  <1>1. new \in SUBSET FileName
    <2>1. \A k \in DOMAIN S1 : S1[k].name \in Nat /\ S1[k].delGen \in Nat
      BY <1>3, <1>4 DEF SegmentInfo
    <2> QED
      BY <2>1, FileNames
  <1>5. S1 \in Seq(SegmentInfo)
    BY <1>2, <1>3, <1>4, MapSegs
  <1>6. Grows(w.segs, S1)
    BY <1>3, <1>4 DEF Grows
  <1> HIDE DEF new
  <1>7. Made(w0, S)
    BY <1>1, <1>5, <1>6, MadeSegs
  <1> HIDE DEF w0
  <1> QED
    BY <1>0, <1>7, MadeCheckpoint

\* doFlushInternal, in whichever way it ends
LEMMA OpenFilesType ==
    ASSUME TypeOK, NEW c \in BOOLEAN
    PROVE  OpenFiles(docStore) \in SUBSET FileName
           /\ OpenAfter(c) \in SUBSET FileName
  <1>1. OpenFiles(docStore) \in SUBSET FileName
    BY FileNames DEF TypeOK, OpenFiles
  <1> QED
    BY <1>1 DEF OpenAfter

\* So do the parts of doFlush, and doFlush as a whole.
LEMMA MadeFlushed ==
    ASSUME TypeOK, NEW S \in Seq(SegmentInfo), NEW w, Made(w, S),
           NEW c \in BOOLEAN, NEW names
    PROVE  /\ Made(StoresFlushed(w, c), S)
           /\ Made(SegmentFlushed(w, c), S)
           /\ Made(FlushedW(w, c, names), S)
  <1>0. /\ ram \in Nat \cup {None} /\ docStore \in Nat \cup {None}
        /\ OpenAfter(c) \in SUBSET FileName
    BY OpenFilesType DEF TypeOK
  <1>1. Made(StoresFlushed(w, c), S)
    BY <1>0, MadeFlushDocStores DEF StoresFlushed, Shared
  <1>2. Made(SegmentFlushed(w, c), S)
    <2>1. CASE ram = None
      BY <1>1, <2>1 DEF SegmentFlushed
    <2>2. CASE ram # None
      <3> DEFINE ds == IF c /\ docStore = ram THEN None ELSE docStore
                 dsc == Shared(c) /\ UseCompoundFile
      <3>1. ds \in Nat \cup {None} /\ dsc \in BOOLEAN /\ ram \in Nat
        BY <1>0, <2>2, SwitchesAssumption DEF Shared
      <3>2. SegmentFlushed(w, c) =
                AddSegment(StoresFlushed(w, c), ram, ds, dsc, OpenAfter(c))
        BY <2>2 DEF SegmentFlushed
      <3> HIDE DEF ds, dsc
      <3> QED
        BY <1>0, <1>1, <3>1, <3>2, MadeAddSegment
    <2> QED
      BY <2>1, <2>2
  <1> DEFINE w1 == IF ram = None THEN SegmentFlushed(w, c)
                   ELSE BuildCompound(SegmentFlushed(w, c), ram, OpenAfter(c))
             w2 == WriteDeletes(w1, names, OpenAfter(c))
  <1>3. Made(w1, S)
    BY <1>0, <1>2, MadeBuildCompound
  <1>4. FlushedW(w, c, names) =
            IF ram = None THEN w2 ELSE CheckpointW(w2, OpenAfter(c))
    BY DEF FlushedW
  <1> HIDE DEF w1
  <1>5. Made(w2, S)
    BY <1>0, <1>3, MadeWriteDeletes
  <1> HIDE DEF w2
  <1>6. Made(FlushedW(w, c, names), S)
    BY <1>0, <1>4, <1>5, MadeCheckpoint
  <1> QED
    BY <1>1, <1>2, <1>6

\* So does a doFlush whose writes fail.
LEMMA MadeFlushFailed ==
    ASSUME TypeOK, NEW S \in Seq(SegmentInfo), NEW w, Made(w, S),
           NEW c \in BOOLEAN, ram # None
    PROVE  Made(FlushFailedW(w, c), S) /\ Made(CompoundFailedW(w, c), S)
  <1>0. ram \in Nat
    BY DEF TypeOK
  <1>1. {Core(ram)} \in SUBSET FileName /\ {Cfs(ram)} \in SUBSET FileName
    BY <1>0, FileNames
  <1> DEFINE w1 == Create(StoresFlushed(w, c), {Core(ram)})
             w2 == Create(SegmentFlushed(w, c), {Cfs(ram)})
             d == [w2.ifd EXCEPT !.doomed = @ \cup {Cfs(ram)}]
  <1>2. Made(w1, S) /\ Made(w2, S)
    BY <1>1, MadeFlushed, MadeCreate
  <1>3. FlushFailedW(w, c) =
            [w1 EXCEPT !.ifd = Refresh(w1.ifd, Prefixed(w1.files, ram))]
    BY DEF FlushFailedW
  <1>4. CompoundFailedW(w, c) = [w2 EXCEPT !.ifd = d]
    BY <1>2 DEF CompoundFailedW, Made
  <1> HIDE DEF w1, w2
  <1>5. Prefixed(w1.files, ram) \in SUBSET FileName
    BY <1>2 DEF Prefixed, Made
  <1>6. Made(FlushFailedW(w, c), S)
    <2> DEFINE F == Prefixed(w1.files, ram)
    <2> HIDE DEF F
    <2>1. Made([w1 EXCEPT !.ifd = Refresh(w1.ifd, F)], S)
      BY <1>2, <1>5, MadeRefresh DEF F
    <2> QED
      BY <1>3, <2>1 DEF F
  <1>7. InFile(d, FileName)
    <2>1. InFile(w2.ifd, FileName)
      BY <1>2 DEF Made
    <2>2. /\ IsRecord(d) /\ d.lastFiles = w2.ifd.lastFiles
          /\ d.refCounts = w2.ifd.refCounts /\ d.commits = w2.ifd.commits
          /\ d.deletable = w2.ifd.deletable
          /\ d.doomed = w2.ifd.doomed \cup {Cfs(ram)}
          /\ d.synced = w2.ifd.synced
      BY <2>1 DEF InFile, IsRecord
    <2> HIDE DEF d
    <2> QED
      BY <1>1, <2>1, <2>2 DEF InFile
  <1> HIDE DEF d
  <1> QED
    BY <1>2, <1>4, <1>6, <1>7, MadeDeleter

\* And one that fails to build the doc store's .cfx.
LEMMA MadeStoresFailed ==
    ASSUME TypeOK, NEW S \in Seq(SegmentInfo), Made(W, S), docStore # None
    PROVE  Made(StoresFailedW, S)
  <1>1. {Cfx(docStore)} \in SUBSET FileName
    BY FileNames DEF TypeOK
  <1> DEFINE w == Create(W, {Cfx(docStore)})
             d == [w.ifd EXCEPT !.doomed = @ \cup {Cfx(docStore)}]
  <1>2. Made(w, S)
    BY <1>1, MadeCreate
  <1>3. StoresFailedW = [w EXCEPT !.ifd = d]
    BY <1>2 DEF StoresFailedW, Made
  <1> HIDE DEF w
  <1>4. InFile(w.ifd, FileName)
    BY <1>2 DEF Made
  <1>5. /\ IsRecord(d) /\ d.lastFiles = w.ifd.lastFiles
        /\ d.refCounts = w.ifd.refCounts /\ d.commits = w.ifd.commits
        /\ d.deletable = w.ifd.deletable
        /\ d.doomed = w.ifd.doomed \cup {Cfx(docStore)}
        /\ d.synced = w.ifd.synced
    BY <1>4 DEF InFile, IsRecord
  <1> HIDE DEF d
  <1>6. InFile(d, FileName)
    BY <1>1, <1>4, <1>5 DEF InFile
  <1> QED
    BY <1>2, <1>3, <1>6, MadeDeleter

-----------------------------------------------------------------------------
(***************************************************************************)
(* Types: the actions.                                                     *)
(***************************************************************************)
\* The segments a merge works on stay where they are until it ends, which
\* commitMerge relies on, and a writer that is gone has no merge.
SourcesInv ==
    /\ merge.stage # "none" => merge.name \in Nat
    /\ merge.stage \notin {"none", "merged"} =>
          \E k \in DOMAIN infos.segs : infos.segs[k].name \in merge.srcs
    /\ status # "open" => merge = NoMerge

TypeInv == TypeOK /\ SourcesInv

\* The parts of TypeOK, by who changes them
DirType == /\ files \subseteq FileName /\ stable \subseteq FileName
           /\ IsDeleter(ifd, FileName) /\ infos \in InfosRecord

SisType == /\ DOMAIN sis \subseteq Nat
           /\ \A g \in DOMAIN sis :
                 sis[g] \in [segs: Seq(SegmentInfo), counter: Nat, valid: BOOLEAN]
           /\ segGen \in Nat \cup {None}

UserType == /\ status \in {"open", "closed", "crashed"}
            /\ toSync \in InfosRecord
            /\ rollbackInfos \in Seq(SegmentInfo)
            /\ pc \in PCs /\ op \in Ops /\ pending \in BOOLEAN
            /\ snapshot \in Nat \cup {None} /\ acked \in Nat
            /\ crashes \in Nat /\ opens \in Nat

BufferType == /\ dirty \in BOOLEAN /\ dirtySince \in BOOLEAN
              /\ pooled \subseteq Nat
              /\ merge \in [stage: Stages, srcs: SUBSET Nat,
                            name: Nat \cup {None}, ds: Nat \cup {None},
                            dsc: BOOLEAN, mds: BOOLEAN, late: BOOLEAN]
              /\ ram \in Nat \cup {None} /\ docStore \in Nat \cup {None}
              /\ delTerms \subseteq {"inRAM", "flushed"} /\ docClosed \in BOOLEAN

\* The type invariant, in the parts that the handlers disturb.
LEMMA TypeParts ==
    TypeOK <=> DirType /\ SisType /\ UserType /\ BufferType
  BY DEF TypeOK, DirType, SisType, UserType, BufferType

\* The same of the next state.
LEMMA TypePartsNext ==
    (TypeOK <=> DirType /\ SisType /\ UserType /\ BufferType)'
  <1>1. TypeOK <=> DirType /\ SisType /\ UserType /\ BufferType
    BY TypeParts
  <1> QED
    BY <1>1, PTL

\* The deleter of a writer is typed because its counts are exact.
LEMMA DeleterType ==
    ASSUME InFile(ifd, FileName), IInv, status = "open"
    PROVE  IsDeleter(ifd, FileName)
  BY InFileType DEF IInv, CountsInv

\* In the next state too, an open writer has a deleter of the right type.
LEMMA DeleterTypeNext ==
    (InFile(ifd, FileName) /\ IInv /\ status = "open" => IsDeleter(ifd, FileName))'
  <1>1. InFile(ifd, FileName) /\ IInv /\ status = "open" => IsDeleter(ifd, FileName)
    BY DeleterType
  <1> QED
    BY <1>1, PTL

\* New segments in the segmentInfos
LEMMA InfosType ==
    ASSUME NEW I \in InfosRecord, NEW S \in Seq(SegmentInfo), NEW n \in Nat
    PROVE  /\ [I EXCEPT !.segs = S, !.counter = n] \in InfosRecord
           /\ [I EXCEPT !.segs = S] \in InfosRecord
           /\ [I EXCEPT !.segs = S].segs = S
           /\ [I EXCEPT !.segs = S, !.counter = n].segs = S
  BY DEF InfosRecord

\* Segments have natural names.
LEMMA NamesType ==
    ASSUME NEW S \in Seq(SegmentInfo)
    PROVE  Names(S) \subseteq Nat
  <1> SUFFICES ASSUME NEW k \in DOMAIN S PROVE S[k].name \in Nat
    BY DEF Names
  <1>1. S[k] \in SegmentInfo
    OBVIOUS
  <1> QED
    BY <1>1 DEF SegmentInfo

\* What a handler leaves is typed, and the segments have only grown.
LEMMA TypeBecomes ==
    ASSUME TypeOK, IInv', status' = "open", NEW S, NEW w, Made(w, S),
           files' = w.files, stable' = stable \ w.created, ifd' = w.ifd,
           \/ infos' = [infos EXCEPT !.segs = w.segs]
           \/ \E n \in Nat : infos' = [infos EXCEPT !.segs = w.segs, !.counter = n]
    PROVE  DirType' /\ Grows(S, infos'.segs)
  <1>1. w.segs \in Seq(SegmentInfo) /\ infos \in InfosRecord
    BY DEF Made, TypeOK
  <1>2. infos' \in InfosRecord /\ infos'.segs = w.segs
    <2>1. CASE infos' = [infos EXCEPT !.segs = w.segs]
      <3>1. /\ [infos EXCEPT !.segs = w.segs] \in InfosRecord
            /\ [infos EXCEPT !.segs = w.segs].segs = w.segs
        BY <1>1 DEF InfosRecord
      <3> QED
        BY <2>1, <3>1
    <2>2. CASE \E n \in Nat : infos' = [infos EXCEPT !.segs = w.segs, !.counter = n]
      <3>1. PICK n \in Nat : infos' = [infos EXCEPT !.segs = w.segs, !.counter = n]
        BY <2>2
      <3>2. /\ [infos EXCEPT !.segs = w.segs, !.counter = n] \in InfosRecord
            /\ [infos EXCEPT !.segs = w.segs, !.counter = n].segs = w.segs
        BY <1>1 DEF InfosRecord
      <3> QED
        BY <3>1, <3>2
    <2> QED
      BY <2>1, <2>2
  <1>3. InFile(ifd', FileName)
    BY DEF Made
  <1>4. IsDeleter(ifd', FileName)
    BY <1>3, DeleterTypeNext
  <1>5. files' \subseteq FileName /\ stable' \subseteq FileName
    BY DEF Made, TypeOK
  <1> QED
    BY <1>2, <1>4, <1>5 DEF DirType, Made

\* When the segments grow, the sources of a merge stay.
LEMMA SourcesStay ==
    ASSUME SourcesInv, Grows(infos.segs, infos'.segs), status' = status,
           \/ merge'.stage = "none" /\ status = "open"
           \/ /\ merge'.stage # "none" => merge.stage # "none"
              /\ merge.stage = "merged" => merge'.stage \in {"none", "merged"}
              /\ merge'.srcs = merge.srcs /\ merge'.name = merge.name
              /\ status # "open" => merge' = merge
    PROVE  SourcesInv'
  <1>1. CASE merge'.stage = "none" /\ status = "open"
    BY <1>1 DEF SourcesInv
  <1>2. CASE merge'.stage # "none"
    <2>1. /\ merge.stage # "none" /\ merge'.srcs = merge.srcs
          /\ merge'.name = merge.name
      BY <1>2
    <2>2. /\ merge'.name \in Nat
          /\ status' # "open" => merge' = NoMerge
      BY <1>2, <2>1 DEF SourcesInv
    <2>3. CASE merge'.stage = "merged"
      BY <2>2, <2>3 DEF SourcesInv
    <2>4. CASE merge'.stage # "merged"
      <3>1. PICK k \in DOMAIN infos.segs : infos.segs[k].name \in merge.srcs
        BY <1>2, <2>1, <2>4 DEF SourcesInv
      <3>2. k \in DOMAIN infos'.segs /\ infos'.segs[k].name \in merge'.srcs
        BY <2>1, <3>1 DEF Grows, GrownInfo
      <3> QED
        BY <2>2, <3>2 DEF SourcesInv
    <2> QED
      BY <2>3, <2>4
  <1>3. CASE merge'.stage = "none" /\ status # "open"
    BY <1>3 DEF SourcesInv
  <1> QED
    BY <1>1, <1>2, <1>3

\* A merge keeps its sources when neither it nor the segments change.
LEMMA SourcesSame ==
    ASSUME TypeOK, SourcesInv, infos'.segs = infos.segs,
           status' = status, merge' = merge
    PROVE  SourcesInv'
  <1>1. infos.segs \in Seq(SegmentInfo)
    BY DEF TypeOK, InfosRecord
  <1> QED
    BY <1>1, GrowsRefl, SourcesStay

-----------------------------------------------------------------------------
\* A flush, in whichever way it ends
LEMMA TypeFlush ==
    ASSUME TypeInv, IInv', status = "open", status' = "open",
           NEW c \in BOOLEAN, NEW applies \in BOOLEAN,
           \/ FlushSucceeds(c, applies) \/ FlushThrows(c)
           \/ CompoundThrows(c) \/ StoresThrow,
           docClosed' \in BOOLEAN
    PROVE  DirType' /\ BufferType' /\ SourcesInv'
  <1>0. TypeOK /\ SourcesInv /\ BufferType /\ infos.segs \in Seq(SegmentInfo)
    BY TypeParts DEF TypeInv, TypeOK, InfosRecord
  <1>1. Made(W, infos.segs)
    BY <1>0, MadeW
  <1>2. \E w : /\ Made(w, infos.segs) /\ Becomes(w)
               /\ infos' = [infos EXCEPT !.segs = w.segs]
    <2>1. CASE FlushSucceeds(c, applies)
      <3>1. PICK names : LET w == FlushedW(W, c, names \ HeldByMerge)
                         IN  /\ Becomes(w)
                             /\ infos' = [infos EXCEPT !.segs = w.segs]
        BY <2>1 DEF FlushSucceeds
      <3> DEFINE w == FlushedW(W, c, names \ HeldByMerge)
      <3>2. Made(w, infos.segs)
        BY <1>0, <1>1, MadeFlushed
      <3>3. Becomes(w) /\ infos' = [infos EXCEPT !.segs = w.segs]
        BY <3>1
      <3> HIDE DEF w
      <3> QED
        BY <3>2, <3>3
    <2>2. CASE FlushThrows(c)
      <3> DEFINE w == FlushFailedW(W, c)
      <3>1. ram # None /\ Becomes(w) /\ infos' = [infos EXCEPT !.segs = w.segs]
        BY <2>2 DEF FlushThrows
      <3>2. Made(w, infos.segs)
        BY <1>0, <1>1, <3>1, MadeFlushFailed
      <3> HIDE DEF w
      <3> QED
        BY <3>1, <3>2
    <2>3. CASE CompoundThrows(c)
      <3> DEFINE w == CompoundFailedW(W, c)
      <3>1. ram # None /\ Becomes(w) /\ infos' = [infos EXCEPT !.segs = w.segs]
        BY <2>3 DEF CompoundThrows
      <3>2. Made(w, infos.segs)
        BY <1>0, <1>1, <3>1, MadeFlushFailed
      <3> HIDE DEF w
      <3> QED
        BY <3>1, <3>2
    <2>4. CASE StoresThrow
      <3>1. PICK w \in {W, StoresFailedW} : Becomes(w)
        BY <2>4 DEF StoresThrow
      <3>2. docStore # None
        BY <2>4 DEF StoresThrow, Shared
      <3>3. Made(w, infos.segs)
        BY <1>0, <1>1, <3>1, <3>2, MadeStoresFailed
      <3>4. w.segs = infos.segs
        <4>1. W.segs = infos.segs
          BY DEF W
        <4>2. StoresFailedW.segs = infos.segs
          BY DEF StoresFailedW, Create, W
        <4> QED
          BY <3>1, <4>1, <4>2
      <3>5. infos' = [infos EXCEPT !.segs = w.segs]
        BY <1>0, <2>4, <3>4 DEF StoresThrow, TypeOK, InfosRecord
      <3> QED
        BY <3>1, <3>3, <3>5
    <2> QED
      BY <2>1, <2>2, <2>3, <2>4
  <1>3. PICK w : /\ Made(w, infos.segs) /\ Becomes(w)
                 /\ infos' = [infos EXCEPT !.segs = w.segs]
    BY <1>2
  <1>4. DirType' /\ Grows(infos.segs, infos'.segs)
    BY <1>0, <1>3, TypeBecomes DEF Becomes
  <1>5. /\ \/ UNCHANGED <<dirty, dirtySince>>
           \/ \E b \in BOOLEAN : Changed(b)
        /\ \/ UNCHANGED mergeVars
           \/ \E names \in SUBSET Nat : Hit(names)
    <2>1. CASE FlushSucceeds(c, applies)
      <3>1. PICK names \in (IF applies
                            THEN HitBy(Pushed(delTerms), SegmentFlushed(W, c).segs)
                            ELSE {{}}) :
                Changed(Changes(c, names)) /\ Hit(names)
        BY <2>1 DEF FlushSucceeds
      <3>2. SegmentFlushed(W, c).segs \in Seq(SegmentInfo)
        BY <1>0, <1>1, MadeFlushed DEF Made
      <3>3. Names(SegmentFlushed(W, c).segs) \subseteq Nat
        BY <3>2, NamesType
      <3>4. names \subseteq Names(SegmentFlushed(W, c).segs)
        BY <3>1 DEF HitBy, Deletable, Names
      <3>5. Changes(c, names) \in BOOLEAN
        BY DEF Changes, Shared
      <3> QED
        BY <3>1, <3>3, <3>4, <3>5
    <2>2. CASE FlushThrows(c)
      <3>1. (Shared(c) /\ UseCompoundFile) \in BOOLEAN
        BY DEF Shared
      <3> QED
        BY <2>2, <3>1 DEF FlushThrows
    <2>3. CASE CompoundThrows(c)
      BY <2>3 DEF CompoundThrows
    <2>4. CASE StoresThrow
      BY <2>4 DEF StoresThrow
    <2> QED
      BY <2>1, <2>2, <2>3, <2>4
  <1>6. /\ pooled' \subseteq Nat
        /\ merge' \in [stage: Stages, srcs: SUBSET Nat,
                       name: Nat \cup {None}, ds: Nat \cup {None},
                       dsc: BOOLEAN, mds: BOOLEAN, late: BOOLEAN]
        /\ merge'.stage = merge.stage /\ merge'.srcs = merge.srcs
        /\ merge'.name = merge.name
    <2>1. CASE UNCHANGED mergeVars
      BY <1>0, <2>1 DEF mergeVars, BufferType
    <2>2. CASE \E names \in SUBSET Nat : Hit(names)
      <3>1. PICK names \in SUBSET Nat : Hit(names)
        BY <2>2
      <3>2. pooled' \subseteq Nat
        BY <1>0, <3>1 DEF Hit, BufferType
      <3>3. \E b \in BOOLEAN : merge' = [merge EXCEPT !.late = b]
        BY <1>0, <3>1 DEF Hit, BufferType
      <3> QED
        BY <1>0, <3>2, <3>3 DEF BufferType
    <2> QED
      BY <1>5, <2>1, <2>2
  <1>7. dirty' \in BOOLEAN /\ dirtySince' \in BOOLEAN
    BY <1>0, <1>5 DEF Changed, BufferType
  <1>8. /\ ram' = None /\ docStore' \in {None, docStore}
        /\ delTerms' \subseteq {"inRAM", "flushed"}
    BY DEF FlushSucceeds, FlushThrows, CompoundThrows, StoresThrow,
           AbortDocuments, Pushed
  <1>9. BufferType'
    BY <1>0, <1>6, <1>7, <1>8 DEF BufferType
  <1>10. SourcesInv'
    BY <1>0, <1>4, <1>6, SourcesStay
  <1> QED
    BY <1>4, <1>9, <1>10

\* addDocument, deleteDocuments and flush keep the types.
LEMMA TypeIndexing ==
    ASSUME TypeInv, IInv', AddDocument \/ DeleteDocuments \/ Flush
    PROVE  TypeInv'
  <1>0. /\ TypeOK /\ SourcesInv
        /\ DirType /\ SisType /\ UserType /\ BufferType
    BY TypeParts DEF TypeInv
  <1>1. status = "open" /\ status' = "open"
    BY DEF AddDocument, DeleteDocuments, Flush, Indexing
  <1>2. CASE AddDocument
    <2>1. /\ UNCHANGED <<sis, segGen, ifd, status, rollbackInfos, mergeVars,
                         delTerms, docClosed, userVars, histVars>>
          /\ infos' = [infos EXCEPT !.counter = @ + 1]
          /\ ram' = infos.counter /\ docStore' \in {docStore, infos.counter}
          /\ files' \subseteq files \cup {Store(infos.counter)}
          /\ stable' \subseteq stable
          /\ Changed(TRUE)
      BY <1>2 DEF AddDocument
    <2>2. infos.counter \in Nat /\ infos' \in InfosRecord /\ infos'.segs = infos.segs
      BY <1>0, <2>1 DEF DirType, InfosRecord
    <2>3. DirType'
      BY <1>0, <2>1, <2>2, FileNames DEF DirType
    <2>4. SisType' /\ UserType'
      BY <1>0, <2>1 DEF SisType, UserType, userVars, histVars
    <2>5. BufferType'
      BY <1>0, <2>1, <2>2 DEF BufferType, mergeVars, Changed
    <2>6. SourcesInv'
      BY <1>0, <2>1, <2>2, SourcesSame DEF mergeVars
    <2> QED
      BY <2>3, <2>4, <2>5, <2>6, TypePartsNext DEF TypeInv
  <1>3. CASE DeleteDocuments
    <2>1. /\ UNCHANGED <<dirVars, ifd, status, infos, rollbackInfos, dirty,
                         dirtySince, mergeVars, ram, docStore, docClosed,
                         userVars, histVars>>
          /\ delTerms' = delTerms \cup {"inRAM"}
      BY <1>3 DEF DeleteDocuments
    <2>2. DirType' /\ SisType' /\ UserType'
      BY <1>0, <2>1 DEF DirType, SisType, UserType, userVars, histVars, dirVars
    <2>3. BufferType'
      BY <1>0, <2>1 DEF BufferType, mergeVars
    <2>4. SourcesInv'
      BY <1>0, <2>1, SourcesSame DEF mergeVars
    <2> QED
      BY <2>2, <2>3, <2>4, TypePartsNext DEF TypeInv
  <1>4. CASE Flush
    <2>1. UNCHANGED <<sis, segGen, status, rollbackInfos, docClosed, userVars,
                      histVars>>
      BY <1>4 DEF Flush
    <2>2. \E c \in BOOLEAN, applies \in BOOLEAN :
             \/ FlushSucceeds(c, applies) \/ FlushThrows(c)
             \/ CompoundThrows(c) \/ StoresThrow
      BY <1>4 DEF Flush
    <2>3. docClosed' \in BOOLEAN
      BY <1>0, <2>1 DEF BufferType
    <2>4. DirType' /\ BufferType' /\ SourcesInv'
      BY <1>1, <2>2, <2>3, TypeFlush
    <2>5. SisType' /\ UserType'
      BY <1>0, <2>1 DEF SisType, UserType, userVars, histVars
    <2> QED
      BY <2>4, <2>5, TypePartsNext DEF TypeInv
  <1> QED
    BY <1>2, <1>3, <1>4

\* A merge that starts names the sources it finds.
LEMMA TypeMergeInit ==
    ASSUME TypeInv, IInv', NEW i, NEW j, MergeInit(i, j)
    PROVE  TypeInv'
  <1>0. /\ TypeOK /\ SourcesInv
        /\ DirType /\ SisType /\ UserType /\ BufferType
        /\ infos.segs \in Seq(SegmentInfo) /\ infos.counter \in Nat
    BY TypeParts DEF TypeInv, DirType, InfosRecord
  <1>1. /\ UNCHANGED <<sis, segGen, status, rollbackInfos, pooled, docClosed,
                       userVars, histVars>>
        /\ status = "open" /\ status' = "open"
        /\ i \in DOMAIN infos.segs /\ j \in DOMAIN infos.segs /\ i < j
        /\ Changed(TRUE)
    BY DEF MergeInit, LockFree
  <1>2. PICK names :
          LET w1 == WriteDeletes(W, names, OpenFiles(docStore))
              mds == MergeDocStores(w1.segs, i, j)
              flushes == mds /\ SharesOpenStore(w1.segs, i..j)
              w2 == IF flushes THEN FlushedW(w1, TRUE, {}) ELSE w1
              first == w1.segs[i]
          IN  /\ Becomes(w2)
              /\ infos' = [infos EXCEPT !.segs = w2.segs, !.counter = @ + 1]
              /\ StoreClosed(flushes, delTerms \ {"flushed"})
              /\ merge' = [stage |-> "init", name |-> infos.counter,
                           srcs |-> {infos.segs[k].name : k \in i..j},
                           ds |-> IF mds THEN None ELSE first.ds,
                           dsc |-> ~mds /\ first.dsc,
                           mds |-> mds, late |-> FALSE]
    BY DEF MergeInit
  <1> DEFINE w1 == WriteDeletes(W, names, OpenFiles(docStore))
             mds == MergeDocStores(w1.segs, i, j)
             flushes == mds /\ SharesOpenStore(w1.segs, i..j)
             w2 == IF flushes THEN FlushedW(w1, TRUE, {}) ELSE w1
             first == w1.segs[i]
             srcs == {infos.segs[k].name : k \in i..j}
  <1>3. Made(w1, infos.segs)
    BY <1>0, MadeW, MadeWriteDeletes, OpenFilesType
  <1>4. mds \in BOOLEAN /\ flushes \in BOOLEAN
    BY DEF MergeDocStores, SharesOpenStore
  <1>5. /\ Becomes(w2)
        /\ infos' = [infos EXCEPT !.segs = w2.segs, !.counter = infos.counter + 1]
        /\ StoreClosed(flushes, delTerms \ {"flushed"})
        /\ merge' = [stage |-> "init", name |-> infos.counter, srcs |-> srcs,
                     ds |-> IF mds THEN None ELSE first.ds,
                     dsc |-> ~mds /\ first.dsc,
                     mds |-> mds, late |-> FALSE]
    <2>1. [infos EXCEPT !.segs = w2.segs, !.counter = @ + 1]
            = [infos EXCEPT !.segs = w2.segs, !.counter = infos.counter + 1]
      BY <1>0 DEF DirType, InfosRecord
    <2> QED
      BY <1>2, <2>1
  <1> HIDE DEF w1
  <1>6. first.ds \in Nat \cup {None} /\ first.dsc \in BOOLEAN
    <2>1. first \in SegmentInfo
      BY <1>1, <1>3 DEF Made, Grows
    <2> QED
      BY <2>1 DEF SegmentInfo
  <1> HIDE DEF mds, flushes, first
  <1>7. Made(w2, infos.segs)
    BY <1>0, <1>3, MadeFlushed
  <1> HIDE DEF w2
  <1>8. DirType' /\ Grows(infos.segs, infos'.segs)
    <2>1. infos.counter + 1 \in Nat
      BY <1>0
    <2>2. \E n \in Nat : infos' = [infos EXCEPT !.segs = w2.segs, !.counter = n]
      BY <1>5, <2>1
    <2> QED
      BY <1>0, <1>1, <1>5, <1>7, <2>2, TypeBecomes DEF Becomes
  <1>9. srcs \subseteq Nat /\ infos.segs[i].name \in srcs
    <2>1. \A k \in i..j : k \in DOMAIN infos.segs
      BY <1>0, <1>1
    <2>2. \A k \in DOMAIN infos.segs : infos.segs[k] \in SegmentInfo
      BY <1>0
    <2>3. \A k \in DOMAIN infos.segs : infos.segs[k].name \in Nat
      BY <2>2 DEF SegmentInfo
    <2>4. i \in i..j
      BY <1>0, <1>1
    <2> QED
      BY <2>1, <2>3, <2>4
  <1>10. i \in DOMAIN infos'.segs /\ infos'.segs[i].name \in merge'.srcs
    BY <1>1, <1>5, <1>8, <1>9 DEF Grows, GrownInfo
  <1>11. SourcesInv'
    BY <1>0, <1>1, <1>5, <1>10 DEF SourcesInv
  <1> HIDE DEF srcs
  <1>12. /\ merge' \in [stage: Stages, srcs: SUBSET Nat,
                        name: Nat \cup {None}, ds: Nat \cup {None},
                        dsc: BOOLEAN, mds: BOOLEAN, late: BOOLEAN]
    <2> DEFINE ds == IF mds THEN None ELSE first.ds
               dsc == ~mds /\ first.dsc
    <2>1. ds \in Nat \cup {None} /\ dsc \in BOOLEAN
      BY <1>4, <1>6
    <2>2. merge' = [stage |-> "init", name |-> infos.counter, srcs |-> srcs,
                    ds |-> ds, dsc |-> dsc, mds |-> mds, late |-> FALSE]
      BY <1>5
    <2> HIDE DEF ds, dsc
    <2> QED
      BY <1>0, <1>4, <1>9, <2>1, <2>2 DEF Stages
  <1>13. /\ ram' \in Nat \cup {None} /\ docStore' \in Nat \cup {None}
         /\ delTerms' \subseteq {"inRAM", "flushed"}
         /\ dirty' \in BOOLEAN /\ dirtySince' \in BOOLEAN
    BY <1>0, <1>1, <1>5 DEF StoreClosed, Pushed, Changed, BufferType
  <1>14. BufferType'
    BY <1>0, <1>1, <1>12, <1>13 DEF BufferType
  <1>15. SisType' /\ UserType'
    BY <1>0, <1>1 DEF SisType, UserType, userVars, histVars
  <1> QED
    BY <1>8, <1>11, <1>14, <1>15, TypePartsNext DEF TypeInv

\* It opens its readers, then writes its files.
LEMMA TypeMergeOpen ==
    ASSUME TypeInv, IInv', MergeOpen
    PROVE  TypeInv'
  <1>0. /\ TypeOK /\ SourcesInv
        /\ DirType /\ SisType /\ UserType /\ BufferType
        /\ infos.segs \in Seq(SegmentInfo)
    BY TypeParts DEF TypeInv, DirType, InfosRecord
  <1>1. /\ UNCHANGED <<sis, segGen, status, rollbackInfos, pooled, docClosed,
                       userVars, histVars>>
        /\ status = "open" /\ status' = "open" /\ merge.stage = "init"
    BY DEF MergeOpen, LockFree
  <1>2. \E b, m \in BOOLEAN :
          LET w == IF b THEN FlushedW(W, TRUE, {}) ELSE W
          IN  /\ Becomes(w)
              /\ infos' = [infos EXCEPT !.segs = w.segs]
              /\ StoreClosed(b, delTerms)
              /\ Changed(b)
              /\ merge' = [merge EXCEPT !.stage = "open", !.mds = m,
                             !.ds = IF m THEN None ELSE @,
                             !.dsc = ~m /\ @]
    <2> DEFINE K == {k \in DOMAIN infos.segs : infos.segs[k].name \in merge.srcs}
               mds == merge.mds \/ \E k \in K : infos.segs[k].delGen > 0
               flushes == mds /\ ~merge.mds /\ SharesOpenStore(infos.segs, K)
    <2>1. merge.mds \in BOOLEAN
      BY <1>0 DEF BufferType
    <2>2. mds \in BOOLEAN /\ flushes \in BOOLEAN
      BY <2>1 DEF SharesOpenStore
    <2>3. LET w == IF flushes THEN FlushedW(W, TRUE, {}) ELSE W
          IN  /\ Becomes(w)
              /\ infos' = [infos EXCEPT !.segs = w.segs]
              /\ StoreClosed(flushes, delTerms)
              /\ Changed(flushes)
              /\ merge' = [merge EXCEPT !.stage = "open", !.mds = mds,
                             !.ds = IF mds THEN None ELSE @,
                             !.dsc = ~mds /\ @]
      BY Zenon DEF MergeOpen
    <2> HIDE DEF mds, flushes
    <2> QED
      BY <2>2, <2>3
  <1>3. PICK b, m \in BOOLEAN :
          LET w == IF b THEN FlushedW(W, TRUE, {}) ELSE W
          IN  /\ Becomes(w)
              /\ infos' = [infos EXCEPT !.segs = w.segs]
              /\ StoreClosed(b, delTerms)
              /\ Changed(b)
              /\ merge' = [merge EXCEPT !.stage = "open", !.mds = m,
                             !.ds = IF m THEN None ELSE @,
                             !.dsc = ~m /\ @]
    BY <1>2
  <1> DEFINE w == IF b THEN FlushedW(W, TRUE, {}) ELSE W
  <1>4. Made(w, infos.segs)
    BY <1>0, MadeW, MadeFlushed
  <1>5. Becomes(w) /\ infos' = [infos EXCEPT !.segs = w.segs]
    BY <1>3
  <1> HIDE DEF w
  <1>6. DirType' /\ Grows(infos.segs, infos'.segs)
    BY <1>0, <1>1, <1>4, <1>5, TypeBecomes DEF Becomes
  <1>7. /\ merge' \in [stage: Stages, srcs: SUBSET Nat,
                       name: Nat \cup {None}, ds: Nat \cup {None},
                       dsc: BOOLEAN, mds: BOOLEAN, late: BOOLEAN]
        /\ merge'.srcs = merge.srcs /\ merge'.name = merge.name
    <2> DEFINE ds == IF m THEN None ELSE merge.ds
               dsc == ~m /\ merge.dsc
    <2>1. ds \in Nat \cup {None} /\ dsc \in BOOLEAN
      BY <1>0 DEF BufferType
    <2>2. merge' = [merge EXCEPT !.stage = "open", !.mds = m, !.ds = ds,
                                 !.dsc = dsc]
      BY <1>0, <1>3 DEF BufferType
    <2> HIDE DEF ds, dsc
    <2> QED
      BY <1>0, <2>1, <2>2 DEF Stages, BufferType
  <1>8. /\ ram' \in Nat \cup {None} /\ docStore' \in Nat \cup {None}
        /\ delTerms' \subseteq {"inRAM", "flushed"}
        /\ dirty' \in BOOLEAN /\ dirtySince' \in BOOLEAN
    BY <1>0, <1>1, <1>3 DEF StoreClosed, Pushed, Changed, BufferType
  <1>9. BufferType'
    BY <1>0, <1>1, <1>7, <1>8 DEF BufferType
  <1>10. SisType' /\ UserType'
    BY <1>0, <1>1 DEF SisType, UserType, userVars, histVars
  <1>11. SourcesInv'
    BY <1>0, <1>1, <1>6, <1>7, SourcesStay
  <1> QED
    BY <1>6, <1>9, <1>10, <1>11, TypePartsNext DEF TypeInv

\* So does writing the merged segment.
LEMMA TypeMergeWrite ==
    ASSUME TypeInv, IInv', MergeWrite
    PROVE  TypeInv'
  <1>0. /\ TypeOK /\ SourcesInv
        /\ DirType /\ SisType /\ UserType /\ BufferType
        /\ infos.segs \in Seq(SegmentInfo)
        /\ merge.name \in Nat \cup {None}
    BY TypeParts DEF TypeInv, DirType, InfosRecord, BufferType
  <1>1. /\ UNCHANGED <<sis, segGen, status, infos, rollbackInfos, dirty,
                       dirtySince, pooled, docVars, userVars, histVars>>
        /\ status = "open" /\ status' = "open" /\ merge.stage = "open"
        /\ merge' = [merge EXCEPT !.stage = "written"]
    BY DEF MergeWrite, LockFree
  <1> DEFINE parts == {Core(merge.name)}
                      \cup (IF merge.mds THEN {Store(merge.name)} ELSE {})
             w1 == Create(W, parts \cup {Cfs(merge.name)})
             w == IF UseCompoundFile
                  THEN [w1 EXCEPT !.ifd = Refresh(w1.ifd, parts)]
                  ELSE Create(W, parts)
  <1>2. Becomes(w)
    BY DEF MergeWrite
  <1>3. parts \in SUBSET FileName /\ Cfs(merge.name) \in FileName
    BY <1>0 DEF Core, Store, Cfs, FileName, None
  <1> HIDE DEF parts
  <1>4. Made(w1, infos.segs) /\ Made(Create(W, parts), infos.segs)
    BY <1>0, <1>3, MadeW, MadeCreate
  <1>5. w.segs = infos.segs
    BY DEF Create, W
  <1> HIDE DEF w1
  <1>6. Made(w, infos.segs)
    BY <1>0, <1>3, <1>4, MadeRefresh
  <1> HIDE DEF w
  <1>7. DirType'
    <2>1. InFile(ifd', FileName)
      BY <1>2, <1>6 DEF Becomes, Made
    <2>2. IsDeleter(ifd', FileName)
      BY <1>1, <2>1, DeleterTypeNext
    <2> QED
      BY <1>0, <1>1, <1>2, <1>6, <2>2 DEF Becomes, Made, DirType
  <1>8. BufferType'
    BY <1>0, <1>1 DEF BufferType, docVars, Stages
  <1>9. SisType' /\ UserType'
    BY <1>0, <1>1 DEF SisType, UserType, userVars, histVars
  <1>10. SourcesInv'
    <2>1. merge'.srcs = merge.srcs /\ merge'.name = merge.name
      BY <1>0, <1>1 DEF BufferType
    <2> QED
      BY <1>0, <1>1, <2>1 DEF SourcesInv
  <1> QED
    BY <1>7, <1>8, <1>9, <1>10, TypePartsNext DEF TypeInv

\* A list of segments in which one takes the place of the sources is one.
LEMMA ReplacedSegs ==
    ASSUME NEW X, NEW S \in Seq(X), NEW K \in SUBSET DOMAIN S, K # {},
           NEW t \in X
    PROVE  LET start == CHOOSE k \in K : \A l \in K : k <= l
           IN  SubSeq(S, 1, start - 1) \o <<t>>
                 \o SubSeq(S, start + Cardinality(K), Len(S)) \in Seq(X)
  <1> DEFINE start == CHOOSE k \in K : \A l \in K : k <= l
             A == SubSeq(S, 1, start - 1)
             B == SubSeq(S, start + Cardinality(K), Len(S))
  <1> SUFFICES A \o <<t>> \o B \in Seq(X)
    OBVIOUS
  <1>1. K \subseteq Nat /\ DOMAIN S = 1..Len(S) /\ Len(S) \in Nat
    OBVIOUS
  <1>2. \E k \in K : \A l \in K : k <= l
    BY <1>1, LeastNat
  <1>3. start \in K
    BY <1>2
  <1>4. start \in 1..Len(S)
    BY <1>1, <1>3
  <1>5. Cardinality(K) \in Nat
    <2>1. IsFiniteSet(1..Len(S))
      BY <1>1, FS_Interval
    <2>2. IsFiniteSet(K)
      BY <1>1, <2>1, FS_Subset
    <2> QED
      BY <2>2, FS_CardinalityType
  <1> DEFINE m == start + Cardinality(K)
  <1>6. m \in Int /\ 1 <= m /\ start - 1 \in Int /\ start - 1 <= Len(S)
    BY <1>1, <1>4, <1>5
  <1> HIDE DEF start, m
  <1>7. A \in Seq(X)
    <2>1. \A i \in 1..(start - 1) : S[i] \in X
      BY <1>1, <1>4, <1>6
    <2> QED
      BY <1>6, <2>1, SubSeqProperties
  <1>8. SubSeq(S, m, Len(S)) \in Seq(X)
    <2>1. \A i \in m..Len(S) : S[i] \in X
      BY <1>1, <1>6
    <2> QED
      BY <1>1, <1>6, <2>1, SubSeqProperties
  <1>9. B \in Seq(X)
    BY <1>8 DEF m
  <1> HIDE DEF A, B
  <1>10. A \o <<t>> \in Seq(X)
    BY <1>7
  <1> QED
    BY <1>9, <1>10

\* The merged segment takes the place of its sources.
LEMMA TypeCommitMerge ==
    ASSUME TypeInv, IInv', CommitMerge
    PROVE  TypeInv'
  <1>0. /\ TypeOK /\ SourcesInv
        /\ DirType /\ SisType /\ UserType /\ BufferType
        /\ infos \in InfosRecord /\ infos.segs \in Seq(SegmentInfo)
    BY TypeParts DEF TypeInv, DirType, InfosRecord
  <1>1. /\ UNCHANGED <<sis, segGen, status, rollbackInfos, docVars, userVars,
                       histVars>>
        /\ status = "open" /\ status' = "open" /\ merge.stage = "written"
        /\ MergeCommitted /\ Changed(TRUE)
    BY DEF CommitMerge, LockFree
  <1> DEFINE K == {k \in DOMAIN infos.segs : infos.segs[k].name \in merge.srcs}
  <1>2. PICK dsc \in BOOLEAN :
          LET start == CHOOSE k \in K : \A l \in K : k <= l
              new == [name |-> merge.name, ds |-> merge.ds, dsc |-> dsc,
                      cfs |-> UseCompoundFile, delGen |-> 0]
              segs1 == SubSeq(infos.segs, 1, start - 1) \o <<new>>
                       \o SubSeq(infos.segs, start + Cardinality(K),
                                 Len(infos.segs))
              w1 == CheckpointW([W EXCEPT !.segs = segs1], OpenFiles(docStore))
          IN  Becomes(w1) /\ infos' = [infos EXCEPT !.segs = segs1]
    BY Zenon DEF CommitMerge
  <1> DEFINE start == CHOOSE k \in K : \A l \in K : k <= l
             new == [name |-> merge.name, ds |-> merge.ds, dsc |-> dsc,
                     cfs |-> UseCompoundFile, delGen |-> 0]
             segs1 == SubSeq(infos.segs, 1, start - 1) \o <<new>>
                      \o SubSeq(infos.segs, start + Cardinality(K),
                                Len(infos.segs))
             w0 == [W EXCEPT !.segs = segs1]
             w1 == CheckpointW(w0, OpenFiles(docStore))
  <1>3. Becomes(w1) /\ infos' = [infos EXCEPT !.segs = segs1]
    BY <1>2
  <1>4. K # {}
    BY <1>0, <1>1 DEF SourcesInv
  <1>5. new \in SegmentInfo
    <2>1. merge.name \in Nat /\ merge.ds \in Nat \cup {None}
      BY <1>0, <1>1 DEF SourcesInv, BufferType
    <2> QED
      BY <2>1, SwitchesAssumption DEF SegmentInfo
  <1> HIDE DEF new
  <1>6. segs1 \in Seq(SegmentInfo)
    BY <1>0, <1>4, <1>5, ReplacedSegs
  <1> HIDE DEF segs1, K
  <1>14. "segs" \in DOMAIN w0 /\ w0.segs = segs1
    BY DEF W
  <1>7. Made(w0, segs1)
    <2>1. Made(W, infos.segs)
      BY <1>0, MadeW
    <2>2. /\ DOMAIN w0 = {"files", "created", "segs", "ifd"}
          /\ w0.files = W.files /\ w0.created = W.created
          /\ w0.segs = segs1 /\ w0.ifd = W.ifd
      BY DEF W
    <2>3. Grows(segs1, segs1)
      BY <1>6, GrowsRefl
    <2> HIDE DEF w0
    <2> QED
      BY <1>6, <2>1, <2>2, <2>3 DEF Made
  <1> HIDE DEF w0
  <1>8. Made(w1, segs1)
    BY <1>0, <1>7, MadeCheckpoint, OpenFilesType
  <1>9. w1.segs = segs1
    BY <1>14, CheckpointSegs, Zenon
  <1> HIDE DEF w1
  <1>10. DirType'
    <2>1. infos' = [infos EXCEPT !.segs = w1.segs]
      BY <1>3, <1>9
    <2>2. files' = w1.files /\ stable' = stable \ w1.created /\ ifd' = w1.ifd
      BY <1>3 DEF Becomes
    <2> QED
      BY <1>0, <1>1, <1>8, <2>1, <2>2, TypeBecomes, Zenon
  <1>11. BufferType' /\ SourcesInv'
    <2>1. merge.name \in Nat
      BY <1>0, <1>1 DEF SourcesInv
    <2> DEFINE m == [NoMerge EXCEPT !.stage = "merged", !.name = merge.name,
                                    !.srcs = {merge.name}]
    <2>2. /\ m \in [stage: Stages, srcs: SUBSET Nat,
                    name: Nat \cup {None}, ds: Nat \cup {None},
                    dsc: BOOLEAN, mds: BOOLEAN, late: BOOLEAN]
          /\ m.stage = "merged" /\ m.name = merge.name
      BY <2>1 DEF NoMerge, Stages
    <2>3. merge' = m
      BY <1>1 DEF MergeCommitted
    <2> HIDE DEF m
    <2>4. pooled' \subseteq Nat
      BY <1>0, <1>1, <2>1 DEF MergeCommitted, BufferType
    <2>5. BufferType'
      BY <1>0, <1>1, <2>2, <2>3, <2>4 DEF BufferType, docVars, Changed
    <2>6. SourcesInv'
      BY <1>1, <2>1, <2>2, <2>3 DEF SourcesInv
    <2> QED
      BY <2>5, <2>6
  <1>12. SisType' /\ UserType'
    BY <1>0, <1>1 DEF SisType, UserType, userVars, histVars
  <1> QED
    BY <1>10, <1>11, <1>12, TypePartsNext DEF TypeInv

\* The merged segment's reader is released.
LEMMA TypeReleaseMerged ==
    ASSUME TypeInv, IInv', ReleaseMerged
    PROVE  TypeInv'
  <1>0. /\ TypeOK /\ SourcesInv
        /\ DirType /\ SisType /\ UserType /\ BufferType
        /\ infos.segs \in Seq(SegmentInfo)
    BY TypeParts DEF TypeInv, DirType, InfosRecord
  <1>1. /\ UNCHANGED <<sis, segGen, status, rollbackInfos, dirty, dirtySince,
                       docVars, userVars, histVars>>
        /\ status = "open" /\ status' = "open"
        /\ pooled' = pooled \ merge.srcs /\ merge' = NoMerge
    BY DEF ReleaseMerged, LockFree
  <1> DEFINE w == WriteDeletes(W, pooled \cap merge.srcs, OpenFiles(docStore))
  <1>2. Becomes(w) /\ infos' = [infos EXCEPT !.segs = w.segs]
    BY DEF ReleaseMerged
  <1>3. Made(w, infos.segs)
    BY <1>0, MadeW, MadeWriteDeletes, OpenFilesType
  <1> HIDE DEF w
  <1>4. DirType'
    BY <1>0, <1>1, <1>2, <1>3, TypeBecomes DEF Becomes
  <1>5. BufferType'
    BY <1>0, <1>1 DEF BufferType, docVars, NoMerge, Stages
  <1>6. SisType' /\ UserType'
    BY <1>0, <1>1 DEF SisType, UserType, userVars, histVars
  <1>7. SourcesInv'
    BY <1>1 DEF SourcesInv, NoMerge
  <1> QED
    BY <1>4, <1>5, <1>6, <1>7, TypePartsNext DEF TypeInv

\* The merge is given up.
LEMMA TypeAbortMerge ==
    ASSUME TypeInv, IInv', AbortMerge
    PROVE  TypeInv'
  <1>0. /\ TypeOK /\ SourcesInv
        /\ DirType /\ SisType /\ UserType /\ BufferType
        /\ infos.segs \in Seq(SegmentInfo)
    BY TypeParts DEF TypeInv, DirType, InfosRecord
  <1>1. /\ UNCHANGED <<sis, segGen, status, rollbackInfos, dirty, dirtySince,
                       docVars, userVars, histVars>>
        /\ status = "open" /\ status' = "open"
        /\ pooled' = pooled \ merge.srcs /\ merge' = NoMerge
    BY DEF AbortMerge, LockFree
  <1> DEFINE w1 == WriteDeletes(W, pooled \cap merge.srcs, OpenFiles(docStore))
             F == Prefixed(w1.files, merge.name)
             w2 == [w1 EXCEPT !.ifd = Refresh(w1.ifd, F)]
             w == IF AbortsMerges /\ merge.stage = "written" THEN w1 ELSE w2
  <1>2. Becomes(w) /\ infos' = [infos EXCEPT !.segs = w.segs]
    BY DEF AbortMerge
  <1>3. Made(w1, infos.segs)
    BY <1>0, MadeW, MadeWriteDeletes, OpenFilesType
  <1> HIDE DEF w1
  <1>4. F \in SUBSET FileName
    BY <1>3 DEF Prefixed, Made
  <1> HIDE DEF F
  <1>5. Made(w, infos.segs)
    BY <1>3, <1>4, MadeRefresh
  <1> HIDE DEF w
  <1>6. DirType'
    BY <1>0, <1>1, <1>2, <1>5, TypeBecomes DEF Becomes
  <1>7. BufferType'
    BY <1>0, <1>1 DEF BufferType, docVars, NoMerge, Stages
  <1>8. SisType' /\ UserType'
    BY <1>0, <1>1 DEF SisType, UserType, userVars, histVars
  <1>9. SourcesInv'
    BY <1>1 DEF SourcesInv, NoMerge
  <1> QED
    BY <1>6, <1>7, <1>8, <1>9, TypePartsNext DEF TypeInv

-----------------------------------------------------------------------------
\* A commit begins, or there is nothing to do, or merges are told to stop.
LEMMA TypeBeginCommit ==
    ASSUME TypeInv, IInv',
           \/ \E o \in {"prepare", "commit", "close"} : BeginCommit(o)
           \/ CommitPrepared \/ NothingToCommit
           \/ \E o \in {"rollback", "deleteAll"} : FinishMerges(o)
    PROVE  TypeInv'
  <1>0. /\ TypeOK /\ SourcesInv
        /\ DirType /\ SisType /\ UserType /\ BufferType
    BY TypeParts DEF TypeInv
  <1>1. CASE \E o \in {"prepare", "commit", "close"} : BeginCommit(o)
    <2>1. PICK o \in {"prepare", "commit", "close"} : BeginCommit(o)
      BY <1>1
    <2>2. /\ UNCHANGED <<sis, segGen, status, rollbackInfos, toSync, pending,
                         histVars>>
          /\ status = "open" /\ status' = "open"
          /\ pc' \in {"flushed", "idle"} /\ op' \in {o, "none"}
          /\ docClosed' = (docClosed \/ o = "close")
          /\ \/ FlushSucceeds(TRUE, TRUE) \/ FlushThrows(TRUE)
             \/ CompoundThrows(TRUE) \/ StoresThrow
      BY <2>1 DEF BeginCommit, LockFree, GoTo
    <2>3. docClosed' \in BOOLEAN
      BY <1>0, <2>2 DEF BufferType
    <2>4. DirType' /\ BufferType' /\ SourcesInv'
      BY <2>2, <2>3, TypeFlush
    <2>5. SisType' /\ UserType'
      BY <1>0, <2>2 DEF SisType, UserType, histVars, PCs, Ops
    <2> QED
      BY <2>4, <2>5, TypePartsNext DEF TypeInv
  <1>2. CASE \/ CommitPrepared \/ NothingToCommit
             \/ \E o \in {"rollback", "deleteAll"} : FinishMerges(o)
    <2>1. /\ UNCHANGED <<dirVars, ifd, status, infos, rollbackInfos, dirty,
                         dirtySince, mergeVars, docVars, toSync, pending,
                         histVars>>
          /\ pc' \in {"fcWrite", "closing", "idle", "aborting"}
          /\ op' \in {"commit", op, "none", "rollback", "deleteAll"}
      BY <1>2 DEF CommitPrepared, NothingToCommit, FinishMerges, GoTo
    <2>2. DirType' /\ SisType' /\ UserType'
      BY <1>0, <2>1 DEF DirType, SisType, UserType, dirVars, histVars, PCs, Ops
    <2>3. BufferType' /\ SourcesInv'
      BY <1>0, <2>1 DEF BufferType, SourcesInv, docVars, mergeVars
    <2> QED
      BY <2>2, <2>3, TypePartsNext DEF TypeInv
  <1> QED
    BY <1>1, <1>2

\* The segments before the tail are segments.
LEMMA BeforeTailType ==
    ASSUME NEW S \in Seq(SegmentInfo), NEW store, HeadFound(S, store)
    PROVE  BeforeTail(S, store) \in Seq(SegmentInfo)
  <1> DEFINE K == {k \in DOMAIN S : S[k].ds # store}
             last == CHOOSE k \in K : \A l \in K : l <= k
  <1>1. CASE store = None
    BY <1>1 DEF BeforeTail
  <1>2. CASE store # None
    <2>1. K # {} /\ K \subseteq Nat /\ Len(S) \in Nat
          /\ \A k \in K : k \in 1..Len(S)
      BY <1>2 DEF HeadFound
    <2>2. \A k \in K : k <= Len(S)
      BY <2>1
    <2>3. \E k \in K : \A l \in K : l <= k
      BY <2>1, <2>2, GreatestNat
    <2>4. last \in K
      BY <2>3
    <2>5. last \in 1..Len(S)
      BY <2>1, <2>4
    <2>6. BeforeTail(S, store) = SubSeq(S, 1, last)
      BY <1>2 DEF BeforeTail
    <2> HIDE DEF last
    <2>7. \A i \in 1..last : S[i] \in SegmentInfo
      BY <2>1, <2>5
    <2>8. SubSeq(S, 1, last) \in Seq(SegmentInfo)
      BY <2>5, <2>7, SubSeqProperties
    <2> QED
      BY <2>6, <2>8
  <1> QED
    BY <1>1, <1>2

\* startCommit copies the segments before the tail.
LEMMA TypeStartCommit ==
    ASSUME TypeInv, IInv', StartCommit
    PROVE  TypeInv'
  <1>0. /\ TypeOK /\ SourcesInv
        /\ DirType /\ SisType /\ UserType /\ BufferType
        /\ infos \in InfosRecord /\ infos.segs \in Seq(SegmentInfo)
    BY TypeParts DEF TypeInv, DirType, InfosRecord
  <1> DEFINE w == WriteDeletes(W, pooled, OpenFiles(docStore))
             segs == BeforeTail(w.segs, docStore)
  <1>1. /\ UNCHANGED <<sis, segGen, status, rollbackInfos, dirty, merge,
                       docVars, op, pending, histVars>>
        /\ status = "open" /\ status' = "open" /\ pooled' = {} /\ pc' = "sync"
        /\ HeadFound(w.segs, docStore)
        /\ files' = w.files
        /\ stable' = stable \ w.created
        /\ ifd' = IncRef(w.ifd, InfosFiles(segs))
        /\ infos' = [infos EXCEPT !.segs = w.segs]
        /\ toSync' = [infos EXCEPT !.segs = segs]
        /\ dirtySince' = (Len(segs) # Len(w.segs))
    BY DEF StartCommit, LockFree
  <1>2. Made(w, infos.segs)
    BY <1>0, MadeW, MadeWriteDeletes, OpenFilesType
  <1> HIDE DEF w
  <1>3. w.segs \in Seq(SegmentInfo) /\ segs \in Seq(SegmentInfo)
    BY <1>1, <1>2, BeforeTailType DEF Made
  <1> HIDE DEF segs
  <1>4. infos' \in InfosRecord /\ toSync' \in InfosRecord
        /\ infos'.segs = w.segs
    BY <1>0, <1>1, <1>3 DEF InfosRecord
  <1>5. InFile(ifd', FileName)
    <2>1. InfosFiles(segs) \in SUBSET FileName
      BY <1>3, InfosFilesType
    <2> QED
      BY <1>1, <1>2, <2>1, InFileIncRef DEF Made
  <1>6. IsDeleter(ifd', FileName)
    BY <1>1, <1>5, DeleterTypeNext
  <1>7. DirType'
    BY <1>0, <1>1, <1>2, <1>4, <1>6 DEF DirType, Made
  <1>8. dirtySince' \in BOOLEAN
    BY <1>1
  <1>9. BufferType'
    BY <1>0, <1>1, <1>8 DEF BufferType, docVars
  <1>10. SisType' /\ UserType'
    BY <1>0, <1>1, <1>4 DEF SisType, UserType, histVars, PCs
  <1>11. SourcesInv'
    BY <1>0, <1>1, <1>2, <1>4, SourcesStay DEF Made
  <1> QED
    BY <1>7, <1>9, <1>10, <1>11, TypePartsNext DEF TypeInv

\* Files are synced.
LEMMA TypeSync ==
    ASSUME TypeInv, IInv', IInv,
           \/ \E f \in InfosFiles(toSync.segs) : SyncFile(f)
           \/ SyncFails \/ SyncDone
    PROVE  TypeInv'
  <1>0. /\ TypeOK /\ SourcesInv
        /\ DirType /\ SisType /\ UserType /\ BufferType
        /\ toSync.segs \in Seq(SegmentInfo)
    BY TypeParts DEF TypeInv, UserType, InfosRecord
  <1>1. CASE \E f \in InfosFiles(toSync.segs) : SyncFile(f)
    <2>1. PICK f \in InfosFiles(toSync.segs) : SyncFile(f)
      BY <1>1
    <2>2. /\ UNCHANGED <<files, sis, segGen, status, infos, rollbackInfos,
                         dirty, dirtySince, mergeVars, docVars, userVars,
                         histVars>>
          /\ stable' = stable \cup {f}
          /\ ifd' = [ifd EXCEPT !.synced = @ \cup {f}]
      BY <2>1 DEF SyncFile
    <2>3. f \in FileName
      BY <1>0, InfosFilesType
    <2>4. IsDeleter(ifd', FileName)
      <3>1. IsDeleter(ifd, FileName)
        BY <1>0 DEF DirType
      <3>2. /\ DOMAIN ifd' = DOMAIN ifd /\ ifd'.synced = ifd.synced \cup {f}
            /\ ifd'.refCounts = ifd.refCounts /\ ifd'.lastFiles = ifd.lastFiles
            /\ ifd'.commits = ifd.commits /\ ifd'.deletable = ifd.deletable
            /\ ifd'.doomed = ifd.doomed
        BY <2>2, <3>1 DEF IsDeleter
      <3> QED
        BY <2>3, <3>1, <3>2 DEF IsDeleter
    <2>5. DirType' /\ SisType' /\ UserType'
      BY <1>0, <2>2, <2>3, <2>4 DEF DirType, SisType, UserType, userVars, histVars
    <2>6. BufferType' /\ SourcesInv'
      BY <1>0, <2>2 DEF BufferType, SourcesInv, docVars, mergeVars
    <2> QED
      BY <2>5, <2>6, TypePartsNext DEF TypeInv
  <1>2. CASE SyncFails \/ SyncDone
    <2>1. /\ UNCHANGED <<dirVars, ifd, status, infos, rollbackInfos, dirty,
                         dirtySince, mergeVars, docVars, op, toSync, pending,
                         histVars>>
          /\ pc' \in {"unwind", "turn"}
      BY <1>2 DEF SyncFails, SyncDone
    <2>2. DirType' /\ SisType' /\ UserType'
      BY <1>0, <2>1 DEF DirType, SisType, UserType, dirVars, histVars, PCs
    <2>3. BufferType' /\ SourcesInv'
      BY <1>0, <2>1 DEF BufferType, SourcesInv, docVars, mergeVars
    <2> QED
      BY <2>2, <2>3, TypePartsNext DEF TypeInv
  <1> QED
    BY <1>1, <1>2

\* SegmentInfos with other generations are SegmentInfos.
LEMMA GenerationTypes ==
    ASSUME NEW I \in InfosRecord, NEW J \in InfosRecord
    PROVE  /\ UpdateGeneration(I, J) \in InfosRecord
           /\ UpdateGeneration(I, J).segs = I.segs
           /\ [I EXCEPT !.lastGeneration = I.generation] \in InfosRecord
           /\ [I EXCEPT !.lastGeneration = I.generation].segs = I.segs
           /\ [I EXCEPT !.generation = NextGeneration(I)] \in InfosRecord
  <1> USE DEF InfosRecord
  <1>1. /\ UpdateGeneration(I, J) \in InfosRecord
        /\ UpdateGeneration(I, J).segs = I.segs
    BY DEF UpdateGeneration
  <1>2. /\ [I EXCEPT !.lastGeneration = I.generation] \in InfosRecord
        /\ [I EXCEPT !.lastGeneration = I.generation].segs = I.segs
    OBVIOUS
  <1>3. NextGeneration(I) \in Int
    BY DEF NextGeneration
  <1>4. [I EXCEPT !.generation = NextGeneration(I)] \in InfosRecord
    BY <1>3
  <1> QED
    BY <1>1, <1>2, <1>4

\* segments_N is written, or fails to be.
LEMMA TypePrepare ==
    ASSUME TypeInv, IInv, IInv', PrepareCommit \/ PrepareFails
    PROVE  TypeInv'
  <1>0. /\ TypeOK /\ SourcesInv
        /\ DirType /\ SisType /\ UserType /\ BufferType
        /\ infos \in InfosRecord /\ toSync \in InfosRecord
    BY TypeParts DEF TypeInv, DirType, UserType
  <1> DEFINE g == Prepared.generation
             entry == [segs |-> toSync.segs, valid |-> FALSE,
                       counter |-> toSync.counter]
  <1>1. /\ UNCHANGED <<segGen, ifd, status, rollbackInfos, dirty, dirtySince,
                       mergeVars, docVars, histVars>>
        /\ status = "open" /\ pc = "turn"
        /\ toSync' = Prepared /\ infos' = UpdateGeneration(infos, Prepared)
        /\ files' \subseteq files \cup {Segments(g)}
        /\ stable' \subseteq stable
        /\ \/ sis' = sis
           \/ sis' = [h \in DOMAIN sis \cup {g} |-> IF h = g THEN entry ELSE sis[h]]
        /\ pending' \in {pending, TRUE}
        /\ pc' \in {"idle", "fcWrite", "unwind"} /\ op' \in {op, "none"}
    BY DEF PrepareCommit, PrepareFails, SegmentsFileStarted, LockFree, GoTo
  <1>2. g \in Nat
    BY PreparedIsNew
  <1>3. Prepared \in InfosRecord
    <2> DEFINE t == IF infos.generation > toSync.generation
                    THEN UpdateGeneration(toSync, infos) ELSE toSync
    <2>1. t \in InfosRecord
      BY <1>0, GenerationTypes
    <2>2. Prepared = [t EXCEPT !.generation = NextGeneration(t)]
      BY DEF Prepared
    <2> HIDE DEF t
    <2> QED
      BY <2>1, <2>2, GenerationTypes
  <1>4. infos' \in InfosRecord /\ infos'.segs = infos.segs
    BY <1>0, <1>1, <1>3, GenerationTypes
  <1>5. entry \in [segs: Seq(SegmentInfo), counter: Nat, valid: BOOLEAN]
    BY <1>0 DEF InfosRecord
  <1> HIDE DEF g, entry
  <1>6. DirType'
    <2>1. Segments(g) \in FileName
      BY <1>2, FileNames
    <2> QED
      BY <1>0, <1>1, <1>4, <2>1 DEF DirType
  <1>7. SisType'
    BY <1>0, <1>1, <1>2, <1>5 DEF SisType
  <1>8. UserType'
    BY <1>0, <1>1, <1>3 DEF UserType, histVars, PCs, Ops
  <1>9. BufferType'
    BY <1>0, <1>1 DEF BufferType, docVars, mergeVars
  <1>10. SourcesInv'
    BY <1>0, <1>1, <1>4, SourcesSame DEF mergeVars
  <1> QED
    BY <1>6, <1>7, <1>8, <1>9, <1>10, TypePartsNext DEF TypeInv

\* A step that ends the commit under way, by what it leaves.
LEMMA TypeRelease ==
    ASSUME TypeInv, IInv', NEW d, InFile(d, FileName),
           status = "open", status' = "open",
           ifd' = DecRef(d, InfosFiles(toSync.segs)),
           files' \subseteq files, stable' \subseteq FileName, SisType',
           infos' \in InfosRecord, infos'.segs = infos.segs,
           toSync' = NoInfos, pending' \in BOOLEAN,
           rollbackInfos' \in Seq(SegmentInfo), acked' \in Nat,
           pc' \in PCs, op' \in Ops, dirty' \in BOOLEAN,
           UNCHANGED <<dirtySince, mergeVars, docVars, snapshot, crashes,
                       opens>>
    PROVE  TypeInv'
  <1>0. /\ TypeOK /\ SourcesInv
        /\ DirType /\ SisType /\ UserType /\ BufferType
        /\ toSync.segs \in Seq(SegmentInfo)
    BY TypeParts DEF TypeInv, UserType, InfosRecord
  <1>1. IsDeleter(ifd', FileName)
    <2>1. InfosFiles(toSync.segs) \in SUBSET FileName
      BY <1>0, InfosFilesType
    <2>2. InFile(ifd', FileName)
      BY <2>1, InFileDecRef
    <2> QED
      BY <2>2, DeleterTypeNext
  <1>2. DirType'
    BY <1>0, <1>1 DEF DirType
  <1>4. NoInfos \in InfosRecord
    BY DEF NoInfos, InfosRecord, None
  <1>5. UserType'
    BY <1>0, <1>4 DEF UserType
  <1>6. BufferType'
    BY <1>0 DEF BufferType, docVars, mergeVars
  <1>7. SourcesInv'
    BY <1>0, SourcesSame DEF mergeVars
  <1> QED
    BY <1>2, <1>5, <1>6, <1>7, TypePartsNext DEF TypeInv

\* The directory without some files
LEMMA RemovedType ==
    ASSUME SisType, NEW F, Removed(F)
    PROVE  /\ files' \subseteq files /\ stable' \subseteq stable
           /\ segGen' = segGen => SisType'
  BY DEF Removed, Without, SisType

\* The commit fails.
LEMMA TypeUnwind ==
    ASSUME TypeInv, IInv', Unwind
    PROVE  TypeInv'
  <1>0. TypeOK /\ DirType /\ SisType /\ UserType /\ BufferType
    BY TypeParts DEF TypeInv
  <1>1. /\ UNCHANGED <<dirVars, status, infos, rollbackInfos, dirty, dirtySince,
                       mergeVars, docVars, pending, histVars>>
        /\ status = "open"
        /\ ifd' = DecRef(ifd, InfosFiles(toSync.segs))
        /\ toSync' = NoInfos /\ pc' = "idle" /\ op' = "none"
    BY DEF Unwind, LockFree, GoTo
  <1>2. InFile(ifd, FileName)
    BY <1>0, TypeInFile DEF TypeOK
  <1>3. /\ files' = files /\ stable' = stable /\ sis' = sis /\ segGen' = segGen
        /\ status' = "open" /\ acked' = acked /\ snapshot' = snapshot
        /\ crashes' = crashes /\ opens' = opens
    BY <1>1 DEF dirVars, histVars
  <1>4. /\ infos' \in InfosRecord /\ rollbackInfos' \in Seq(SegmentInfo)
        /\ acked' \in Nat /\ dirty' \in BOOLEAN
        /\ pc' \in PCs /\ op' \in Ops
    BY <1>0, <1>1, <1>3 DEF DirType, UserType, BufferType, PCs, Ops
  <1>5. pending' \in BOOLEAN
    BY <1>0, <1>1 DEF UserType
  <1>6. files' \subseteq files /\ stable' \subseteq FileName /\ SisType'
    BY <1>0, <1>3 DEF SisType, DirType
  <1> QED
    BY <1>1, <1>2, <1>3, <1>4, <1>5, <1>6, TypeRelease

\* finishCommit, up to the checkpoint
LEMMA TypeFinishCommit ==
    ASSUME TypeInv, IInv, IInv',
           FinishCommitWrite \/ FinishCommitSync \/ FinishCommitGen
    PROVE  TypeInv'
  <1>0. /\ TypeOK /\ SourcesInv
        /\ DirType /\ SisType /\ UserType /\ BufferType
        /\ infos \in InfosRecord /\ toSync \in InfosRecord
        /\ InFile(ifd, FileName)
    BY TypeParts, TypeInFile DEF TypeInv, DirType, UserType
  <1>1. /\ UNCHANGED <<status, infos, rollbackInfos, dirty, dirtySince,
                       mergeVars, docVars, histVars>>
        /\ pc \in {"fcWrite", "fcSync", "fcGen"}
    BY DEF FinishCommitWrite, FinishCommitSync, FinishCommitGen
  <1>2. status = "open" /\ pending /\ toSync.generation \in Nat
    BY <1>1 DEF IInv, CallInv, GenInv
  <1>3. Segments(toSync.generation) \in FileName
    BY <1>2, FileNames
  <1>4. files' \subseteq files /\ stable' \subseteq FileName /\ SisType'
    <2>1. CASE \E F : Removed(F) /\ UNCHANGED segGen
      BY <1>0, <2>1, RemovedType DEF DirType
    <2>2. CASE /\ sis' = [sis EXCEPT ![toSync.generation].valid = TRUE]
               /\ UNCHANGED <<files, stable, segGen>>
      <3>1. \A g \in DOMAIN sis :
               sis'[g] \in [segs: Seq(SegmentInfo), counter: Nat, valid: BOOLEAN]
        BY <1>0, <2>2 DEF SisType
      <3> QED
        BY <1>0, <2>2, <3>1 DEF SisType, DirType
    <2>3. CASE /\ stable' \in {stable, stable \cup {Segments(toSync.generation)}}
               /\ UNCHANGED <<files, sis, segGen>>
      BY <1>0, <1>3, <2>3 DEF SisType, DirType
    <2>4. CASE /\ segGen' \in {toSync.generation, None}
               /\ UNCHANGED <<files, sis, stable>>
      BY <1>0, <1>2, <2>4 DEF SisType, DirType
    <2> QED
      BY <2>1, <2>2, <2>3, <2>4
         DEF FinishCommitWrite, FinishCommitSync, FinishCommitGen
  <1>5. CASE ReleasePending(ifd) /\ GoTo("idle", "none")
    <2>1. /\ ifd' = DecRef(ifd, InfosFiles(toSync.segs))
          /\ toSync' = NoInfos /\ pending' = FALSE /\ pc' = "idle" /\ op' = "none"
      BY <1>5 DEF ReleasePending, GoTo
    <2>2. /\ infos' \in InfosRecord /\ infos'.segs = infos.segs
          /\ pending' \in BOOLEAN /\ rollbackInfos' \in Seq(SegmentInfo)
          /\ acked' \in Nat /\ pc' \in PCs /\ op' \in Ops /\ dirty' \in BOOLEAN
          /\ status' = "open" /\ UNCHANGED <<snapshot, crashes, opens>>
      BY <1>0, <1>1, <1>2, <2>1 DEF UserType, BufferType, histVars, PCs, Ops
    <2> QED
      BY <1>0, <1>1, <1>2, <1>4, <2>1, <2>2, TypeRelease
  <1>6. CASE ~(ReleasePending(ifd) /\ GoTo("idle", "none"))
    <2>1. /\ UNCHANGED <<ifd, pending, op>>
          /\ pc' \in {"fcSync", "fcGen", "fcCheckpoint"}
          /\ \/ toSync' = toSync
             \/ toSync' = [toSync EXCEPT !.lastGeneration = toSync.generation]
      BY <1>6 DEF FinishCommitWrite, FinishCommitSync, FinishCommitGen,
                  SegmentsFileDone
    <2>2. toSync' \in InfosRecord
      BY <1>0, <2>1, GenerationTypes
    <2>3. UserType'
      BY <1>0, <1>1, <2>1, <2>2 DEF UserType, histVars, PCs
    <2>4. DirType' /\ BufferType' /\ SourcesInv'
      BY <1>0, <1>1, <1>4, <2>1
         DEF DirType, BufferType, SourcesInv, docVars, mergeVars
    <2> QED
      BY <1>4, <2>3, <2>4, TypePartsNext DEF TypeInv
  <1> QED
    BY <1>5, <1>6

\* The commit succeeds.
LEMMA TypeFinishCheckpoint ==
    ASSUME TypeInv, IInv, IInv', FinishCommitCheckpoint
    PROVE  TypeInv'
  <1>0. /\ TypeOK /\ SourcesInv
        /\ DirType /\ SisType /\ UserType /\ BufferType
        /\ infos \in InfosRecord /\ toSync \in InfosRecord
        /\ InFile(ifd, FileName)
    BY TypeParts, TypeInFile DEF TypeInv, DirType, UserType
  <1> DEFINE F == InfosFiles(toSync.segs)
                    \cup {Segments(toSync.lastGeneration)}
             d == CommitCheckpoint(ifd, toSync.generation, F, snapshot)
  <1>1. /\ UNCHANGED <<dirVars, status, dirtySince, mergeVars, docVars,
                       snapshot, crashes, opens>>
        /\ pc = "fcCheckpoint" /\ pc' \in {"idle", "closing"}
        /\ op' \in {op, "none"}
        /\ ifd' = DecRef(d, InfosFiles(toSync.segs))
        /\ toSync' = NoInfos /\ pending' = FALSE
        /\ infos' = UpdateGeneration(infos, toSync)
        /\ rollbackInfos' = toSync.segs /\ acked' = toSync.generation
        /\ dirty' = dirtySince
    BY DEF FinishCommitCheckpoint, ReleasePending, GoTo
  <1>2. status = "open" /\ toSync.generation \in Nat
    BY <1>1 DEF IInv, CallInv, GenInv
  <1>3. F \in SUBSET FileName
    <2>1. toSync.lastGeneration \in Int /\ toSync.segs \in Seq(SegmentInfo)
      BY <1>0 DEF InfosRecord
    <2>2. Segments(toSync.lastGeneration) \in FileName
      BY <2>1 DEF Segments, FileName
    <2> QED
      BY <2>1, <2>2, InfosFilesType
  <1> HIDE DEF F
  <1>4. InFile(d, FileName)
    BY <1>0, <1>2, <1>3, InFileCommitCheckpoint
  <1> HIDE DEF d
  <1>5. infos' \in InfosRecord /\ infos'.segs = infos.segs
    BY <1>0, <1>1, GenerationTypes
  <1>6. files' \subseteq files /\ stable' \subseteq FileName /\ SisType'
    BY <1>0, <1>1 DEF dirVars, DirType, SisType
  <1>7. /\ rollbackInfos' \in Seq(SegmentInfo) /\ acked' \in Nat
        /\ pc' \in PCs /\ op' \in Ops /\ dirty' \in BOOLEAN
        /\ pending' \in BOOLEAN /\ status' = "open"
    BY <1>0, <1>1, <1>2 DEF InfosRecord, UserType, BufferType, PCs, Ops
  <1> QED
    BY <1>1, <1>2, <1>4, <1>5, <1>6, <1>7, TypeRelease

-----------------------------------------------------------------------------
\* Rollback and deleteAll replace the segments.
LEMMA TypeRollback ==
    ASSUME TypeInv, IInv', Rollback \/ DeleteAll
    PROVE  TypeInv'
  <1>0. /\ TypeOK /\ SourcesInv
        /\ DirType /\ SisType /\ UserType /\ BufferType
        /\ infos \in InfosRecord /\ rollbackInfos \in Seq(SegmentInfo)
        /\ InFile(ifd, FileName)
    BY TypeParts, TypeInFile DEF TypeInv, DirType, UserType
  <1>1. /\ UNCHANGED <<segGen, status, rollbackInfos, merge, histVars>>
        /\ status = "open" /\ merge.stage = "none" /\ pooled' = {}
        /\ AbortDocuments
        /\ pc' \in {"closing", "idle"} /\ op' \in {op, "none"}
        /\ pending' \in {FALSE, pending} /\ toSync' \in {NoInfos, toSync}
        /\ docClosed' \in {TRUE, docClosed}
    BY DEF Rollback, DeleteAll, LockFree, GoTo, dirVars
  <1>2. /\ InFile(ifd', FileName)
        /\ files' \subseteq files /\ stable' \subseteq FileName /\ SisType'
        /\ infos' \in InfosRecord
        /\ dirty' \in BOOLEAN /\ dirtySince' \in BOOLEAN
    <2>1. CASE Rollback
      <3> DEFINE d1 == DecRef(ifd, InfosFiles(toSync.segs))
                 d2 == Checkpoint(d1, InfosFiles(rollbackInfos), {})
      <3>1. PICK gone : Removed(gone) /\ ifd' = Refresh(d2, files \ gone)
        BY <2>1 DEF Rollback
      <3>2. InFile(d1, FileName)
        <4>1. InfosFiles(toSync.segs) \in SUBSET FileName
          BY <1>0, InfosFilesType DEF UserType, InfosRecord
        <4> QED
          BY <1>0, <4>1, InFileDecRef
      <3> HIDE DEF d1
      <3>3. InFile(d2, FileName)
        <4>1. InfosFiles(rollbackInfos) \in SUBSET FileName
          BY <1>0, InfosFilesType
        <4> QED
          BY <3>2, <4>1, InFileCheckpoint
      <3> HIDE DEF d2
      <3>4. InFile(ifd', FileName)
        <4>1. files \ gone \in SUBSET FileName
          BY <1>0 DEF DirType
        <4> QED
          BY <3>1, <3>3, <4>1, InFileRefresh
      <3>5. files' \subseteq files /\ stable' \subseteq FileName /\ SisType'
        BY <1>0, <1>1, <3>1, RemovedType DEF DirType
      <3>6. infos' = [infos EXCEPT !.segs = rollbackInfos]
            /\ dirty' = FALSE /\ dirtySince' = FALSE
        BY <2>1 DEF Rollback
      <3> QED
        BY <1>0, <3>4, <3>5, <3>6 DEF InfosRecord
    <2>2. CASE DeleteAll
      <3>1. /\ infos' = [infos EXCEPT !.segs = <<>>]
            /\ ifd' = Refresh(Checkpoint(ifd, {}, {}), files)
            /\ Changed(TRUE) /\ UNCHANGED dirVars
        BY <2>2 DEF DeleteAll
      <3>2. InFile(ifd', FileName)
        <4> DEFINE d == Checkpoint(ifd, {}, {})
        <4>1. InFile(d, FileName)
          BY <1>0, InFileCheckpoint
        <4> HIDE DEF d
        <4>2. files \in SUBSET FileName
          BY <1>0 DEF DirType
        <4>3. InFile(Refresh(d, files), FileName)
          BY <4>1, <4>2, InFileRefresh
        <4> QED
          BY <3>1, <4>3 DEF d
      <3>3. infos' \in InfosRecord
        <4>1. <<>> \in Seq(SegmentInfo)
          OBVIOUS
        <4> QED
          BY <1>0, <3>1, <4>1 DEF InfosRecord
      <3>4. files' \subseteq files /\ stable' \subseteq FileName /\ SisType'
        BY <1>0, <3>1 DEF dirVars, DirType, SisType
      <3>5. dirty' \in BOOLEAN /\ dirtySince' \in BOOLEAN
        BY <1>0, <3>1 DEF Changed, BufferType
      <3> QED
        BY <3>2, <3>3, <3>4, <3>5
    <2> QED
      BY <2>1, <2>2 DEF Rollback, DeleteAll
  <1>3. IsDeleter(ifd', FileName)
    BY <1>1, <1>2, DeleterTypeNext
  <1>4. DirType'
    BY <1>0, <1>2, <1>3 DEF DirType
  <1>5. NoInfos \in InfosRecord
    BY DEF NoInfos, InfosRecord, None
  <1>6. UserType'
    BY <1>0, <1>1, <1>5 DEF UserType, histVars, PCs, Ops
  <1>7. BufferType'
    BY <1>0, <1>1, <1>2 DEF BufferType, AbortDocuments
  <1>8. SourcesInv'
    BY <1>1 DEF SourcesInv
  <1> QED
    BY <1>2, <1>4, <1>6, <1>7, <1>8, TypePartsNext DEF TypeInv

\* closeInternal saves the deletes of the pool and closes the deleter.
LEMMA TypeClose ==
    ASSUME TypeInv, IInv', Close
    PROVE  TypeInv'
  <1>0. /\ TypeOK /\ SourcesInv
        /\ DirType /\ SisType /\ UserType /\ BufferType
        /\ infos \in InfosRecord /\ infos.segs \in Seq(SegmentInfo)
    BY TypeParts DEF TypeInv, DirType, InfosRecord
  <1> DEFINE w == WriteDeletes(W, pooled, OpenFiles(docStore))
  <1>1. /\ UNCHANGED <<sis, segGen, status, rollbackInfos, dirty, dirtySince,
                       merge, docVars, op, toSync, pending, histVars>>
        /\ status = "open" /\ status' = "open" /\ pooled' = {} /\ pc' = "drain"
        /\ files' = w.files
        /\ stable' = stable \ w.created
        /\ ifd' = CloseDeleter(w.ifd)
        /\ infos' = [infos EXCEPT !.segs = w.segs]
    BY DEF Close, LockFree
  <1>2. Made(w, infos.segs)
    BY <1>0, MadeW, MadeWriteDeletes, OpenFilesType
  <1> HIDE DEF w
  <1>3. infos' \in InfosRecord /\ infos'.segs = w.segs
    BY <1>0, <1>1, <1>2 DEF InfosRecord, Made
  <1>4. IsDeleter(ifd', FileName)
    <2>1. InFile(ifd', FileName)
      BY <1>1, <1>2, InFileClose DEF Made
    <2> QED
      BY <1>1, <2>1, DeleterTypeNext
  <1>5. DirType'
    BY <1>0, <1>1, <1>2, <1>3, <1>4 DEF DirType, Made
  <1>6. SisType' /\ UserType'
    BY <1>0, <1>1 DEF SisType, UserType, histVars, PCs
  <1>7. BufferType'
    BY <1>0, <1>1 DEF BufferType, docVars
  <1>8. SourcesInv'
    BY <1>0, <1>1, <1>2, <1>3, SourcesStay DEF Made
  <1> QED
    BY <1>5, <1>6, <1>7, <1>8, TypePartsNext DEF TypeInv

\* The writer is gone.
LEMMA TypeForget ==
    ASSUME Forget
    PROVE  /\ IsDeleter(ifd', FileName) /\ infos' \in InfosRecord
           /\ toSync' \in InfosRecord /\ rollbackInfos' \in Seq(SegmentInfo)
           /\ dirty' \in BOOLEAN /\ dirtySince' \in BOOLEAN
           /\ pending' \in BOOLEAN /\ pc' \in PCs /\ op' \in Ops
           /\ BufferType' /\ merge' = NoMerge
  <1>1. NoInfos \in InfosRecord
    BY DEF NoInfos, InfosRecord, None
  <1>2. IsDeleter(NoDeleter, FileName)
    BY DEF NoDeleter, IsDeleter
  <1>3. NoMerge \in [stage: Stages, srcs: SUBSET Nat,
                     name: Nat \cup {None}, ds: Nat \cup {None},
                     dsc: BOOLEAN, mds: BOOLEAN, late: BOOLEAN]
    BY DEF NoMerge, Stages, None
  <1>4. /\ ifd' = NoDeleter /\ infos' = NoInfos /\ toSync' = NoInfos
        /\ rollbackInfos' = <<>> /\ dirty' = FALSE /\ dirtySince' = FALSE
        /\ pending' = FALSE /\ pc' = "idle" /\ op' = "none"
        /\ merge' = NoMerge
    BY DEF Forget, GoTo
  <1>5. pooled' = {} /\ AbortDocuments /\ docClosed' = FALSE
    BY DEF Forget
  <1>6. BufferType'
    BY <1>3, <1>4, <1>5 DEF BufferType, AbortDocuments
  <1>7. <<>> \in Seq(SegmentInfo) /\ "idle" \in PCs /\ "none" \in Ops
    BY DEF PCs, Ops
  <1> QED
    BY <1>1, <1>2, <1>4, <1>6, <1>7

\* So do the end of close and of rollback, a crash and a refused open.
LEMMA TypeEnd ==
    ASSUME TypeInv, IInv', CloseDone \/ Crash \/ StartCommitOutOfRange
    PROVE  TypeInv'
  <1>0. DirType /\ SisType /\ UserType
    BY TypeParts DEF TypeInv
  <1>1. Forget /\ status' \in {"closed", "crashed"}
    BY DEF CloseDone, Crash, StartCommitOutOfRange, Die
  <1>2. /\ files' \subseteq FileName /\ stable' \subseteq FileName /\ SisType'
        /\ snapshot' \in Nat \cup {None} /\ acked' \in Nat
        /\ crashes' \in Nat /\ opens' \in Nat
    <2>1. CASE CloseDone
      <3>1. UNCHANGED <<dirVars, histVars>>
        BY <2>1 DEF CloseDone
      <3> QED
        BY <1>0, <3>1 DEF dirVars, histVars, DirType, SisType, UserType
    <2>2. CASE Crash \/ StartCommitOutOfRange
      <3>1. /\ Die /\ crashes' \in {crashes, crashes + 1}
            /\ acked' = acked /\ opens' = opens /\ snapshot' = None
        BY <2>2 DEF Crash, StartCommitOutOfRange, Die
      <3>2. PICK gone \in SUBSET (ifd.doomed \cap files),
                 bad \in SUBSET (files \ stable), lost \in BOOLEAN :
              LET there == (IF lost THEN files \ bad ELSE files) \ gone
              IN  /\ files' = there
                  /\ stable' = there \ bad
                  /\ sis' = [g \in {h \in DOMAIN sis : Segments(h) \in there} |->
                               [sis[g] EXCEPT !.valid =
                                    @ /\ Segments(g) \notin bad]]
        BY <3>1 DEF Die
      <3>3. files' \subseteq FileName /\ stable' \subseteq FileName
        BY <1>0, <3>2 DEF DirType
      <3>4. /\ DOMAIN sis' \subseteq DOMAIN sis
            /\ \A g \in DOMAIN sis' :
                  \E v \in BOOLEAN : sis'[g] = [sis[g] EXCEPT !.valid = v]
        <4>1. DOMAIN sis' \subseteq DOMAIN sis
          BY <3>2
        <4>2. ASSUME NEW g \in DOMAIN sis'
              PROVE  \E v \in BOOLEAN : sis'[g] = [sis[g] EXCEPT !.valid = v]
          <5> DEFINE v == sis[g].valid /\ Segments(g) \notin bad
          <5>1. sis[g] \in [segs: Seq(SegmentInfo), counter: Nat, valid: BOOLEAN]
            BY <1>0, <4>1 DEF SisType
          <5>2. v \in BOOLEAN
            BY <5>1
          <5>3. sis'[g] = [sis[g] EXCEPT !.valid = v]
            BY <3>2, <5>1
          <5> QED
            BY <5>2, <5>3
        <4> QED
          BY <4>1, <4>2
      <3>5. SisType'
        <4>1. ASSUME NEW g \in DOMAIN sis'
              PROVE  sis'[g] \in [segs: Seq(SegmentInfo), counter: Nat,
                                  valid: BOOLEAN]
          <5>1. sis[g] \in [segs: Seq(SegmentInfo), counter: Nat, valid: BOOLEAN]
            BY <1>0, <3>4 DEF SisType
          <5>2. PICK v \in BOOLEAN : sis'[g] = [sis[g] EXCEPT !.valid = v]
            BY <3>4
          <5> QED
            BY <5>1, <5>2
        <4>2. segGen' \in {segGen, None}
          BY <3>1 DEF Die
        <4> QED
          BY <1>0, <3>4, <4>1, <4>2 DEF SisType
      <3>6. /\ snapshot' \in Nat \cup {None} /\ acked' \in Nat
            /\ crashes' \in Nat /\ opens' \in Nat
        BY <1>0, <3>1 DEF UserType
      <3> QED
        BY <3>3, <3>5, <3>6
    <2> QED
      BY <2>1, <2>2
  <1>3. DirType' /\ UserType' /\ BufferType' /\ merge' = NoMerge
    BY <1>1, <1>2, TypeForget DEF DirType, UserType
  <1>4. SourcesInv'
    BY <1>3 DEF SourcesInv, NoMerge
  <1> QED
    BY <1>2, <1>3, <1>4, TypePartsNext DEF TypeInv

\* The next writer takes the segments of the newest commit, or none.
LEMMA TypeOpen ==
    ASSUME TypeInv, IInv, IInv', NEW create \in BOOLEAN, Open(create)
    PROVE  TypeInv'
  <1>0. /\ TypeOK /\ SourcesInv
        /\ DirType /\ SisType /\ UserType /\ BufferType
    BY TypeParts DEF TypeInv
  <1> DEFINE g == FindSegments(files, sis, segGen)
             points == {[generation |-> h,
                         files |-> InfosFiles(sis[h].segs) \cup {Segments(h)}] :
                           h \in {k \in DOMAIN sis : Readable(files, sis, k)}}
             segs == IF create THEN <<>> ELSE sis[g].segs
             y == IF create THEN {} ELSE InfosFiles(segs) \cup {Segments(g)}
  <1>1. /\ UNCHANGED <<dirVars, mergeVars, docVars, userVars, snapshot, crashes>>
        /\ status # "open" /\ status' = "open" /\ opens' = opens + 1
        /\ dirty' = create /\ dirtySince' = create
        /\ g # None
        /\ infos' = [segs |-> segs, generation |-> g, lastGeneration |-> g,
                     counter |-> sis[g].counter]
        /\ rollbackInfos' = segs
        /\ ifd' = InitDeleter(files, points, InfosFiles(segs), snapshot, y)
        /\ acked' = g
    BY DEF Open
  <1>2. Generations(DOMAIN sis) /\ segGen \in Nat \cup {None}
    BY DEF IInv, GenInv
  <1>3. g \in DOMAIN sis /\ g \in Nat
    <2>1. g \in DOMAIN sis
      BY <1>1, <1>2, FindSegmentsNewest
    <2> QED
      BY <1>2, <2>1 DEF Generations
  <1>4. sis[g].segs \in Seq(SegmentInfo) /\ sis[g].counter \in Nat
    <2>1. sis[g] \in [segs: Seq(SegmentInfo), counter: Nat, valid: BOOLEAN]
      BY <1>0, <1>3 DEF SisType
    <2> QED
      BY <2>1
  <1>5. segs \in Seq(SegmentInfo)
    BY <1>4
  <1>6. ArePoints(points, FileName)
    <2>1. ASSUME NEW h \in DOMAIN sis
          PROVE  /\ h \in Nat
                 /\ InfosFiles(sis[h].segs) \cup {Segments(h)} \in SUBSET FileName
      <3>1. h \in Nat
        BY <1>2 DEF Generations
      <3>2. sis[h] \in [segs: Seq(SegmentInfo), counter: Nat, valid: BOOLEAN]
        BY <1>0 DEF SisType
      <3>3. sis[h].segs \in Seq(SegmentInfo)
        BY <3>2
      <3> QED
        BY <3>1, <3>3, FileNames, InfosFilesType
    <2> QED
      BY <2>1 DEF ArePoints
  <1>7. y \in SUBSET FileName /\ InfosFiles(segs) \in SUBSET FileName
    BY <1>3, <1>5, FileNames, InfosFilesType
  <1> HIDE DEF points, y, g, segs
  <1>8. IsDeleter(ifd', FileName)
    <2>1. files \in SUBSET FileName
      BY <1>0 DEF DirType
    <2>2. InFile(ifd', FileName)
      BY <1>1, <1>6, <1>7, <2>1, InFileInit
    <2> QED
      BY <1>1, <2>2, DeleterTypeNext
  <1>9. infos' \in InfosRecord
    BY <1>1, <1>3, <1>4, <1>5 DEF InfosRecord
  <1>10. DirType' /\ SisType'
    BY <1>0, <1>1, <1>8, <1>9 DEF DirType, SisType, dirVars
  <1>11. UserType'
    BY <1>0, <1>1, <1>3, <1>5 DEF UserType, userVars
  <1>12. BufferType'
    BY <1>0, <1>1 DEF BufferType, mergeVars, docVars
  <1>13. SourcesInv'
    BY <1>0, <1>1 DEF SourcesInv, mergeVars, NoMerge
  <1> QED
    BY <1>10, <1>11, <1>12, <1>13, TypePartsNext DEF TypeInv

\* Snapshots and the deletion of files
LEMMA TypeSnapshot ==
    ASSUME TypeInv, TakeSnapshot \/ ReleaseSnapshot
    PROVE  TypeInv'
  <1>0. /\ TypeOK /\ SourcesInv
        /\ DirType /\ SisType /\ UserType /\ BufferType
    BY TypeParts DEF TypeInv
  <1>1. UNCHANGED <<dirVars, ifd, status, infos, rollbackInfos, dirty,
                    dirtySince, mergeVars, docVars, userVars, acked, crashes,
                    opens>>
    BY DEF TakeSnapshot, ReleaseSnapshot
  <1>2. snapshot' \in Nat \cup {None}
    BY <1>0 DEF TakeSnapshot, ReleaseSnapshot, DirType, IsDeleter
  <1>3. DirType' /\ SisType' /\ UserType'
    BY <1>0, <1>1, <1>2 DEF DirType, SisType, UserType, dirVars, userVars
  <1>4. BufferType' /\ SourcesInv'
    BY <1>0, <1>1 DEF BufferType, SourcesInv, docVars, mergeVars
  <1> QED
    BY <1>3, <1>4, TypePartsNext DEF TypeInv

\* So does the deletion of a file by the operating system.
LEMMA TypeUnlink ==
    ASSUME TypeInv, Unlink
    PROVE  TypeInv'
  <1>0. /\ TypeOK /\ SourcesInv
        /\ DirType /\ SisType /\ UserType /\ BufferType
        /\ IsDeleter(ifd, FileName)
    BY TypeParts DEF TypeInv, DirType
  <1>1. UNCHANGED <<segGen, status, infos, rollbackInfos, dirty, dirtySince,
                    mergeVars, docVars, userVars, histVars>>
    BY DEF Unlink
  <1>2. PICK failed \in SUBSET (ifd.doomed \cap files) :
          /\ Removed(ifd.doomed \ failed)
          /\ ifd' = [ifd EXCEPT !.doomed = {}, !.deletable = @ \cup failed]
    BY DEF Unlink
  <1>3. files' \subseteq FileName /\ stable' \subseteq FileName /\ SisType'
    BY <1>0, <1>1, <1>2, RemovedType DEF DirType
  <1>4. IsDeleter(ifd', FileName)
    <2>1. /\ DOMAIN ifd' = DOMAIN ifd /\ ifd'.synced = ifd.synced
          /\ ifd'.refCounts = ifd.refCounts /\ ifd'.lastFiles = ifd.lastFiles
          /\ ifd'.commits = ifd.commits
          /\ ifd'.deletable = ifd.deletable \cup failed
          /\ ifd'.doomed = {}
      BY <1>0, <1>2 DEF IsDeleter
    <2>2. failed \subseteq FileName
      BY <1>0 DEF DirType
    <2> QED
      BY <1>0, <2>1, <2>2 DEF IsDeleter
  <1>5. DirType' /\ UserType'
    BY <1>0, <1>1, <1>3, <1>4 DEF DirType, UserType, userVars, histVars
  <1>6. BufferType' /\ SourcesInv'
    BY <1>0, <1>1 DEF BufferType, SourcesInv, docVars, mergeVars
  <1> QED
    BY <1>3, <1>5, <1>6, TypePartsNext DEF TypeInv

\* So does a stuttering step.
LEMMA TypeSame ==
    ASSUME TypeInv, UNCHANGED vars
    PROVE  TypeInv'
  <1>0. /\ TypeOK /\ SourcesInv
        /\ DirType /\ SisType /\ UserType /\ BufferType
    BY TypeParts DEF TypeInv
  <1>1. DirType' /\ SisType' /\ UserType'
    BY <1>0 DEF DirType, SisType, UserType, dirVars, userVars, histVars, vars
  <1>2. BufferType' /\ SourcesInv'
    BY <1>0 DEF BufferType, SourcesInv, docVars, mergeVars, vars
  <1> QED
    BY <1>1, <1>2, TypePartsNext DEF TypeInv

\* The index of a fresh directory
LEMMA InitTypes ==
    ASSUME Init
    PROVE  TypeInv
  <1>1. Segments(1) \in FileName /\ <<>> \in Seq(SegmentInfo)
    BY FileNames
  <1>2. NoInfos \in InfosRecord
    BY <1>1 DEF NoInfos, InfosRecord, None
  <1>3. IsDeleter(NoDeleter, FileName)
    BY DEF NoDeleter, IsDeleter
  <1>4. DirType
    BY <1>1, <1>2, <1>3 DEF Init, DirType
  <1>5. SisType
    <2> DEFINE first == [segs |-> <<>>, counter |-> 0, valid |-> TRUE]
    <2>1. sis = [g \in {1} |-> first] /\ segGen = 1
      BY DEF Init
    <2>2. first \in [segs: Seq(SegmentInfo), counter: Nat, valid: BOOLEAN]
      BY <1>1
    <2> HIDE DEF first
    <2> QED
      BY <2>1, <2>2 DEF SisType
  <1>6. UserType
    BY <1>1, <1>2 DEF Init, UserType, PCs, Ops, None
  <1>7. BufferType
    BY DEF Init, BufferType, NoMerge, Stages, None
  <1>8. SourcesInv
    BY DEF Init, SourcesInv, NoMerge
  <1> QED
    BY <1>4, <1>5, <1>6, <1>7, <1>8, TypeParts DEF TypeInv

\* Every step of IndexWriter keeps the types.
LEMMA NextTypes ==
    ASSUME TypeInv, IInv, IInv', [Next]_vars
    PROVE  TypeInv'
  <1>1. CASE AddDocument \/ DeleteDocuments \/ Flush
    BY <1>1, TypeIndexing
  <1>2. CASE \E i, j \in DOMAIN infos.segs : MergeInit(i, j)
    BY <1>2, TypeMergeInit
  <1>3. CASE \/ MergeOpen \/ MergeWrite \/ CommitMerge \/ ReleaseMerged
             \/ AbortMerge
    BY <1>3, TypeMergeOpen, TypeMergeWrite, TypeCommitMerge,
       TypeReleaseMerged, TypeAbortMerge
  <1>4. CASE \/ \E o \in {"prepare", "commit", "close"} : BeginCommit(o)
             \/ CommitPrepared \/ NothingToCommit
             \/ \E o \in {"rollback", "deleteAll"} : FinishMerges(o)
    BY <1>4, TypeBeginCommit
  <1>5. CASE StartCommit
    BY <1>5, TypeStartCommit
  <1>6. CASE (\E f \in InfosFiles(toSync.segs) : SyncFile(f)) \/ SyncFails
             \/ SyncDone
    BY <1>6, TypeSync
  <1>7. CASE PrepareCommit \/ PrepareFails \/ Unwind
    BY <1>7, TypePrepare, TypeUnwind
  <1>8. CASE FinishCommitWrite \/ FinishCommitSync \/ FinishCommitGen
    BY <1>8, TypeFinishCommit
  <1>9. CASE FinishCommitCheckpoint
    BY <1>9, TypeFinishCheckpoint
  <1>10. CASE Rollback \/ DeleteAll
    BY <1>10, TypeRollback
  <1>11. CASE Close
    BY <1>11, TypeClose
  <1>12. CASE CloseDone \/ Crash \/ StartCommitOutOfRange
    BY <1>12, TypeEnd
  <1>13. CASE TakeSnapshot \/ ReleaseSnapshot
    BY <1>13, TypeSnapshot
  <1>14. CASE Unlink
    BY <1>14, TypeUnlink
  <1>15. CASE \E create \in BOOLEAN : Open(create)
    BY <1>15, TypeOpen
  <1>16. CASE UNCHANGED vars
    BY <1>16, TypeSame
  <1> QED
    BY <1>1, <1>2, <1>3, <1>4, <1>5, <1>6, <1>7, <1>8, <1>9, <1>10, <1>11,
       <1>12, <1>13, <1>14, <1>15, <1>16 DEF Next

\* The state of the directory, of the deleter and of the writer keeps its
\* type whatever the order in which threads, failures and crashes come: no
\* count of IndexFileDeleter goes below zero, and the merged segment that
\* IndexWriter::commitMerge puts in always finds the place of its sources.
THEOREM Typed == Spec => []TypeOK
  <1>1. Init => IInv /\ TypeInv
    BY InitIInv, InitTypes
  <1>2. IInv /\ TypeInv /\ [Next]_vars => IInv' /\ TypeInv'
    BY NextIInv, NextTypes
  <1>3. TypeInv => TypeOK
    BY DEF TypeInv
  <1> QED
    BY <1>1, <1>2, <1>3, PTL DEF Spec
=============================================================================
