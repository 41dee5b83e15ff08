----------------------------- MODULE IndexWriter -----------------------------
(***************************************************************************)
(* The commit protocol of IndexWriter: what a flush, a merge, a commit, a  *)
(* rollback, a close and a crash do to the index files, and which files    *)
(* the IndexFileDeleter removes meanwhile.                                 *)
(*                                                                         *)
(* One user thread calls prepareCommit, commit, rollback, deleteAll and    *)
(* close; other threads add and delete documents, flush, and run a merge.  *)
(* IndexWriter's lock is free when LockFree holds: a handler that has to   *)
(* unlink files keeps it until the last Unlink, and finishCommit keeps it  *)
(* over its four steps, between which the machine may crash.               *)
(***************************************************************************)
EXTENDS Integers, Sequences, FiniteSets, SegmentInfos, IndexFileDeleter

CONSTANTS
    MaxCounter,           \* bound on the segment names handed out
    MaxGeneration,        \* bound on the commit generations
    MaxDelGen,            \* bound on the deletion generations of a segment
    MaxCrashes,           \* bound on the crashes
    MaxOpens,             \* bound on the writers opened, one after the other
    UseCompoundFile,      \* the merge policy's useCompoundFile/DocStore
    FlushMayFail,         \* writing the files of a flush may throw
    MergeMayFail,         \* a merge may hit an exception
    SegmentsWriteMayFail, \* writing segments_N or segments.gen may throw
    DataSyncMayFail,      \* Directory::sync of a data file may throw
    SegmentsSyncMayFail,  \* Directory::sync of segments_N may throw
    DeleteMayFail,        \* Directory::deleteFile may throw
    DeleteAllWhilePending \* deleteAll is called between prepareCommit and commit

ASSUME BoundsAssumption ==
    /\ MaxCounter \in Nat /\ MaxGeneration \in Nat
    /\ MaxDelGen \in Nat /\ MaxCrashes \in Nat /\ MaxOpens \in Nat
ASSUME SwitchesAssumption ==
    /\ UseCompoundFile \in BOOLEAN
    /\ FlushMayFail \in BOOLEAN /\ MergeMayFail \in BOOLEAN
    /\ SegmentsWriteMayFail \in BOOLEAN /\ DataSyncMayFail \in BOOLEAN
    /\ SegmentsSyncMayFail \in BOOLEAN /\ DeleteMayFail \in BOOLEAN
    /\ DeleteAllWhilePending \in BOOLEAN

VARIABLES
    \* the Directory
    files,          \* the names of the files that exist
    stable,         \* the files whose bytes are on stable storage
    sis,            \* the contents of each segments_N
    segGen,         \* what segments.gen says
    \* the deleter
    ifd,
    \* IndexWriter
    status,         \* "open", "closed", or "crashed"
    infos,          \* segmentInfos
    rollbackInfos,  \* the segments of rollbackSegmentInfos
    dirty,          \* changeCount > lastCommitChangeCount
    dirtySince,     \* changeCount > pendingCommitChangeCount
    pooled,         \* segments whose pooled reader has unsaved deletes
    merge,          \* the merge that is running
    \* DocumentsWriter
    ram,            \* the segment the buffered documents will become
    docStore,       \* docStoreSegment, the open doc store
    delTerms,       \* which deletes are buffered: deletesInRAM, deletesFlushed
    docClosed,      \* DocumentsWriter::closed, set by a close that began
    \* the user thread
    pc, op,         \* where it is, and in which call
    toSync,         \* the SegmentInfos being committed
    pending,        \* pendingCommit is set (to toSync)
    \* the deletion policy and the history
    snapshot,       \* SnapshotDeletionPolicy::_snapshot
    acked,          \* the generation of the last commit that succeeded
    crashes,        \* how many crashes there were
    opens           \* how many writers were opened

dirVars    == <<files, stable, sis, segGen>>
docVars    == <<ram, docStore, delTerms, docClosed>>
mergeVars  == <<merge, pooled>>
userVars   == <<pc, op, toSync, pending>>
histVars   == <<snapshot, acked, crashes, opens>>
vars == <<dirVars, ifd, status, infos, rollbackInfos, dirty, dirtySince,
          mergeVars, docVars, userVars, histVars>>

PCs == {"idle", "flushed", "sync", "turn", "unwind", "fcWrite", "fcSync",
        "fcGen", "fcCheckpoint", "aborting", "closing", "drain"}
Ops == {"none", "prepare", "commit", "close", "rollback", "deleteAll"}
Stages == {"none", "init", "open", "written", "merged"}

NoMerge == [stage |-> "none", srcs |-> {}, name |-> None, ds |-> None,
            dsc |-> FALSE, mds |-> FALSE, late |-> FALSE]

TypeOK ==
    /\ files \subseteq FileName /\ stable \subseteq FileName
    /\ DOMAIN sis \subseteq Nat
    /\ \A g \in DOMAIN sis :
          sis[g] \in [segs: Seq(SegmentInfo), counter: Nat, valid: BOOLEAN]
    /\ segGen \in Nat \cup {None}
    /\ IsDeleter(ifd, FileName)
    /\ status \in {"open", "closed", "crashed"}
    /\ infos \in InfosRecord /\ toSync \in InfosRecord
    /\ rollbackInfos \in Seq(SegmentInfo)
    /\ dirty \in BOOLEAN /\ dirtySince \in BOOLEAN
    /\ pooled \subseteq Nat
    /\ merge \in [stage: Stages, srcs: SUBSET Nat, name: Nat \cup {None},
                  ds: Nat \cup {None}, dsc: BOOLEAN, mds: BOOLEAN,
                  late: BOOLEAN]
    /\ ram \in Nat \cup {None} /\ docStore \in Nat \cup {None}
    /\ delTerms \subseteq {"inRAM", "flushed"} /\ docClosed \in BOOLEAN
    /\ pc \in PCs /\ op \in Ops /\ pending \in BOOLEAN
    /\ snapshot \in Nat \cup {None} /\ acked \in Nat /\ crashes \in Nat
    /\ opens \in Nat

-----------------------------------------------------------------------------
(***************************************************************************)
(* The pieces of the handlers, as transformers of a record w: the files,   *)
(* the ones created on the way, the segment list and the deleter.          *)
(***************************************************************************)
W == [files |-> files, created |-> {}, segs |-> infos.segs, ifd |-> ifd]

Create(w, F) == [w EXCEPT !.files = w.files \cup F,
                          !.created = w.created \cup F]

\* IndexWriter::checkpoint (and deleter->checkpoint(segmentInfos, false))
CheckpointW(w, open) ==
    [w EXCEPT !.ifd = Checkpoint(w.ifd, InfosFiles(w.segs), open)]

\* DocumentsWriter::openFiles
OpenFiles(store) == IF store = None THEN {} ELSE {Store(store)}

Names(segs) == {segs[k].name : k \in DOMAIN segs}

\* IndexWriter::flushDocStores
FlushDocStores(w, store) ==
    LET segs1 == [k \in DOMAIN w.segs |->
                     IF w.segs[k].ds = store
                     THEN [w.segs[k] EXCEPT !.dsc = TRUE] ELSE w.segs[k]]
        w1 == CheckpointW([Create(w, {Cfx(store)}) EXCEPT !.segs = segs1], {})
    IN  IF UseCompoundFile
        THEN [w1 EXCEPT !.ifd = Refresh(w1.ifd, {Store(store)})]
        ELSE w

\* doFlushInternal: the new segment, written and checkpointed
AddSegment(w, name, ds, dsc, open) ==
    LET seg == [name |-> name, ds |-> ds, dsc |-> dsc, cfs |-> FALSE,
                delGen |-> 0]
    IN  CheckpointW([Create(w, {Core(name)}) EXCEPT
                        !.segs = Append(w.segs, seg)], open)

\* doFlushInternal: its compound file, built and checkpointed
BuildCompound(w, name, open) ==
    LET segs1 == [k \in DOMAIN w.segs |->
                     IF w.segs[k].name = name
                     THEN [w.segs[k] EXCEPT !.cfs = TRUE] ELSE w.segs[k]]
    IN  IF UseCompoundFile
        THEN CheckpointW([Create(w, {Cfs(name)}) EXCEPT !.segs = segs1], open)
        ELSE w

(***************************************************************************)
(* SegmentReader::doCommit for the segments in names, as ReaderPool calls  *)
(* it: the deletion generation advances, the .del file is written and the  *)
(* deleter told.                                                           *)
(***************************************************************************)
WriteDeletes(w, names, open) ==
    LET segs1 == [k \in DOMAIN w.segs |->
                     IF w.segs[k].name \in names
                     THEN [w.segs[k] EXCEPT !.delGen = @ + 1] ELSE w.segs[k]]
        new == {Del(segs1[k].name, segs1[k].delGen) :
                    k \in {j \in DOMAIN segs1 : segs1[j].name \in names}}
    IN  IF names = {} THEN w
        ELSE CheckpointW([Create(w, new) EXCEPT !.segs = segs1], open)

(***************************************************************************)
(* doFlushInternal from w.  c: the doc stores are closed too; names: the   *)
(* segments whose readers applyDeletes changes and closes.  The doc store  *)
(* is flushed on its own when segments other than the new one share it.    *)
(***************************************************************************)
Shared(c) == c /\ docStore # None /\ docStore # ram

StoresFlushed(w, c) == IF Shared(c) THEN FlushDocStores(w, docStore) ELSE w

OpenAfter(c) == IF c THEN {} ELSE OpenFiles(docStore)

SegmentFlushed(w, c) ==
    IF ram = None THEN StoresFlushed(w, c)
    ELSE AddSegment(StoresFlushed(w, c), ram,
                    IF c /\ docStore = ram THEN None ELSE docStore,
                    Shared(c) /\ UseCompoundFile, OpenAfter(c))

FlushedW(w, c, names) ==
    LET w1 == IF ram = None THEN SegmentFlushed(w, c)
              ELSE BuildCompound(SegmentFlushed(w, c), ram, OpenAfter(c))
        w2 == WriteDeletes(w1, names, OpenAfter(c))
    IN  IF ram = None THEN w2 ELSE CheckpointW(w2, OpenAfter(c))

Changes(c, names) ==
    ram # None \/ (Shared(c) /\ UseCompoundFile) \/ names # {}

\* The files with the prefix of segment n
Prefixed(F, n) == {f \in F : f[1] # "segments" /\ f[2] = n}

\* DocumentsWriter::flush throws: abort() drops the documents and the
\* deletes it had buffered, and refresh(segment) the files it had written
FlushFailedW(w, c) ==
    LET w1 == Create(StoresFlushed(w, c), {Core(ram)})
    IN  [w1 EXCEPT !.ifd = Refresh(w1.ifd, Prefixed(w1.files, ram))]

\* flushDocStores: building the .cfx throws, which deletes it
StoresFailedW ==
    [Create(W, {Cfx(docStore)}) EXCEPT !.ifd.doomed = @ \cup {Cfx(docStore)}]

\* createCompoundFile throws: the segment stays, without its compound file
CompoundFailedW(w, c) ==
    LET w1 == Create(SegmentFlushed(w, c), {Cfs(ram)})
    IN  [w1 EXCEPT !.ifd.doomed = @ \cup {Cfs(ram)}]

\* The handler's result becomes the state
Becomes(w) ==
    /\ files' = w.files
    /\ stable' = stable \ w.created
    /\ ifd' = w.ifd

\* The segments that a deleted term can hit without passing the bound
Deletable(segs) == {segs[k].name : k \in {j \in DOMAIN segs :
                                            segs[j].delGen < MaxDelGen}}

\* The segments whose readers the running merge holds in the pool: its
\* sources, and once it is committed the segment it made
HeldByMerge ==
    IF merge.stage \in {"open", "written", "merged"} THEN merge.srcs ELSE {}

\* DocumentsWriter::pushDeletes
Pushed(dels) == IF dels = {} THEN {} ELSE {"flushed"}

\* DocumentsWriter::applyDeletes: the flushed deletes hit some segments.  A
\* reader that a merge shares stays in the pool with its changes.
HitBy(dels, segs) ==
    IF "flushed" \in dels THEN SUBSET Deletable(segs) ELSE {{}}

Hit(names) ==
    /\ pooled' = pooled \cup (names \cap HeldByMerge)
    /\ merge' = [merge EXCEPT !.late = @ \/ names \cap HeldByMerge # {}]

-----------------------------------------------------------------------------
LockFree == /\ status = "open"
            /\ ifd.doomed = {}
            /\ pc \notin {"fcSync", "fcGen", "fcCheckpoint", "drain"}

\* finishMerges(false): running merges are told to stop, none may start
AbortsMerges == op \in {"rollback", "deleteAll"}

\* The indexing threads are not paused, and DocumentsWriter is not closed
Indexing == /\ status = "open" /\ ~docClosed
            /\ op # "close" /\ ~AbortsMerges

Changed(b) == dirty' = (dirty \/ b) /\ dirtySince' = (dirtySince \/ b)

(***************************************************************************)
(* addDocument, the first one to be buffered: initSegmentName takes a new  *)
(* name, StoredFieldsWriter opens the doc store files.  It needs no lock of *)
(* IndexWriter, and a new name commutes with the unlinking of old files:   *)
(* that is left to end first, as the constructor's must.                   *)
(***************************************************************************)
AddDocument ==
    /\ Indexing /\ ifd.doomed = {} /\ ram = None /\ infos.counter < MaxCounter
    /\ ram' = infos.counter
    /\ infos' = [infos EXCEPT !.counter = @ + 1]
    /\ Changed(TRUE)
    /\ IF docStore = None
       THEN /\ docStore' = infos.counter
            /\ files' = files \cup {Store(infos.counter)}
            /\ stable' = stable \ {Store(infos.counter)}
       ELSE UNCHANGED <<docStore, files, stable>>
    /\ UNCHANGED <<sis, segGen, ifd, status, rollbackInfos, mergeVars,
                   delTerms, docClosed, userVars, histVars>>

\* deleteDocuments, buffered in deletesInRAM
DeleteDocuments ==
    /\ Indexing /\ MaxDelGen > 0 /\ "inRAM" \notin delTerms
    /\ delTerms' = delTerms \cup {"inRAM"}
    /\ UNCHANGED <<dirVars, ifd, status, infos, rollbackInfos, dirty,
                   dirtySince, mergeVars, ram, docStore, docClosed, userVars,
                   histVars>>

\* doFlush(c, applies) runs to its end
FlushSucceeds(c, applies) ==
    \E names \in (IF applies
                  THEN HitBy(Pushed(delTerms), SegmentFlushed(W, c).segs)
                  ELSE {{}}) :
       LET w == FlushedW(W, c, names \ HeldByMerge)
       IN  /\ Becomes(w)
           /\ infos' = [infos EXCEPT !.segs = w.segs]
           /\ Changed(Changes(c, names))
           /\ Hit(names)
           /\ ram' = None
           /\ docStore' = IF c THEN None ELSE docStore
           /\ delTerms' = IF applies THEN {} ELSE Pushed(delTerms)

\* DocumentsWriter::abort
AbortDocuments ==
    ram' = None /\ docStore' = None /\ delTerms' = {}

\* ... throws while it closes the shared doc store, or while it builds its
\* .cfx: both abort the DocumentsWriter
StoresThrow ==
    /\ FlushMayFail /\ Shared(TRUE)
    /\ Becomes(W) \/ (UseCompoundFile /\ Becomes(StoresFailedW))
    /\ AbortDocuments
    /\ UNCHANGED <<infos, dirty, dirtySince, mergeVars>>

\* ... throws while it writes the segment
FlushThrows(c) ==
    /\ FlushMayFail /\ ram # None
    /\ LET w == FlushFailedW(W, c)
       IN  Becomes(w) /\ infos' = [infos EXCEPT !.segs = w.segs]
    /\ Changed(Shared(c) /\ UseCompoundFile)
    /\ AbortDocuments
    /\ UNCHANGED mergeVars

\* ... throws while it builds the compound file
CompoundThrows(c) ==
    /\ FlushMayFail /\ ram # None /\ UseCompoundFile
    /\ LET w == CompoundFailedW(W, c)
       IN  Becomes(w) /\ infos' = [infos EXCEPT !.segs = w.segs]
    /\ Changed(TRUE)
    /\ ram' = None /\ docStore' = (IF c THEN None ELSE docStore)
    /\ delTerms' = Pushed(delTerms)
    /\ UNCHANGED mergeVars

\* An indexing thread flushes because the buffer is full: flush(true, false,
\* false), with the deletes applied when it was they that filled the buffer.
\* The flush that throws may also be the one with which a merge closes the
\* doc store; the merge then never starts.
Flush ==
    /\ Indexing /\ LockFree
    /\ \/ ram # None /\ FlushSucceeds(FALSE, FALSE)
       \/ delTerms # {} /\ FlushSucceeds(FALSE, TRUE)
       \/ \E c \in BOOLEAN : FlushThrows(c)
       \/ \E c \in BOOLEAN : CompoundThrows(c)
       \/ StoresThrow
    /\ UNCHANGED <<sis, segGen, status, rollbackInfos, docClosed, userVars,
                   histVars>>

-----------------------------------------------------------------------------
(***************************************************************************)
(* Merges.  mergeInit names the new segment, mergeMiddle opens readers on  *)
(* the sources and writes the new files, which the deleter does not know   *)
(* until commitMerge.                                                      *)
(***************************************************************************)
SharesOpenStore(segs, K) ==
    docStore # None /\ \E k \in K : segs[k].ds = docStore

\* _mergeInit's test: the doc stores have to be merged too
MergeDocStores(segs, i, j) ==
    \E k \in i..j : \/ segs[k].delGen > 0
                    \/ segs[k].ds = None
                    \/ segs[k].ds # segs[i].ds

\* doFlush(true, false) on the way, when the merge needs the open doc store
StoreClosed(needed, dels) ==
    /\ ram' = (IF needed THEN None ELSE ram)
    /\ delTerms' = (IF needed THEN Pushed(dels) ELSE dels)
    /\ docStore' = (IF needed THEN None ELSE docStore)

\* registerMerge and mergeInit for the segments from i to j.  close still
\* lets merges start, between its flush and its commit.
MergeInit(i, j) ==
    /\ LockFree /\ merge.stage = "none" /\ ~AbortsMerges
    /\ op = "close" => pc = "flushed"
    /\ i \in DOMAIN infos.segs /\ j \in DOMAIN infos.segs /\ i < j
    /\ infos.counter < MaxCounter
    /\ \E names \in HitBy(delTerms, infos.segs) :
       LET w1 == WriteDeletes(W, names, OpenFiles(docStore))
           mds == MergeDocStores(w1.segs, i, j)
           flushes == mds /\ SharesOpenStore(w1.segs, i..j)
           w2 == IF flushes THEN FlushedW(w1, TRUE, {}) ELSE w1
           first == w1.segs[i]
       IN  /\ Becomes(w2)
           /\ infos' = [infos EXCEPT !.segs = w2.segs, !.counter = @ + 1]
           /\ StoreClosed(flushes, delTerms \ {"flushed"})
           /\ merge' = [stage |-> "init", name |-> infos.counter,
                        srcs |-> {infos.segs[k].name : k \in i..j},
                        ds |-> IF mds THEN None ELSE first.ds,
                        dsc |-> ~mds /\ first.dsc,
                        mds |-> mds, late |-> FALSE]
    /\ Changed(TRUE)
    /\ UNCHANGED <<sis, segGen, status, rollbackInfos, pooled, docClosed,
                   userVars, histVars>>

\* mergeMiddle opens its readers; deletes that arrived since mergeInit may
\* make it merge the doc stores after all
MergeOpen ==
    /\ LockFree /\ merge.stage = "init"
    /\ LET K == {k \in DOMAIN infos.segs : infos.segs[k].name \in merge.srcs}
           mds == merge.mds \/ \E k \in K : infos.segs[k].delGen > 0
           flushes == mds /\ ~merge.mds /\ SharesOpenStore(infos.segs, K)
           w == IF flushes THEN FlushedW(W, TRUE, {}) ELSE W
       IN  /\ Becomes(w)
           /\ infos' = [infos EXCEPT !.segs = w.segs]
           /\ StoreClosed(flushes, delTerms)
           /\ Changed(flushes)
           /\ merge' = [merge EXCEPT !.stage = "open", !.mds = mds,
                          !.ds = IF mds THEN None ELSE @,
                          !.dsc = ~mds /\ @]
    /\ UNCHANGED <<sis, segGen, status, rollbackInfos, pooled, docClosed,
                   userVars, histVars>>

\* mergeMiddle writes the merged segment and, when asked to, its compound
\* file, removing the files that went into it
MergeWrite ==
    /\ LockFree /\ merge.stage = "open"
    /\ LET parts == {Core(merge.name)}
                    \cup (IF merge.mds THEN {Store(merge.name)} ELSE {})
           w == IF UseCompoundFile
                THEN LET w1 == Create(W, parts \cup {Cfs(merge.name)})
                     IN  [w1 EXCEPT !.ifd = Refresh(w1.ifd, parts)]
                ELSE Create(W, parts)
       IN  Becomes(w)
    /\ merge' = [merge EXCEPT !.stage = "written"]
    /\ UNCHANGED <<sis, segGen, status, infos, rollbackInfos, dirty,
                   dirtySince, pooled, docVars, userVars, histVars>>

\* The end of commitMerge: the sources' readers are dropped, and the merged
\* segment's, which mergeMiddle still holds, has the deletes that came in
\* during the merge
MergeCommitted ==
    /\ pooled' = (pooled \ merge.srcs)
                    \cup (IF merge.late THEN {merge.name} ELSE {})
    /\ merge' = [NoMerge EXCEPT !.stage = "merged", !.name = merge.name,
                                !.srcs = {merge.name}]

\* Mutant: setMergeDocStoreIsCompoundFile is not called
CommitMergeStaleStore ==
    /\ LockFree /\ merge.stage = "written" /\ ~AbortsMerges
    /\ LET segs == infos.segs
           K == {k \in DOMAIN segs : segs[k].name \in merge.srcs}
           start == CHOOSE k \in K : \A l \in K : k <= l
           new == [name |-> merge.name, ds |-> merge.ds, dsc |-> merge.dsc,
                   cfs |-> UseCompoundFile, delGen |-> 0]
           segs1 == SubSeq(segs, 1, start - 1) \o <<new>>
                    \o SubSeq(segs, start + Cardinality(K), Len(segs))
           w1 == CheckpointW([W EXCEPT !.segs = segs1], OpenFiles(docStore))
       IN  Becomes(w1) /\ infos' = [infos EXCEPT !.segs = segs1]
    /\ MergeCommitted
    /\ Changed(TRUE)
    /\ UNCHANGED <<sis, segGen, status, rollbackInfos, docVars, userVars,
                   histVars>>

\* commitMerge of a merge that was not aborted
CommitMerge ==
    /\ LockFree /\ merge.stage = "written" /\ ~AbortsMerges
    /\ LET segs == infos.segs
           K == {k \in DOMAIN segs : segs[k].name \in merge.srcs}
           start == CHOOSE k \in K : \A l \in K : k <= l
           dsc == merge.ds # None
                  /\ (merge.dsc \/ \E k \in DOMAIN segs :
                                      segs[k].ds = merge.ds /\ segs[k].dsc)
           new == [name |-> merge.name, ds |-> merge.ds, dsc |-> dsc,
                   cfs |-> UseCompoundFile, delGen |-> 0]
           segs1 == SubSeq(segs, 1, start - 1) \o <<new>>
                    \o SubSeq(segs, start + Cardinality(K), Len(segs))
           w1 == CheckpointW([W EXCEPT !.segs = segs1], OpenFiles(docStore))
       IN  Becomes(w1) /\ infos' = [infos EXCEPT !.segs = segs1]
    /\ MergeCommitted
    /\ Changed(TRUE)
    /\ UNCHANGED <<sis, segGen, status, rollbackInfos, docVars, userVars,
                   histVars>>

\* mergeMiddle, after commitMerge and a lock later, releases the merged
\* segment's reader, which writes the deletes that no commit wrote meanwhile
ReleaseMerged ==
    /\ LockFree /\ merge.stage = "merged"
    /\ LET w == WriteDeletes(W, pooled \cap merge.srcs, OpenFiles(docStore))
       IN  Becomes(w) /\ infos' = [infos EXCEPT !.segs = w.segs]
    /\ pooled' = pooled \ merge.srcs
    /\ merge' = NoMerge
    /\ UNCHANGED <<sis, segGen, status, rollbackInfos, dirty, dirtySince,
                   docVars, userVars, histVars>>

\* The merge hits an exception, or notices that it has been aborted:
\* its readers go back to the pool with their changes saved, and refresh
\* removes its files unless it was commitMerge that found it aborted
AbortMerge ==
    /\ LockFree /\ merge.stage \in {"init", "open", "written"}
    /\ MergeMayFail \/ AbortsMerges
    /\ LET w1 == WriteDeletes(W, pooled \cap merge.srcs, OpenFiles(docStore))
           w2 == [w1 EXCEPT !.ifd =
                    Refresh(w1.ifd, Prefixed(w1.files, merge.name))]
           w == IF AbortsMerges /\ merge.stage = "written" THEN w1 ELSE w2
       IN  Becomes(w) /\ infos' = [infos EXCEPT !.segs = w.segs]
    /\ pooled' = pooled \ merge.srcs
    /\ merge' = NoMerge
    /\ UNCHANGED <<sis, segGen, status, rollbackInfos, dirty, dirtySince,
                   docVars, userVars, histVars>>

-----------------------------------------------------------------------------
(***************************************************************************)
(* Commits.                                                                *)
(***************************************************************************)
GoTo(p, o) == pc' = p /\ op' = o

\* prepareCommit, commit with nothing prepared, and close flush first
BeginCommit(o) ==
    /\ pc = "idle" /\ LockFree /\ ~pending
    /\ infos.generation < MaxGeneration
    /\ o \in {"prepare", "commit", "close"}
    /\ \/ FlushSucceeds(TRUE, TRUE) /\ GoTo("flushed", o)
       \/ FlushThrows(TRUE) /\ GoTo("idle", "none")
       \/ CompoundThrows(TRUE) /\ GoTo("idle", "none")
       \/ StoresThrow /\ GoTo("idle", "none")
    /\ docClosed' = (docClosed \/ o = "close")
    /\ UNCHANGED <<sis, segGen, status, rollbackInfos, toSync, pending,
                   histVars>>

\* commit after prepareCommit
CommitPrepared ==
    /\ pc = "idle" /\ LockFree /\ pending
    /\ GoTo("fcWrite", "commit")
    /\ UNCHANGED <<dirVars, ifd, status, infos, rollbackInfos, dirty,
                   dirtySince, mergeVars, docVars, toSync, pending, histVars>>

\* close has waited for the merges, and starts no more
MergesFinished == op = "close" => merge.stage = "none"

\* startCommit finds nothing to commit
NothingToCommit ==
    /\ pc = "flushed" /\ LockFree /\ MergesFinished /\ ~dirty
    /\ IF op = "close" THEN GoTo("closing", op) ELSE GoTo("idle", "none")
    /\ UNCHANGED <<dirVars, ifd, status, infos, rollbackInfos, dirty,
                   dirtySince, mergeVars, docVars, toSync, pending, histVars>>

\* The segments before the tail that shares the doc store that is open
BeforeTail(segs, store) ==
    LET K == {k \in DOMAIN segs : segs[k].ds # store}
        last == CHOOSE k \in K : \A l \in K : l <= k
    IN  IF store = None THEN segs ELSE SubSeq(segs, 1, last)

\* startCommit's loop stops at a segment outside that tail
HeadFound(segs, store) ==
    store # None => \E k \in DOMAIN segs : segs[k].ds # store

\* Mutant: the files to sync are not referenced
StartCommitNoIncRef ==
    /\ pc = "flushed" /\ LockFree /\ MergesFinished /\ dirty
    /\ LET w == WriteDeletes(W, pooled, OpenFiles(docStore))
           segs == BeforeTail(w.segs, docStore)
       IN  /\ HeadFound(w.segs, docStore)
           /\ files' = w.files
           /\ stable' = stable \ w.created
           /\ ifd' = w.ifd
           /\ infos' = [infos EXCEPT !.segs = w.segs]
           /\ toSync' = [infos EXCEPT !.segs = segs]
           /\ dirtySince' = (Len(segs) # Len(w.segs))
    /\ pooled' = {}
    /\ pc' = "sync"
    /\ UNCHANGED <<sis, segGen, status, rollbackInfos, dirty, merge, docVars,
                   op, pending, histVars>>

\* startCommit, first locked section: readerPool->commit, the copy of the
\* segmentInfos without the tail, its files referenced
StartCommit ==
    /\ pc = "flushed" /\ LockFree /\ MergesFinished /\ dirty
    /\ LET w == WriteDeletes(W, pooled, OpenFiles(docStore))
           segs == BeforeTail(w.segs, docStore)
       IN  /\ HeadFound(w.segs, docStore)
           /\ files' = w.files
           /\ stable' = stable \ w.created
           /\ ifd' = IncRef(w.ifd, InfosFiles(segs))
           /\ infos' = [infos EXCEPT !.segs = w.segs]
           /\ toSync' = [infos EXCEPT !.segs = segs]
           /\ dirtySince' = (Len(segs) # Len(w.segs))
    /\ pooled' = {}
    /\ pc' = "sync"
    /\ UNCHANGED <<sis, segGen, status, rollbackInfos, dirty, merge, docVars,
                   op, pending, histVars>>

\* startSync, Directory::sync and finishSync of one file
SyncFile(f) ==
    /\ pc = "sync" /\ f \in InfosFiles(toSync.segs) \ ifd.synced
    /\ stable' = stable \cup {f}
    /\ ifd' = [ifd EXCEPT !.synced = @ \cup {f}]
    /\ UNCHANGED <<files, sis, segGen, status, infos, rollbackInfos, dirty,
                   dirtySince, mergeVars, docVars, userVars, histVars>>

\* ... throws
SyncFails ==
    /\ DataSyncMayFail /\ pc = "sync"
    /\ ~(InfosFiles(toSync.segs) \subseteq ifd.synced)
    /\ pc' = "unwind"
    /\ UNCHANGED <<dirVars, ifd, status, infos, rollbackInfos, dirty,
                   dirtySince, mergeVars, docVars, op, toSync, pending,
                   histVars>>

\* Mutant: the files that are not synced yet are not waited for
SyncDoneEarly ==
    /\ pc = "sync"
    /\ pc' = "turn"
    /\ UNCHANGED <<dirVars, ifd, status, infos, rollbackInfos, dirty,
                   dirtySince, mergeVars, docVars, op, toSync, pending,
                   histVars>>

\* All the files are synced
SyncDone ==
    /\ pc = "sync" /\ InfosFiles(toSync.segs) \subseteq ifd.synced
    /\ pc' = "turn"
    /\ UNCHANGED <<dirVars, ifd, status, infos, rollbackInfos, dirty,
                   dirtySince, mergeVars, docVars, op, toSync, pending,
                   histVars>>

\* toSync->prepareCommit(directory) with the generation it has by then
Prepared ==
    LET t == IF infos.generation > toSync.generation
             THEN UpdateGeneration(toSync, infos) ELSE toSync
    IN  [t EXCEPT !.generation = NextGeneration(t)]

\* SegmentInfos::write of segments_g, with a checksum that does not match
SegmentsFileStarted(g) ==
    /\ files' = files \cup {Segments(g)}
    /\ stable' = stable \ {Segments(g)}
    /\ sis' = [h \in DOMAIN sis \cup {g} |->
                 IF h = g THEN [segs |-> toSync.segs, valid |-> FALSE,
                                counter |-> toSync.counter]
                 ELSE sis[h]]

\* startCommit, second locked section: segments_N is written, but for the
\* checksum
PrepareCommit ==
    /\ pc = "turn" /\ LockFree
    /\ SegmentsFileStarted(Prepared.generation)
    /\ toSync' = Prepared
    /\ infos' = UpdateGeneration(infos, Prepared)
    /\ pending' = TRUE
    /\ IF op = "prepare" THEN GoTo("idle", "none") ELSE GoTo("fcWrite", op)
    /\ UNCHANGED <<segGen, ifd, status, rollbackInfos, dirty, dirtySince,
                   mergeVars, docVars, histVars>>

\* ... throws, having removed what it wrote unless that fails as well; the
\* generation is not reused
PrepareFails ==
    /\ SegmentsWriteMayFail /\ pc = "turn" /\ LockFree
    /\ \/ UNCHANGED <<files, stable, sis>>
       \/ DeleteMayFail /\ SegmentsFileStarted(Prepared.generation)
    /\ toSync' = Prepared
    /\ infos' = UpdateGeneration(infos, Prepared)
    /\ pc' = "unwind"
    /\ UNCHANGED <<segGen, ifd, status, rollbackInfos, dirty, dirtySince,
                   mergeVars, docVars, op, pending, histVars>>

\* startCommit, last locked section, after an exception
Unwind ==
    /\ pc = "unwind" /\ LockFree
    /\ ifd' = DecRef(ifd, InfosFiles(toSync.segs))
    /\ toSync' = NoInfos
    /\ GoTo("idle", "none")
    /\ UNCHANGED <<dirVars, status, infos, rollbackInfos, dirty, dirtySince,
                   mergeVars, docVars, pending, histVars>>

Without(F) == [g \in {h \in DOMAIN sis : Segments(h) \notin F} |-> sis[g]]

\* Directory::deleteFile of f: what goes, when it may throw
Removals(f) == {{f}} \cup (IF DeleteMayFail THEN {{}} ELSE {})

Removed(F) ==
    /\ files' = files \ F
    /\ stable' = stable \ F
    /\ sis' = Without(F)

\* The end of finishCommit, whatever happened before: decRef(pendingCommit)
ReleasePending(d) ==
    /\ ifd' = DecRef(d, InfosFiles(toSync.segs))
    /\ toSync' = NoInfos
    /\ pending' = FALSE

\* Mutant: rollbackCommit takes the file name from lastGeneration
FinishCommitDeletesLast ==
    /\ pc = "fcWrite" /\ LockFree
    /\ \/ /\ sis' = [sis EXCEPT ![toSync.generation].valid = TRUE]
          /\ pc' = "fcSync"
          /\ UNCHANGED <<files, stable, ifd, toSync, pending, op>>
       \/ /\ SegmentsWriteMayFail
          /\ \E gone \in Removals(Segments(toSync.lastGeneration)) :
                Removed(gone)
          /\ ReleasePending(ifd)
          /\ GoTo("idle", "none")
    /\ UNCHANGED <<segGen, status, infos, rollbackInfos, dirty, dirtySince,
                   mergeVars, docVars, histVars>>

\* finishCommit: the checksum of segments_N is completed and the file closed
FinishCommitWrite ==
    /\ pc = "fcWrite" /\ LockFree
    /\ \/ /\ sis' = [sis EXCEPT ![toSync.generation].valid = TRUE]
          /\ pc' = "fcSync"
          /\ UNCHANGED <<files, stable, ifd, toSync, pending, op>>
       \/ /\ SegmentsWriteMayFail
          /\ \E gone \in Removals(Segments(toSync.generation)) : Removed(gone)
          /\ ReleasePending(ifd)
          /\ GoTo("idle", "none")
    /\ UNCHANGED <<segGen, status, infos, rollbackInfos, dirty, dirtySince,
                   mergeVars, docVars, histVars>>

\* finishCommit: lastGeneration = generation
SegmentsFileDone ==
    /\ toSync' = [toSync EXCEPT !.lastGeneration = toSync.generation]
    /\ pc' = "fcGen"
    /\ UNCHANGED <<ifd, op, pending>>

\* Mutant: segments_N is not synced
FinishCommitNoSync ==
    /\ pc = "fcSync"
    /\ SegmentsFileDone
    /\ UNCHANGED <<files, stable, sis, segGen, status, infos, rollbackInfos,
                   dirty, dirtySince, mergeVars, docVars, histVars>>

\* finishCommit: segments_N is synced.  When that throws the file is deleted
\* and the commit goes on; only when the deletion throws too does it fail,
\* as both do when deleteAll has removed the file.
FinishCommitSync ==
    /\ pc = "fcSync"
    /\ LET f == Segments(toSync.generation)
       IN  \/ /\ f \in files
              /\ stable' = stable \cup {f} /\ UNCHANGED <<files, sis>>
              /\ SegmentsFileDone
           \/ /\ f \in files /\ SegmentsSyncMayFail
              /\ Removed({f}) /\ SegmentsFileDone
           \/ /\ (SegmentsSyncMayFail /\ DeleteMayFail) \/ f \notin files
              /\ ReleasePending(ifd)
              /\ GoTo("idle", "none")
              /\ UNCHANGED <<files, stable, sis>>
    /\ UNCHANGED <<segGen, status, infos, rollbackInfos, dirty, dirtySince,
                   mergeVars, docVars, histVars>>

\* finishCommit: segments.gen is written, errors ignored
FinishCommitGen ==
    /\ pc = "fcGen"
    /\ \/ segGen' = toSync.generation
       \/ SegmentsWriteMayFail /\ segGen' = None
    /\ pc' = "fcCheckpoint"
    /\ UNCHANGED <<files, stable, sis, ifd, status, infos, rollbackInfos,
                   dirty, dirtySince, mergeVars, docVars, op, toSync, pending,
                   histVars>>

\* finishCommit: the writer and the deleter take note of the new commit
FinishCommitCheckpoint ==
    /\ pc = "fcCheckpoint"
    /\ dirty' = dirtySince
    /\ infos' = UpdateGeneration(infos, toSync)
    /\ rollbackInfos' = toSync.segs
    /\ ReleasePending(
          CommitCheckpoint(ifd, toSync.generation,
                           InfosFiles(toSync.segs)
                             \cup {Segments(toSync.lastGeneration)},
                           snapshot))
    /\ acked' = toSync.generation
    /\ IF op = "close" THEN GoTo("closing", op) ELSE GoTo("idle", "none")
    /\ UNCHANGED <<dirVars, status, dirtySince, mergeVars, docVars, snapshot,
                   crashes, opens>>

-----------------------------------------------------------------------------
(***************************************************************************)
(* Rollback, deleteAll, close, snapshots, deletion of files.               *)
(***************************************************************************)
\* rollback and deleteAll pause the indexing threads, abort the running
\* merge and wait for it: finishMerges(false)
FinishMerges(o) ==
    /\ pc = "idle" /\ LockFree
    /\ o \in {"rollback", "deleteAll"}
    /\ o = "deleteAll" => /\ pending => DeleteAllWhilePending
                          /\ infos.segs # <<>> \/ ram # None
    /\ GoTo("aborting", o)
    /\ UNCHANGED <<dirVars, ifd, status, infos, rollbackInfos, dirty,
                   dirtySince, mergeVars, docVars, toSync, pending, histVars>>

\* rollbackInternal: what was prepared is undone and the segments are those
\* of the last commit again
Rollback ==
    /\ pc = "aborting" /\ op = "rollback" /\ LockFree
    /\ merge.stage = "none"
    /\ \E gone \in IF pending THEN Removals(Segments(toSync.generation))
                   ELSE {{}} :
          LET d1 == DecRef(ifd, InfosFiles(toSync.segs))
              d2 == Checkpoint(d1, InfosFiles(rollbackInfos), {})
          IN  Removed(gone) /\ ifd' = Refresh(d2, files \ gone)
    /\ infos' = [infos EXCEPT !.segs = rollbackInfos]
    /\ toSync' = NoInfos
    /\ pending' = FALSE
    /\ AbortDocuments
    /\ pooled' = {}
    /\ dirty' = FALSE
    /\ dirtySince' = FALSE
    /\ GoTo("closing", op)
    /\ docClosed' = TRUE
    /\ UNCHANGED <<segGen, status, rollbackInfos, merge, histVars>>

\* deleteAll, once the merges it aborts are gone
DeleteAll ==
    /\ pc = "aborting" /\ op = "deleteAll" /\ LockFree
    /\ merge.stage = "none"
    /\ infos' = [infos EXCEPT !.segs = <<>>]
    /\ ifd' = Refresh(Checkpoint(ifd, {}, {}), files)
    /\ AbortDocuments
    /\ pooled' = {}
    /\ Changed(TRUE)
    /\ GoTo("idle", "none")
    /\ UNCHANGED <<dirVars, status, rollbackInfos, merge, docClosed, toSync,
                   pending, histVars>>

\* closeInternal: readerPool->close, deleter->close
Close ==
    /\ pc = "closing" /\ LockFree
    /\ LET w == WriteDeletes(W, pooled, OpenFiles(docStore))
       IN  /\ files' = w.files
           /\ stable' = stable \ w.created
           /\ ifd' = CloseDeleter(w.ifd)
           /\ infos' = [infos EXCEPT !.segs = w.segs]
    /\ pooled' = {}
    /\ pc' = "drain"
    /\ UNCHANGED <<sis, segGen, status, rollbackInfos, dirty, dirtySince,
                   merge, docVars, op, toSync, pending, histVars>>

\* What a writer that is gone leaves of its memory
Forget ==
    /\ ifd' = NoDeleter
    /\ infos' = NoInfos /\ toSync' = NoInfos /\ rollbackInfos' = <<>>
    /\ dirty' = FALSE /\ dirtySince' = FALSE /\ pending' = FALSE
    /\ pooled' = {} /\ merge' = NoMerge
    /\ AbortDocuments /\ docClosed' = FALSE
    /\ GoTo("idle", "none")

\* closeInternal: the write lock is released
CloseDone ==
    /\ pc = "drain" /\ ifd.doomed = {}
    /\ status' = "closed"
    /\ Forget
    /\ UNCHANGED <<dirVars, histVars>>

\* SnapshotDeletionPolicy::snapshot and release
TakeSnapshot ==
    /\ status = "open" /\ snapshot = None
    /\ \E c \in ifd.commits :
          /\ \A b \in ifd.commits : b.generation <= c.generation
          /\ snapshot' = c.generation
    /\ UNCHANGED <<dirVars, ifd, status, infos, rollbackInfos, dirty,
                   dirtySince, mergeVars, docVars, userVars, acked, crashes,
                   opens>>

ReleaseSnapshot ==
    /\ snapshot # None
    /\ snapshot' = None
    /\ UNCHANGED <<dirVars, ifd, status, infos, rollbackInfos, dirty,
                   dirtySince, mergeVars, docVars, userVars, acked, crashes,
                   opens>>

\* IndexFileDeleter::deleteFile of the files the running handler has given
\* up; the ones that cannot be deleted are queued for the next checkpoint.
\* The handler holds the lock meanwhile, so only a crash sees a part of it.
Unlink ==
    /\ ifd.doomed # {}
    /\ \E failed \in SUBSET (ifd.doomed \cap files) :
          /\ failed # {} => DeleteMayFail
          /\ Removed(ifd.doomed \ failed)
          /\ ifd' = [ifd EXCEPT !.doomed = {},
                                !.deletable = @ \cup failed]
    /\ UNCHANGED <<segGen, status, infos, rollbackInfos, dirty, dirtySince,
                   mergeVars, docVars, userVars, histVars>>

-----------------------------------------------------------------------------
(***************************************************************************)
(* Crashes and restarts.                                                   *)
(***************************************************************************)
\* The machine stops.  Of the files to unlink some are gone by then.  Of the
\* files that were not synced some are whole all the same; the others are
\* lost, or left with other bytes in them, and then the checksum of a
\* segments_N does not match.
Die ==
    /\ \E gone \in SUBSET (ifd.doomed \cap files),
          bad \in SUBSET (files \ stable), lost \in BOOLEAN :
          LET there == (IF lost THEN files \ bad ELSE files) \ gone
          IN  /\ files' = there
              /\ stable' = there \ bad
              /\ sis' = [g \in {h \in DOMAIN sis : Segments(h) \in there} |->
                           [sis[g] EXCEPT !.valid = @ /\ Segments(g) \notin bad]]
    /\ segGen' \in {segGen, None}
    /\ status' = "crashed"
    /\ snapshot' = None
    /\ Forget
    /\ UNCHANGED <<acked, opens>>

Crash ==
    /\ status = "open" /\ crashes < MaxCrashes
    /\ Die
    /\ crashes' = crashes + 1

\* startCommit's loop runs past the first segment: toSync->info(-1) reads
\* outside the vector, which ends the process
StartCommitOutOfRange ==
    /\ pc = "flushed" /\ LockFree /\ MergesFinished /\ dirty
    /\ ~HeadFound(infos.segs, docStore)
    /\ Die
    /\ UNCHANGED crashes

\* The constructor, with create or not, on a directory that has an index.
\* IndexFileDeleter's constructor throws at an older segments_N that cannot
\* be read.
Open(create) ==
    /\ status # "open" /\ opens < MaxOpens
    /\ LET g == FindSegments(files, sis, segGen)
           points == {[generation |-> h,
                       files |-> InfosFiles(sis[h].segs) \cup {Segments(h)}] :
                         h \in {k \in DOMAIN sis : Readable(files, sis, k)}}
           segs == IF create THEN <<>> ELSE sis[g].segs
       IN  /\ g # None
           /\ \A h \in DOMAIN sis : h <= g => Readable(files, sis, h)
           /\ infos' = [segs |-> segs, generation |-> g, lastGeneration |-> g,
                        counter |-> sis[g].counter]
           /\ rollbackInfos' = segs
           /\ ifd' = InitDeleter(files, points, InfosFiles(segs), snapshot,
                                 IF create THEN {}
                                 ELSE InfosFiles(segs) \cup {Segments(g)})
           /\ acked' = g
    /\ status' = "open"
    /\ opens' = opens + 1
    /\ dirty' = create
    /\ dirtySince' = create
    /\ UNCHANGED <<dirVars, mergeVars, docVars, userVars, snapshot, crashes>>

-----------------------------------------------------------------------------
\* An index with one empty commit, as IndexWriter's constructor with create
\* commits it in a fresh directory, and no writer
Init ==
    /\ files = {Segments(1)} /\ stable = {Segments(1)}
    /\ sis = [g \in {1} |-> [segs |-> <<>>, counter |-> 0, valid |-> TRUE]]
    /\ segGen = 1
    /\ ifd = NoDeleter
    /\ status = "closed"
    /\ infos = NoInfos /\ toSync = NoInfos /\ rollbackInfos = <<>>
    /\ dirty = FALSE /\ dirtySince = FALSE /\ pending = FALSE
    /\ pooled = {} /\ merge = NoMerge
    /\ ram = None /\ docStore = None /\ delTerms = {} /\ docClosed = FALSE
    /\ pc = "idle" /\ op = "none"
    /\ snapshot = None /\ acked = 1 /\ crashes = 0 /\ opens = 0

Next ==
    \/ AddDocument \/ DeleteDocuments \/ Flush
    \/ \E i, j \in DOMAIN infos.segs : MergeInit(i, j)
    \/ MergeOpen \/ MergeWrite \/ CommitMerge \/ ReleaseMerged \/ AbortMerge
    \/ \E o \in {"prepare", "commit", "close"} : BeginCommit(o)
    \/ CommitPrepared \/ NothingToCommit \/ StartCommit
    \/ \E f \in InfosFiles(toSync.segs) : SyncFile(f)
    \/ SyncFails \/ SyncDone \/ PrepareCommit \/ PrepareFails \/ Unwind
    \/ FinishCommitWrite \/ FinishCommitSync \/ FinishCommitGen
    \/ FinishCommitCheckpoint
    \/ \E o \in {"rollback", "deleteAll"} : FinishMerges(o)
    \/ Rollback \/ DeleteAll \/ Close \/ CloseDone
    \/ TakeSnapshot \/ ReleaseSnapshot
    \/ Unlink
    \/ Crash \/ StartCommitOutOfRange
    \/ \E create \in BOOLEAN : Open(create)

Spec == Init /\ [][Next]_vars

-----------------------------------------------------------------------------
(***************************************************************************)
(* Properties.                                                             *)
(***************************************************************************)
\* Who refers to file f: the last checkpoint (twice), each commit point, and
\* the SegmentInfos of the commit under way
References(f) ==
    (IF f \in ifd.lastFiles[1] THEN 1 ELSE 0)
      + (IF f \in ifd.lastFiles[2] THEN 1 ELSE 0)
      + Holders(ifd.commits, f)
      + (IF f \in InfosFiles(toSync.segs) THEN 1 ELSE 0)

\* The deleter's reference counts are exact: over any interleaving of
\* flushes, merges, commits, failed commits, rollbacks and deleteAll, every
\* incRef has met its decRef and none was dropped twice
\* (IndexFileDeleter::incRef, decRef, checkpoint, deleteCommits).
RefCountsExact ==
    status = "open" =>
        \A f \in files \cup DOMAIN ifd.refCounts :
            Count(ifd.refCounts, f) = References(f)

\* A file that is still referenced is in the directory and nobody is about
\* to delete it: what IndexWriter::startCommit asserts before and while it
\* syncs ("Because we incRef'd this commit point above, the file had better
\* exist").
ReferencedFilesExist ==
    status = "open" =>
        \A f \in DOMAIN ifd.refCounts :
            ifd.refCounts[f] > 0 =>
                f \in files \ (ifd.doomed \cup ifd.deletable)

\* The files of the live segmentInfos and of rollbackSegmentInfos are there
\* whenever IndexWriter's lock is free: checkpoint was called after every
\* change of segmentInfos.
SegmentsUsable ==
    LockFree => InfosFiles(infos.segs) \cup InfosFiles(rollbackInfos)
                  \subseteq files

\* IndexWriter's "synced" set never claims a file that a crash could lose:
\* a name that is deleted, or written again, is out of it
\* (IndexFileDeleter::decRef, IndexWriter::finishSync).
SyncedIsStable == ifd.synced \subseteq stable

\* Every commit point the deletion policy keeps could be opened after a
\* crash at this very moment: all its files are on stable storage
\* (IndexWriter::startCommit syncs them before SegmentInfos::finishCommit).
CommitPointsDurable ==
    \A c \in ifd.commits : c.files \subseteq files \cap stable

\* Without a writer the directory holds an index that can be opened, no
\* older than the last commit that was acknowledged, with all its files
\* whole; and no older segments_N is in the way of the next writer.
Recoverable ==
    status # "open" =>
        LET g == FindSegments(files, sis, segGen)
        IN  /\ g # None /\ g >= acked
            /\ InfosFiles(sis[g].segs) \cup {Segments(g)}
                 \subseteq files \cap stable
            /\ \A h \in DOMAIN sis : h <= g => sis[h].valid

\* After close or rollback the last commit is the current one, and every
\* file belongs to a commit point: nothing of an aborted merge, a failed
\* flush or a commit that was rolled back stays in the directory
\* (IndexFileDeleter::refresh, deleteNewFiles).
ClosedLeavesNoGarbage ==
    status = "closed" =>
        /\ FindSegments(files, sis, segGen) = acked
        /\ files = UNION {InfosFiles(sis[g].segs) \cup {Segments(g)} :
                             g \in DOMAIN sis}

\* A writer that ends knows each data file it leaves behind: the file belongs
\* to a commit it kept, or its deletion failed and was still to be tried again,
\* however many flushes, commits and deletions failed before
\* (IndexFileDeleter::close, deletePendingFiles, refresh).
ClosedForgetsNothing ==
    [][status = "open" /\ status' = "closed" =>
          {f \in files : f[1] # "segments"}
            \subseteq ifd.deletable \cup UNION {c.files : c \in ifd.commits}]_vars

\* The commit SnapshotDeletionPolicy::snapshot returned keeps all its files,
\* for as long as it is not released, across later commits and the merges
\* they hold, and across a close and the next writer.
SnapshotHeld ==
    snapshot # None =>
        /\ snapshot \in DOMAIN sis
        /\ InfosFiles(sis[snapshot].segs) \cup {Segments(snapshot)}
             \subseteq files

\* A segments_N that was once whole is never written again, and a synced
\* file is never replaced by another one of the same name while it exists
\* (the lockless commits' "write once").
WriteOnce ==
    [][/\ \A g \in DOMAIN sis \cap DOMAIN sis' :
             sis[g].valid /\ status' # "crashed" => sis'[g] = sis[g]
       /\ stable \cap files' \subseteq stable']_vars

\* The commit points of a writer move forward: a commit that succeeds is
\* newer than every commit point the deleter knows and becomes one, whatever
\* failed before it and however far that took the generation; and the policy
\* is let drop a commit point only when the deleter has a newer one
\* (SegmentInfos::write, IndexFileDeleter::checkpoint, deleteCommits,
\* KeepOnlyLastCommitDeletionPolicy::onCommit).
CommitsAdvance ==
    [][status = "open" /\ status' = "open" =>
          /\ acked' # acked =>
                /\ \A c \in ifd.commits : c.generation < acked'
                /\ \E c \in ifd'.commits : c.generation = acked'
          /\ \A c \in ifd.commits \ ifd'.commits :
                \E b \in ifd'.commits : b.generation > c.generation]_vars

\* While a writer runs, the last commit that succeeded stays in the
\* directory with every file it refers to: nothing that is removed for a
\* later commit that fails, at any of its steps, for a rollback, a deleteAll,
\* or by another try at a deletion that failed, is part of it.  A segments_N
\* that finishCommit itself removed, when its sync failed, is not there to stay
\* (SegmentInfos::rollbackCommit, finishCommit, IndexFileDeleter::decRef,
\* refresh, deletePendingFiles).
LastCommitStays ==
    [][status = "open" /\ status' = "open" /\ Segments(acked) \in files =>
          files \cap (InfosFiles(sis[acked].segs) \cup {Segments(acked)})
            \subseteq files']_vars
=============================================================================
