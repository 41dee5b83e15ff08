------------------------ MODULE CommitThreadsProofs ------------------------
(***************************************************************************)
(* Proofs about CommitThreads, for any set of threads, any calls and       *)
(* bounds, with syncs and writes that fail: the types, that every commit   *)
(* names only synced files, and that no segments_N is written twice.       *)
(***************************************************************************)
EXTENDS CommitThreads, TLAPS

-----------------------------------------------------------------------------
(***************************************************************************)
(* The inductive invariants.                                               *)
(***************************************************************************)
\* A thread that is syncing has a file to sync.
SyncingFile == \A t \in Thread : pc[t] = "syncing" => file[t] # None

\* The files of a thread's copy that startCommit has passed are synced, or
\* are being synced by this thread, or it will wait for them.
CopySynced(t) ==
    /\ pc[t] \in {"sync", "wait"} =>
         toSync[t].files \subseteq synced \cup todo[t] \cup waiting[t]
    /\ pc[t] = "syncing" =>
         toSync[t].files \subseteq synced \cup todo[t] \cup waiting[t]
                                    \cup {file[t]}
    /\ pc[t] = "turn" => toSync[t].files \subseteq synced

SyncInv == CommitsSynced /\ \A t \in Thread : CopySynced(t)

\* The generation is not behind any segments_N, and is that of the commit
\* that is prepared.
GenInv ==
    /\ \A n \in written : n <= generation
    /\ pendingCommit # NoInfos => pendingCommit.generation = generation

-----------------------------------------------------------------------------
\* The buffered documents and the live segments are segments.
LEMMA AddedType ==
    ASSUME TypeOK
    PROVE  Added \subseteq 1..MaxSegments
BY ThreadsAssumption DEF TypeOK, Added, None

\* The record of no commit, and that of a commit that is prepared, are
\* SegmentInfos.
LEMMA InfosType ==
    /\ NoInfos \in Infos
    /\ \A i \in Infos, n \in Nat :
          /\ [i EXCEPT !.generation = n] \in Infos
          /\ [i EXCEPT !.generation = n].files = i.files
          /\ [i EXCEPT !.generation = n].generation = n
BY DEF NoInfos, Infos

\* The next generation is above that of segmentInfos
\* (SegmentInfos::updateGeneration and write).
LEMMA NextGenerationAbove ==
    ASSUME TypeOK, NEW t \in Thread
    PROVE  /\ NextGeneration(t) \in Nat
           /\ NextGeneration(t) > generation
BY DEF TypeOK, NextGeneration, Infos

-----------------------------------------------------------------------------
\* A call that begins keeps the types.
LEMMA BeginType ==
    ASSUME TypeOK, NEW t \in Thread, calls[t] < MaxCalls,
           NEW o \in {"prepare", "commit", "close", "rollback"},
           NEW p \in PCs, Begin(t, o, p),
           closing' \in BOOLEAN, closed' \in BOOLEAN, docClosed' \in BOOLEAN,
           target' = target
    PROVE  TypeOK'
<1>1. calls' \in [Thread -> 0..MaxCalls]
  BY ThreadsAssumption DEF TypeOK, Begin
<1> QED
  BY <1>1 DEF TypeOK, Begin, indexVars, commitVars, syncVars, docVars

\* The steps that write or forget documents keep the types.
LEMMA DocumentsType ==
    ASSUME TypeOK, AddDocument \/ Flush
    PROVE  TypeOK'
<1>1. CASE AddDocument
  BY <1>1, ThreadsAssumption
  DEF TypeOK, AddDocument, commitVars, syncVars, closeVars, threadVars
<1>2. CASE Flush
  BY <1>2, ThreadsAssumption, AddedType
  DEF TypeOK, Flush, Flushed, None, commitVars, syncVars, closeVars, threadVars
<1> QED
  BY <1>1, <1>2

\* A call keeps the types.
LEMMA CallType ==
    ASSUME TypeOK, NEW t \in Thread, Call(t)
    PROVE  TypeOK'
<1> USE BeginType DEF MayCall, PCs
<1>1. CASE CallPrepareCommit(t)
  BY <1>1 DEF CallPrepareCommit, closeVars, TypeOK
<1>2. CASE CallCommit(t)
  BY <1>2 DEF CallCommit, closeVars, TypeOK
<1>3. CASE CallClose(t)
  BY <1>3 DEF CallClose, TypeOK
<1>4. CASE CallRollback(t)
  BY <1>4 DEF CallRollback, TypeOK
<1> QED
  BY <1>1, <1>2, <1>3, <1>4 DEF Call

\* A step inside a call keeps the types.
LEMMA StepType ==
    ASSUME TypeOK, SyncingFile, NEW t \in Thread, Step(t) \/ Wake(t)
    PROVE  TypeOK'
<1> USE DEF indexVars, commitVars, syncVars, closeVars, docVars, GoTo
<1>0. AfterStart(t) \in PCs
  BY DEF AfterStart, PCs
<1>1. CASE CommitPrepared(t)
  BY <1>1 DEF TypeOK, CommitPrepared, PCs
<1>3. CASE TakeCommitLock(t)
  BY <1>3, AddedType DEF TypeOK, TakeCommitLock, PCs
<1>4. CASE CheckPending(t)
  BY <1>4 DEF TypeOK, CheckPending, PCs
<1>5. CASE FlushAll(t)
  <2>1. CASE closed
    BY <1>5, <2>1 DEF TypeOK, FlushAll, PCs
  <2>2. CASE ~closed
    <3>1. /\ live' \subseteq 1..MaxSegments /\ buffered' \in 0..MaxSegments
          /\ changeCount' \in Nat
      BY <1>5, <2>2, AddedType, ThreadsAssumption
      DEF TypeOK, FlushAll, Flushed, None
    <3>2. pc' \in [Thread -> PCs]
      BY <1>5, <2>2 DEF TypeOK, FlushAll, PCs
    <3> QED
      BY <1>5, <2>2, <3>1, <3>2 DEF TypeOK, FlushAll, Flushed
  <2> QED
    BY <2>1, <2>2
<1>6. CASE StartCommit(t)
  <2>1. [files |-> live, generation |-> generation, change |-> changeCount]
          \in Infos
    BY DEF TypeOK, Infos
  <2>2. /\ toSync' \in [Thread -> Infos]
        /\ todo' \in [Thread -> SUBSET (1..MaxSegments)]
        /\ waiting' \in [Thread -> SUBSET (1..MaxSegments)]
    BY <1>6, <2>1, ZenonT(60) DEF TypeOK, StartCommit
  <2>3. pc' \in [Thread -> PCs]
    BY <1>6, <1>0 DEF TypeOK, StartCommit, PCs
  <2> QED
    BY <1>6, <2>2, <2>3 DEF TypeOK, StartCommit
<1>7. CASE \E f \in todo[t] : StartSync(t, f)
  <2>1. PICK f \in todo[t] : StartSync(t, f)
    BY <1>7
  <2>2. f \in 1..MaxSegments
    BY DEF TypeOK
  <2>3. /\ todo' \in [Thread -> SUBSET (1..MaxSegments)]
        /\ waiting' \in [Thread -> SUBSET (1..MaxSegments)]
        /\ syncing' \subseteq 1..MaxSegments
    <3> DEFINE S == 1..MaxSegments
    <3>1. /\ todo \in [Thread -> SUBSET S] /\ waiting \in [Thread -> SUBSET S]
          /\ syncing \subseteq S /\ f \in S
      BY <2>2 DEF TypeOK
    <3> HIDE DEF S
    <3>2. todo' \in [Thread -> SUBSET S]
      BY <2>1, <3>1 DEF StartSync
    <3>3. waiting' \in [Thread -> SUBSET S]
      BY <2>1, <3>1 DEF StartSync
    <3>4. syncing' \subseteq S
      BY <2>1, <3>1 DEF StartSync
    <3> QED
      BY <3>2, <3>3, <3>4 DEF S
  <2>4. /\ file' \in [Thread -> 0..MaxSegments]
        /\ pc' \in [Thread -> PCs]
    BY <2>1, <2>2, ThreadsAssumption DEF TypeOK, StartSync, PCs
  <2> QED
    BY <2>1, <2>3, <2>4 DEF TypeOK, StartSync
<1>8. CASE FinishSync(t)
  <2>1. file[t] \in 1..MaxSegments
    BY <1>8, ThreadsAssumption DEF TypeOK, FinishSync, SyncingFile, None
  <2> QED
    BY <1>8, <2>1 DEF TypeOK, FinishSync, PCs
<1>9. CASE WaitForAllSynced(t) \/ Wake(t)
  BY <1>9 DEF TypeOK, WaitForAllSynced, Wake, PCs
<1>10. CASE SkipSuperseded(t)
  BY <1>10, <1>0 DEF TypeOK, SkipSuperseded
<1>11. CASE PrepareCommit(t)
  BY <1>11, <1>0, InfosType, NextGenerationAbove, SMTT(30)
  DEF TypeOK, PrepareCommit, PCs
<1>12. CASE FinishCommit(t)
  <2>1. /\ pendingCommit.files \subseteq 1..MaxSegments
        /\ pendingCommit.generation \in Nat /\ pendingCommit.change \in Nat
    BY DEF TypeOK, Infos
  <2> QED
    BY <1>12, <2>1, InfosType DEF TypeOK, FinishCommit, PCs
<1>13. CASE Revert(t)
  BY <1>13, InfosType, ThreadsAssumption DEF TypeOK, Revert, None, PCs
<1>14. CASE Recount(t)
  BY <1>14 DEF TypeOK, Recount, PCs
<1>15. CASE Return(t)
  <2>1. /\ pc' \in [Thread -> PCs]
        /\ op' \in [Thread -> {"none", "prepare", "commit", "close",
                               "rollback"}]
    BY <1>15 DEF TypeOK, Return, PCs
  <2>2. /\ toSync' \in [Thread -> Infos]
        /\ todo' \in [Thread -> SUBSET (1..MaxSegments)]
        /\ file' \in [Thread -> 0..MaxSegments]
        /\ waiting' \in [Thread -> SUBSET (1..MaxSegments)]
        /\ before' \in [Thread -> SUBSET (1..MaxSegments)]
    BY <1>15, InfosType, ThreadsAssumption DEF TypeOK, Return, None
  <2>3. /\ closing' \in BOOLEAN /\ closed' \in BOOLEAN
        /\ commitLock' \in Thread \cup {None}
    BY <1>15 DEF TypeOK, Return
  <2> QED
    BY <1>15, <2>1, <2>2, <2>3 DEF TypeOK, Return
<1> QED
  BY <1>1, <1>3, <1>4, <1>5, <1>6, <1>7, <1>8, <1>9, <1>10, <1>11, <1>12,
     <1>13, <1>14, <1>15 DEF Step

\* A thread keeps hold of the file it is syncing.
LEMMA SyncingFileKept ==
    ASSUME TypeOK, SyncingFile, Next
    PROVE  SyncingFile'
<1> USE DEF SyncingFile, GoTo
<1>1. CASE AddDocument
  BY <1>1 DEF AddDocument, threadVars
<1>2. CASE Flush
  BY <1>2 DEF Flush, threadVars
<1>3. ASSUME NEW t \in Thread, Call(t)
      PROVE  SyncingFile'
  BY <1>3 DEF TypeOK, Call, CallPrepareCommit, CallCommit, CallClose,
              CallRollback, Begin
<1>4. ASSUME NEW t \in Thread, Step(t) \/ Wake(t)
      PROVE  SyncingFile'
  <2>1. CASE \E f \in todo[t] : StartSync(t, f)
    BY <2>1 DEF TypeOK, StartSync, None
  <2>2. CASE CommitPrepared(t) \/ TakeCommitLock(t)
             \/ CheckPending(t) \/ FlushAll(t)
    BY <2>2 DEF TypeOK, CommitPrepared, TakeCommitLock,
                CheckPending, FlushAll
  <2>3. CASE StartCommit(t) \/ FinishSync(t) \/ WaitForAllSynced(t) \/ Wake(t)
             \/ SkipSuperseded(t)
    BY <2>3 DEF TypeOK, StartCommit, FinishSync, WaitForAllSynced, Wake,
                SkipSuperseded, AfterStart
  <2>4. CASE PrepareCommit(t) \/ FinishCommit(t) \/ Revert(t) \/ Recount(t)
    BY <2>4 DEF TypeOK, PrepareCommit, FinishCommit, Revert, Recount,
                AfterStart
  <2>5. CASE Return(t)
    BY <2>5 DEF TypeOK, Return
  <2> QED
    BY <1>4, <2>1, <2>2, <2>3, <2>4, <2>5 DEF Step
<1> QED
  BY <1>1, <1>2, <1>3, <1>4 DEF Next

\* Every variable of CommitThreads keeps its type, whatever the threads do
\* and whichever syncs and writes fail.
THEOREM Typed == Spec => [](TypeOK /\ SyncingFile)
<1>1. Init => TypeOK /\ SyncingFile
  <2> SUFFICES ASSUME Init PROVE TypeOK /\ SyncingFile
    OBVIOUS
  <2>1. /\ pc \in [Thread -> PCs]
        /\ op \in [Thread -> {"none", "prepare", "commit", "close",
                              "rollback"}]
        /\ toSync \in [Thread -> Infos] /\ pendingCommit \in Infos
    BY InfosType DEF Init, PCs
  <2>2. /\ todo \in [Thread -> SUBSET (1..MaxSegments)]
        /\ file \in [Thread -> 0..MaxSegments]
        /\ waiting \in [Thread -> SUBSET (1..MaxSegments)]
        /\ calls \in [Thread -> 0..MaxCalls]
        /\ before \in [Thread -> SUBSET (1..MaxSegments)]
    BY ThreadsAssumption DEF Init, None
  <2>3. SyncingFile
    BY DEF Init, SyncingFile
  <2>4. /\ live \subseteq 1..MaxSegments /\ committed \subseteq 1..MaxSegments
        /\ generation \in Nat /\ written \subseteq Nat
        /\ changeCount \in Nat /\ lastCommitChangeCount \in Nat
        /\ synced \subseteq 1..MaxSegments /\ syncing \subseteq 1..MaxSegments
        /\ target \subseteq 1..MaxSegments
    BY DEF Init
  <2>5. /\ commitLock \in Thread \cup {None}
        /\ closing \in BOOLEAN /\ closed \in BOOLEAN /\ docClosed \in BOOLEAN
    BY DEF Init
  <2>6. buffered \in 0..MaxSegments /\ segments \in 0..MaxSegments
    BY ThreadsAssumption DEF Init, None
  <2> QED
    BY <2>1, <2>2, <2>3, <2>4, <2>5, <2>6 DEF TypeOK
<1>2. TypeOK /\ SyncingFile /\ [Next]_vars => (TypeOK /\ SyncingFile)'
  <2>1. CASE Next
    BY <2>1, DocumentsType, CallType, StepType, SyncingFileKept DEF Next
  <2>2. CASE UNCHANGED vars
    BY <2>2 DEF vars, TypeOK, SyncingFile, indexVars, commitVars, syncVars,
                closeVars, docVars, threadVars
  <2> QED
    BY <2>1, <2>2
<1> QED
  BY <1>1, <1>2, PTL DEF Spec

-----------------------------------------------------------------------------
(***************************************************************************)
(* Synced commits: SyncInv.  The files of other threads' copies stay as    *)
(* they are while synced only grows.                                       *)
(***************************************************************************)
\* A thread that does not move keeps CopySynced while synced grows.
LEMMA CopyKept ==
    ASSUME NEW t \in Thread, CopySynced(t), synced \subseteq synced',
           pc'[t] = pc[t], toSync'[t] = toSync[t], todo'[t] = todo[t],
           waiting'[t] = waiting[t], file'[t] = file[t]
    PROVE  CopySynced(t)'
BY DEF CopySynced

\* A thread that is outside the syncing part of startCommit has nothing to
\* keep.
LEMMA CopyOutside ==
    ASSUME NEW t \in Thread, pc'[t] \notin {"sync", "wait", "syncing", "turn"}
    PROVE  CopySynced(t)'
BY DEF CopySynced

\* A step of thread t touches no other thread's copy, and leaves synced
\* the files that are.
LEMMA StepIsLocal ==
    ASSUME TypeOK, NEW t \in Thread, Call(t) \/ Step(t) \/ Wake(t),
           NEW u \in Thread, u # t
    PROVE  /\ pc'[u] = pc[u] /\ toSync'[u] = toSync[u] /\ todo'[u] = todo[u]
           /\ waiting'[u] = waiting[u] /\ file'[u] = file[u]
           /\ synced \subseteq synced'
<1> USE DEF TypeOK, GoTo, syncVars
<1>1. CASE Call(t)
  BY <1>1 DEF Call, CallPrepareCommit, CallCommit, CallClose, CallRollback,
              Begin
<1>2. CASE CommitPrepared(t) \/ TakeCommitLock(t)
           \/ CheckPending(t) \/ FlushAll(t)
  BY <1>2 DEF CommitPrepared, TakeCommitLock, CheckPending,
              FlushAll
<1>3. CASE StartCommit(t)
  BY <1>3 DEF StartCommit
<1>4. CASE \E f \in todo[t] : StartSync(t, f)
  BY <1>4 DEF StartSync
<1>5. CASE FinishSync(t) \/ WaitForAllSynced(t) \/ Wake(t) \/ SkipSuperseded(t)
  BY <1>5 DEF FinishSync, WaitForAllSynced, Wake, SkipSuperseded
<1>6. CASE PrepareCommit(t) \/ FinishCommit(t) \/ Revert(t) \/ Recount(t)
  BY <1>6 DEF PrepareCommit, FinishCommit, Revert, Recount
<1>7. CASE Return(t)
  BY <1>7 DEF Return
<1> QED
  BY <1>1, <1>2, <1>3, <1>4, <1>5, <1>6, <1>7 DEF Step

\* The thread that takes a step keeps CopySynced of itself.
LEMMA CopyOfStep ==
    ASSUME TypeOK, NEW t \in Thread, CopySynced(t),
           Call(t) \/ Step(t) \/ Wake(t)
    PROVE  CopySynced(t)'
<1> USE DEF GoTo, syncVars
<1>1. CASE Call(t)
  BY <1>1, CopyOutside
  DEF TypeOK, Call, CallPrepareCommit, CallCommit, CallClose, CallRollback,
      Begin
<1>2. CASE CommitPrepared(t) \/ TakeCommitLock(t)
           \/ CheckPending(t) \/ FlushAll(t)
  BY <1>2, CopyOutside
  DEF TypeOK, CommitPrepared, TakeCommitLock, CheckPending,
      FlushAll
<1>3. CASE StartCommit(t)
  BY <1>3 DEF TypeOK, StartCommit, AfterStart, CopySynced
<1>4. CASE \E f \in todo[t] : StartSync(t, f)
  <2>1. PICK f \in todo[t] : StartSync(t, f)
    BY <1>4
  <2>2. CASE f \in synced \/ f \in syncing
    BY <2>1, <2>2 DEF TypeOK, StartSync, CopySynced
  <2>3. CASE f \notin synced /\ f \notin syncing
    BY <2>1, <2>3 DEF TypeOK, StartSync, CopySynced
  <2> QED
    BY <2>2, <2>3
<1>5. CASE FinishSync(t)
  BY <1>5 DEF TypeOK, FinishSync, CopySynced
<1>6. CASE WaitForAllSynced(t) \/ Wake(t)
  BY <1>6 DEF TypeOK, WaitForAllSynced, Wake, CopySynced
<1>7. CASE SkipSuperseded(t) \/ PrepareCommit(t) \/ FinishCommit(t)
           \/ Revert(t) \/ Recount(t)
  BY <1>7, CopyOutside
  DEF TypeOK, SkipSuperseded, PrepareCommit, FinishCommit, Revert, Recount,
      AfterStart
<1>8. CASE Return(t)
  BY <1>8, CopyOutside DEF TypeOK, Return
<1> QED
  BY <1>1, <1>2, <1>3, <1>4, <1>5, <1>6, <1>7, <1>8 DEF Step

\* A step keeps what is prepared and committed synced: a commit is prepared
\* only by a thread that has passed waitForAllSynced.
LEMMA CommitsOfStep ==
    ASSUME TypeOK, NEW t \in Thread, CopySynced(t), CommitsSynced,
           Call(t) \/ Step(t) \/ Wake(t)
    PROVE  CommitsSynced'
<1> USE DEF CommitsSynced, commitVars, syncVars
<1>1. CASE Call(t)
  BY <1>1 DEF Call, CallPrepareCommit, CallCommit, CallClose, CallRollback,
              Begin
<1>2. CASE CommitPrepared(t) \/ TakeCommitLock(t)
           \/ CheckPending(t) \/ FlushAll(t) \/ StartCommit(t)
  BY <1>2 DEF CommitPrepared, TakeCommitLock, CheckPending,
              FlushAll, StartCommit
<1>3. CASE \E f \in todo[t] : StartSync(t, f)
  BY <1>3 DEF StartSync
<1>4. CASE FinishSync(t) \/ WaitForAllSynced(t) \/ Wake(t) \/ SkipSuperseded(t)
           \/ Recount(t) \/ Return(t)
  BY <1>4 DEF FinishSync, WaitForAllSynced, Wake, SkipSuperseded, Recount,
              Return
<1>5. CASE PrepareCommit(t)
  <2>1. toSync[t] \in Infos /\ NextGeneration(t) \in Nat
    BY NextGenerationAbove DEF TypeOK
  <2>2. toSync[t].files \subseteq synced
    BY <1>5 DEF PrepareCommit, CopySynced
  <2>3. [toSync[t] EXCEPT !.generation = NextGeneration(t)].files
          = toSync[t].files
    BY <2>1, InfosType
  <2>4. /\ synced' = synced /\ committed' = committed
        /\ \/ pendingCommit' = [toSync[t] EXCEPT !.generation = NextGeneration(t)]
           \/ pendingCommit' = pendingCommit
    BY <1>5 DEF PrepareCommit
  <2> QED
    BY <2>2, <2>3, <2>4
<1>6. CASE FinishCommit(t) \/ Revert(t)
  BY <1>6 DEF FinishCommit, Revert, NoInfos
<1> QED
  BY <1>1, <1>2, <1>3, <1>4, <1>5, <1>6 DEF Step

\* Every commit, prepared or finished, names only files that some thread
\* has synced, although a thread leaves the files another one is syncing to
\* that one and syncs may fail (startSync, finishSync, waitForAllSynced).
THEOREM CommitsAreSynced == Spec => []CommitsSynced
<1>1. Init => SyncInv
  BY DEF Init, SyncInv, CommitsSynced, CopySynced, NoInfos
<1>2. TypeOK /\ SyncInv /\ [Next]_vars => SyncInv'
  <2> SUFFICES ASSUME TypeOK, SyncInv, [Next]_vars PROVE SyncInv'
    OBVIOUS
  <2>1. CASE AddDocument
    BY <2>1 DEF AddDocument, SyncInv, CommitsSynced, CopySynced, commitVars,
                syncVars, threadVars
  <2>2. CASE Flush
    BY <2>2 DEF Flush, SyncInv, CommitsSynced, CopySynced, commitVars,
                syncVars, threadVars
  <2>3. ASSUME NEW t \in Thread, Call(t) \/ Step(t) \/ Wake(t)
        PROVE  SyncInv'
    <3>1. CommitsSynced'
      BY <2>3, CommitsOfStep DEF SyncInv
    <3>2. ASSUME NEW u \in Thread PROVE CopySynced(u)'
      <4>1. CASE u = t
        BY <4>1, <2>3, CopyOfStep DEF SyncInv
      <4>2. CASE u # t
        BY <4>2, <2>3, StepIsLocal, CopyKept DEF SyncInv
      <4> QED
        BY <4>1, <4>2
    <3> QED
      BY <3>1, <3>2 DEF SyncInv
  <2>4. CASE UNCHANGED vars
    BY <2>4 DEF vars, SyncInv, CommitsSynced, CopySynced, commitVars,
                syncVars, threadVars
  <2> QED
    BY <2>1, <2>2, <2>3, <2>4 DEF Next
<1>3. SyncInv => CommitsSynced
  BY DEF SyncInv
<1> QED
  BY <1>1, <1>2, <1>3, Typed, PTL DEF Spec

-----------------------------------------------------------------------------
(***************************************************************************)
(* segments_N is written once: GenInv.                                     *)
(***************************************************************************)
\* Only PrepareCommit, FinishCommit and Revert touch what GenInv is about.
LEMMA GenerationSteps ==
    ASSUME Next
    PROVE  \/ UNCHANGED <<generation, pendingCommit, written>>
           \/ \E t \in Thread :
                 PrepareCommit(t) \/ FinishCommit(t) \/ Revert(t)
<1> USE DEF indexVars, commitVars
<1>1. CASE AddDocument \/ Flush
  BY <1>1 DEF AddDocument, Flush, Flushed
<1>2. ASSUME NEW t \in Thread, Call(t)
      PROVE  UNCHANGED <<generation, pendingCommit, written>>
  BY <1>2 DEF Call, CallPrepareCommit, CallCommit, CallClose, CallRollback,
              Begin
<1>3. ASSUME NEW t \in Thread, Step(t) \/ Wake(t),
             ~PrepareCommit(t), ~FinishCommit(t), ~Revert(t)
      PROVE  UNCHANGED <<generation, pendingCommit, written>>
  <2>1. CASE CommitPrepared(t) \/ TakeCommitLock(t)
             \/ CheckPending(t) \/ FlushAll(t) \/ StartCommit(t)
    BY <2>1 DEF CommitPrepared, TakeCommitLock,
                CheckPending, FlushAll, Flushed, StartCommit
  <2>2. CASE \E f \in todo[t] : StartSync(t, f)
    BY <2>2 DEF StartSync
  <2>3. CASE FinishSync(t) \/ WaitForAllSynced(t) \/ Wake(t)
             \/ SkipSuperseded(t) \/ Recount(t) \/ Return(t)
    BY <2>3 DEF FinishSync, WaitForAllSynced, Wake, SkipSuperseded, Recount,
                Return
  <2> QED
    BY <1>3, <2>1, <2>2, <2>3 DEF Step
<1> QED
  BY <1>1, <1>2, <1>3 DEF Next

\* A step that prepares a commit writes a segments_N that is not there yet,
\* and keeps GenInv.
LEMMA GenerationStep ==
    ASSUME TypeOK, GenInv, [Next]_vars
    PROVE  /\ GenInv'
           /\ pendingCommit' # pendingCommit /\ pendingCommit' # NoInfos
                => pendingCommit'.generation \notin written
<1>1. ASSUME UNCHANGED <<generation, pendingCommit, written>>
      PROVE  GenInv'
  BY <1>1 DEF GenInv
<1>2. ASSUME NEW t \in Thread, PrepareCommit(t)
      PROVE  /\ GenInv'
             /\ pendingCommit' # pendingCommit
                  => pendingCommit'.generation \notin written
  <2>1. /\ NextGeneration(t) \in Nat /\ generation \in Nat
        /\ NextGeneration(t) > generation /\ written \subseteq Nat
    BY NextGenerationAbove DEF TypeOK
  <2>2. \A n \in written : n < NextGeneration(t)
    BY <2>1 DEF GenInv
  <2>3. [toSync[t] EXCEPT !.generation = NextGeneration(t)].generation
          = NextGeneration(t)
    BY <2>1, InfosType DEF TypeOK
  <2>4. pendingCommit = NoInfos /\ generation' = NextGeneration(t)
    BY <1>2 DEF PrepareCommit
  <2>5. CASE /\ pendingCommit' = [toSync[t] EXCEPT
                                     !.generation = NextGeneration(t)]
             /\ written' = written \cup {NextGeneration(t)}
    <3>1. pendingCommit'.generation = generation'
      BY <2>3, <2>4, <2>5
    <3>2. \A n \in written' : n <= generation'
      BY <2>1, <2>2, <2>4, <2>5
    <3> QED
      BY <2>1, <2>2, <2>4, <3>1, <3>2 DEF GenInv
  <2>6. CASE UNCHANGED <<pendingCommit, written>>
    BY <2>1, <2>2, <2>4, <2>6 DEF GenInv
  <2> QED
    BY <1>2, <2>5, <2>6 DEF PrepareCommit
<1>3. ASSUME NEW t \in Thread, FinishCommit(t)
      PROVE  GenInv' /\ pendingCommit' \in {pendingCommit, NoInfos}
  BY <1>3 DEF FinishCommit, GenInv, commitVars
<1>4. ASSUME NEW t \in Thread, Revert(t)
      PROVE  GenInv' /\ pendingCommit' = NoInfos
  BY <1>4 DEF Revert, GenInv
<1>5. CASE UNCHANGED vars
  BY <1>1, <1>5 DEF vars, indexVars, commitVars
<1>6. CASE Next
  BY <1>1, <1>2, <1>3, <1>4, <1>6, GenerationSteps
<1> QED
  BY <1>5, <1>6

\* No segments_N is written twice by a writer, although each thread writes
\* with the generation of its own copy, and a commit may fail or be rolled
\* back after segments_N was written (SegmentInfos::updateGeneration).
THEOREM SegmentsFilesOnce == Spec => SegmentsFileOnce
<1>1. Init => GenInv
  BY DEF Init, GenInv
<1>2. TypeOK /\ GenInv /\ [Next]_vars => GenInv'
  BY GenerationStep
<1>3. TypeOK /\ GenInv /\ [Next]_vars
        => [pendingCommit' # pendingCommit /\ pendingCommit' # NoInfos
              => pendingCommit'.generation \notin written]_vars
  BY GenerationStep
<1> QED
  BY <1>1, <1>2, <1>3, Typed, PTL DEF Spec, SegmentsFileOnce

-----------------------------------------------------------------------------
(***************************************************************************)
(* Commits cover and never go back, and a closed writer is at rest.  All   *)
(* three hold of threads that prepare, commit and close; with a rollback   *)
(* among them they do not (README).  CalmInv is inductive.                 *)
(***************************************************************************)
Inside == {"sync", "wait", "syncing", "turn"}

\* The SegmentInfos there are: the copies of the threads, the commit that is
\* prepared, the last one, and the segments as they are.
Seen(i) == [files |-> i.files, change |-> i.change]
Last    == [files |-> committed, change |-> lastCommitChangeCount]
Current == [files |-> live, change |-> changeCount]
Copies  == {Seen(toSync[t]) : t \in Thread}
              \cup {Seen(pendingCommit), Last, Current, Seen(NoInfos)}

\* The change counts order them by what they hold; a commit is prepared only
\* when it is newer than the last.
Ordered == /\ \A a, b \in Copies : a.change <= b.change => a.files \subseteq b.files
           /\ \A a \in Copies : a.change <= changeCount
           /\ pendingCommit # NoInfos =>
                 pendingCommit.change > lastCommitChangeCount

\* Where a thread is in which call, and when it holds commitLock.
CallInv(t) ==
    /\ op[t] # "rollback" /\ pc[t] \notin {"revert", "recount"}
    /\ op[t] = "none" => pc[t] = "idle"
    /\ pc[t] = "prepared" => op[t] = "prepare"
    /\ pc[t] \in {"lock", "finish"} => op[t] \in {"commit", "close"}
    /\ pc[t] = "check" => op[t] \in {"prepare", "commit"}
    /\ op[t] = "commit" /\ pc[t] \in Inside \cup {"check", "flush", "start",
                                                  "finish", "return"}
          => commitLock = t
    /\ op[t] = "close" /\ pc[t] \in Inside \cup {"start", "finish", "return"}
          => commitLock = t

\* The thread that closes is alone in that.  Once it has flushed nothing
\* changes any more, and its commit covers everything.
CloseInv(t) ==
    op[t] = "close" =>
       /\ closing /\ ~closed
       /\ \A u \in Thread : op[u] = "close" => u = t
       /\ pc[t] \in Inside \cup {"lock", "start", "finish", "return"} =>
             buffered = None
       /\ pc[t] \in Inside => toSync[t].change = changeCount
       /\ pc[t] = "finish" => \/ pendingCommit.change = changeCount
                              \/ lastCommitChangeCount = changeCount
       /\ pc[t] = "return" => lastCommitChangeCount = changeCount

\* When the writer is closed nothing is left to commit.
ClosedInv == closed => /\ lastCommitChangeCount = changeCount
                       /\ pendingCommit = NoInfos

\* What a call of commit or close has to cover goes from the buffer to the
\* segments, to the thread's copy, to the commit that is prepared, and to
\* the last commit.
CoverInv(t) ==
    op[t] \in {"commit", "close"} =>
       /\ pc[t] \in {"check", "flush"} => before[t] \subseteq Added
       /\ pc[t] = "start" => before[t] \subseteq live
       /\ pc[t] \in Inside => before[t] \subseteq toSync[t].files
       /\ pc[t] = "finish" => \/ before[t] \subseteq committed
                              \/ before[t] \subseteq pendingCommit.files
       /\ pc[t] = "return" => before[t] \subseteq committed

CalmInv == /\ Ordered /\ ClosedInv
           /\ \A t \in Thread : CallInv(t) /\ CloseInv(t) /\ CoverInv(t)

\* Nobody calls rollback.
Calm == "rollback" \notin Calls

\* What a commit is about does not change.
SameIndex == UNCHANGED <<live, buffered, changeCount, lastCommitChangeCount,
                         pendingCommit, committed>>

-----------------------------------------------------------------------------
(***************************************************************************)
(* The order of the copies.                                                *)
(***************************************************************************)
LEMMA CopiesKinds ==
    ASSUME TypeOK
    PROVE  /\ \A a \in Copies : a.change \in Nat
           /\ Seen(NoInfos) = [files |-> {}, change |-> 0]
           /\ changeCount \in Nat /\ lastCommitChangeCount \in Nat
           /\ pendingCommit.change \in Nat
           /\ \A t \in Thread : toSync[t].change \in Nat
<1>1. /\ pendingCommit.change \in Nat /\ NoInfos.change = 0 /\ NoInfos.files = {}
      /\ \A t \in Thread : toSync[t].change \in Nat
  BY DEF TypeOK, Infos, NoInfos
<1>2. changeCount \in Nat /\ lastCommitChangeCount \in Nat
  BY DEF TypeOK
<1> QED
  BY <1>1, <1>2 DEF Copies, Seen, Last, Current

\* What Ordered says of the members a proof needs.
LEMMA OrderedUse ==
    ASSUME Ordered
    PROVE  /\ \A t \in Thread :
                 /\ toSync[t].change <= changeCount
                 /\ toSync[t].change <= lastCommitChangeCount =>
                       toSync[t].files \subseteq committed
           /\ pendingCommit.change <= changeCount
           /\ lastCommitChangeCount <= changeCount
           /\ changeCount <= lastCommitChangeCount => live \subseteq committed
           /\ lastCommitChangeCount <= pendingCommit.change =>
                 committed \subseteq pendingCommit.files
           /\ pendingCommit # NoInfos =>
                 pendingCommit.change > lastCommitChangeCount
<1>1. /\ \A t \in Thread : Seen(toSync[t]) \in Copies
      /\ Seen(pendingCommit) \in Copies /\ Last \in Copies /\ Current \in Copies
  BY DEF Copies
<1>2. /\ \A i : Seen(i).files = i.files /\ Seen(i).change = i.change
      /\ Last.files = committed /\ Last.change = lastCommitChangeCount
      /\ Current.files = live /\ Current.change = changeCount
  BY DEF Seen, Last, Current
<1>3. ASSUME NEW t \in Thread
      PROVE  /\ toSync[t].change <= changeCount
             /\ toSync[t].change <= lastCommitChangeCount =>
                   toSync[t].files \subseteq committed
  <2>1. Seen(toSync[t]) \in Copies
    BY <1>1
  <2> QED
    BY <1>1, <1>2, <2>1 DEF Ordered
<1>4. /\ pendingCommit.change <= changeCount
      /\ lastCommitChangeCount <= changeCount
  BY <1>1, <1>2 DEF Ordered
<1>5. changeCount <= lastCommitChangeCount => live \subseteq committed
  BY <1>1, <1>2 DEF Ordered
<1>6. lastCommitChangeCount <= pendingCommit.change =>
         committed \subseteq pendingCommit.files
  BY <1>1, <1>2 DEF Ordered
<1> QED
  BY <1>3, <1>4, <1>5, <1>6 DEF Ordered

\* No copy is new.
LEMMA OrderedKept ==
    ASSUME Ordered, Copies' \subseteq Copies, changeCount' = changeCount,
           pendingCommit' # NoInfos =>
              pendingCommit'.change > lastCommitChangeCount'
    PROVE  Ordered'
BY DEF Ordered

\* The segments are changed, and the change counted.
LEMMA OrderedGrows ==
    ASSUME TypeOK, Ordered, live \subseteq live',
           \/ live' = live /\ changeCount' = changeCount
           \/ changeCount' = changeCount + 1,
           UNCHANGED <<toSync, pendingCommit, committed, lastCommitChangeCount>>
    PROVE  Ordered'
<1>1. \A c \in Copies' : c = Current' \/ c \in Copies
  BY DEF Copies, Last, Seen
<1>2. Current' = [files |-> live', change |-> changeCount']
  BY DEF Current
<1>3. CASE live' = live /\ changeCount' = changeCount
  <2>1. Current' = Current /\ Current \in Copies
    BY <1>3 DEF Current, Copies
  <2> QED
    BY <1>1, <1>3, <2>1 DEF Ordered
<1>4. CASE changeCount' = changeCount + 1
  <2>1. \A c \in Copies : c.change \in Nat /\ c.change <= changeCount
                          /\ c.files \subseteq live
    <3>1. Current \in Copies /\ changeCount \in Nat
      BY CopiesKinds DEF Copies
    <3>2. \A c \in Copies : c.change \in Nat /\ c.change <= changeCount
      BY CopiesKinds DEF Ordered
    <3> QED
      BY <3>1, <3>2 DEF Ordered, Current
  <2>2. Current'.change = changeCount + 1 /\ Current'.files = live'
    BY <1>2, <1>4
  <2>3. ASSUME NEW a \in Copies', NEW b \in Copies', a.change <= b.change
        PROVE  a.files \subseteq b.files
    <3>1. CASE a \in Copies /\ b \in Copies
      BY <2>3, <3>1 DEF Ordered
    <3>2. CASE a \in Copies /\ b = Current'
      BY <2>1, <2>2, <3>2
    <3>3. CASE a = Current' /\ b \in Copies
      BY <2>1, <2>2, <2>3, <3>3, CopiesKinds
    <3>4. CASE a = Current' /\ b = Current'
      BY <3>4
    <3> QED
      BY <1>1, <3>1, <3>2, <3>3, <3>4
  <2>4. ASSUME NEW a \in Copies' PROVE a.change <= changeCount'
    BY <1>1, <1>4, <2>1, <2>2, CopiesKinds
  <2> QED
    BY <2>3, <2>4 DEF Ordered
<1> QED
  BY <1>3, <1>4

\* Steps that leave the index alone and take no new copy keep the order.
LEMMA OrderedSame ==
    ASSUME Ordered, SameIndex,
           \A t \in Thread : Seen(toSync[t])' \in Copies
    PROVE  Ordered'
<1>1. Copies' \subseteq Copies
  BY DEF SameIndex, Copies, Last, Current, Seen
<1> QED
  BY <1>1, OrderedKept DEF SameIndex, Ordered

-----------------------------------------------------------------------------
(***************************************************************************)
(* The steps of the calls.                                                 *)
(***************************************************************************)
\* A step of thread t leaves the calls of the other threads alone.
LEMMA OtherCalls ==
    ASSUME TypeOK, NEW t \in Thread, Call(t) \/ Step(t) \/ Wake(t),
           NEW u \in Thread, u # t
    PROVE  /\ pc'[u] = pc[u] /\ op'[u] = op[u] /\ before'[u] = before[u]
           /\ toSync'[u] = toSync[u]
<1>1. pc'[u] = pc[u] /\ toSync'[u] = toSync[u]
  BY StepIsLocal
<1> USE DEF TypeOK
<1>2. CASE Call(t)
  BY <1>1, <1>2 DEF Call, CallPrepareCommit, CallCommit, CallClose, CallRollback,
                    Begin
<1>3. CASE CommitPrepared(t) \/ TakeCommitLock(t) \/ CheckPending(t)
           \/ FlushAll(t) \/ StartCommit(t)
  BY <1>1, <1>3 DEF CommitPrepared, TakeCommitLock, CheckPending, FlushAll,
                    StartCommit
<1>4. CASE \E f \in todo[t] : StartSync(t, f)
  BY <1>1, <1>4 DEF StartSync
<1>5. CASE FinishSync(t) \/ WaitForAllSynced(t) \/ Wake(t) \/ SkipSuperseded(t)
  BY <1>1, <1>5 DEF FinishSync, WaitForAllSynced, Wake, SkipSuperseded
<1>6. CASE PrepareCommit(t) \/ FinishCommit(t) \/ Revert(t) \/ Recount(t)
           \/ Return(t)
  BY <1>1, <1>6 DEF PrepareCommit, FinishCommit, Revert, Recount, Return
<1> QED
  BY <1>2, <1>3, <1>4, <1>5, <1>6 DEF Step

\* The steps that change nothing of the index.
QuietStep(t) ==
    \/ CallPrepareCommit(t) \/ CallCommit(t) \/ CommitPrepared(t)
    \/ TakeCommitLock(t) \/ CheckPending(t) \/ StartCommit(t)
    \/ \E f \in todo[t] : StartSync(t, f)
    \/ FinishSync(t) \/ WaitForAllSynced(t) \/ Wake(t) \/ SkipSuperseded(t)

LEMMA QuietFrame ==
    ASSUME TypeOK, NEW t \in Thread, QuietStep(t)
    PROVE  /\ SameIndex /\ UNCHANGED <<closing, closed>>
           /\ commitLock' = commitLock \/ commitLock = None
           /\ op'[t] = "close" => op[t] = "close"
           /\ op'[t] # "rollback" \/ op[t] = "rollback"
           /\ Added' = Added
<1> USE DEF SameIndex, indexVars, commitVars, syncVars, closeVars, docVars, TypeOK
<1>1. /\ SameIndex /\ UNCHANGED <<closing, closed>>
      /\ commitLock' = commitLock \/ commitLock = None
      /\ op'[t] = "close" => op[t] = "close"
      /\ op'[t] # "rollback" \/ op[t] = "rollback"
  <2>1. CASE CallPrepareCommit(t) \/ CallCommit(t)
    BY <2>1 DEF CallPrepareCommit, CallCommit, Begin
  <2>2. CASE CommitPrepared(t) \/ TakeCommitLock(t) \/ CheckPending(t)
    BY <2>2 DEF CommitPrepared, TakeCommitLock, CheckPending
  <2>3. CASE StartCommit(t)
    BY <2>3 DEF StartCommit
  <2>4. CASE \E f \in todo[t] : StartSync(t, f)
    BY <2>4 DEF StartSync
  <2>5. CASE FinishSync(t) \/ WaitForAllSynced(t) \/ Wake(t) \/ SkipSuperseded(t)
    BY <2>5 DEF FinishSync, WaitForAllSynced, Wake, SkipSuperseded
  <2> QED
    BY <2>1, <2>2, <2>3, <2>4, <2>5 DEF QuietStep
<1> QED
  BY <1>1 DEF Added

\* A quiet step of t keeps what the invariant says of the others.
LEMMA QuietOthers ==
    ASSUME TypeOK, NEW t \in Thread, QuietStep(t), NEW u \in Thread, u # t,
           CallInv(u), CloseInv(u), CoverInv(u)
    PROVE  CallInv(u)' /\ CloseInv(u)' /\ CoverInv(u)'
<1>1. /\ pc'[u] = pc[u] /\ op'[u] = op[u] /\ before'[u] = before[u]
      /\ toSync'[u] = toSync[u]
  BY OtherCalls DEF QuietStep, Call, Step
<1>2. /\ SameIndex /\ UNCHANGED <<closing, closed>>
      /\ commitLock' = commitLock \/ commitLock = None
      /\ op'[t] = "close" => op[t] = "close" /\ Added' = Added
  BY QuietFrame
<1>3. u # None
  BY ThreadsAssumption DEF None
<1>4. \A w \in Thread : op'[w] = "close" => op[w] = "close"
  <2>1. \A w \in Thread : w # t => op'[w] = op[w]
    BY OtherCalls DEF QuietStep, Call, Step
  <2> QED
    BY <1>2, <2>1
<1>5. CallInv(u)'
  BY <1>1, <1>2, <1>3 DEF CallInv
<1>6. CloseInv(u)'
  BY <1>1, <1>2, <1>4 DEF CloseInv, SameIndex
<1>7. CoverInv(u)'
  BY <1>1, <1>2, QuietFrame DEF CoverInv, SameIndex
<1> QED
  BY <1>5, <1>6, <1>7

\* A quiet step keeps the order of the copies.
LEMMA QuietOrder ==
    ASSUME TypeOK, NEW t \in Thread, QuietStep(t), Ordered
    PROVE  Ordered'
<1>1. SameIndex
  BY QuietFrame
<1>2. \A u \in Thread : u # t => Seen(toSync[u])' \in Copies
  <2>1. \A u \in Thread : u # t => toSync'[u] = toSync[u]
    BY OtherCalls DEF QuietStep, Call, Step
  <2> QED
    BY <2>1 DEF Copies, Seen
<1>3. Seen(toSync[t])' \in Copies
  <2>1. CASE toSync' = toSync
    BY <2>1 DEF Copies, Seen
  <2>2. CASE StartCommit(t) /\ toSync' # toSync
    <3>1. toSync'[t] = [files |-> live, generation |-> generation,
                        change |-> changeCount]
      BY <2>2 DEF StartCommit, TypeOK
    <3> QED
      BY <3>1 DEF Copies, Seen, Current
  <2> QED
    BY <2>1, <2>2 DEF QuietStep, CallPrepareCommit, CallCommit, Begin,
       CommitPrepared, TakeCommitLock, CheckPending, StartSync, FinishSync,
       WaitForAllSynced, Wake, SkipSuperseded
<1> QED
  BY <1>1, <1>2, <1>3, OrderedSame

\* The end of the wait for "synced", and the waits before it, change neither
\* the call nor what it covers.
LEMMA QuietOwn ==
    ASSUME TypeOK, Calm, NEW t \in Thread, QuietStep(t), Ordered,
           CallInv(t), CloseInv(t), CoverInv(t)
    PROVE  CallInv(t)' /\ CloseInv(t)' /\ CoverInv(t)'
<1> USE DEF TypeOK, GoTo
<1>1. /\ SameIndex /\ UNCHANGED <<closing, closed>> /\ Added' = Added
      /\ UNCHANGED <<live, buffered, changeCount, lastCommitChangeCount,
                     pendingCommit, committed>>
  BY QuietFrame DEF SameIndex
<1>2. ASSUME op'[t] = "close" PROVE \A w \in Thread : op'[w] = "close" => w = t
  <2>1. op[t] = "close"
    BY <1>2, QuietFrame
  <2>2. \A w \in Thread : w # t => op'[w] = op[w]
    BY OtherCalls DEF QuietStep, Call, Step
  <2> QED
    BY <2>1, <2>2 DEF CloseInv
<1>3. CASE CallPrepareCommit(t) \/ CallCommit(t)
  <2>1. /\ op'[t] \in {"prepare", "commit"}
        /\ pc'[t] = IF op'[t] = "prepare" THEN "check" ELSE "lock"
    BY <1>3 DEF CallPrepareCommit, CallCommit, Begin
  <2> QED
    BY <2>1 DEF CallInv, CloseInv, CoverInv, Inside
<1>4. CASE CommitPrepared(t)
  <2>1. \/ pc'[t] = "lock" /\ op'[t] = "commit"
        \/ pc'[t] = "idle" /\ op'[t] = "none"
    BY <1>4 DEF CommitPrepared
  <2> QED
    BY <2>1 DEF CallInv, CloseInv, CoverInv, Inside
<1>5. CASE TakeCommitLock(t)
  <2>1. /\ op'[t] = op[t] /\ commitLock' = t /\ pc[t] = "lock"
        /\ pc'[t] = IF op[t] # "commit" THEN "start"
                    ELSE IF pendingCommit = NoInfos THEN "check" ELSE "finish"
        /\ before'[t] = IF pendingCommit = NoInfos THEN Added ELSE {}
    BY <1>5 DEF TakeCommitLock
  <2>2. op[t] \in {"commit", "close"}
    BY <2>1 DEF CallInv
  <2>3. op[t] = "close" => buffered = None /\ Added = live
    BY <2>1 DEF CloseInv, Added
  <2>4. CallInv(t)'
    BY <2>1, <2>2 DEF CallInv, Inside
  <2>5. CloseInv(t)'
    BY <1>1, <1>2, <2>1, <2>2, <2>3 DEF CloseInv, Inside
  <2>6. CoverInv(t)'
    BY <1>1, <2>1, <2>2, <2>3 DEF CoverInv, Inside
  <2> QED
    BY <2>4, <2>5, <2>6
<1>6. CASE CheckPending(t)
  <2>1. /\ op'[t] = op[t] /\ commitLock' = commitLock /\ pc[t] = "check"
        /\ pc'[t] \in {"flush", "throw"} /\ before'[t] = before[t]
    BY <1>6 DEF CheckPending
  <2>2. op[t] # "close" /\ op'[t] # "close"
    BY <2>1 DEF CallInv
  <2> QED
    BY <1>1, <2>1, <2>2 DEF CallInv, CloseInv, CoverInv, Inside
<1>7. CASE StartCommit(t)
  <2>1. /\ op'[t] = op[t] /\ commitLock' = commitLock /\ pc[t] = "start"
        /\ before'[t] = before[t]
    BY <1>7 DEF StartCommit
  <2>2. CASE closed
    <3>1. pc'[t] = "throw"
      BY <1>7, <2>2 DEF StartCommit
    <3>2. op[t] # "close"
      BY <2>2 DEF CloseInv
    <3> QED
      BY <2>1, <3>1, <3>2 DEF CallInv, CloseInv, CoverInv, Inside
  <2>3. CASE ~closed /\ changeCount = lastCommitChangeCount
    <3>1. pc'[t] = IF op[t] = "prepare" THEN "return" ELSE "finish"
      BY <1>7, <2>3 DEF StartCommit, AfterStart
    <3>2. live \subseteq committed
      BY <2>3, OrderedUse, CopiesKinds
    <3>3. op[t] \in {"prepare", "commit", "close"}
      BY <2>1 DEF CallInv
    <3>4. CallInv(t)'
      BY <2>1, <3>1, <3>3 DEF CallInv, Inside
    <3>5. CloseInv(t)'
      BY <1>1, <1>2, <2>1, <2>3, <3>1 DEF CloseInv, Inside
    <3>6. CoverInv(t)'
      BY <1>1, <2>1, <3>1, <3>2, <3>3 DEF CoverInv, Inside
    <3> QED
      BY <3>4, <3>5, <3>6
  <2>4. CASE ~closed /\ changeCount # lastCommitChangeCount
    <3>1. /\ pc'[t] = "sync"
          /\ toSync'[t] = [files |-> live, generation |-> generation,
                           change |-> changeCount]
      BY <1>7, <2>4 DEF StartCommit
    <3>2. toSync'[t].files = live /\ toSync'[t].change = changeCount
      BY <3>1
    <3>3. CallInv(t)'
      BY <2>1, <3>1 DEF CallInv, Inside
    <3>4. CloseInv(t)'
      BY <1>1, <1>2, <2>1, <3>1, <3>2 DEF CloseInv, Inside
    <3>5. CoverInv(t)'
      BY <1>1, <2>1, <3>1, <3>2 DEF CoverInv, Inside
    <3> QED
      BY <3>3, <3>4, <3>5
  <2> QED
    BY <2>2, <2>3, <2>4
<1>8. CASE (\E f \in todo[t] : StartSync(t, f)) \/ FinishSync(t)
           \/ WaitForAllSynced(t) \/ Wake(t)
  <2>1. /\ op'[t] = op[t] /\ commitLock' = commitLock /\ pc[t] \in Inside
        /\ pc'[t] \in Inside \cup {"throw"} /\ before'[t] = before[t]
        /\ toSync'[t] = toSync[t]
    <3>1. CASE \E f \in todo[t] : StartSync(t, f)
      BY <3>1 DEF StartSync, Inside
    <3>2. CASE FinishSync(t) \/ WaitForAllSynced(t) \/ Wake(t)
      BY <3>2 DEF FinishSync, WaitForAllSynced, Wake, Inside
    <3> QED
      BY <1>8, <3>1, <3>2
  <2>2. CallInv(t)'
    BY <2>1 DEF CallInv, Inside
  <2>3. CloseInv(t)'
    BY <1>1, <1>2, <2>1 DEF CloseInv, Inside
  <2>4. CoverInv(t)'
    BY <1>1, <2>1 DEF CoverInv, Inside
  <2> QED
    BY <2>2, <2>3, <2>4
<1>9. CASE SkipSuperseded(t)
  <2>1. /\ op'[t] = op[t] /\ commitLock' = commitLock /\ pc[t] = "turn"
        /\ before'[t] = before[t]
        /\ pc'[t] = IF op[t] = "prepare" THEN "return" ELSE "finish"
        /\ toSync[t].change <= lastCommitChangeCount
    BY <1>9 DEF SkipSuperseded, AfterStart, Superseded
  <2>2. op[t] \in {"prepare", "commit", "close"}
    BY <2>1 DEF CallInv
  <2>3. toSync[t].files \subseteq committed
    BY <2>1, OrderedUse
  <2>4. op[t] = "close" => lastCommitChangeCount = changeCount
    <3>1. lastCommitChangeCount <= changeCount
      BY OrderedUse
    <3>2. op[t] = "close" => toSync[t].change = changeCount
      BY <2>1 DEF CloseInv, Inside
    <3> QED
      BY <2>1, <3>1, <3>2, CopiesKinds
  <2>5. CallInv(t)'
    BY <2>1, <2>2 DEF CallInv, Inside
  <2>6. CloseInv(t)'
    BY <1>1, <1>2, <2>1, <2>4 DEF CloseInv, Inside
  <2>7. CoverInv(t)'
    BY <1>1, <2>1, <2>2, <2>3 DEF CoverInv, Inside
  <2> QED
    BY <2>5, <2>6, <2>7
<1> QED
  BY <1>3, <1>4, <1>5, <1>6, <1>7, <1>8, <1>9 DEF QuietStep

\* A quiet step keeps the invariant.
LEMMA QuietKeeps ==
    ASSUME TypeOK, Calm, NEW t \in Thread, QuietStep(t), CalmInv
    PROVE  CalmInv'
<1>1. Ordered'
  BY QuietOrder DEF CalmInv
<1>2. ClosedInv'
  BY QuietFrame DEF CalmInv, ClosedInv, SameIndex
<1>3. ASSUME NEW u \in Thread
      PROVE  CallInv(u)' /\ CloseInv(u)' /\ CoverInv(u)'
  <2>1. CASE u = t
    BY <2>1, QuietOwn DEF CalmInv
  <2>2. CASE u # t
    BY <2>2, QuietOthers DEF CalmInv
  <2> QED
    BY <2>1, <2>2
<1> QED
  BY <1>1, <1>2, <1>3 DEF CalmInv

\* Buffering a document keeps it: nobody is closing.
LEMMA AddDocumentKeeps ==
    ASSUME TypeOK, CalmInv, AddDocument
    PROVE  CalmInv'
<1>1. /\ ~closed /\ ~closing /\ buffered = None /\ live' = live
      /\ changeCount' = changeCount + 1
      /\ UNCHANGED <<pc, op, toSync, before, commitLock, closing, closed,
                     pendingCommit, committed, lastCommitChangeCount>>
  BY DEF AddDocument, IsOpen, commitVars, closeVars, threadVars
<1>2. Added \subseteq Added' /\ live \subseteq live'
  BY <1>1 DEF Added
<1>3. Ordered'
  BY <1>1, <1>2, OrderedGrows DEF CalmInv
<1>4. ClosedInv'
  BY <1>1 DEF ClosedInv
<1>5. ASSUME NEW u \in Thread
      PROVE  CallInv(u)' /\ CloseInv(u)' /\ CoverInv(u)'
  <2>1. CallInv(u) /\ CloseInv(u) /\ CoverInv(u)
    BY DEF CalmInv
  <2>2. CallInv(u)'
    BY <1>1, <2>1 DEF CallInv
  <2>3. CloseInv(u)'
    BY <1>1, <2>1 DEF CloseInv
  <2>4. CoverInv(u)'
    BY <1>1, <1>2, <2>1 DEF CoverInv
  <2> QED
    BY <2>2, <2>3, <2>4
<1> QED
  BY <1>3, <1>4, <1>5 DEF CalmInv

\* A flush moves the buffered documents to the segments, and counts that.
LEMMA FlushedFrame ==
    ASSUME TypeOK, Ordered, Flushed,
           UNCHANGED <<toSync, pendingCommit, committed, lastCommitChangeCount>>
    PROVE  /\ Ordered' /\ Added' = Added /\ live \subseteq live'
           /\ live' = Added /\ buffered' = None
           /\ buffered = None => live' = live /\ changeCount' = changeCount
<1>1. live' = Added /\ buffered' = None
  BY DEF Flushed
<1>2. Added' = Added
  BY <1>1 DEF Added
<1>3. live \subseteq live'
  BY <1>1 DEF Added
<1>4. /\ buffered = None => live' = live /\ changeCount' = changeCount
      /\ buffered # None => changeCount' = changeCount + 1
  BY <1>1 DEF Flushed, Added, TypeOK
<1>5. Ordered'
  BY <1>3, <1>4, OrderedGrows
<1> QED
  BY <1>1, <1>2, <1>3, <1>4, <1>5

\* A flush takes nothing from what another thread has to cover, nor from
\* what the thread that closes has done.
LEMMA FlushedOthers ==
    ASSUME TypeOK, CalmInv, Flushed, ~closed, NEW u \in Thread,
           UNCHANGED <<toSync, pendingCommit, committed, lastCommitChangeCount,
                       op, before, commitLock, closing, closed>>,
           pc'[u] = pc[u]
    PROVE  CallInv(u)' /\ CloseInv(u)' /\ CoverInv(u)'
<1>1. CallInv(u) /\ CloseInv(u) /\ CoverInv(u)
  BY DEF CalmInv
<1>2. /\ Added' = Added /\ live \subseteq live' /\ buffered' = None
      /\ buffered = None => changeCount' = changeCount
  BY FlushedFrame DEF CalmInv
<1>3. CallInv(u)'
  BY <1>1 DEF CallInv
<1>4. CloseInv(u)'
  BY <1>1, <1>2 DEF CloseInv
<1>5. CoverInv(u)'
  BY <1>1, <1>2 DEF CoverInv
<1> QED
  BY <1>3, <1>4, <1>5

LEMMA FlushKeeps ==
    ASSUME TypeOK, CalmInv, Flush
    PROVE  CalmInv'
<1>1. /\ ~closed /\ Flushed
      /\ UNCHANGED <<pc, op, toSync, before, commitLock, closing, closed,
                     pendingCommit, committed, lastCommitChangeCount>>
  BY DEF Flush, commitVars, closeVars, threadVars
<1>2. Ordered'
  BY <1>1, FlushedFrame DEF CalmInv
<1>3. ClosedInv'
  BY <1>1 DEF ClosedInv
<1>4. \A u \in Thread : CallInv(u)' /\ CloseInv(u)' /\ CoverInv(u)'
  BY <1>1, FlushedOthers
<1> QED
  BY <1>2, <1>3, <1>4 DEF CalmInv

\* flush(_, true, true) of prepareCommit, commit and close.
LEMMA FlushAllKeeps ==
    ASSUME TypeOK, CalmInv, NEW t \in Thread, FlushAll(t)
    PROVE  CalmInv'
<1>1. /\ pc[t] = "flush"
      /\ UNCHANGED <<op, toSync, before, commitLock, closing, closed,
                     pendingCommit, committed, lastCommitChangeCount>>
      /\ \A u \in Thread : u # t => pc'[u] = pc[u]
  BY DEF FlushAll, commitVars, closeVars, GoTo, TypeOK
<1>2. CallInv(t) /\ CloseInv(t) /\ CoverInv(t)
  BY DEF CalmInv
<1>3. CASE closed
  <2>1. /\ UNCHANGED <<live, buffered, changeCount>>
        /\ pc'[t] = "throw"
    BY <1>3 DEF FlushAll, indexVars, docVars, GoTo, TypeOK
  <2>2. Ordered' /\ ClosedInv'
    BY <1>1, <2>1 DEF CalmInv, Ordered, ClosedInv, Copies, Seen, Last, Current
  <2>3. ASSUME NEW u \in Thread
        PROVE  CallInv(u)' /\ CloseInv(u)' /\ CoverInv(u)'
    <3>1. CASE u = t
      BY <1>1, <1>2, <1>3, <2>1, <3>1 DEF CallInv, CloseInv, CoverInv, Inside
    <3>2. CASE u # t
      <4>1. pc'[u] = pc[u] /\ Added' = Added
        BY <1>1, <2>1, <3>2 DEF Added
      <4> QED
        BY <1>1, <2>1, <4>1 DEF CalmInv, CallInv, CloseInv, CoverInv
    <3> QED
      BY <3>1, <3>2
  <2> QED
    BY <2>2, <2>3 DEF CalmInv
<1>4. CASE ~closed
  <2>1. /\ Flushed
        /\ pc'[t] = IF op[t] \in {"close", "rollback"} THEN "lock" ELSE "start"
    BY <1>4 DEF FlushAll, GoTo, TypeOK
  <2>2. /\ Ordered' /\ Added' = Added /\ live' = Added /\ buffered' = None
    BY <1>1, <2>1, FlushedFrame DEF CalmInv
  <2>3. CallInv(t)'
    BY <1>1, <1>2, <2>1 DEF CallInv, Inside
  <2>4. CloseInv(t)'
    BY <1>1, <1>2, <2>1, <2>2 DEF CloseInv, Inside
  <2>5. CoverInv(t)'
    BY <1>1, <1>2, <2>1, <2>2 DEF CoverInv, Inside
  <2>6. \A u \in Thread : u # t => CallInv(u)' /\ CloseInv(u)' /\ CoverInv(u)'
    BY <1>1, <1>4, <2>1, FlushedOthers
  <2> QED
    BY <1>1, <1>4, <2>2, <2>3, <2>4, <2>5, <2>6 DEF CalmInv, ClosedInv
<1> QED
  BY <1>3, <1>4

\* close begins when nobody is closing.
LEMMA CallCloseKeeps ==
    ASSUME TypeOK, CalmInv, NEW t \in Thread, CallClose(t)
    PROVE  CalmInv'
<1>1. /\ ~closed /\ ~closing /\ op'[t] = "close" /\ pc'[t] = "flush"
      /\ closing' = TRUE
      /\ UNCHANGED <<live, buffered, changeCount, toSync, commitLock, closed,
                     pendingCommit, committed, lastCommitChangeCount>>
  BY DEF CallClose, MayCall, IsOpen, Begin, indexVars, docVars, commitVars,
         TypeOK
<1>2. \A u \in Thread : u # t => /\ pc'[u] = pc[u] /\ op'[u] = op[u]
                                 /\ before'[u] = before[u]
  BY DEF CallClose, Begin, TypeOK
<1>3. Ordered'
  BY <1>1 DEF CalmInv, Ordered, Copies, Seen, Last, Current
<1>4. ClosedInv'
  BY <1>1 DEF ClosedInv
<1>5. \A u \in Thread : op[u] # "close"
  BY <1>1 DEF CalmInv, CloseInv
<1>6. ASSUME NEW u \in Thread
      PROVE  CallInv(u)' /\ CloseInv(u)' /\ CoverInv(u)'
  <2>1. CASE u = t
    <3>1. before'[t] = {}
      BY DEF CallClose, Begin, TypeOK
    <3>2. \A w \in Thread : op'[w] = "close" => w = t
      BY <1>2, <1>5
    <3>3. CallInv(u)'
      BY <1>1, <2>1 DEF CallInv, Inside
    <3>4. CloseInv(u)'
      BY <1>1, <2>1, <3>2 DEF CloseInv, Inside
    <3>5. CoverInv(u)'
      BY <1>1, <2>1, <3>1 DEF CoverInv, Inside
    <3> QED
      BY <3>3, <3>4, <3>5
  <2>2. CASE u # t
    <3>1. CallInv(u) /\ CoverInv(u) /\ Added' = Added
      BY <1>1 DEF CalmInv, Added
    <3>2. CallInv(u)'
      BY <1>1, <1>2, <2>2, <3>1 DEF CallInv
    <3>3. CloseInv(u)'
      BY <1>2, <1>5, <2>2 DEF CloseInv
    <3>4. CoverInv(u)'
      BY <1>1, <1>2, <2>2, <3>1 DEF CoverInv
    <3> QED
      BY <3>2, <3>3, <3>4
  <2> QED
    BY <2>1, <2>2
<1> QED
  BY <1>3, <1>4, <1>6 DEF CalmInv

-----------------------------------------------------------------------------
(***************************************************************************)
(* The steps that write a commit, and the ends of the calls.               *)
(***************************************************************************)
\* prepareCommit writes a segments file that is newer than the last commit:
\* by then the writer is not closed, and no thread that closes is past it.
LEMMA PrepareKeeps ==
    ASSUME TypeOK, CalmInv, NEW t \in Thread, PrepareCommit(t)
    PROVE  CalmInv'
<1>1. /\ pc[t] = "turn" /\ pendingCommit = NoInfos
      /\ toSync[t].change > lastCommitChangeCount
      /\ UNCHANGED <<live, buffered, changeCount, toSync, op, before, commitLock,
                     closing, closed, committed, lastCommitChangeCount>>
      /\ \A u \in Thread : u # t => pc'[u] = pc[u]
  <2>1. ~(toSync[t].change <= lastCommitChangeCount)
    BY DEF PrepareCommit, Superseded
  <2>2. toSync[t].change > lastCommitChangeCount
    BY <2>1, CopiesKinds
  <2> QED
    BY <2>2 DEF PrepareCommit, docVars, closeVars, GoTo, TypeOK
<1>2. CallInv(t) /\ CloseInv(t) /\ CoverInv(t)
  BY DEF CalmInv
<1>3. /\ toSync[t].change <= changeCount /\ lastCommitChangeCount # changeCount
      /\ changeCount # 0
  <2>1. toSync[t].change <= changeCount /\ lastCommitChangeCount <= changeCount
    BY OrderedUse DEF CalmInv
  <2> QED
    BY <1>1, <2>1, CopiesKinds
<1>4. NoInfos.files = {} /\ NoInfos.change = 0
  BY DEF NoInfos
<1>5. ~closed
  BY <1>3 DEF CalmInv, ClosedInv
<1>6. \/ /\ pendingCommit' = [toSync[t] EXCEPT !.generation = NextGeneration(t)]
         /\ pc'[t] = IF op[t] = "prepare" THEN "return" ELSE "finish"
      \/ pendingCommit' = pendingCommit /\ pc'[t] = "throw"
  BY DEF PrepareCommit, GoTo, AfterStart, TypeOK
<1>7. \/ /\ pendingCommit'.files = toSync[t].files
         /\ pendingCommit'.change = toSync[t].change
         /\ pc'[t] = IF op[t] = "prepare" THEN "return" ELSE "finish"
      \/ pendingCommit' = pendingCommit /\ pc'[t] = "throw"
  <2>1. toSync[t] \in Infos
    BY DEF TypeOK
  <2>2. \A i \in Infos : \A n :
          /\ [i EXCEPT !.generation = n].files = i.files
          /\ [i EXCEPT !.generation = n].change = i.change
    BY DEF Infos
  <2>3. /\ [toSync[t] EXCEPT !.generation = NextGeneration(t)].files
               = toSync[t].files
        /\ [toSync[t] EXCEPT !.generation = NextGeneration(t)].change
               = toSync[t].change
    BY <2>1, <2>2
  <2>4. CASE /\ pendingCommit' = [toSync[t] EXCEPT
                                     !.generation = NextGeneration(t)]
             /\ pc'[t] = IF op[t] = "prepare" THEN "return" ELSE "finish"
    BY <2>3, <2>4
  <2> QED
    BY <1>6, <2>4
<1>8. Ordered'
  <2>1. Seen(pendingCommit)' \in Copies
    <3>1. Seen(pendingCommit)' \in {Seen(toSync[t]), Seen(pendingCommit)}
      BY <1>7 DEF Seen
    <3> QED
      BY <3>1 DEF Copies
  <2>2. Copies' \subseteq Copies
    BY <1>1, <2>1 DEF Copies, Seen, Last, Current
  <2>3. pendingCommit' # NoInfos => pendingCommit'.change > lastCommitChangeCount'
    BY <1>1, <1>7
  <2> QED
    BY <1>1, <2>2, <2>3, OrderedKept DEF CalmInv
<1>9. CallInv(t)' /\ CloseInv(t)' /\ CoverInv(t)'
  <2>1. op[t] \in {"none", "prepare", "commit", "close"}
    BY <1>2 DEF TypeOK, CallInv
  <2>2. CallInv(t)'
    BY <1>1, <1>2, <1>7, <2>1 DEF CallInv, Inside
  <2>3. CloseInv(t)'
    BY <1>1, <1>2, <1>7 DEF CloseInv, Inside
  <2>4. CoverInv(t)'
    BY <1>1, <1>2, <1>7, <2>1 DEF CoverInv, Inside
  <2> QED
    BY <2>2, <2>3, <2>4
<1>10. ASSUME NEW u \in Thread, u # t
       PROVE  CallInv(u)' /\ CloseInv(u)' /\ CoverInv(u)'
  <2>1. CallInv(u) /\ CloseInv(u) /\ CoverInv(u) /\ pc'[u] = pc[u]
    BY <1>1, <1>10 DEF CalmInv
  <2>2. CallInv(u)'
    BY <1>1, <2>1 DEF CallInv
  <2>3. CloseInv(u)'
    <3>1. op[u] = "close" => pc[u] \notin {"finish", "return"}
      BY <1>1, <1>3, <1>4, <2>1 DEF CloseInv
    <3> QED
      BY <1>1, <2>1, <3>1 DEF CloseInv, Inside
  <2>4. CoverInv(u)'
    <3>1. Added' = Added
      BY <1>1 DEF Added
    <3>2. op[u] \in {"commit", "close"} /\ pc[u] = "finish"
             => before[u] \subseteq committed
      BY <1>1, <1>4, <2>1 DEF CoverInv
    <3> QED
      BY <1>1, <2>1, <3>1, <3>2 DEF CoverInv
  <2> QED
    BY <2>2, <2>3, <2>4
<1> QED
  BY <1>1, <1>5, <1>8, <1>9, <1>10 DEF CalmInv, ClosedInv

\* What finishCommit does to what the invariant relates.
LEMMA FinishFrame ==
    ASSUME TypeOK, NEW t \in Thread, FinishCommit(t)
    PROVE  /\ pc[t] = "finish" /\ pendingCommit' = NoInfos
           /\ UNCHANGED <<live, buffered, changeCount, toSync, op, before,
                          commitLock, closing, closed>>
           /\ \A u \in Thread : u # t => pc'[u] = pc[u]
           /\ \/ /\ pendingCommit # NoInfos
                 /\ committed' = pendingCommit.files
                 /\ lastCommitChangeCount' = pendingCommit.change
                 /\ pc'[t] = "return"
              \/ /\ UNCHANGED <<committed, lastCommitChangeCount>>
                 /\ pc'[t] # "throw" => pc'[t] = "return" /\ pendingCommit = NoInfos
<1>1. CASE pendingCommit = NoInfos
  BY <1>1 DEF FinishCommit, docVars, closeVars, commitVars, GoTo, TypeOK
<1>2. CASE pendingCommit # NoInfos
  <2>1. /\ pc[t] = "finish" /\ pendingCommit' = NoInfos
        /\ UNCHANGED <<live, buffered, changeCount, toSync, op, before,
                       commitLock, closing, closed>>
    BY <1>2 DEF FinishCommit, docVars, closeVars
  <2>2. \A p \in PCs : GoTo(t, p) => /\ pc'[t] = p
                                     /\ \A u \in Thread : u # t => pc'[u] = pc[u]
    BY DEF GoTo, TypeOK
  <2>3. \/ /\ committed' = pendingCommit.files
           /\ lastCommitChangeCount' = pendingCommit.change
           /\ GoTo(t, "return")
        \/ GoTo(t, "throw") /\ UNCHANGED <<committed, lastCommitChangeCount>>
    BY <1>2 DEF FinishCommit
  <2>4. "return" \in PCs /\ "throw" \in PCs
    BY DEF PCs
  <2>5. CASE /\ committed' = pendingCommit.files
             /\ lastCommitChangeCount' = pendingCommit.change
             /\ GoTo(t, "return")
    BY <1>2, <2>1, <2>2, <2>4, <2>5
  <2>6. CASE GoTo(t, "throw") /\ UNCHANGED <<committed, lastCommitChangeCount>>
    <3>1. pc'[t] = "throw" /\ \A u \in Thread : u # t => pc'[u] = pc[u]
      BY <2>2, <2>4, <2>6
    <3>2. /\ UNCHANGED <<committed, lastCommitChangeCount>>
          /\ pc'[t] # "throw" => pc'[t] = "return" /\ pendingCommit = NoInfos
      BY <2>6, <3>1
    <3> QED
      BY <2>1, <3>1, <3>2, Zenon
  <2> QED
    BY <2>3, <2>5, <2>6
<1> QED
  BY <1>1, <1>2

\* finishCommit: the commit that was prepared is the last one.
LEMMA FinishKeeps ==
    ASSUME TypeOK, CalmInv, NEW t \in Thread, FinishCommit(t)
    PROVE  CalmInv'
<1> DEFINE Done == /\ pendingCommit # NoInfos
                   /\ committed' = pendingCommit.files
                   /\ lastCommitChangeCount' = pendingCommit.change
                   /\ pc'[t] = "return"
           Not  == /\ UNCHANGED <<committed, lastCommitChangeCount>>
                   /\ pc'[t] # "throw" => pc'[t] = "return" /\ pendingCommit = NoInfos
<1>1. /\ pc[t] = "finish" /\ pendingCommit' = NoInfos
      /\ UNCHANGED <<live, buffered, changeCount, toSync, op, before,
                     commitLock, closing, closed>>
      /\ \A u \in Thread : u # t => pc'[u] = pc[u]
      /\ Done \/ Not
  BY FinishFrame
<1>2. CallInv(t) /\ CloseInv(t) /\ CoverInv(t) /\ Ordered /\ ClosedInv
  BY DEF CalmInv
<1>3. op[t] \in {"commit", "close"} /\ commitLock = t
  BY <1>1, <1>2 DEF CallInv, Inside
<1>4. NoInfos.files = {} /\ NoInfos.change = 0
  BY DEF NoInfos
<1>5. Ordered'
  <2>1. Last' \in Copies
    <3>1. Last' \in {Seen(pendingCommit), Last}
      BY <1>1 DEF Seen, Last
    <3> QED
      BY <3>1 DEF Copies
  <2>2. Copies' \subseteq Copies
    BY <1>1, <2>1 DEF Copies, Seen, Current
  <2> QED
    BY <1>1, <1>2, <2>2, OrderedKept
<1>6. ClosedInv'
  BY <1>1, <1>2 DEF ClosedInv
<1>7. CallInv(t)' /\ CloseInv(t)' /\ CoverInv(t)'
  <2>1. CallInv(t)'
    BY <1>1, <1>2, <1>3 DEF CallInv, Inside
  <2>2. ASSUME op[t] = "close", pc'[t] = "return"
        PROVE  lastCommitChangeCount' = changeCount
    <3>1. \/ pendingCommit.change = changeCount
          \/ lastCommitChangeCount = changeCount
      BY <1>1, <1>2, <2>2 DEF CloseInv
    <3>2. /\ lastCommitChangeCount <= changeCount
          /\ pendingCommit.change <= changeCount
          /\ pendingCommit # NoInfos =>
                pendingCommit.change > lastCommitChangeCount
      BY <1>2, OrderedUse
    <3>3. CASE Done
      BY <3>1, <3>2, <3>3, CopiesKinds
    <3>4. CASE Not
      <4>1. pendingCommit = NoInfos
        BY <2>2, <3>4
      <4> QED
        BY <1>4, <3>1, <3>2, <3>4, <4>1, CopiesKinds
    <3> QED
      BY <1>1, <3>3, <3>4
  <2>3. CloseInv(t)'
    BY <1>1, <1>2, <2>2 DEF CloseInv, Inside
  <2>4. pc'[t] = "return" => before[t] \subseteq committed'
    <3>1. \/ before[t] \subseteq committed
          \/ before[t] \subseteq pendingCommit.files
      BY <1>1, <1>2, <1>3 DEF CoverInv
    <3>2. CASE Done
      <4>1. committed \subseteq pendingCommit.files
        <5>1. lastCommitChangeCount <= pendingCommit.change
          BY <1>2, <3>2, OrderedUse, CopiesKinds
        <5> QED
          BY <1>2, <5>1, OrderedUse
      <4> QED
        BY <3>1, <3>2, <4>1
    <3>3. CASE Not
      BY <1>4, <3>1, <3>3
    <3> QED
      BY <1>1, <3>2, <3>3
  <2>5. CoverInv(t)'
    BY <1>1, <2>4 DEF CoverInv, Inside
  <2> QED
    BY <2>1, <2>3, <2>5
<1>8. ASSUME NEW u \in Thread, u # t
      PROVE  CallInv(u)' /\ CloseInv(u)' /\ CoverInv(u)'
  <2>1. CallInv(u) /\ CloseInv(u) /\ CoverInv(u) /\ pc'[u] = pc[u]
    BY <1>1, <1>8 DEF CalmInv
  <2>2. CallInv(u)'
    BY <1>1, <2>1 DEF CallInv
  <2>3. op[u] \in {"commit", "close"} => pc[u] \notin {"finish", "return"}
    BY <1>3, <1>8, <2>1 DEF CallInv
  <2>4. CloseInv(u)'
    BY <1>1, <2>1, <2>3 DEF CloseInv, Inside
  <2>5. CoverInv(u)'
    <3>1. Added' = Added
      BY <1>1 DEF Added
    <3> QED
      BY <1>1, <2>1, <2>3, <3>1 DEF CoverInv
  <2> QED
    BY <2>2, <2>4, <2>5
<1> QED
  BY <1>5, <1>6, <1>7, <1>8 DEF CalmInv

\* The call ends; when it was close, nothing is left to commit.
LEMMA ReturnKeeps ==
    ASSUME TypeOK, CalmInv, NEW t \in Thread, Return(t)
    PROVE  CalmInv'
<1>1. /\ pc[t] \in {"return", "throw"}
      /\ commitLock' = IF commitLock = t THEN None ELSE commitLock
      /\ UNCHANGED <<live, buffered, changeCount, pendingCommit, committed,
                     lastCommitChangeCount>>
      /\ toSync'[t] = NoInfos
      /\ \A u \in Thread : u # t => /\ pc'[u] = pc[u] /\ op'[u] = op[u]
                                    /\ before'[u] = before[u]
                                    /\ toSync'[u] = toSync[u]
  BY DEF Return, indexVars, commitVars, docVars, GoTo, TypeOK
<1>2. \/ op'[t] = "none" /\ pc'[t] = "idle"
      \/ op[t] = "prepare" /\ op'[t] = "prepare" /\ pc'[t] = "prepared"
  BY DEF Return, GoTo, TypeOK
<1>3. CallInv(t) /\ CloseInv(t) /\ CoverInv(t) /\ Ordered /\ ClosedInv
  BY DEF CalmInv
<1>4. \/ op[t] = "close" /\ (closed' => pc[t] = "return")
      \/ op[t] # "close" /\ UNCHANGED <<closing, closed>>
  BY <1>3 DEF Return, CallInv
<1>5. Ordered'
  <2>1. Copies' \subseteq Copies
    BY <1>1 DEF Copies, Seen, Last, Current
  <2> QED
    BY <1>1, <1>3, <2>1, OrderedKept DEF Ordered
<1>6. ClosedInv'
  <2>1. CASE op[t] = "close" /\ pc[t] = "return"
    <3>1. lastCommitChangeCount = changeCount
      BY <1>3, <2>1 DEF CloseInv
    <3>2. pendingCommit = NoInfos
      <4>1. /\ pendingCommit.change <= changeCount
            /\ pendingCommit # NoInfos =>
                  pendingCommit.change > lastCommitChangeCount
        BY <1>3, OrderedUse
      <4> QED
        BY <3>1, <4>1, CopiesKinds
    <3> QED
      BY <1>1, <3>1, <3>2 DEF ClosedInv
  <2>2. CASE op[t] = "close" /\ pc[t] # "return"
    BY <1>4, <2>2 DEF ClosedInv
  <2>3. CASE op[t] # "close"
    BY <1>1, <1>3, <1>4, <2>3 DEF ClosedInv
  <2> QED
    BY <2>1, <2>2, <2>3
<1>7. CallInv(t)' /\ CloseInv(t)' /\ CoverInv(t)'
  BY <1>2 DEF CallInv, CloseInv, CoverInv, Inside
<1>8. ASSUME NEW u \in Thread, u # t
      PROVE  CallInv(u)' /\ CloseInv(u)' /\ CoverInv(u)'
  <2>1. /\ CallInv(u) /\ CloseInv(u) /\ CoverInv(u)
        /\ pc'[u] = pc[u] /\ op'[u] = op[u] /\ before'[u] = before[u]
        /\ toSync'[u] = toSync[u]
    BY <1>1, <1>8 DEF CalmInv
  <2>2. CallInv(u)'
    <3>1. commitLock = u => commitLock' = u
      BY <1>1, <1>8
    <3> QED
      BY <2>1, <3>1 DEF CallInv
  <2>3. CloseInv(u)'
    <3>1. op[u] = "close" => UNCHANGED <<closing, closed>>
      BY <1>4, <1>8, <2>1 DEF CloseInv
    <3>2. \A w \in Thread : op'[w] = "close" => op[w] = "close"
      BY <1>1, <1>2
    <3> QED
      BY <1>1, <2>1, <3>1, <3>2 DEF CloseInv
  <2>4. CoverInv(u)'
    <3>1. Added' = Added
      BY <1>1 DEF Added
    <3> QED
      BY <1>1, <2>1, <3>1 DEF CoverInv
  <2> QED
    BY <2>2, <2>3, <2>4
<1> QED
  BY <1>5, <1>6, <1>7, <1>8 DEF CalmInv

-----------------------------------------------------------------------------
(***************************************************************************)
(* CalmInv is inductive, and what follows from it.                         *)
(***************************************************************************)
LEMMA CalmInit ==
    ASSUME Init
    PROVE  CalmInv
<1>1. /\ live = {} /\ changeCount = 0 /\ lastCommitChangeCount = 0
      /\ pendingCommit = NoInfos /\ committed = {} /\ ~closed
      /\ \A t \in Thread : pc[t] = "idle" /\ op[t] = "none" /\ toSync[t] = NoInfos
  BY DEF Init
<1>2. Copies = {[files |-> {}, change |-> 0]}
  BY <1>1 DEF Copies, Seen, Last, Current, NoInfos
<1>3. Ordered
  <2>1. \A a \in Copies : a.files = {} /\ a.change = 0
    BY <1>2
  <2>2. \A a \in Copies : a.change <= changeCount
    BY <1>1, <2>1
  <2> QED
    BY <1>1, <2>1, <2>2 DEF Ordered
<1>4. \A t \in Thread : CallInv(t) /\ CloseInv(t) /\ CoverInv(t)
  BY <1>1 DEF CallInv, CloseInv, CoverInv, Inside
<1> QED
  BY <1>1, <1>3, <1>4 DEF CalmInv, ClosedInv

\* Every step keeps it, while nobody calls rollback.
LEMMA CalmStep ==
    ASSUME TypeOK, Calm, CalmInv, [Next]_vars
    PROVE  CalmInv'
<1>1. CASE UNCHANGED vars
  <2>1. UNCHANGED <<live, buffered, changeCount, lastCommitChangeCount,
                    pendingCommit, committed, pc, op, toSync, before,
                    commitLock, closing, closed>>
    BY <1>1 DEF vars, indexVars, commitVars, closeVars, docVars, threadVars
  <2>2. Ordered' /\ ClosedInv'
    BY <2>1 DEF CalmInv, Ordered, ClosedInv, Copies, Seen, Last, Current
  <2>3. Added' = Added
    BY <2>1 DEF Added
  <2>4. \A t \in Thread : CallInv(t)' /\ CloseInv(t)' /\ CoverInv(t)'
    BY <2>1, <2>3 DEF CalmInv, CallInv, CloseInv, CoverInv
  <2> QED
    BY <2>2, <2>4 DEF CalmInv
<1>2. CASE AddDocument \/ Flush
  BY <1>2, AddDocumentKeeps, FlushKeeps
<1>3. ASSUME NEW t \in Thread, Call(t) \/ Step(t) \/ Wake(t)
      PROVE  CalmInv'
  <2>1. ~CallRollback(t)
    BY DEF Calm, CallRollback, MayCall
  <2>2. ~Revert(t) /\ ~Recount(t)
    BY DEF CalmInv, CallInv, Revert, Recount
  <2>3. CASE QuietStep(t)
    BY <2>3, QuietKeeps
  <2>4. CASE CallClose(t)
    BY <2>4, CallCloseKeeps
  <2>5. CASE FlushAll(t)
    BY <2>5, FlushAllKeeps
  <2>6. CASE PrepareCommit(t)
    BY <2>6, PrepareKeeps
  <2>7. CASE FinishCommit(t)
    BY <2>7, FinishKeeps
  <2>8. CASE Return(t)
    BY <2>8, ReturnKeeps
  <2> QED
    BY <1>3, <2>1, <2>2, <2>3, <2>4, <2>5, <2>6, <2>7, <2>8
    DEF Call, Step, QuietStep
<1> QED
  BY <1>1, <1>2, <1>3 DEF Next

LEMMA CalmInvariant == ASSUME Calm PROVE Spec => []CalmInv
<1>1. Init => CalmInv
  BY CalmInit
<1>2. TypeOK /\ CalmInv /\ [Next]_vars => CalmInv'
  BY CalmStep
<1> QED
  BY <1>1, <1>2, Typed, PTL DEF Spec

\* While nobody calls rollback, a commit() or close() that found nothing
\* prepared and returns normally has committed everything that was added
\* before it took commitLock, whichever thread wrote the segments file
\* (IndexWriter::commit, startCommit, finishCommit).
THEOREM CommitsCover == ASSUME Calm PROVE Spec => []CommitCovers
<1>1. CalmInv => CommitCovers
  BY DEF CalmInv, CoverInv, CommitCovers
<1> QED
  BY <1>1, CalmInvariant, PTL

\* The last commit, and the change count it is known by, are changed by
\* finishCommit alone.
LEMMA OnlyFinishCommits ==
    ASSUME TypeOK, Calm, CalmInv, [Next]_vars
    PROVE  \/ UNCHANGED <<committed, lastCommitChangeCount>>
           \/ \E t \in Thread : FinishCommit(t)
<1> USE DEF indexVars, commitVars
<1>1. CASE UNCHANGED vars
  BY <1>1 DEF vars
<1>2. CASE AddDocument \/ Flush
  BY <1>2 DEF AddDocument, Flush
<1>3. ASSUME NEW t \in Thread, Call(t) \/ Step(t) \/ Wake(t)
      PROVE  \/ UNCHANGED <<committed, lastCommitChangeCount>>
             \/ FinishCommit(t)
  <2>1. ~CallRollback(t) /\ ~Revert(t) /\ ~Recount(t)
    BY DEF Calm, CallRollback, MayCall, CalmInv, CallInv, Revert, Recount
  <2>2. CASE QuietStep(t)
    BY <2>2, QuietFrame DEF SameIndex
  <2>3. CASE CallClose(t) \/ FlushAll(t) \/ PrepareCommit(t) \/ Return(t)
    BY <2>3 DEF CallClose, Begin, FlushAll, PrepareCommit, Return
  <2> QED
    BY <1>3, <2>1, <2>2, <2>3 DEF Call, Step, QuietStep
<1> QED
  BY <1>1, <1>2, <1>3 DEF Next

\* While nobody calls rollback, no commit takes back what an earlier one
\* made durable: a thread whose copy is older than the last commit gives way
\* (startCommit, finishCommit).
THEOREM CommitsOnlyAdvance == ASSUME Calm PROVE Spec => CommitsNeverRegress
<1>1. TypeOK /\ CalmInv /\ [Next]_vars
        => [committed \subseteq committed'
            /\ lastCommitChangeCount <= lastCommitChangeCount']_vars
  <2> SUFFICES ASSUME TypeOK, CalmInv, [Next]_vars
               PROVE  /\ committed \subseteq committed'
                      /\ lastCommitChangeCount <= lastCommitChangeCount'
    OBVIOUS
  <2>1. CASE UNCHANGED <<committed, lastCommitChangeCount>>
    BY <2>1, CopiesKinds
  <2>2. ASSUME NEW t \in Thread, FinishCommit(t)
        PROVE  /\ committed \subseteq committed'
               /\ lastCommitChangeCount <= lastCommitChangeCount'
    <3>1. \/ /\ pendingCommit # NoInfos /\ committed' = pendingCommit.files
             /\ lastCommitChangeCount' = pendingCommit.change
          \/ UNCHANGED <<committed, lastCommitChangeCount>>
      BY <2>2, FinishFrame
    <3>2. CASE /\ pendingCommit # NoInfos /\ committed' = pendingCommit.files
               /\ lastCommitChangeCount' = pendingCommit.change
      <4>1. lastCommitChangeCount <= pendingCommit.change
        BY <3>2, OrderedUse, CopiesKinds DEF CalmInv
      <4> QED
        BY <3>2, <4>1, OrderedUse DEF CalmInv
    <3> QED
      BY <2>1, <3>1, <3>2
  <2> QED
    BY <2>1, <2>2, OnlyFinishCommits
<1> QED
  BY <1>1, CalmInvariant, Typed, PTL DEF Spec, CommitsNeverRegress

\* While nobody calls rollback, the other threads' commits that are still on
\* their way when close returns write no segments file any more and leave
\* the last commit and the generation as they are (closeInternal,
\* startCommit).
THEOREM ClosedStays == ASSUME Calm PROVE Spec => ClosedIsFinal
<1>1. TypeOK /\ CalmInv /\ [Next]_vars
        => [closed => UNCHANGED <<committed, written, generation>>]_vars
  <2> SUFFICES ASSUME TypeOK, CalmInv, [Next]_vars, closed
               PROVE  UNCHANGED <<committed, written, generation>>
    OBVIOUS
  <2> USE DEF indexVars, commitVars
  <2>1. lastCommitChangeCount = changeCount /\ pendingCommit = NoInfos
    BY DEF CalmInv, ClosedInv
  <2>2. CASE UNCHANGED vars
    BY <2>2 DEF vars
  <2>3. CASE AddDocument \/ Flush
    BY <2>3 DEF AddDocument, Flush, Flushed
  <2>4. ASSUME NEW t \in Thread, Call(t) \/ Step(t) \/ Wake(t)
        PROVE  UNCHANGED <<committed, written, generation>>
    <3>1. ~CallRollback(t) /\ ~Revert(t) /\ ~Recount(t)
      BY DEF Calm, CallRollback, MayCall, CalmInv, CallInv, Revert, Recount
    <3>2. ~PrepareCommit(t)
      <4>1. toSync[t].change <= lastCommitChangeCount
        BY <2>1, OrderedUse DEF CalmInv
      <4> QED
        BY <4>1 DEF PrepareCommit, Superseded
    <3>3. CASE FinishCommit(t)
      BY <2>1, <3>3 DEF FinishCommit
    <3>4. CASE CallPrepareCommit(t) \/ CallCommit(t) \/ CallClose(t)
               \/ CommitPrepared(t) \/ TakeCommitLock(t) \/ CheckPending(t)
      BY <3>4 DEF CallPrepareCommit, CallCommit, CallClose, Begin,
                  CommitPrepared, TakeCommitLock, CheckPending
    <3>5. CASE StartCommit(t) \/ (\E f \in todo[t] : StartSync(t, f))
               \/ FinishSync(t) \/ WaitForAllSynced(t) \/ Wake(t)
               \/ SkipSuperseded(t) \/ FlushAll(t) \/ Return(t)
      BY <3>5 DEF StartCommit, StartSync, FinishSync, WaitForAllSynced, Wake,
                  SkipSuperseded, FlushAll, Flushed, Return
    <3> QED
      BY <2>4, <3>1, <3>2, <3>3, <3>4, <3>5 DEF Call, Step
  <2> QED
    BY <2>2, <2>3, <2>4 DEF Next
<1> QED
  BY <1>1, CalmInvariant, Typed, PTL DEF Spec, ClosedIsFinal
=============================================================================
