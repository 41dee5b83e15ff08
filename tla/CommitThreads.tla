---------------------------- MODULE CommitThreads ----------------------------
(***************************************************************************)
(* Several threads that call prepareCommit, commit, close and rollback of  *)
(* one IndexWriter at once.                                                *)
(*                                                                         *)
(* commit and the commit of close hold commitLock from end to end;         *)
(* prepareCommit and rollback do not.  Each action below is a section that *)
(* runs under IndexWriter's own lock, or under that of "synced", or the    *)
(* unlocked step between two of them.  What a commit does to the files and *)
(* to the deleter is in module IndexWriter; here a segment is one file,    *)
(* named by its number, that is never merged or deleted, and every flush   *)
(* closes the doc store.                                                   *)
(***************************************************************************)
EXTENDS Integers, FiniteSets

CONSTANTS
    Thread,         \* the threads that call IndexWriter
    Calls,          \* the methods they call
    MaxCalls,       \* bound on the calls of each thread
    MaxSegments,    \* bound on the segments
    SyncMayFail,    \* Directory::sync may throw
    WriteMayFail    \* writing segments_N may throw

ASSUME ThreadsAssumption ==
    /\ 0 \notin Thread     \* stands for no thread
    /\ Calls \subseteq {"prepare", "commit", "close", "rollback"}
    /\ MaxCalls \in Nat /\ MaxSegments \in Nat
    /\ SyncMayFail \in BOOLEAN /\ WriteMayFail \in BOOLEAN

VARIABLES
    \* IndexWriter
    live,           \* the segments of segmentInfos
    generation,     \* its generation
    changeCount,
    lastCommitChangeCount,
    pendingCommit,  \* the SegmentInfos prepared, with its change count
    commitLock,     \* the thread that holds it
    synced, syncing,
    closing, closed,
    \* DocumentsWriter
    buffered,       \* the segment the buffered documents will become
    docClosed,      \* DocumentsWriter::closed
    \* each thread
    pc, op,         \* where it is, and in which call
    toSync,         \* its copy of segmentInfos
    todo, file,     \* startCommit's files left to visit, and the one it syncs
    waiting,        \* its local "pending": files another thread is syncing
    calls,          \* how many calls it has made
    \* history
    committed,      \* the segments of the last commit
    written,        \* the generations segments_N was written with
    segments,       \* how many segments were named
    before,         \* the segments a thread's call of commit has to cover
    target          \* the segments rollback has to leave

indexVars  == <<live, generation, changeCount>>
commitVars == <<lastCommitChangeCount, pendingCommit, committed, written>>
syncVars   == <<synced, syncing>>
closeVars  == <<closing, closed, docClosed>>
docVars    == <<buffered, segments>>
threadVars == <<pc, op, toSync, todo, file, waiting, calls,
                before>>
vars == <<indexVars, commitVars, syncVars, closeVars, docVars, commitLock,
          threadVars, target>>

None == 0   \* no thread (a thread is not a number), no segment

\* pendingCommit is null
NoInfos == [files |-> {}, generation |-> 0, change |-> 0]
Infos == [files: SUBSET (1..MaxSegments), generation: Nat, change: Nat]

PCs == {"idle", "prepared", "lock", "check", "flush", "start", "sync",
        "wait", "syncing", "turn", "finish", "revert", "recount", "return",
        "throw"}

TypeOK ==
    /\ live \subseteq 1..MaxSegments /\ committed \subseteq 1..MaxSegments
    /\ generation \in Nat /\ written \subseteq Nat
    /\ changeCount \in Nat /\ lastCommitChangeCount \in Nat
    /\ pendingCommit \in Infos
    /\ commitLock \in Thread \cup {None}
    /\ synced \subseteq 1..MaxSegments /\ syncing \subseteq 1..MaxSegments
    /\ closing \in BOOLEAN /\ closed \in BOOLEAN /\ docClosed \in BOOLEAN
    /\ buffered \in 0..MaxSegments /\ segments \in 0..MaxSegments
    /\ pc \in [Thread -> PCs]
    /\ op \in [Thread -> {"none", "prepare", "commit", "close", "rollback"}]
    /\ toSync \in [Thread -> Infos]
    /\ todo \in [Thread -> SUBSET (1..MaxSegments)]
    /\ file \in [Thread -> 0..MaxSegments]
    /\ waiting \in [Thread -> SUBSET (1..MaxSegments)]
    /\ calls \in [Thread -> 0..MaxCalls]
    /\ before \in [Thread -> SUBSET (1..MaxSegments)]
    /\ target \subseteq 1..MaxSegments

-----------------------------------------------------------------------------
\* A thread goes on
GoTo(t, p) == pc' = [pc EXCEPT ![t] = p]

\* The segments that hold everything added so far
Added == live \cup (IF buffered = None THEN {} ELSE {buffered})

\* isOpen(true)
IsOpen == ~closed /\ ~closing

\* addDocument, the first to be buffered: newSegmentName
AddDocument ==
    /\ IsOpen /\ ~docClosed /\ buffered = None /\ segments < MaxSegments
    /\ segments' = segments + 1
    /\ buffered' = segments + 1
    /\ changeCount' = changeCount + 1
    /\ UNCHANGED <<live, generation, commitVars, syncVars, closeVars,
                   commitLock, threadVars, target>>

\* Mutant: a segment is added although no documents are buffered
FlushedAlways ==
    /\ live' = live \cup {buffered}
    /\ buffered' = None
    /\ changeCount' = changeCount + 1
    /\ UNCHANGED <<generation, segments>>

\* Mutant: doFlushInternal does not call checkpoint
FlushedNoCheckpoint ==
    /\ live' = Added
    /\ buffered' = None
    /\ UNCHANGED <<changeCount, generation, segments>>

\* doFlushInternal: the buffered documents become a segment
Flushed ==
    /\ live' = Added
    /\ buffered' = None
    /\ changeCount' = changeCount + (IF buffered = None THEN 0 ELSE 1)
    /\ UNCHANGED <<generation, segments>>

\* An indexing thread flushes
Flush ==
    /\ ~closed /\ buffered # None
    /\ Flushed
    /\ UNCHANGED <<commitVars, syncVars, closeVars, commitLock, threadVars,
                   target>>

-----------------------------------------------------------------------------
(***************************************************************************)
(* The calls.                                                              *)
(***************************************************************************)
Begin(t, o, p) ==
    /\ pc' = [pc EXCEPT ![t] = p]
    /\ op' = [op EXCEPT ![t] = o]
    /\ calls' = [calls EXCEPT ![t] = @ + 1]
    /\ before' = [before EXCEPT ![t] = {}]
    /\ UNCHANGED <<indexVars, commitVars, syncVars, docVars, commitLock,
                   toSync, todo, file, waiting>>

MayCall(t, o) == /\ o \in Calls /\ calls[t] < MaxCalls
                 /\ \/ pc[t] = "idle"
                    \/ pc[t] = "prepared" /\ o = "rollback"
                 /\ IsOpen

\* prepareCommit, commit: ensureOpen
CallPrepareCommit(t) ==
    /\ MayCall(t, "prepare")
    /\ Begin(t, "prepare", "check")
    /\ UNCHANGED <<closeVars, target>>

CallCommit(t) ==
    /\ MayCall(t, "commit")
    /\ Begin(t, "commit", "lock")
    /\ UNCHANGED <<closeVars, target>>

\* close: shouldClose, closeInternal as far as docWriter->close.  A close
\* while another thread is closing waits, and is left out until that ends.
CallClose(t) ==
    /\ MayCall(t, "close")
    /\ Begin(t, "close", "flush")
    /\ closing' = TRUE
    /\ docClosed' = TRUE
    /\ UNCHANGED <<closed, target>>

\* rollback, also of what the thread has prepared: ensureOpen, shouldClose,
\* the indexing threads paused
CallRollback(t) ==
    /\ MayCall(t, "rollback")
    /\ Begin(t, "rollback", "revert")
    /\ closing' = TRUE
    /\ UNCHANGED <<closed, docClosed, target>>

\* After prepareCommit the user calls commit, unless it calls rollback; it
\* throws when the writer is closed or being closed
CommitPrepared(t) ==
    /\ pc[t] = "prepared"
    /\ IF IsOpen
       THEN GoTo(t, "lock") /\ op' = [op EXCEPT ![t] = "commit"]
       ELSE GoTo(t, "idle") /\ op' = [op EXCEPT ![t] = "none"]
    /\ UNCHANGED <<indexVars, commitVars, syncVars, closeVars, docVars,
                   commitLock, toSync, todo, file, waiting, calls, before,
                   target>>

\* commit takes commitLock, and prepares unless a commit is prepared; the
\* one of close starts a commit in any case
TakeCommitLock(t) ==
    /\ pc[t] = "lock" /\ commitLock = None
    /\ commitLock' = t
    /\ GoTo(t, IF op[t] # "commit" THEN "start"
               ELSE IF pendingCommit = NoInfos THEN "check" ELSE "finish")
    /\ before' = [before EXCEPT ![t] =
                    IF pendingCommit = NoInfos THEN Added ELSE {}]
    /\ UNCHANGED <<indexVars, commitVars, syncVars, closeVars, docVars, op,
                   toSync, todo, file, waiting, calls, target>>

\* prepareCommit looks at pendingCommit, without a lock
CheckPending(t) ==
    /\ pc[t] = "check"
    /\ GoTo(t, IF pendingCommit = NoInfos THEN "flush" ELSE "throw")
    /\ UNCHANGED <<indexVars, commitVars, syncVars, closeVars, docVars,
                   commitLock, op, toSync, todo, file, waiting, calls,
                   before, target>>

\* flush(_, true, true)
FlushAll(t) ==
    /\ pc[t] = "flush"
    /\ IF closed
       THEN GoTo(t, "throw") /\ UNCHANGED <<indexVars, docVars>>
       ELSE /\ Flushed
            /\ GoTo(t, IF op[t] \in {"close", "rollback"} THEN "lock"
                       ELSE "start")
    /\ UNCHANGED <<commitVars, syncVars, closeVars, commitLock, op, toSync,
                   todo, file, waiting, calls, before, target>>

\* What follows startCommit
AfterStart(t) ==
    IF op[t] = "prepare" THEN "return" ELSE "finish"

\* startCommit, first locked section
StartCommit(t) ==
    /\ pc[t] = "start"
    /\ IF closed
       THEN GoTo(t, "throw") /\ UNCHANGED <<toSync, todo, waiting>>
       ELSE IF changeCount = lastCommitChangeCount
       THEN GoTo(t, AfterStart(t)) /\ UNCHANGED <<toSync, todo, waiting>>
       ELSE /\ toSync' = [toSync EXCEPT ![t] =
                            [files |-> live, generation |-> generation,
                             change |-> changeCount]]
            /\ todo' = [todo EXCEPT ![t] = live]
            /\ waiting' = [waiting EXCEPT ![t] = {}]
            /\ GoTo(t, "sync")
    /\ UNCHANGED <<indexVars, commitVars, syncVars, closeVars, docVars,
                   commitLock, op, file, calls, before, target>>

-----------------------------------------------------------------------------
(***************************************************************************)
(* Syncing the files of toSync, each by one thread.                        *)
(***************************************************************************)
\* Mutant: a file that another thread is syncing is not waited for
StartSyncNoWait(t, f) ==
    /\ pc[t] = "sync" /\ f \in todo[t]
    /\ todo' = [todo EXCEPT ![t] = @ \ {f}]
    /\ IF f \in synced \cup syncing
       THEN UNCHANGED <<pc, syncing, file>>
       ELSE /\ syncing' = syncing \cup {f}
            /\ file' = [file EXCEPT ![t] = f]
            /\ GoTo(t, "syncing")
    /\ UNCHANGED <<indexVars, commitVars, synced, closeVars, docVars,
                   commitLock, op, toSync, waiting, calls, before, target>>

\* startSync of one of the files that are left
StartSync(t, f) ==
    /\ pc[t] = "sync" /\ f \in todo[t]
    /\ todo' = [todo EXCEPT ![t] = @ \ {f}]
    /\ IF f \in synced
       THEN UNCHANGED <<pc, syncing, file, waiting>>
       ELSE IF f \in syncing
       THEN /\ waiting' = [waiting EXCEPT ![t] = @ \cup {f}]
            /\ UNCHANGED <<pc, syncing, file>>
       ELSE /\ syncing' = syncing \cup {f}
            /\ file' = [file EXCEPT ![t] = f]
            /\ GoTo(t, "syncing")
            /\ UNCHANGED waiting
    /\ UNCHANGED <<indexVars, commitVars, synced, closeVars, docVars,
                   commitLock, op, toSync, calls, before, target>>

\* Directory::sync and finishSync
FinishSync(t) ==
    /\ pc[t] = "syncing"
    /\ syncing' = syncing \ {file[t]}
    /\ \/ synced' = synced \cup {file[t]} /\ GoTo(t, "sync")
       \/ SyncMayFail /\ UNCHANGED synced /\ GoTo(t, "throw")
    /\ UNCHANGED <<indexVars, commitVars, closeVars, docVars, commitLock, op,
                   toSync, todo, file, waiting, calls, before, target>>

\* waitForAllSynced.  Its parameter hides the member "syncing", so that a
\* file another thread failed to sync is waited for all the same.
WaitForAllSynced(t) ==
    /\ pc[t] = "sync" /\ todo[t] = {}
    /\ GoTo(t, IF waiting[t] \subseteq synced THEN "turn" ELSE "wait")
    /\ UNCHANGED <<indexVars, commitVars, syncVars, closeVars, docVars,
                   commitLock, op, toSync, todo, file, waiting, calls, before,
                   target>>

\* LuceneSignal::wait returns.  It lets go of the lock before it is ready to
\* be notified, so that no notification is sure to reach it; and it may
\* return without one.
Wake(t) ==
    /\ pc[t] = "wait"
    /\ GoTo(t, "sync")
    /\ UNCHANGED <<indexVars, commitVars, syncVars, closeVars, docVars,
                   commitLock, op, toSync, todo, file, waiting, calls, before,
                   target>>

-----------------------------------------------------------------------------
(***************************************************************************)
(* The rest of startCommit, finishCommit, and the ends of the calls.       *)
(***************************************************************************)
\* Mutant: a commit is not seen to be superseded
SupersededNever(t) == FALSE

\* Mutant: a commit of the very same changes is not seen
SupersededStrict(t) == toSync[t].change < lastCommitChangeCount

\* Someone saved a newer version of the segments file
Superseded(t) == toSync[t].change <= lastCommitChangeCount

SkipSuperseded(t) ==
    /\ pc[t] = "turn" /\ Superseded(t)
    /\ GoTo(t, AfterStart(t))
    /\ UNCHANGED <<indexVars, commitVars, syncVars, closeVars, docVars,
                   commitLock, op, toSync, todo, file, waiting, calls, before,
                   target>>

\* Mutant: the generation is the one of the copy
NextGenerationStale(t) == toSync[t].generation + 1

\* updateGeneration, if segmentInfos has moved on, and the next generation
NextGeneration(t) ==
    (IF generation > toSync[t].generation THEN generation
     ELSE toSync[t].generation) + 1

\* My turn to commit: segments_N is written, or that throws; a thread that
\* finds another commit prepared waits
PrepareCommit(t) ==
    /\ pc[t] = "turn" /\ ~Superseded(t) /\ pendingCommit = NoInfos
    /\ generation' = NextGeneration(t)
    /\ \/ /\ pendingCommit' = [toSync[t] EXCEPT !.generation = NextGeneration(t)]
          /\ written' = written \cup {NextGeneration(t)}
          /\ GoTo(t, AfterStart(t))
       \/ WriteMayFail /\ GoTo(t, "throw") /\ UNCHANGED <<pendingCommit, written>>
    /\ UNCHANGED <<live, changeCount, lastCommitChangeCount, committed,
                   syncVars, closeVars, docVars, commitLock, op, toSync, todo,
                   file, waiting, calls, before, target>>

\* finishCommit of whatever is prepared
FinishCommit(t) ==
    /\ pc[t] = "finish"
    /\ IF pendingCommit = NoInfos
       THEN GoTo(t, "return") /\ UNCHANGED <<generation, commitVars>>
       ELSE /\ pendingCommit' = NoInfos
            /\ \/ /\ committed' = pendingCommit.files
                  /\ lastCommitChangeCount' = pendingCommit.change
                  /\ generation' = pendingCommit.generation
                  /\ GoTo(t, "return")
               \/ /\ WriteMayFail /\ GoTo(t, "throw")
                  /\ UNCHANGED <<committed, lastCommitChangeCount, generation>>
            /\ UNCHANGED written
    /\ UNCHANGED <<live, changeCount, syncVars, closeVars, docVars, commitLock,
                   op, toSync, todo, file, waiting, calls, before, target>>

\* rollbackInternal, the locked section
Revert(t) ==
    /\ pc[t] = "revert"
    /\ pendingCommit' = NoInfos
    /\ live' = committed
    /\ buffered' = None
    /\ target' = committed
    /\ GoTo(t, "recount")
    /\ UNCHANGED <<generation, changeCount, lastCommitChangeCount, committed,
                   written, syncVars, closeVars, segments, commitLock, op,
                   toSync, todo, file, waiting, calls, before>>

\* ... and what it does after it, without the lock; then closeInternal
Recount(t) ==
    /\ pc[t] = "recount"
    /\ lastCommitChangeCount' = changeCount
    /\ docClosed' = TRUE
    /\ GoTo(t, "flush")
    /\ UNCHANGED <<indexVars, pendingCommit, committed, written, syncVars,
                   closing, closed, docVars, commitLock, op, toSync, todo,
                   file, waiting, calls, before, target>>

\* Mutant: an exception leaves commitLock taken
ReturnKeepsLock(t) ==
    /\ pc[t] \in {"return", "throw"}
    /\ commitLock' = IF commitLock = t /\ pc[t] = "return" THEN None
                     ELSE commitLock
    /\ IF op[t] \in {"close", "rollback"}
       THEN closing' = FALSE /\ closed' = (pc[t] = "return")
       ELSE UNCHANGED <<closing, closed>>
    /\ IF op[t] = "prepare" /\ pc[t] = "return"
       THEN GoTo(t, "prepared") /\ UNCHANGED op
       ELSE GoTo(t, "idle") /\ op' = [op EXCEPT ![t] = "none"]
    /\ toSync' = [toSync EXCEPT ![t] = NoInfos]
    /\ todo' = [todo EXCEPT ![t] = {}]
    /\ file' = [file EXCEPT ![t] = None]
    /\ waiting' = [waiting EXCEPT ![t] = {}]
    /\ before' = [before EXCEPT ![t] = {}]
    /\ UNCHANGED <<indexVars, commitVars, syncVars, docClosed, docVars, calls,
                   target>>

\* The call ends; close and rollback leave the writer closed, unless they
\* threw
Return(t) ==
    /\ pc[t] \in {"return", "throw"}
    /\ commitLock' = IF commitLock = t THEN None ELSE commitLock
    /\ IF op[t] \in {"close", "rollback"}
       THEN closing' = FALSE /\ closed' = (pc[t] = "return")
       ELSE UNCHANGED <<closing, closed>>
    /\ IF op[t] = "prepare" /\ pc[t] = "return"
       THEN GoTo(t, "prepared") /\ UNCHANGED op
       ELSE GoTo(t, "idle") /\ op' = [op EXCEPT ![t] = "none"]
    /\ toSync' = [toSync EXCEPT ![t] = NoInfos]
    /\ todo' = [todo EXCEPT ![t] = {}]
    /\ file' = [file EXCEPT ![t] = None]
    /\ waiting' = [waiting EXCEPT ![t] = {}]
    /\ before' = [before EXCEPT ![t] = {}]
    /\ UNCHANGED <<indexVars, commitVars, syncVars, docClosed, docVars, calls,
                   target>>

-----------------------------------------------------------------------------
Init ==
    /\ live = {} /\ generation = 1 /\ changeCount = 0
    /\ lastCommitChangeCount = 0 /\ pendingCommit = NoInfos
    /\ committed = {} /\ written = {1}
    /\ commitLock = None /\ synced = {} /\ syncing = {}
    /\ closing = FALSE /\ closed = FALSE /\ docClosed = FALSE
    /\ buffered = None /\ segments = 0
    /\ pc = [t \in Thread |-> "idle"] /\ op = [t \in Thread |-> "none"]
    /\ toSync = [t \in Thread |-> NoInfos]
    /\ todo = [t \in Thread |-> {}] /\ file = [t \in Thread |-> None]
    /\ waiting = [t \in Thread |-> {}] /\ calls = [t \in Thread |-> 0]
    /\ before = [t \in Thread |-> {}] /\ target = {}

Call(t) ==
    CallPrepareCommit(t) \/ CallCommit(t) \/ CallClose(t) \/ CallRollback(t)

\* A step of a thread that is inside a call, or has prepared a commit
Step(t) ==
    \/ CommitPrepared(t) \/ TakeCommitLock(t)
    \/ CheckPending(t) \/ FlushAll(t) \/ StartCommit(t)
    \/ \E f \in todo[t] : StartSync(t, f)
    \/ FinishSync(t) \/ WaitForAllSynced(t)
    \/ SkipSuperseded(t) \/ PrepareCommit(t) \/ FinishCommit(t)
    \/ Revert(t) \/ Recount(t) \/ Return(t)

Next == AddDocument \/ Flush \/ \E t \in Thread : Call(t) \/ Step(t) \/ Wake(t)

Spec == Init /\ [][Next]_vars

(***************************************************************************)
(* A thread that can take its next step does.  The waits are: for          *)
(* commitLock, a mutex, of which each thread asks a bounded number of      *)
(* times; and for pendingCommit, where doWait looks again every second.    *)
(* The wait for "synced" has no timeout and may miss its notification:     *)
(* Wake is not fair.                                                       *)
(***************************************************************************)
FairSpec == Spec /\ \A t \in Thread : WF_vars(Step(t))

-----------------------------------------------------------------------------
(***************************************************************************)
(* Properties.                                                             *)
(***************************************************************************)
\* A commit() or close() that found nothing prepared, and returned normally,
\* has committed everything that was added before it took commitLock,
\* whichever thread wrote the segments file (IndexWriter::commit,
\* startCommit).
CommitCovers ==
    \A t \in Thread :
        pc[t] = "return" /\ op[t] \in {"commit", "close"}
            => before[t] \subseteq committed

\* A commit, prepared or finished, names only files that were synced, by
\* this thread or by another (startSync, finishSync, waitForAllSynced).
CommitsSynced == pendingCommit.files \cup committed \subseteq synced

\* Commits never go back: a thread whose copy of the segmentInfos is older
\* than the last commit gives way (startCommit: "I can safely skip saving
\* myself since I've been superseded").
CommitsNeverRegress ==
    [][committed \subseteq committed'
       /\ lastCommitChangeCount <= lastCommitChangeCount']_vars

\* segments_N is written once for every N, although each thread has a
\* generation of its own in its copy (SegmentInfos::updateGeneration).
SegmentsFileOnce ==
    [][pendingCommit' # pendingCommit /\ pendingCommit' # NoInfos
         => pendingCommit'.generation \notin written]_vars

\* Once close has returned nobody writes a segments file: the write lock
\* may belong to another writer by then (closeInternal, startCommit).
ClosedIsFinal ==
    [][closed => UNCHANGED <<committed, written, generation>>]_vars

\* rollback leaves the index as the last commit left it.
RollbackReverts ==
    \A t \in Thread :
        pc[t] = "return" /\ op[t] = "rollback" => committed = target

\* A thread that waits for files that others are syncing does not wait for
\* ever (waitForAllSynced).
SyncWaitEnds ==
    \A t \in Thread :
        (pc[t] \in {"sync", "wait"}) ~> (pc[t] \notin {"sync", "wait"})

\* Every commit(), close() and rollback() returns or throws, where nobody
\* calls prepareCommit on its own (commitLock, IndexWriter::startCommit).
CommitReturns ==
    \A t \in Thread :
        (op[t] \in {"commit", "close", "rollback"}) ~> (op[t] = "none")
=============================================================================
