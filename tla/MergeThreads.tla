----------------------------- MODULE MergeThreads -----------------------------
(***************************************************************************)
(* Merges: their registry in IndexWriter, the threads in which             *)
(* ConcurrentMergeScheduler runs them, and the calls that start them, wait *)
(* for them or stop them: addDocument, commit, optimize, waitForMerges,    *)
(* deleteAll, rollback and close; and addIndexes, whose transactions take  *)
(* the read/write lock and may roll back.                                  *)
(*                                                                         *)
(* An action is a section under IndexWriter's lock, or under the           *)
(* scheduler's, or the step between two.  doWait and wait(1000) let go of  *)
(* the lock and look again every second, and are guards.  What a commit    *)
(* does to files is in module IndexWriter, and here is one step; deletes   *)
(* and compound files are left out.                                        *)
(***************************************************************************)
EXTENDS Integers, FiniteSets, Sequences, SequencesExt, Functions,
        LogMergePolicy

CONSTANTS
    Thread,             \* the threads that call IndexWriter
    MergeThread,        \* as many as maxThreadCount, which run merges
    Calls,              \* the methods called
    MaxCalls,           \* bound on the calls of all threads together
    Existing,           \* how many segments, of a document each, were there
    External,           \* the documents of each segment of an added index
    MaxNumSegments,     \* the parameter of optimize
    MergeMayFail        \* a merge, or adding an index, may throw

ASSUME MergesAssumption ==
    /\ Calls \subseteq {"add", "commit", "optimize", "waitForMerges",
                        "addIndexesNoOptimize", "addIndexes", "deleteAll",
                        "rollback", "close", "closeAbort"}
    /\ MaxCalls \in Nat /\ Existing \in Nat /\ External \in Seq(Nat)
    /\ MaxNumSegments \in Nat \ {0} /\ MergeMayFail \in BOOLEAN
    \* no thread of a caller runs merges, or has the identifier that is none
    /\ Thread \cap MergeThread = {} /\ 0 \notin Thread
    /\ IsFiniteSet(Thread)

VARIABLES
    \* IndexWriter
    segmentInfos,
    counter,        \* how many segment names were given
    buffered,       \* the documents DocumentsWriter buffers
    dirty,          \* changeCount # lastCommitChangeCount
    rollbackSegmentInfos,       \* the segments of the last commit
    localRollbackSegmentInfos,  \* ... and of the start of a transaction
    reg,            \* the registry of merges, a record: see NoMerges
    segmentsToOptimize, optimizeMaxNumSegments,
    mergeGen,
    mergeExceptions,            \* an optimize merge has failed
    stopMerges, closing, closed,
    pauseThreads, docClosed,
    writeThread,
    readThreads,    \* the threads that readCount counts
    upgradeThreads, \* ... and upgradeCount
    \* each thread, that of a caller or of a merge
    pc, op, then,   \* where it is, in which call, and where it goes on
    merge,          \* the merge it runs
    existing,       \* addIndexes: the documents of the index it reads
    \* history
    calls,
    added,          \* how many documents were ever added
    txAdded,        \* ... by the transaction that runs
    expected,       \* the documents that are to be in the segments
    committed,      \* ... at the last commit
    marked          \* the documents each optimize found

infoVars   == <<segmentInfos, counter, buffered, dirty, expected, added,
                txAdded>>
commitVars == <<rollbackSegmentInfos, committed>>
optVars    == <<segmentsToOptimize, optimizeMaxNumSegments, mergeGen,
                mergeExceptions>>
closeVars  == <<stopMerges, closing, closed, pauseThreads, docClosed>>
lockVars   == <<writeThread, localRollbackSegmentInfos, readThreads,
                upgradeThreads>>
threadVars == <<pc, op, then, merge, existing, marked, calls>>
vars == <<infoVars, commitVars, reg, optVars, closeVars, lockVars,
          threadVars>>

\* How many segments optimize is to leave: addIndexes(readers) needs one
MaxSegments(t) == IF op[t] = "addIndexes" THEN 1 ELSE MaxNumSegments

AddIndexes == {"addIndexesNoOptimize", "addIndexes"}
Closing == {"rollback", "close", "closeAbort"}

Process == Thread \cup MergeThread
None == 0

NoMerges == [merges |-> <<>>, pending |-> <<>>, running |-> {}, merging |-> {}]

Names(infos) == {infos[i].name : i \in DOMAIN infos}

\* All documents of some segments, in order
Docs(infos) == FlattenSeq([i \in DOMAIN infos |-> infos[i].docs])

ExternalIn(infos) == \E i \in DOMAIN infos : infos[i].ext

-----------------------------------------------------------------------------
(***************************************************************************)
(* The registry.  merges has the OneMerge of every registered merge, by    *)
(* the name of its first segment; pending and running are pendingMerges    *)
(* and runningMerges; merging is mergingSegments.                          *)
(***************************************************************************)
Id(segs) == segs[1].name

\* A merge for optimize has the number of segments that this is to leave,
\* any other has 0
NewMerge(segs, max) ==
    [segs |-> segs, info |-> None, aborted |-> FALSE, gen |-> mergeGen,
     isExternal |-> ExternalIn(segs),
     max |-> IF Names(segs) \cap segmentsToOptimize # {}
             THEN optimizeMaxNumSegments ELSE max]

ForOptimize(m) == m.max # 0

\* ensureContiguousMerge
Contiguous(segs, infos) ==
    \E first \in DOMAIN infos :
        /\ first + Len(segs) - 1 <= Len(infos)
        /\ \A i \in DOMAIN segs : infos[first + i - 1].name = segs[i].name

\* Mutant: only the first segment must not be merged yet
MayRegisterByFirst(r, segs) == Id(segs) \notin r.merging

\* registerMerge refuses a merge when one of its segments is being merged, or
\* gone
MayRegister(r, segs) == /\ Names(segs) \cap r.merging = {}
                        /\ Names(segs) \subseteq Names(segmentInfos)

\* The merge of these segments is pending, and they are being merged
WithPending(r, segs, max) ==
    [r EXCEPT !.merges = [id \in DOMAIN @ \cup {Id(segs)} |->
                            IF id = Id(segs) THEN NewMerge(segs, max)
                            ELSE @[id]],
              !.pending = Append(@, Id(segs)),
              !.merging = @ \cup Names(segs)]

\* registerMerge of each merge that the policy proposes, one after the other
Registered(r, spec, max) ==
    LET after[i \in 0..Len(spec)] ==
            IF i = 0 THEN r
            ELSE IF MayRegister(after[i - 1], spec[i])
            THEN WithPending(after[i - 1], spec[i], max)
            ELSE after[i - 1]
    IN  after[Len(spec)]

\* The i-th pending merge becomes a running one (getNextMerge takes the first)
Started(r, i) ==
    [r EXCEPT !.pending = RemoveAt(@, i),
              !.running = @ \cup {r.pending[i]}]

\* Mutant: the segments of a merge that has ended stay reserved
FinishedMergeKeeps(r, id) ==
    [r EXCEPT !.merges = Restrict(@, DOMAIN @ \ {id}),
              !.running = @ \ {id}]

\* mergeFinish
FinishedMerge(r, id) ==
    [r EXCEPT !.merges = Restrict(@, DOMAIN @ \ {id}),
              !.running = @ \ {id},
              !.merging = @ \ (Names(r.merges[id].segs)
                                \cup {r.merges[id].info})]

\* finishMerges(false): the pending merges are aborted and finished, the
\* running ones aborted
AbortedMerges(r) ==
    LET gone == UNION {Names(r.merges[id].segs) : id \in ToSet(r.pending)}
    IN  [r EXCEPT !.merges = [id \in r.running |->
                                [r.merges[id] EXCEPT !.aborted = TRUE]],
                  !.pending = <<>>,
                  !.merging = @ \ gone]

\* What the merge policy proposes, for optimize if max is not 0
Proposed(max) ==
    IF max # 0
    THEN FindMergesForOptimize(segmentInfos, max, segmentsToOptimize)
    ELSE FindMerges(segmentInfos)

\* Mutant: merges are also registered while they are to stop
UpdatedWhenStopped(r, max) == Registered(r, Proposed(max), max)

\* updatePendingMerges
UpdatedMerges(r, max) ==
    IF stopMerges THEN r ELSE Registered(r, Proposed(max), max)

-----------------------------------------------------------------------------
(***************************************************************************)
(* The steps of a process.                                                 *)
(***************************************************************************)
GoTo(p, l) == pc' = [pc EXCEPT ![p] = l]
GoToThen(p, l, next) == /\ pc' = [pc EXCEPT ![p] = l]
                        /\ then' = [then EXCEPT ![p] = next]

Stays == UNCHANGED <<op, merge, existing, marked, calls>>

IsOpen == ~closed /\ ~closing

\* Where a call throws: inside a transaction it rolls that back
Throws(t) == IF writeThread = t THEN "rollbackTransaction" ELSE "throw"

\* Mutant: a commit, and whoever else reads, does not wait for a transaction
MayReadAlways(t) == TRUE

\* Whether a thread may read, as acquireRead waits for
MayRead(t) == writeThread \in {None, t}

MergeOf(p) == reg.merges[merge[p]]

-----------------------------------------------------------------------------
(***************************************************************************)
(* IndexWriter::merge, in a merge thread or in addIndexesNoOptimize.       *)
(***************************************************************************)
\* Whether optimize is told that the merge failed
Recorded(m) == ForOptimize(m) /\ m.gen = mergeGen

Fails(p) == IF p \in MergeThread THEN "dead" ELSE Throws(p)

\* mergeInit, by the caller of the scheduler, by a merge thread or by
\* resolveExternalSegments: the merged segment gets its name
MergeInit(p) ==
    /\ pc[p] \in {"scheduleInit", "init"}
    /\ \/ /\ IF MergeOf(p).aborted
             THEN UNCHANGED <<reg, counter>>
             ELSE /\ counter' = counter + 1
                  /\ reg' = [reg EXCEPT !.merges[merge[p]].info = counter + 1,
                                        !.merging = @ \cup {counter + 1}]
          /\ GoTo(p, IF pc[p] = "scheduleInit" THEN "stall" ELSE "work")
          /\ UNCHANGED <<merge, mergeExceptions>>
       \/ /\ MergeMayFail /\ ~MergeOf(p).aborted
          /\ reg' = FinishedMerge(reg, merge[p])
          \* in merge, but not in the scheduler's calls of mergeInit, the
          \* exception is recorded
          /\ mergeExceptions' = (\/ mergeExceptions
                                \/ /\ p \in Thread /\ pc[p] = "init"
                                   /\ Recorded(MergeOf(p)))
          /\ GoTo(p, Fails(p))
          /\ merge' = [merge EXCEPT ![p] = None]
          /\ UNCHANGED counter
    /\ UNCHANGED <<segmentInfos, buffered, dirty, expected, added, txAdded,
                   commitVars, segmentsToOptimize, optimizeMaxNumSegments,
                   mergeGen, closeVars, lockVars, op, then, existing, marked,
                   calls>>

\* mergeMiddle, as far as the new segment is written
MergeMiddle(p) ==
    /\ pc[p] = "work"
    /\ \/ ~MergeOf(p).aborted /\ GoTo(p, "commitMerge")
       \/ (MergeMayFail \/ MergeOf(p).aborted) /\ GoTo(p, "mergeFailed")
    /\ UNCHANGED <<infoVars, commitVars, reg, optVars, closeVars,
                   lockVars, then>>
    /\ Stays

\* Mutant: the merged segment goes to the end
WithMergedAtEnd(infos, m) ==
    LET other(info) == info.name \notin Names(m.segs)
    IN  Append(SelectSeq(infos, other),
               [name |-> m.info, docs |-> Docs(m.segs), ext |-> FALSE])

\* The segments without those of a merge, with the merged one in their place
WithMerged(infos, m) ==
    LET first == CHOOSE i \in DOMAIN infos : infos[i].name = Id(m.segs)
        merged == [name |-> m.info, docs |-> Docs(m.segs), ext |-> FALSE]
    IN  SubSeq(infos, 1, first - 1) \o <<merged>>
          \o SubSeq(infos, first + Len(m.segs), Len(infos))

\* commitMerge: nothing of a merge that was aborted
CommitMerge(p) ==
    /\ pc[p] = "commitMerge"
    /\ LET m == MergeOf(p) IN
       \/ /\ m.aborted
          /\ GoTo(p, "merged")
          /\ UNCHANGED <<segmentInfos, dirty, segmentsToOptimize>>
       \/ /\ ~m.aborted /\ ~Contiguous(m.segs, segmentInfos)
          /\ GoTo(p, "mergeFailed")
          /\ UNCHANGED <<segmentInfos, dirty, segmentsToOptimize>>
       \/ /\ ~m.aborted /\ Contiguous(m.segs, segmentInfos)
          /\ segmentInfos' = WithMerged(segmentInfos, m)
          /\ dirty' = TRUE
          /\ segmentsToOptimize' = segmentsToOptimize
                \cup (IF ForOptimize(m) THEN {m.info} ELSE {})
          /\ GoTo(p, "merged")
    /\ UNCHANGED <<counter, buffered, expected, added, txAdded, commitVars,
                   reg, optimizeMaxNumSegments, mergeGen, mergeExceptions,
                   closeVars, lockVars, then>>
    /\ Stays

\* merge ends well: mergeFinish, and updatePendingMerges
MergeDone(p) ==
    /\ pc[p] = "merged"
    /\ LET m == MergeOf(p)
           r == FinishedMerge(reg, merge[p])
       IN  reg' = IF m.aborted \/ closing \/ closed THEN r
                  ELSE UpdatedMerges(r, m.max)
    /\ GoTo(p, IF p \in MergeThread THEN "next" ELSE "resolveMore")
    /\ merge' = [merge EXCEPT ![p] = None]
    /\ UNCHANGED <<infoVars, commitVars, optVars,
                   closeVars, lockVars, op, then, existing,
                   marked, calls>>

\* merge ends with an exception: handleMergeException, mergeFinish.  A
\* MergeAborted is passed on only when the merge is external, any other
\* exception always, of a merge aborted meanwhile too.
MergeFailed(p) ==
    /\ pc[p] = "mergeFailed"
    /\ mergeExceptions' = (mergeExceptions \/ Recorded(MergeOf(p)))
    /\ reg' = FinishedMerge(reg, merge[p])
    /\ \/ /\ MergeMayFail \/ ~MergeOf(p).aborted \/ MergeOf(p).isExternal
          /\ GoTo(p, Fails(p))
       \/ /\ MergeOf(p).aborted /\ ~MergeOf(p).isExternal
          /\ GoTo(p, IF p \in MergeThread THEN "next" ELSE "resolveMore")
    /\ merge' = [merge EXCEPT ![p] = None]
    /\ UNCHANGED <<infoVars, commitVars, segmentsToOptimize,
                   optimizeMaxNumSegments, mergeGen, closeVars, lockVars, op,
                   then, existing, marked, calls>>

-----------------------------------------------------------------------------
(***************************************************************************)
(* ConcurrentMergeScheduler.                                               *)
(***************************************************************************)
\* MergeThread::run: the next pending merge, or the end
NextMerge(p) ==
    /\ pc[p] = "next"
    /\ IF reg.pending = <<>>
       THEN GoTo(p, "dead") /\ UNCHANGED <<reg, merge>>
       ELSE /\ reg' = Started(reg, 1)
            /\ merge' = [merge EXCEPT ![p] = reg.pending[1]]
            /\ GoTo(p, "init")
    /\ UNCHANGED <<infoVars, commitVars, optVars,
                   closeVars, lockVars, op, then, existing,
                   marked, calls>>

\* merge: the next pending merge, or the end
Schedule(t) ==
    /\ pc[t] = "schedule"
    /\ IF reg.pending = <<>>
       THEN GoTo(t, then[t]) /\ UNCHANGED <<reg, merge>>
       ELSE /\ reg' = Started(reg, 1)
            /\ merge' = [merge EXCEPT ![t] = reg.pending[1]]
            /\ GoTo(t, "scheduleInit")
    /\ UNCHANGED <<infoVars, commitVars, optVars,
                   closeVars, lockVars, op, then, existing,
                   marked, calls>>

\* merge: as soon as fewer than maxThreadCount are alive a thread is started
StartThread(t, m) ==
    /\ pc[t] = "stall" /\ pc[m] = "dead"
    /\ pc' = [pc EXCEPT ![t] = "schedule", ![m] = "work"]
    /\ merge' = [merge EXCEPT ![t] = None, ![m] = merge[t]]
    /\ UNCHANGED <<infoVars, commitVars, reg, optVars, closeVars,
                   lockVars, op, then, existing, marked, calls>>

-----------------------------------------------------------------------------
(***************************************************************************)
(* addDocument, and what all calls share.                                  *)
(***************************************************************************)
\* A call begins; deleteAll, waitForMerges and close do not look whether the
\* writer is open, but the caller must not use one that was closed
Call(t) ==
    /\ pc[t] = "idle" /\ calls < MaxCalls /\ ~closed
    /\ calls' = calls + 1
    /\ \E c \in Calls :
         /\ \/ IsOpen
            \/ c \in {"deleteAll", "waitForMerges", "close", "closeAbort"}
         /\ op' = [op EXCEPT ![t] = c]
         /\ GoTo(t, CASE c = "add" -> "addDocument"
                      [] c \in {"commit", "optimize"} -> "flush"
                      [] c \in AddIndexes -> "pause"
                      [] c = "waitForMerges" -> "acquireRead"
                      [] c = "deleteAll" -> "deleteAll"
                      [] OTHER -> "shouldClose")
         /\ then' = [then EXCEPT ![t] = CASE c = "commit" -> "commit"
                                          [] c = "optimize" -> "optMark"
                                          [] OTHER -> "return"]
    /\ UNCHANGED <<infoVars, commitVars, reg, optVars, closeVars, lockVars,
                   merge, existing, marked>>

\* DocumentsWriter::addDocument; the document may fill the buffer
AddDocument(t) ==
    /\ pc[t] = "addDocument" /\ (pauseThreads = 0 \/ docClosed)
    /\ IF docClosed THEN GoTo(t, "throw") /\ UNCHANGED buffered
       ELSE /\ buffered' = buffered + 1
            /\ GoTo(t, "flush") \/ GoTo(t, "return")
    /\ UNCHANGED <<segmentInfos, counter, dirty, expected, added, txAdded,
                   commitVars, reg, optVars, closeVars, lockVars, then>>
    /\ Stays

\* Whether a flush may start merges: all but that of close(false) and rollback
TriggersMerge(t) == op[t] \notin {"rollback", "closeAbort"}

\* doFlush: the buffered documents become a segment
Flush(t) ==
    /\ pc[t] = "flush"
    /\ IF closed
       THEN GoTo(t, "throw") /\ UNCHANGED infoVars
       ELSE IF buffered = 0
       THEN GoTo(t, then[t]) /\ UNCHANGED infoVars
       ELSE LET new == [i \in 1..buffered |-> added + i] IN
            /\ segmentInfos' = Append(segmentInfos,
                    [name |-> counter + 1, docs |-> new, ext |-> FALSE])
            /\ counter' = counter + 1
            /\ buffered' = 0 /\ dirty' = TRUE
            /\ added' = added + buffered /\ UNCHANGED txAdded
            /\ expected' = expected \o new
            /\ GoTo(t, IF TriggersMerge(t) THEN "update" ELSE then[t])
    /\ UNCHANGED <<commitVars, reg, optVars, closeVars, lockVars, then>>
    /\ Stays

\* maybeMerge, as far as the scheduler
UpdatePendingMerges(t) ==
    /\ pc[t] = "update"
    /\ reg' = UpdatedMerges(reg,
                  IF then[t] = "optWait" THEN MaxSegments(t) ELSE 0)
    /\ GoTo(t, "schedule")
    /\ UNCHANGED <<infoVars, commitVars, optVars, closeVars, lockVars, then>>
    /\ Stays

\* commit, without the flush that comes first: the segments are committed when
\* no transaction runs
Commit(t) ==
    /\ pc[t] = "commit" /\ MayRead(t)
    /\ IF closed
       THEN GoTo(t, "throw") /\ UNCHANGED <<commitVars, dirty>>
       ELSE /\ GoTo(t, IF op[t] = "commit" THEN "return" ELSE "closed")
            /\ IF dirty
               THEN /\ rollbackSegmentInfos' = segmentInfos
                    /\ committed' = expected
                    /\ dirty' = FALSE
               ELSE UNCHANGED <<commitVars, dirty>>
    /\ UNCHANGED <<segmentInfos, counter, buffered, expected, added, txAdded,
                   reg, optVars, closeVars, lockVars, then>>
    /\ Stays

\* Mutant: addIndexes does not resume the indexing threads
ResumesDeleteAll(t) == op[t] = "deleteAll"

\* Whether a call that ends resumes the indexing threads it has paused
Resumes(t) ==
    \/ op[t] \in AddIndexes \cup {"deleteAll"}
    \/ op[t] \in Closing /\ pc[t] = "throw"

\* A call ends, with an exception or without: addIndexes resumes the indexing
\* threads and lets go of its read lock, and when closing has failed the writer
\* is open again
Leave(t) ==
    /\ pc[t] \in {"return", "throw"}
    /\ pc' = [pc EXCEPT ![t] = "idle"]
    /\ op' = [op EXCEPT ![t] = "none"]
    /\ then' = [then EXCEPT ![t] = "return"]
    /\ existing' = [existing EXCEPT ![t] = <<>>]
    /\ marked' = [marked EXCEPT ![t] = {}]
    /\ readThreads' = readThreads \ {t}
    /\ pauseThreads' = pauseThreads - (IF Resumes(t) THEN 1 ELSE 0)
    /\ closing' = (closing /\ ~(pc[t] = "throw" /\ op[t] \in Closing))
    /\ UNCHANGED <<infoVars, commitVars, reg, optVars, stopMerges, closed,
                   docClosed, writeThread, localRollbackSegmentInfos,
                   upgradeThreads, merge, calls>>

-----------------------------------------------------------------------------
(***************************************************************************)
(* optimize.                                                               *)
(***************************************************************************)
\* The segments are to be optimized, and the merges there are count as such
OptimizeMark(t) ==
    /\ pc[t] = "optMark"
    /\ mergeExceptions' = FALSE /\ mergeGen' = mergeGen + 1
    /\ segmentsToOptimize' = Names(segmentInfos)
    /\ optimizeMaxNumSegments' = MaxSegments(t)
    /\ reg' = [reg EXCEPT !.merges = [id \in DOMAIN reg.merges |->
                    [reg.merges[id] EXCEPT !.max = MaxSegments(t)]]]
    /\ marked' = [marked EXCEPT ![t] = ToSet(Docs(segmentInfos))]
    /\ GoToThen(t, "update", "optWait")
    /\ UNCHANGED <<infoVars, commitVars, closeVars, lockVars, op, merge,
                   existing, calls>>

\* Mutant: the running merges do not count
OptimizeMergesQueued ==
    \E i \in DOMAIN reg.pending : ForOptimize(reg.merges[reg.pending[i]])

OptimizeMergesPending ==
    \E id \in DOMAIN reg.merges : ForOptimize(reg.merges[id])

OptimizeWait(t) ==
    /\ pc[t] = "optWait" /\ (mergeExceptions \/ ~OptimizeMergesPending)
    /\ GoTo(t, IF mergeExceptions \/ ~IsOpen THEN "throw"
               ELSE IF op[t] = "optimize" THEN "return"
               ELSE "startTransaction")
    /\ UNCHANGED <<infoVars, commitVars, reg, optVars, closeVars, lockVars,
                   then>>
    /\ Stays

-----------------------------------------------------------------------------
(***************************************************************************)
(* addIndexesNoOptimize and addIndexes(readers).                           *)
(***************************************************************************)
Sum(seq) ==
    LET sum[i \in 0..Len(seq)] == IF i = 0 THEN 0 ELSE sum[i - 1] + seq[i]
    IN  sum[Len(seq)]

PauseAllThreads(t) ==
    /\ pc[t] = "pause"
    /\ pauseThreads' = pauseThreads + 1
    /\ \/ op[t] = "addIndexes" /\ GoToThen(t, "acquireRead", "optMark")
       \/ /\ op[t] = "addIndexesNoOptimize"
          /\ GoToThen(t, "flush", "startTransaction")
       \/ op[t] = "rollback" /\ GoToThen(t, "finishMerges", "revert")
    /\ UNCHANGED <<infoVars, commitVars, reg, optVars, stopMerges, closing,
                   closed, docClosed, lockVars, op, merge, existing, marked,
                   calls>>

\* acquireRead, of addIndexes(readers) and of waitForMerges; the latter lets
\* go of it at once
AcquireRead(t) ==
    /\ pc[t] = "acquireRead" /\ MayRead(t)
    /\ IF op[t] = "addIndexes"
       THEN GoTo(t, "flush") /\ readThreads' = readThreads \cup {t}
       ELSE GoTo(t, "waitForMerges") /\ UNCHANGED readThreads
    /\ UNCHANGED <<infoVars, commitVars, reg, optVars, closeVars, writeThread,
                   localRollbackSegmentInfos, upgradeThreads, then>>
    /\ Stays

\* The transaction begins
TakesLock(t) ==
    /\ writeThread' = t
    /\ localRollbackSegmentInfos' = segmentInfos
    /\ GoTo(t, "addExternal")

\* Mutant: who has upgraded its lock still counts as upgrading
UpgradesForEver(t) ==
    IF writeThread = None /\ readThreads \subseteq upgradeThreads \cup {t}
    THEN /\ TakesLock(t)
         /\ readThreads' = readThreads \ {t}
         /\ UNCHANGED upgradeThreads
    ELSE /\ upgradeThreads' = upgradeThreads \cup {t}
         /\ GoTo(t, "acquireWrite")
         /\ UNCHANGED <<writeThread, readThreads, localRollbackSegmentInfos>>

\* upgradeReadToWrite, once all other readers upgrade as well
UpgradeReadToWrite(t) ==
    IF writeThread = None /\ readThreads \subseteq upgradeThreads \cup {t}
    THEN /\ TakesLock(t)
         /\ readThreads' = readThreads \ {t}
         /\ upgradeThreads' = upgradeThreads \ {t}
    ELSE /\ upgradeThreads' = upgradeThreads \cup {t}
         /\ GoTo(t, "acquireWrite")
         /\ UNCHANGED <<writeThread, readThreads, localRollbackSegmentInfos>>

\* acquireWrite, which looks again whether the writer is open
AcquireWrite(t) ==
    /\ IF writeThread = None /\ readThreads = {} /\ IsOpen
       THEN TakesLock(t)
       ELSE /\ GoTo(t, IF writeThread # None \/ readThreads # {}
                       THEN "acquireWrite" ELSE "throw")
            /\ UNCHANGED <<writeThread, localRollbackSegmentInfos>>
    /\ UNCHANGED <<readThreads, upgradeThreads>>

\* The end of startTransaction
TakesWriteLock(t) ==
    IF t \in readThreads THEN UpgradeReadToWrite(t) ELSE AcquireWrite(t)

\* startTransaction waits while another one rolls back or a call aborts merges
StartTransaction(t) ==
    /\ \/ /\ pc[t] = "startTransaction"
          /\ IF ~IsOpen THEN GoTo(t, "throw") /\ UNCHANGED lockVars
             ELSE IF stopMerges THEN GoTo(t, "startWait") /\ UNCHANGED lockVars
             ELSE TakesWriteLock(t)
       \/ /\ pc[t] = "startWait" /\ ~stopMerges
          /\ TakesWriteLock(t)
       \/ /\ pc[t] = "acquireWrite" /\ writeThread = None
          /\ readThreads \subseteq upgradeThreads
          /\ TakesWriteLock(t)
    /\ UNCHANGED <<infoVars, commitVars, reg, optVars, closeVars, then>>
    /\ Stays

\* The segments of another index are added; it may fail to be read
AddExternal(t) ==
    /\ pc[t] = "addExternal" /\ op[t] = "addIndexesNoOptimize"
    /\ \/ /\ ~IsOpen \/ MergeMayFail
          /\ GoTo(t, "rollbackTransaction")
          /\ UNCHANGED <<infoVars, then>>
       \/ /\ IsOpen
          /\ LET before(i) == added + Sum(SubSeq(External, 1, i - 1))
                 new == [i \in DOMAIN External |->
                           [name |-> counter + i, ext |-> TRUE,
                            docs |-> [k \in 1..External[i] |-> before(i) + k]]]
             IN  /\ segmentInfos' = segmentInfos \o new
                 /\ expected' = expected \o Docs(new)
                 /\ added' = added + Sum(External)
                 /\ txAdded' = ToSet(Docs(new))
          /\ counter' = counter + Len(External)
          /\ GoToThen(t, "update", "txResolve")
          /\ UNCHANGED <<buffered, dirty>>
    /\ UNCHANGED <<commitVars, reg, optVars, closeVars, lockVars>>
    /\ Stays

\* ensureOpen, between the parts of addIndexesNoOptimize
TransactionOpen(t) ==
    /\ pc[t] \in {"txResolve", "txCommit"}
    /\ GoTo(t, IF ~IsOpen THEN "rollbackTransaction"
               ELSE IF pc[t] = "txResolve" THEN "resolve"
               ELSE "commitTransaction")
    /\ UNCHANGED <<infoVars, commitVars, reg, optVars, closeVars, lockVars,
                   then>>
    /\ Stays

\* The external segments that are not being merged, and the pending merges
\* that have external segments
FreeExternal ==
    {i \in DOMAIN segmentInfos : segmentInfos[i].ext
                              /\ segmentInfos[i].name \notin reg.merging}

PendingExternal ==
    {i \in DOMAIN reg.pending : reg.merges[reg.pending[i]].isExternal}

Least(S) == CHOOSE i \in S : \A j \in S : i <= j

\* resolveExternalSegments: an external segment that is not being merged is
\* merged by itself, which copies it; then a pending merge with external
\* segments is run; else the thread waits
ResolveExternal(t) ==
    /\ pc[t] \in {"resolve", "resolveMore"}
    /\ IF stopMerges
       THEN GoTo(t, "rollbackTransaction") /\ UNCHANGED <<reg, merge, then>>
       ELSE IF ~ExternalIn(segmentInfos)
       THEN /\ GoTo(t, IF pc[t] = "resolve" THEN "txCommit" ELSE "schedule")
            /\ then' = [then EXCEPT ![t] = "txCommit"]
            /\ UNCHANGED <<reg, merge>>
       ELSE /\ UNCHANGED then
            /\ GoTo(t, "init")
            /\ IF FreeExternal # {}
               THEN LET one == <<segmentInfos[Least(FreeExternal)]>>
                        r == WithPending(reg, one, 0)
                    IN  /\ reg' = Started(r, Len(r.pending))
                        /\ merge' = [merge EXCEPT ![t] = Id(one)]
               ELSE /\ PendingExternal # {}
                    /\ LET i == Least(PendingExternal)
                       IN  /\ reg' = Started(reg, i)
                           /\ merge' = [merge EXCEPT ![t] = reg.pending[i]]
    /\ UNCHANGED <<infoVars, commitVars, optVars, closeVars, lockVars, op,
                   existing, marked, calls>>

\* addIndexes(readers) reads the one segment there is, and then puts the
\* merged one in the place of all
ReadersGet(t) ==
    /\ pc[t] = "addExternal" /\ op[t] = "addIndexes"
    /\ existing' = [existing EXCEPT ![t] =
          IF Len(segmentInfos) = 1 THEN segmentInfos[1].docs ELSE <<>>]
    /\ GoTo(t, "readersPut")
    /\ UNCHANGED <<infoVars, commitVars, reg, optVars, closeVars, lockVars, op,
                   then, merge, marked, calls>>

ReadersPut(t) ==
    /\ pc[t] = "readersPut"
    /\ \/ /\ MergeMayFail
          /\ GoTo(t, "rollbackTransaction")
          /\ UNCHANGED infoVars
       \/ /\ LET new == [k \in 1..Sum(External) |-> added + k]
             IN  /\ segmentInfos' = <<[name |-> counter + 1, ext |-> FALSE,
                                       docs |-> existing[t] \o new]>>
                 /\ expected' = expected \o new
                 /\ added' = added + Len(new)
                 /\ txAdded' = ToSet(new)
          /\ counter' = counter + 1
          /\ GoTo(t, "commitTransaction")
          /\ UNCHANGED <<buffered, dirty>>
    /\ UNCHANGED <<commitVars, reg, optVars, closeVars, lockVars, then>>
    /\ Stays

CommitTransaction(t) ==
    /\ pc[t] = "commitTransaction"
    /\ dirty' = TRUE /\ txAdded' = {}
    /\ writeThread' = None /\ localRollbackSegmentInfos' = <<>>
    /\ GoTo(t, "return")
    /\ UNCHANGED <<segmentInfos, counter, buffered, expected, added,
                   commitVars, reg, optVars, closeVars, readThreads,
                   upgradeThreads, then>>
    /\ Stays
-----------------------------------------------------------------------------
(***************************************************************************)
(* finishMerges(false), which a call that takes segments away makes first; *)
(* rollbackTransaction and deleteAll do the rest under the same lock.      *)
(***************************************************************************)
\* A sequence without the elements of a set
Without(s, S) ==
    LET w[i \in 0..Len(s)] ==
            IF i = 0 THEN <<>>
            ELSE IF s[i] \in S THEN w[i - 1] ELSE Append(w[i - 1], s[i])
    IN  w[Len(s)]

\* Mutant: rollbackTransaction keeps the segments
RolledBackNothing ==
    /\ expected' = Without(expected, txAdded)
    /\ txAdded' = {}
    /\ writeThread' = None /\ localRollbackSegmentInfos' = <<>>
    /\ UNCHANGED <<segmentInfos, counter, buffered, dirty, added>>

\* The end of rollbackTransaction: the segments are those of its start
RolledBack ==
    /\ segmentInfos' = localRollbackSegmentInfos
    /\ expected' = Without(expected, txAdded)
    /\ txAdded' = {}
    /\ writeThread' = None /\ localRollbackSegmentInfos' = <<>>
    /\ UNCHANGED <<counter, buffered, dirty, added>>

\* The end of deleteAll
AllDeleted ==
    /\ segmentInfos' = <<>> /\ expected' = <<>>
    /\ buffered' = 0 /\ dirty' = TRUE
    /\ UNCHANGED <<counter, added, txAdded, writeThread,
                   localRollbackSegmentInfos>>

\* All merges have ended, and the call goes on
MergesFinished(t) ==
    /\ stopMerges' = FALSE
    /\ IF writeThread = t THEN RolledBack /\ GoTo(t, "throw")
       ELSE IF op[t] = "deleteAll" THEN AllDeleted /\ GoTo(t, "return")
       ELSE /\ GoTo(t, IF then[t] = "revert" THEN "sync" ELSE "closeStop")
            /\ UNCHANGED <<infoVars, writeThread, localRollbackSegmentInfos>>

\* Pending merges are given up, and the running ones told to
FinishMerges(t) ==
    /\ pc[t] \in {"finishMerges", "rollbackTransaction", "deleteAll"}
    /\ reg' = AbortedMerges(reg)
    /\ pauseThreads' = pauseThreads + (IF pc[t] = "deleteAll" THEN 1 ELSE 0)
    /\ IF MayRead(t) /\ reg.running = {}
       THEN MergesFinished(t)
       ELSE /\ stopMerges' = TRUE
            /\ GoTo(t, IF MayRead(t) THEN "finishWait" ELSE "finishRead")
            /\ UNCHANGED <<infoVars, writeThread, localRollbackSegmentInfos>>
    /\ UNCHANGED <<commitVars, optVars, closing, closed, docClosed,
                   readThreads, upgradeThreads, then>>
    /\ Stays

\* ... and it waits for transactions, then for the running merges
FinishMergesWait(t) ==
    /\ \/ pc[t] = "finishRead" /\ MayRead(t)
       \/ pc[t] = "finishWait" /\ reg.running = {}
    /\ IF reg.running = {}
       THEN MergesFinished(t)
       ELSE /\ GoTo(t, "finishWait")
            /\ UNCHANGED <<infoVars, stopMerges, writeThread,
                           localRollbackSegmentInfos>>
    /\ UNCHANGED <<commitVars, reg, optVars, closing, closed, pauseThreads,
                   docClosed, readThreads, upgradeThreads, then>>
    /\ Stays

-----------------------------------------------------------------------------
(***************************************************************************)
(* waitForMerges, rollback and close.                                      *)
(***************************************************************************)
WaitForMerges(t) ==
    /\ pc[t] = "waitForMerges" /\ reg.pending = <<>> /\ reg.running = {}
    /\ GoTo(t, IF op[t] = "close" THEN "closeStop" ELSE "return")
    /\ UNCHANGED <<infoVars, commitVars, reg, optVars, closeVars, lockVars,
                   then>>
    /\ Stays

\* One thread closes; the others wait whether it succeeds
ShouldClose(t) ==
    /\ pc[t] = "shouldClose" /\ (closed \/ ~closing)
    /\ closing' = ~closed
    /\ GoTo(t, IF closed THEN "return"
               ELSE IF op[t] = "rollback" THEN "pause" ELSE "closeInternal")
    /\ UNCHANGED <<infoVars, commitVars, reg, optVars, stopMerges, closed,
                   pauseThreads, docClosed, lockVars, then>>
    /\ Stays

AllDead == \A m \in MergeThread : pc[m] = "dead"

\* mergeScheduler->close
SyncThreads(t) ==
    /\ pc[t] \in {"sync", "closeSync"} /\ AllDead
    /\ GoTo(t, IF pc[t] = "sync" THEN "revert" ELSE "commit")
    /\ UNCHANGED <<infoVars, commitVars, reg, optVars, closeVars, lockVars,
                   then>>
    /\ Stays

\* Mutant: the buffered documents stay
RevertBuffered(t) ==
    /\ pc[t] = "revert"
    /\ segmentInfos' = rollbackSegmentInfos /\ expected' = committed
    /\ GoTo(t, "recount")
    /\ UNCHANGED <<counter, buffered, dirty, added, txAdded, commitVars, reg,
                   optVars, closeVars, lockVars, then>>
    /\ Stays

\* rollbackInternal: the segments are those of the last commit
Revert(t) ==
    /\ pc[t] = "revert"
    /\ segmentInfos' = rollbackSegmentInfos /\ expected' = committed
    /\ buffered' = 0
    /\ GoTo(t, "recount")
    /\ UNCHANGED <<counter, dirty, added, txAdded, commitVars, reg, optVars,
                   closeVars, lockVars, then>>
    /\ Stays

\* ... and no change is left to commit
Recount(t) ==
    /\ pc[t] = "recount"
    /\ dirty' = FALSE
    /\ GoTo(t, "closeInternal")
    /\ UNCHANGED <<segmentInfos, counter, buffered, added, txAdded, expected,
                   commitVars, reg, optVars, closeVars, lockVars, then>>
    /\ Stays

\* closeInternal closes the DocumentsWriter and flushes
CloseInternal(t) ==
    /\ pc[t] = "closeInternal"
    /\ pauseThreads' = pauseThreads + 1 /\ docClosed' = TRUE
    /\ GoToThen(t, "flush",
                IF op[t] = "close" THEN "closeMerges" ELSE "finishMerges")
    /\ UNCHANGED <<infoVars, commitVars, reg, optVars, stopMerges, closing,
                   closed, lockVars, op, merge, existing, marked, calls>>

\* ... has the pending merges run, if it is to wait for them
CloseMerges(t) ==
    /\ pc[t] = "closeMerges"
    /\ GoToThen(t, "schedule", "acquireRead")
    /\ UNCHANGED <<infoVars, commitVars, reg, optVars, closeVars, lockVars, op,
                   merge, existing, marked, calls>>

\* ... and then allows no more
CloseStop(t) ==
    /\ pc[t] = "closeStop"
    /\ stopMerges' = TRUE
    /\ GoTo(t, "closeSync")
    /\ UNCHANGED <<infoVars, commitVars, reg, optVars, closing, closed,
                   pauseThreads, docClosed, lockVars, then>>
    /\ Stays

Closed(t) ==
    /\ pc[t] = "closed"
    /\ closed' = TRUE /\ closing' = FALSE
    /\ GoTo(t, "return")
    /\ UNCHANGED <<infoVars, commitVars, reg, optVars, stopMerges,
                   pauseThreads, docClosed, lockVars, then>>
    /\ Stays

-----------------------------------------------------------------------------
Init ==
    /\ segmentInfos = [i \in 1..Existing |->
                         [name |-> i, docs |-> <<i>>, ext |-> FALSE]]
    /\ counter = Existing /\ added = Existing
    /\ buffered = 0 /\ dirty = FALSE /\ txAdded = {}
    /\ expected = [i \in 1..Existing |-> i]
    /\ rollbackSegmentInfos = segmentInfos /\ committed = expected
    /\ reg = NoMerges
    /\ segmentsToOptimize = {} /\ optimizeMaxNumSegments = 0 /\ mergeGen = 0
    /\ mergeExceptions = FALSE
    /\ stopMerges = FALSE /\ closing = FALSE /\ closed = FALSE
    /\ pauseThreads = 0 /\ docClosed = FALSE
    /\ writeThread = None /\ localRollbackSegmentInfos = <<>>
    /\ readThreads = {} /\ upgradeThreads = {}
    /\ pc = [p \in Process |-> IF p \in Thread THEN "idle" ELSE "dead"]
    /\ op = [t \in Thread |-> "none"]
    /\ then = [t \in Thread |-> "return"]
    /\ merge = [p \in Process |-> None]
    /\ existing = [t \in Thread |-> <<>>]
    /\ marked = [t \in Thread |-> {}]
    /\ calls = 0

\* A step of a merge, in whichever thread
MergeStep(p) ==
    \/ MergeInit(p) \/ MergeMiddle(p) \/ CommitMerge(p) \/ MergeDone(p)
    \/ MergeFailed(p)

\* A step of a call that is under way
CallStep(t) ==
    \/ AddDocument(t) \/ Flush(t) \/ UpdatePendingMerges(t) \/ Commit(t)
    \/ Leave(t) \/ OptimizeMark(t) \/ OptimizeWait(t)
    \/ PauseAllThreads(t) \/ AcquireRead(t) \/ StartTransaction(t)
    \/ AddExternal(t) \/ TransactionOpen(t) \/ ResolveExternal(t)
    \/ ReadersGet(t) \/ ReadersPut(t) \/ CommitTransaction(t)
    \/ FinishMerges(t) \/ FinishMergesWait(t) \/ WaitForMerges(t)
    \/ ShouldClose(t) \/ SyncThreads(t) \/ Revert(t) \/ Recount(t)
    \/ CloseInternal(t) \/ CloseMerges(t) \/ CloseStop(t) \/ Closed(t)
    \/ Schedule(t) \/ \E m \in MergeThread : StartThread(t, m)

Next ==
    \/ \E t \in Thread : Call(t) \/ CallStep(t)
    \/ \E p \in Process : MergeStep(p)
    \/ \E m \in MergeThread : NextMerge(m)

Spec == Init /\ [][Next]_vars

\* A thread in a call goes on, and so does one that merges: waits look again
\* every second, and the threads are scheduled fairly
FairSpec ==
    /\ Spec
    /\ \A t \in Thread : WF_vars(CallStep(t) \/ MergeStep(t))
    /\ \A m \in MergeThread : WF_vars(NextMerge(m) \/ MergeStep(m))

-----------------------------------------------------------------------------
(***************************************************************************)
(* Properties.                                                             *)
(***************************************************************************)
Infos == Seq([name : Nat, docs : Seq(Nat), ext : BOOLEAN])

\* The types of the variables; newSegmentName gives each name before it is
\* used; and whoever upgrades its lock in upgradeReadToWrite still reads
TypeOK ==
    /\ {segmentInfos, rollbackSegmentInfos, localRollbackSegmentInfos}
          \subseteq Infos
    /\ \A n \in Names(segmentInfos) \cup reg.merging : n \in 1..counter
    /\ {counter, buffered, added, mergeGen, pauseThreads} \subseteq Nat
    /\ {dirty, mergeExceptions, stopMerges, closing, closed, docClosed}
          \subseteq BOOLEAN
    /\ writeThread \in Thread \cup {None}
    /\ upgradeThreads \subseteq readThreads /\ readThreads \subseteq Thread
    /\ op \in [Thread -> Calls \cup {"none"}]
    /\ merge \in [Process -> Nat]
    /\ calls \in 0..MaxCalls

\* commitMerge, commitTransaction, rollbackTransaction, rollbackInternal and
\* deleteAll lose no document, add none twice and keep them in order, whatever
\* the other threads do meanwhile
DocsKept == Docs(segmentInfos) = expected

\* A merge is registered once, from registerMerge to mergeFinish, either
\* pending or running; mergingSegments has the segments of these merges and
\* what becomes of them, and no segment is in two merges
RegistryConsistent ==
    LET ids == DOMAIN reg.merges
        segs(id) == Names(reg.merges[id].segs)
    IN  /\ ToSet(reg.pending) \cup reg.running = ids
        /\ ToSet(reg.pending) \cap reg.running = {}
        /\ Len(reg.pending) = Cardinality(ToSet(reg.pending))
        /\ \A p \in Process : merge[p] \in reg.running \cup {None}
        /\ reg.merging = (UNION {segs(id) : id \in ids})
                          \cup ({reg.merges[id].info : id \in ids} \ {None})
        /\ \A a, b \in ids : a # b => segs(a) \cap segs(b) = {}

\* The segments of a merge that was not aborted are next to each other until
\* commitMerge has replaced them, whatever was flushed, merged, added or rolled
\* back since registerMerge: ensureContiguousMerge throws for no merge.  Not so
\* while the writer closes, when rollback has put the segments back
MergesCanCommit ==
    \A id \in DOMAIN reg.merges :
        LET m == reg.merges[id] IN
        \/ closing \/ m.aborted \/ m.info \in Names(segmentInfos)
        \/ Contiguous(m.segs, segmentInfos)

\* Segments in another directory are in the index only from the start to the
\* end of a transaction of addIndexesNoOptimize, and in no commit, as
\* startCommit asserts
NoExternal ==
    /\ ExternalIn(segmentInfos) => writeThread # None
    /\ ~ExternalIn(rollbackSegmentInfos)

\* When finishMerges(false) ends, no segment is being merged, as it asserts,
\* unless another finishMerges has cleared stopMerges meanwhile
MergesStopped ==
    [][\A t \in Thread :
         LET finishing == {"finishRead", "finishWait"} IN
         stopMerges /\ pc[t] \in finishing /\ pc'[t] \notin finishing
            => reg'.merging = {}]_vars

\* addIndexes(readers) finds at most one segment when it replaces them all, as
\* the comment on its optimize says
AtMostOneSegment ==
    \A t \in Thread :
        pc[t] = "addExternal" /\ op[t] = "addIndexes"
            => Len(segmentInfos) <= 1

\* What optimize found is in few enough segments
Optimized(t) ==
    Cardinality({i \in DOMAIN segmentInfos :
                   ToSet(segmentInfos[i].docs) \cap marked[t] # {}})
        <= MaxSegments(t)

\* When optimize returns, other than by an exception, the segments it has found
\* are merged into as few as it promises, though other calls have merges of
\* their own, re-mark its merges and register more
OptimizeDone ==
    [][\A t \in Thread :
         pc[t] = "optWait" /\ pc'[t] \notin {"optWait", "throw"}
            => Optimized(t)]_vars

\* rollback leaves the last commit as it was: the commit of closeInternal has
\* nothing to commit, whatever other threads did since rollbackInternal put the
\* segments back
RollbackReverts ==
    [][\A t \in Thread :
         pc[t] = "commit" /\ op[t] = "rollback" /\ pc'[t] # "commit"
            => committed' = committed]_vars

\* Every call returns: the waits of optimize, waitForMerges, finishMerges,
\* resolveExternalSegments, acquireRead, upgradeReadToWrite, the scheduler and
\* close end
MergeCallsReturn == \A t \in Thread : pc[t] # "idle" ~> pc[t] = "idle"

=============================================================================
