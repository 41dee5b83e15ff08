--------------------------- MODULE DocumentsThreads ---------------------------
(***************************************************************************)
(* The threads that add, update and delete documents through one           *)
(* DocumentsWriter, while others flush, commit, delete everything or close *)
(* the IndexWriter, and documents fail.                                    *)
(*                                                                         *)
(* Each action is a section that runs under DocumentsWriter's lock, or the *)
(* unlocked step between two; a wait lets go of the lock and looks again   *)
(* every second, and is a guard.  IndexWriter's own lock is the variable   *)
(* ixLock, since a thread that flushes holds it while it waits for the     *)
(* others.  A document is its number among all that were ever started.     *)
(* Merges, which flush may start, and the commit of close are in other     *)
(* modules.                                                                *)
(***************************************************************************)
EXTENDS Integers, FiniteSets, Sequences, WaitQueue

CONSTANTS
    Thread,             \* the threads
    Calls,              \* the methods they call
    MaxCalls,           \* bound on the calls of all threads together
    MAX_THREAD_STATE,
    QueueSize,          \* the first size of the ring
    PauseBytes, ResumeBytes,
    MaxBufferedDocs, MaxBufferedDeletes,
    RAMMayFill,         \* the documents may use up the RAM buffer
    DocMayFail,         \* a document may fail by itself
    MayAbort,           \* a document, or its writing, may fail all buffered
    FlushMayFail        \* writing a segment may throw

ASSUME DocumentsAssumption ==
    /\ IsFiniteSet(Thread)
    /\ Calls \subseteq {"add", "update", "delete", "commit", "deleteAll",
                        "close"}
    /\ MaxCalls \in Nat /\ MAX_THREAD_STATE \in Nat \ {0}
    /\ QueueSize \in Nat \ {0} /\ PauseBytes \in Nat /\ ResumeBytes \in Nat
    /\ MaxBufferedDocs \in Nat \ {0} /\ MaxBufferedDeletes \in Nat \ {0}
    /\ {RAMMayFill, DocMayFail, MayAbort, FlushMayFail} \subseteq BOOLEAN

VARIABLES
    \* DocumentsWriter
    threadStates,   \* the DocumentsWriterThreadStates, in order
    threadBindings, \* the state of each thread, or None
    waitQueue,
    nextDocID,
    pauseThreads, flushPending, aborting, bufferIsFull,
    docClosed,      \* DocumentsWriter::closed
    deletes,        \* how many deletes are buffered
    deletedDocIDs,  \* the buffered deletes of failed documents
    store,          \* the documents written since the last flush
    \* IndexWriter
    ixLock, closing, closed,
    \* each thread
    pc, op,
    state,          \* the DocumentsWriterThreadState it works with
    calls,
    \* history
    started,        \* how many documents were ever started
    docs,           \* the documents that were given numbers, by number
    flushed         \* the documents of the segments

bufferVars == <<waitQueue, nextDocID, deletedDocIDs, store, docs>>
stateVars  == <<threadStates, threadBindings>>
flagVars   == <<pauseThreads, flushPending, aborting, bufferIsFull>>
writerVars == <<ixLock, closing, closed, docClosed>>
vars == <<bufferVars, stateVars, flagVars, writerVars, deletes, pc, op, state,
          calls, started, flushed>>

None == 0       \* no thread (a thread is not a number), no state

PCs == {"idle", "ready", "process", "finish", "queue", "failed", "abort",
        "skipAbort", "error", "return", "flush", "flushing", "flushed",
        "flushFailed", "wipe", "drain"}

ThreadState == [isIdle: BOOLEAN, doFlushAfter: BOOLEAN, numThreads: Nat,
                docID: Nat]

TypeOK ==
    /\ threadStates \in Seq(ThreadState)
    /\ Len(threadStates) <= MAX_THREAD_STATE
    /\ threadBindings \in [Thread -> 0..Len(threadStates)]
    /\ \A i \in DOMAIN waitQueue.waiting :
          waitQueue.waiting[i] \in {NoDoc, SkipDoc} \cup 1..started
    /\ nextDocID \in Nat /\ pauseThreads \in Nat /\ deletes \in Nat
    /\ {flushPending, aborting, bufferIsFull, docClosed, closing, closed}
         \subseteq BOOLEAN
    /\ deletedDocIDs \subseteq 0..nextDocID
    /\ ixLock \in Thread \cup {None}
    /\ pc \in [Thread -> PCs]
    /\ op \in [Thread -> Calls \cup {"none"}]
    /\ state \in [Thread -> 0..MAX_THREAD_STATE]
    /\ calls \in 0..MaxCalls
    /\ started \in Nat

-----------------------------------------------------------------------------
GoTo(t, p) == pc' = [pc EXCEPT ![t] = p]

\* A thread's call is over
Leave(t) ==
    /\ pc' = [pc EXCEPT ![t] = "idle"]
    /\ op' = [op EXCEPT ![t] = "none"]
    /\ state' = [state EXCEPT ![t] = None]

AllThreadsIdle == \A s \in DOMAIN threadStates : threadStates[s].isIdle

\* The state that the fewest threads use, the first of them
MinThreadState ==
    CHOOSE s \in DOMAIN threadStates :
        \A r \in DOMAIN threadStates :
            \/ threadStates[s].numThreads < threadStates[r].numThreads
            \/ threadStates[s].numThreads = threadStates[r].numThreads /\ s <= r

NewThreadState == [isIdle |-> TRUE, doFlushAfter |-> FALSE, numThreads |-> 1,
                   docID |-> 0]

\* waitReady's condition to go on
WaitReady(s) ==
    \/ docClosed
    \/ /\ s # None => threadStates[s].isIdle
       /\ pauseThreads = 0 /\ ~flushPending /\ ~aborting

DeletesFull == deletes >= MaxBufferedDeletes

\* timeToFlushDeletes, when it sets flushPending
TimeToFlushDeletes == (bufferIsFull \/ DeletesFull) /\ ~flushPending

-----------------------------------------------------------------------------
(***************************************************************************)
(* Adding a document: getThreadState, processDocument, finishDocument.     *)
(***************************************************************************)
MayCall(t, o) == /\ pc[t] = "idle" /\ o \in Calls /\ calls < MaxCalls
                 /\ ~closing /\ ~closed

Begin(t, o, p) ==
    /\ pc' = [pc EXCEPT ![t] = p]
    /\ op' = [op EXCEPT ![t] = o]
    /\ calls' = calls + 1

\* addDocument, updateDocument, as far as the thread's state is found
Bind(t, o) ==
    /\ o \in {"add", "update"} /\ MayCall(t, o) /\ Begin(t, o, "ready")
    /\ LET use(s) == /\ threadBindings' = [threadBindings EXCEPT ![t] = s]
                     /\ state' = [state EXCEPT ![t] = s]
       IN  IF threadBindings[t] # None
           THEN use(threadBindings[t]) /\ UNCHANGED threadStates
           ELSE IF threadStates # <<>>
                   /\ \/ threadStates[MinThreadState].numThreads = 0
                      \/ Len(threadStates) >= MAX_THREAD_STATE
           THEN /\ use(MinThreadState)
                /\ threadStates' =
                     [threadStates EXCEPT ![MinThreadState].numThreads = @ + 1]
           ELSE /\ use(Len(threadStates) + 1)
                /\ threadStates' = Append(threadStates, NewThreadState)
    /\ UNCHANGED <<bufferVars, flagVars, writerVars, deletes, started, flushed>>

\* getThreadState from waitReady on: the document gets its number
GetThreadState(t) ==
    /\ pc[t] = "ready" /\ op[t] \in {"add", "update"} /\ WaitReady(state[t])
    /\ IF docClosed
       THEN /\ GoTo(t, "error")
            /\ UNCHANGED <<bufferVars, threadStates, flagVars, deletes,
                           started>>
       ELSE LET s   == state[t]
                del == deletes + (IF op[t] = "update" THEN 1 ELSE 0)
                \* addDeleteTerm, timeToFlushDeletes
                forDeletes == /\ op[t] = "update"
                              /\ bufferIsFull \/ del >= MaxBufferedDeletes
                forDocs == ~forDeletes /\ nextDocID + 1 >= MaxBufferedDocs
            IN  /\ threadStates' =
                     [threadStates EXCEPT ![s].isIdle = FALSE,
                        ![s].docID = nextDocID,
                        ![s].doFlushAfter =
                            IF op[t] = "update" THEN forDeletes \/ forDocs
                            ELSE @ \/ forDocs]
                /\ flushPending' = (forDeletes \/ forDocs)
                /\ deletes' = del
                /\ nextDocID' = nextDocID + 1
                /\ started' = started + 1
                /\ docs' = Append(docs, started + 1)
                /\ GoTo(t, "process")
                /\ UNCHANGED <<waitQueue, deletedDocIDs, store, pauseThreads,
                               aborting, bufferIsFull>>
    /\ UNCHANGED <<threadBindings, writerVars, op, state, calls, flushed>>

\* The consumer's processDocument: it may fail, for its document alone or,
\* with setAborting, for all that are buffered; and the blocks it allocates
\* may fill the RAM buffer
ProcessDocument(t) ==
    /\ pc[t] = "process"
    /\ \/ GoTo(t, "finish") /\ UNCHANGED aborting
       \/ DocMayFail /\ GoTo(t, "failed") /\ UNCHANGED aborting
       \/ MayAbort /\ GoTo(t, "failed") /\ aborting' = TRUE
    /\ \/ UNCHANGED bufferIsFull
       \/ RAMMayFill /\ bufferIsFull' = TRUE
    /\ UNCHANGED <<bufferVars, stateVars, pauseThreads, flushPending,
                   writerVars, deletes, op, state, calls, started, flushed>>

\* A thread is done with its state: the last lines of finishDocument
GoIdle(t, s) ==
    LET full == bufferIsFull /\ ~flushPending
    IN  /\ threadStates' = [threadStates EXCEPT
                              ![s].isIdle = TRUE,
                              ![s].doFlushAfter = @ \/ full]
        /\ flushPending' = (flushPending \/ full)
        /\ GoTo(t, "return")

\* finishDocument, while another thread aborts
DropDocument(t) ==
    /\ pc[t] = "finish" /\ aborting
    /\ threadStates' = [threadStates EXCEPT ![state[t]].isIdle = TRUE]
    /\ GoTo(t, "return")
    /\ UNCHANGED <<bufferVars, threadBindings, flagVars, writerVars, deletes,
                   op, state, calls, started, flushed>>

DocID(t) == threadStates[state[t]].docID

\* The document a thread is working on
MyDoc(t) == docs[DocID(t) + 1]

\* finishDocument: the document is handed to the queue, where the writing
\* of it, or of one behind it, may fail; with too much waiting the thread
\* has to wait
FinishDocument(t) ==
    /\ pc[t] = "finish" /\ ~aborting
    /\ \/ LET a == Added(waitQueue, DocID(t), MyDoc(t))
          IN  /\ waitQueue' = a.queue
              /\ store' = store \o a.out
              /\ UNCHANGED aborting
              /\ IF a.queue.waitingBytes > PauseBytes
                 THEN /\ GoTo(t, "queue")
                      /\ UNCHANGED <<threadStates, flushPending>>
                 ELSE GoIdle(t, state[t])
       \/ /\ MayAbort
          /\ \E a \in AddFailures(waitQueue, DocID(t), MyDoc(t)) :
                waitQueue' = a.queue /\ store' = store \o a.out
          /\ aborting' = TRUE
          /\ GoTo(t, "failed")
          /\ UNCHANGED <<threadStates, flushPending>>
    /\ UNCHANGED <<nextDocID, deletedDocIDs, docs, threadBindings,
                   pauseThreads, bufferIsFull, writerVars, deletes, op, state,
                   calls, started, flushed>>

\* waitForWaitQueue
WaitForWaitQueue(t) ==
    /\ pc[t] = "queue" /\ waitQueue.waitingBytes <= ResumeBytes
    /\ GoIdle(t, state[t])
    /\ UNCHANGED <<bufferVars, threadBindings, pauseThreads, aborting,
                   bufferIsFull, writerVars, deletes, op, state, calls,
                   started, flushed>>

\* Mutant: the flush a failed document had decided on stays pending
SkipDocumentPending(t) ==
    /\ pc[t] = "failed" /\ ~aborting
    /\ LET s == state[t]
           a == Added(waitQueue, DocID(t), SkipDoc)
       IN  /\ waitQueue' = a.queue
           /\ store' = store \o a.out
           /\ threadStates' = [threadStates EXCEPT ![s].isIdle = TRUE,
                                                   ![s].doFlushAfter = FALSE]
           /\ deletedDocIDs' = deletedDocIDs \cup {DocID(t)}
           /\ deletes' = deletes + 1
           /\ GoTo(t, "error")
           /\ UNCHANGED <<pauseThreads, aborting, flushPending>>
    /\ UNCHANGED <<nextDocID, docs, threadBindings, bufferIsFull, writerVars,
                   op, state, calls, started, flushed>>

\* Mutant: a failed document is not marked as deleted
SkipDocumentKept(t) ==
    /\ pc[t] = "failed" /\ ~aborting
    /\ LET s == state[t]
           a == Added(waitQueue, DocID(t), SkipDoc)
       IN  /\ waitQueue' = a.queue
           /\ store' = store \o a.out
           /\ threadStates' = [threadStates EXCEPT ![s].isIdle = TRUE,
                                                   ![s].doFlushAfter = FALSE]
           /\ flushPending' = (flushPending /\ ~threadStates[s].doFlushAfter)
           /\ GoTo(t, "error")
           /\ UNCHANGED <<pauseThreads, aborting>>
    /\ UNCHANGED <<nextDocID, deletedDocIDs, docs, threadBindings,
                   bufferIsFull, writerVars, deletes, op, state, calls,
                   started, flushed>>

\* updateDocument, after a failure of the document alone: it takes its turn
\* in the queue as a skipped one, and is deleted; a document behind it may
\* fail to be written
SkipDocument(t) ==
    /\ pc[t] = "failed" /\ ~aborting
    /\ LET s == state[t]
       IN  \/ LET a == Added(waitQueue, DocID(t), SkipDoc)
              IN  /\ waitQueue' = a.queue
                  /\ store' = store \o a.out
                  /\ threadStates' = [threadStates EXCEPT
                                        ![s].isIdle = TRUE,
                                        ![s].doFlushAfter = FALSE]
                  /\ flushPending' =
                        (flushPending /\ ~threadStates[s].doFlushAfter)
                  /\ deletedDocIDs' = deletedDocIDs \cup {DocID(t)}
                  /\ deletes' = deletes + 1
                  /\ GoTo(t, "error")
                  /\ UNCHANGED <<pauseThreads, aborting>>
           \/ /\ MayAbort
              /\ \E a \in AddFailures(waitQueue, DocID(t), SkipDoc) :
                    waitQueue' = Aborted(a.queue) /\ store' = store \o a.out
              /\ aborting' = TRUE
              /\ threadStates' = [threadStates EXCEPT ![s].isIdle = TRUE]
              /\ pauseThreads' = pauseThreads + 1
              /\ GoTo(t, "skipAbort")
              /\ UNCHANGED <<flushPending, deletedDocIDs, deletes>>
    /\ UNCHANGED <<nextDocID, docs, threadBindings, bufferIsFull, writerVars,
                   op, state, calls, started, flushed>>

-----------------------------------------------------------------------------
(***************************************************************************)
(* abort, by the thread whose document failed them all.                    *)
(***************************************************************************)
\* updateDocument, after a failure while aborting: the thread's state is
\* idle; waitQueue->abort, pauseAllThreads
StartAbort(t) ==
    /\ pc[t] = "failed" /\ aborting
    /\ threadStates' = [threadStates EXCEPT ![state[t]].isIdle = TRUE]
    /\ waitQueue' = Aborted(waitQueue)
    /\ pauseThreads' = pauseThreads + 1
    /\ GoTo(t, "abort")
    /\ UNCHANGED <<nextDocID, deletedDocIDs, store, docs, threadBindings,
                   flushPending, aborting, bufferIsFull, writerVars, deletes,
                   op, state, calls, started, flushed>>

\* Mutant: flushPending and doFlushAfter are not reset
DoAfterFlushForgets(q) ==
    /\ threadBindings' = [u \in Thread |-> None]
    /\ waitQueue' = Reset(q)
    /\ nextDocID' = 0
    /\ docs' = <<>> /\ store' = <<>> /\ deletedDocIDs' = {}
    /\ bufferIsFull' = FALSE
    /\ UNCHANGED flushPending
    /\ threadStates' = [s \in DOMAIN threadStates |->
                          [threadStates[s] EXCEPT !.numThreads = 0]]

\* doAfterFlush
DoAfterFlush(q) ==
    /\ threadBindings' = [u \in Thread |-> None]
    /\ waitQueue' = Reset(q)
    /\ nextDocID' = 0
    /\ docs' = <<>> /\ store' = <<>> /\ deletedDocIDs' = {}
    /\ bufferIsFull' = FALSE /\ flushPending' = FALSE
    /\ threadStates' = [s \in DOMAIN threadStates |->
                          [threadStates[s] EXCEPT !.numThreads = 0,
                                                  !.doFlushAfter = FALSE]]

\* abort goes on when all threads are idle, and ends; where it was skipping its
\* document that failed, updateDocument returns as if nothing had happened
Abort(t) ==
    /\ pc[t] \in {"abort", "skipAbort"} /\ AllThreadsIdle
    /\ DoAfterFlush(waitQueue)
    /\ deletes' = 0
    /\ pauseThreads' = pauseThreads - 1
    /\ aborting' = FALSE
    /\ IF pc[t] = "skipAbort" THEN Leave(t)
       ELSE GoTo(t, "error") /\ UNCHANGED <<op, state>>
    /\ UNCHANGED <<writerVars, calls, started, flushed>>

\* addDocument, after a failure: IndexWriter deletes the aborted files
DeleteAbortedFiles(t) ==
    /\ pc[t] = "error" /\ ixLock = None
    /\ Leave(t)
    /\ UNCHANGED <<bufferVars, stateVars, flagVars, writerVars, deletes,
                   calls, started, flushed>>

\* The end of updateDocument, without a lock but for timeToFlushDeletes
ReturnDocument(t) ==
    /\ pc[t] = "return"
    /\ IF threadStates[state[t]].doFlushAfter
       THEN GoTo(t, "flush") /\ UNCHANGED <<flushPending, op, state>>
       ELSE IF TimeToFlushDeletes
       THEN GoTo(t, "flush") /\ flushPending' = TRUE /\ UNCHANGED <<op, state>>
       ELSE Leave(t) /\ UNCHANGED flushPending
    /\ UNCHANGED <<bufferVars, stateVars, pauseThreads, aborting,
                   bufferIsFull, writerVars, deletes, calls, started,
                   flushed>>

-----------------------------------------------------------------------------
(***************************************************************************)
(* The other calls.                                                        *)
(***************************************************************************)
\* deleteDocuments: waits without a state
CallDelete(t) ==
    /\ MayCall(t, "delete") /\ Begin(t, "delete", "ready")
    /\ state' = [state EXCEPT ![t] = None]
    /\ UNCHANGED <<bufferVars, stateVars, flagVars, writerVars, deletes,
                   started, flushed>>

BufferDelete(t) ==
    /\ pc[t] = "ready" /\ op[t] = "delete" /\ WaitReady(None)
    /\ IF docClosed
       THEN Leave(t) /\ UNCHANGED <<deletes, flushPending>>
       ELSE /\ deletes' = deletes + 1
            /\ IF bufferIsFull \/ deletes + 1 >= MaxBufferedDeletes
               THEN /\ GoTo(t, "flush") /\ flushPending' = TRUE
                    /\ UNCHANGED <<op, state>>
               ELSE Leave(t) /\ UNCHANGED flushPending
    /\ UNCHANGED <<bufferVars, stateVars, pauseThreads, aborting,
                   bufferIsFull, writerVars, calls, started, flushed>>

\* commit flushes everything
CallCommit(t) ==
    /\ MayCall(t, "commit") /\ Begin(t, "commit", "flush")
    /\ UNCHANGED <<bufferVars, stateVars, flagVars, writerVars, deletes,
                   state, started, flushed>>

\* deleteAll pauses the threads under IndexWriter's lock ...
CallDeleteAll(t) ==
    /\ MayCall(t, "deleteAll") /\ ixLock = None /\ Begin(t, "deleteAll", "wipe")
    /\ ixLock' = t
    /\ pauseThreads' = pauseThreads + 1
    /\ UNCHANGED <<bufferVars, stateVars, flushPending, aborting,
                   bufferIsFull, closing, closed, docClosed, deletes, state,
                   started, flushed>>

\* ... and aborts what is buffered
DeleteAll(t) ==
    /\ pc[t] = "wipe" /\ AllThreadsIdle
    /\ DoAfterFlush(Aborted(waitQueue))
    /\ deletes' = 0
    /\ aborting' = FALSE
    /\ pauseThreads' = pauseThreads - 1
    /\ ixLock' = None
    /\ flushed' = <<>>
    /\ Leave(t)
    /\ UNCHANGED <<closing, closed, docClosed, calls, started>>

\* close: shouldClose, pauseAllThreads; the threads stay paused until it ends
CallClose(t) ==
    /\ MayCall(t, "close") /\ Begin(t, "close", "drain")
    /\ closing' = TRUE
    /\ pauseThreads' = pauseThreads + 1
    /\ UNCHANGED <<bufferVars, stateVars, flushPending, aborting,
                   bufferIsFull, ixLock, closed, docClosed, deletes, state,
                   started, flushed>>

CloseDocWriter(t) ==
    /\ pc[t] = "drain" /\ AllThreadsIdle
    /\ docClosed' = TRUE
    /\ GoTo(t, "flush")
    /\ UNCHANGED <<bufferVars, stateVars, flagVars, ixLock, closing, closed,
                   deletes, op, state, calls, started, flushed>>

-----------------------------------------------------------------------------
(***************************************************************************)
(* flush: doFlush, under IndexWriter's lock.                               *)
(***************************************************************************)
StartFlush(t) ==
    /\ pc[t] = "flush" /\ ixLock = None
    /\ IF closed
       THEN Leave(t) /\ UNCHANGED <<ixLock, pauseThreads>>
       ELSE /\ ixLock' = t
            /\ pauseThreads' = pauseThreads + 1
            /\ GoTo(t, "flushing")
            /\ UNCHANGED <<op, state>>
    /\ UNCHANGED <<bufferVars, stateVars, flushPending, aborting,
                   bufferIsFull, closing, closed, docClosed, deletes, calls,
                   started, flushed>>

\* Whether the deletes are applied, and so no longer buffered
AppliesDeletes(t) == op[t] \in {"commit", "close"} \/ DeletesFull

\* A thread is aborting: nothing is flushed
SkipFlush(t) ==
    /\ pc[t] = "flushing" /\ AllThreadsIdle /\ aborting
    /\ pauseThreads' = pauseThreads - 1
    /\ GoTo(t, "flushed")
    /\ UNCHANGED <<bufferVars, stateVars, flushPending, aborting,
                   bufferIsFull, writerVars, deletes, op, state, calls,
                   started, flushed>>

\* The documents of a sequence, in order
Kept(seq) == LET IsDoc(d) == d # NoDoc IN SelectSeq(seq, IsDoc)

\* The documents of the segment: those in the store that were not deleted
Visible == Kept([i \in 1..Len(store) |->
                   IF i - 1 \in deletedDocIDs THEN NoDoc ELSE store[i]])

\* All threads are idle: the buffered documents become a segment, or that
\* fails and they are aborted; the threads go on
Flush(t) ==
    /\ pc[t] = "flushing" /\ AllThreadsIdle /\ ~aborting
    /\ pauseThreads' = pauseThreads - 1
    /\ \/ /\ IF nextDocID = 0
             THEN UNCHANGED <<bufferVars, stateVars, flushPending,
                              bufferIsFull, flushed>>
             ELSE flushed' = flushed \o Visible /\ DoAfterFlush(waitQueue)
          /\ deletes' = IF AppliesDeletes(t) THEN 0 ELSE deletes
          /\ GoTo(t, "flushed")
       \/ /\ FlushMayFail /\ nextDocID # 0
          /\ DoAfterFlush(waitQueue)
          /\ deletes' = 0
          /\ GoTo(t, "flushFailed")
          /\ UNCHANGED flushed
    /\ UNCHANGED <<aborting, writerVars, op, state, calls, started>>

\* Mutant: every flush ends a pause of its own
EndFlushResumes(t) ==
    /\ pc[t] \in {"flushed", "flushFailed"}
    /\ flushPending' = FALSE
    /\ ixLock' = None
    /\ pauseThreads' = pauseThreads - 1
    /\ IF op[t] # "close"
       THEN UNCHANGED <<closing, closed>>
       ELSE /\ closing' = FALSE
            /\ closed' = (pc[t] = "flushed")
    /\ Leave(t)
    /\ UNCHANGED <<bufferVars, stateVars, aborting, bufferIsFull, docClosed,
                   deletes, calls, started, flushed>>

\* doFlush ends with clearFlushPending; close closes the writer, or lets the
\* threads go on when its flush threw
EndFlush(t) ==
    /\ pc[t] \in {"flushed", "flushFailed"}
    /\ flushPending' = FALSE
    /\ ixLock' = None
    /\ IF op[t] # "close"
       THEN UNCHANGED <<closing, closed, pauseThreads>>
       ELSE /\ closing' = FALSE
            /\ closed' = (pc[t] = "flushed")
            /\ pauseThreads' = IF pc[t] = "flushed" THEN pauseThreads
                               ELSE pauseThreads - 1
    /\ Leave(t)
    /\ UNCHANGED <<bufferVars, stateVars, aborting, bufferIsFull, docClosed,
                   deletes, calls, started, flushed>>

-----------------------------------------------------------------------------
Init ==
    /\ threadStates = <<>> /\ threadBindings = [t \in Thread |-> None]
    /\ waitQueue = NewQueue(QueueSize)
    /\ nextDocID = 0 /\ pauseThreads = 0 /\ deletes = 0
    /\ flushPending = FALSE /\ aborting = FALSE /\ bufferIsFull = FALSE
    /\ docClosed = FALSE /\ closing = FALSE /\ closed = FALSE
    /\ deletedDocIDs = {} /\ store = <<>> /\ docs = <<>> /\ flushed = <<>>
    /\ ixLock = None /\ started = 0
    /\ pc = [t \in Thread |-> "idle"] /\ op = [t \in Thread |-> "none"]
    /\ state = [t \in Thread |-> None] /\ calls = 0

Call(t) ==
    \/ \E o \in Calls : Bind(t, o)
    \/ CallDelete(t) \/ CallCommit(t) \/ CallDeleteAll(t) \/ CallClose(t)

\* A step of a thread that is inside a call
Step(t) ==
    \/ GetThreadState(t) \/ ProcessDocument(t)
    \/ DropDocument(t) \/ FinishDocument(t) \/ WaitForWaitQueue(t)
    \/ SkipDocument(t) \/ StartAbort(t) \/ Abort(t) \/ DeleteAbortedFiles(t)
    \/ ReturnDocument(t) \/ BufferDelete(t) \/ DeleteAll(t)
    \/ CloseDocWriter(t) \/ StartFlush(t) \/ SkipFlush(t) \/ Flush(t)
    \/ EndFlush(t)

Next == \E t \in Thread : Call(t) \/ Step(t)

Spec == Init /\ [][Next]_vars

(***************************************************************************)
(* A thread that can take its next step does.  Every wait is one of        *)
(* wait(1000), which looks at its condition again after a second whether   *)
(* or not it was notified, or one for IndexWriter's lock, a mutex, of      *)
(* which each thread asks a bounded number of times.                       *)
(***************************************************************************)
FairSpec == Spec /\ \A t \in Thread : WF_vars(Step(t))

-----------------------------------------------------------------------------
(***************************************************************************)
(* Properties.                                                             *)
(***************************************************************************)
\* The buffer that DocumentBuffer describes: what is in the store or in the
\* slot a number stands for is finished.  Once a thread has set aborting
\* all of it is lost.
Content(id) ==
    IF id < Len(store) THEN store[id + 1] ELSE WaitingDoc(waitQueue, id)

AbstractBuffer ==
    IF aborting THEN <<>>
    ELSE [i \in 1..nextDocID |->
            CASE Content(i - 1) = NoDoc   -> [doc |-> docs[i], state |-> "busy"]
              [] Content(i - 1) = SkipDoc -> [doc |-> docs[i], state |-> "failed"]
              [] OTHER -> [doc |-> Content(i - 1), state |-> "done"]]

Buffer == INSTANCE DocumentBuffer
            WITH Doc <- 1..MaxCalls,
                 buffered <- AbstractBuffer,
                 written  <- IF aborting THEN 0 ELSE Len(store),
                 flushed  <- flushed

\* DocumentsWriter buffers documents as DocumentBuffer says: in order, each
\* under its own number, and flushed whole, although the ring of the
\* WaitQueue wraps around and grows and its skipDocWriter is shared
\* (WaitQueue::add, updateDocument, flush).
BuffersDocuments == Buffer!Spec

\* The ring agrees with its counters, and the slot of the next document is
\* free (the assertions of WaitQueue::add and abort).
QueueConsistent ==
    LET q == waitQueue
        used == {i \in DOMAIN q.waiting : q.waiting[i] # NoDoc}
    IN  /\ q.numWaiting = Cardinality(used)
        /\ q.waitingBytes = Cardinality({i \in used : q.waiting[i] # SkipDoc})
        /\ q.waiting[q.nextWriteLoc] = NoDoc

\* When a flush is pending, which stops all other threads, some thread is on
\* its way to do it (flushPending and doFlushAfter in getThreadState,
\* finishDocument, updateDocument).
FlushIsDue ==
    flushPending =>
        \E t \in Thread :
            \/ pc[t] \in {"flush", "flushing", "flushed", "flushFailed", "wipe",
                          "abort", "skipAbort"}
            \/ /\ pc[t] \in {"process", "finish", "queue", "failed", "return"}
               /\ threadStates[state[t]].doFlushAfter

\* Every call returns or throws: no thread waits for ever for a flush, a
\* pause, an abort or the queue (waitReady, pauseAllThreads,
\* waitForWaitQueue).
CallsReturn == \A t \in Thread : (pc[t] # "idle") ~> (pc[t] = "idle")

\* "We must at this point commit to flushing to ensure we always get N docs
\* when we flush by doc count, even if > 1 thread is adding documents"
\* (getThreadState).
FlushByCount == nextDocID <= MaxBufferedDocs
=============================================================================
