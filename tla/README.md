# Lucene++: the index writer and its threads in TLA+

This directory holds TLA+ models of how Lucene++ (`src/src/core/index`) changes an
index: what its threads do to each other while they add documents, flush, merge,
commit and close, which files that creates and deletes, what is left after a crash,
and what a reader finds meanwhile. TLC checks the models on small instances; TLAPS
proves some of the properties for every instance.

## 1. The system

Paths are relative to `src/src/core`.

| Component | State | Operations | What makes it correct |
|---|---|---|---|
| `index/SegmentInfos`, `SegmentInfo`, `IndexFileNames` | list of segments, generation, lastGeneration, name counter; per segment: doc store it shares, compound or not, deletion generation | files, write, prepareCommit, finishCommit, rollbackCommit, updateGeneration | a commit is found iff it is whole; no segments_N is written twice |
| FindSegmentsFile (in `SegmentInfos.cpp`), `index/DirectoryReader` | listing, segments.gen, generation, retries; the commit a reader has open | doRun, open, isCurrent, reopen | the newest commit is found although the writer deletes others |
| `index/IndexFileDeleter` | refCounts, lastFiles, commits, deletable | incRef, decRef, checkpoint, deleteCommits, refresh, deleteFile, close, the scan in the constructor | counts exact; nothing referenced is deleted; nothing unreferenced stays |
| deletion policies | the snapshot's name | onInit, onCommit, snapshot, release | the last commit stays, the snapshot stays |
| `index/IndexWriter`: commits | segmentInfos, rollbackSegmentInfos, pendingCommit, changeCount, lastCommitChangeCount, synced, syncing, closing/closed | flush, prepareCommit, commit, rollback, deleteAll, close | a commit that returned survives a crash; a rollback restores; two commits do not undo each other; calls return |
| `index/IndexWriter`: merges and transactions | pendingMerges, runningMerges, mergingSegments, segmentsToOptimize, mergeGen, stopMerges, readCount, writeThread, upgradeCount | optimize, merge, waitForMerges, finishMerges, addIndexes, addIndexesNoOptimize | no document is lost or doubled; a segment is in one merge; optimize does what it says |
| `index/DocumentsWriter`, its WaitQueue | thread states and their bindings, nextDocID, flushPending, pauseThreads, aborting, the ring of documents that wait, buffered deletes | updateDocument, flush, pauseAllThreads, abort, pushDeletes, applyDeletes | documents are written in order, each under its number; pauses end |
| `index/ConcurrentMergeScheduler`, `LogMergePolicy` | merge threads; sizes | merge, sync, close; findMerges, findMergesForOptimize | the pool is bounded and drains |
| ReaderPool, `index/SegmentReader` | pooled readers with unsaved deletes | get, release, commit, doCommit | deletes reach the disk before a commit names the segment |
| `store/*` | files, locks | createOutput, sync, deleteFile, obtain, release | one writer |
| search, analysis, query parser, documents, contrib | immutable segments, per-token state | | not concurrent; left to tests |

How they interact. IndexWriter owns a SegmentInfos, a DocumentsWriter, an
IndexFileDeleter and a ReaderPool. Whoever changes the segment list has to call
`checkpoint`, which tells the deleter, before IndexWriter's lock is released. The
thread that flushes holds IndexWriter's lock while it waits for the indexing threads
to pause; DocumentsWriter calls back for a segment name under a different lock. A
flush ends in `maybeMerge`, which registers merges and hands them to the scheduler's
threads; they commit long after, to a segment list that has changed meanwhile. A
commit has three parts: under the lock a copy of the list is made and its files are
referenced; without the lock they are synced, each by one thread, the others waiting
for it; under the lock again segments_N is written, and then completed by
finishCommit, after which the policy removes older commits. commitLock spans the
whole of `commit()` and of close's commit, but not `prepareCommit()`. A transaction
of addIndexes excludes commits through the read/write lock and merges through
stopMerges. Readers take no part in any of this: they read the directory and retry.

What is hard: a crash between any two file operations; a write, sync, deletion,
document or merge that throws in the middle of a handler; flushes and merges between
the steps of a commit; several committers; rollback and close against everything
that is under way; the doc store that several segments share while it is still
written; names that are used again; a reader whose commit is deleted under it.
`PROJECT.json` lists each hazard at its line with the property that covers it.

## 2. The modules

| Module | Models |
|---|---|
| `SegmentInfos` | file names, the files of a list, generations, FindSegmentsFile in a directory nobody changes |
| `IndexFileDeleter` | the deleter as a record and the operations as functions on it; the deletion policies |
| `IndexWriter` | the commit protocol with its files: one user thread (prepareCommit, commit, rollback, deleteAll, close), indexing threads, one merge, I/O errors, crashes, restarts |
| `CommitThreads`, `MCCommitThreads` | several threads in prepareCommit, commit, close and rollback |
| `WaitQueue` | the ring of finished documents as a record and the operations as functions on it |
| `DocumentBuffer` | abstract: what buffering documents promises |
| `DocumentsThreads`, `MCDocumentsThreads` | threads in DocumentsWriter: thread states, pauses, flushes, failures, aborts; implements `DocumentBuffer` |
| `LogMergePolicy` | findMerges and findMergesForOptimize of LogDocMergePolicy |
| `MergeThreads`, `MCMergeThreads` | the registry of merges, the scheduler's threads, optimize, waitForMerges, transactions, addIndexes, deleteAll, rollback, close |
| `FindSegmentsFile` | a reader's doRun step by step against a writer's directory operations |
| `IndexFileDeleterProofs`, `IndexWriterProofs`, `IndexWriterFilesProofs`, `CommitThreadsProofs`, `FindSegmentsFileProofs` | the theorems about the modules they are named for |
| `DocumentsThreadsProofs` | the theorems about `WaitQueue` and `DocumentsThreads` |
| `MergeThreadsProofs`, `MergeDocumentsProofs` | the theorems about `MergeThreads`: the registry, and the documents |

`IndexWriter` extends `SegmentInfos` and `IndexFileDeleter`, `FindSegmentsFile`
extends `SegmentInfos`, `DocumentsThreads` extends `WaitQueue` and `MergeThreads`
extends `LogMergePolicy`. The four modules about IndexWriter divide its state:
`IndexWriter` has the files, `CommitThreads` the locks, the sync bookkeeping and the
change counts, `DocumentsThreads` what is buffered, `MergeThreads` the segment list
as documents and the merges. Each reduces what the others own: a commit is one step
in `MergeThreads`, files are one per segment in `CommitThreads`, merges are absent
from `DocumentsThreads`. Where the code compares change counts, `IndexWriter` and
`MergeThreads` have booleans; `CommitThreads` has the counts.

### How state and actions correspond to the code

A file name is `<<kind, segment or generation, deletion generation>>`. All the
non-store files of a segment are one file, and so are its store files: they are
written, synced and deleted together. Separate norms files behave like .del files
and are left out.

The handlers of `IndexWriter` are functions on a record `w` (files, files created,
segments, deleter), composed in the order of the code; an action applies the whole
handler, every `checkpoint` and `refresh` of it included. Files a handler gives up
go to `ifd.doomed` and are removed by `Unlink` before anyone else gets the lock
(`LockFree`), so that a crash may see part of a handler's deletions. finishCommit is
four actions (checksum, sync, segments.gen, checkpoint) with the lock held over all
of them, for the crash's sake. startCommit is `StartCommit`, one `SyncFile` per
file, `SyncDone`, `PrepareCommit`, and `Unwind` on an error. A segments_N whose
writing throws is removed, and may stay, torn, when that deletion fails too
(`PrepareFails`). commitMerge is `CommitMerge`; the release of the merged segment's
reader, which takes the lock again, is `ReleaseMerged`. A flush may throw when it
closes the shared doc store or makes it compound (`StoresThrow`), while it writes the
segment (`FlushThrows`) or its compound file (`CompoundThrows`).

In `CommitThreads`, `DocumentsThreads` and `MergeThreads` an action is a section
under a lock (IndexWriter's, DocumentsWriter's, the scheduler's, that of `synced`)
or the unlocked step between two, and `pc` says where a thread is. A wait with a
timeout (`doWait`, `wait(1000)`) looks again by itself and is a guard. The one wait
without, `waitForAllSynced`, is modelled as compiled: its parameter `syncing` hides
the member, and LuceneSignal can lose a notification (`Wake`).

`DocumentsThreads`: a thread binds to a thread state (`threadBindings`), takes
nextDocID, processes its document without a lock and hands it to the queue, which
writes it and those behind it, or keeps it. A document is its number among all ever
started, so that a wrong slot shows. A document may fail by itself (the shared
skipDocWriter takes its place) or with setAborting, after which every thread waits
while one of them aborts. `ixLock` is IndexWriter's lock, held by a thread that
flushes while it waits for the others to pause.

`MergeThreads`: a segment is a name and the documents it holds; a merge is a record
in `reg.merges`, with `pending`, `running` and `merging` as in the code. A merge
goes from registerMerge to NextMerge or Schedule, mergeInit, the work, commitMerge
and mergeFinish, with an abort seen where the code calls checkAborted. optimize,
addIndexes and close are followed through each of their waits. The history variable
`expected` lists the documents that should be in the index.

`FindSegmentsFile`: the listing removes one name at a time from what is still to be
seen, in any order, while the writer goes on; segments.gen is removed, created empty
and filled; then choose, read, and on an exception the retry, the older generation
or the look-ahead, as in the loop of doRun. The writer does to the directory what
`IndexWriter` does, reduced to one file per segment, and starts from every directory
a crash can leave.

### What is abstracted, and in which direction

- Documents have no content. In `IndexWriter` only whether some are buffered counts,
  which segments a delete hits is any subset, and any contiguous run of segments may
  be merged; `MergeThreads` has the policy, and no deletes.
- A deletion is durable at once, as is the creation of a directory entry; a file
  that was not synced may survive a crash whole, torn or not at all (the choice
  between the last two is the same for all files).
- Writing a .del file does not fail (`WriteDeletes`); segments, doc stores, compound
  files and segments_N may fail, each kind by a switch of its own (`FlushMayFail`,
  `MergeMayFail`, `SegmentsWriteMayFail`).
- In `IndexWriter` close is not called with a commit prepared (it would wait for
  ever, see section 5); `CommitThreads` has that case.
- `AddDocument` of `IndexWriter` waits for pending deletions of a handler although
  the code does not need to: a new name commutes with the deletion of other names.
- `FlushThrows` for the flush inside `_mergeInit` is folded into `Flush`.
- `CommitThreads`: every flush closes the doc store, changeCount is incremented
  atomically (the code has a race there), no merges, no file deletion.
- `DocumentsThreads`: bytes are counted in documents; the RAM buffer may fill at any
  document (`RAMMayFill`); allocators and balanceRAM are left out.
- `MergeThreads`: the policy's logarithms are compared as powers of the sizes;
  addIndexes(readers) without the compound file of its second transaction.
- `FindSegmentsFile`: readers do not write, so that one reader stands for all; a
  segments.gen that cannot be created is missing, one that is torn is empty; the
  sync of segments_N succeeds; a writer is closed by rollback or stays open, and a
  segment that a failed commit leaves is merged into that of a later one.
- The index is created once, empty (`Init`); `Open(TRUE)` of `IndexWriter` is create
  on an existing index. The write lock excludes a second writer.

## 3. The runs

Deadlock checking is off in all of them: the bounds on names, generations, opens
and calls make every behaviour stop.

| Run | Bounds | Properties |
|---|---|---|
| `crash` | 2 segment names, compound files, generations to 3, one crash, two writers, snapshots, data syncs fail | `Recoverable`, `CommitPointsDurable`, `SnapshotHeld`, `WriteOnce` |
| `merge` | 3 names (two flushes and a merge), generations to 2, .del files before, during and after the merge, merges and writes of segments_N fail, rollback, deleteAll at any time | `RefCountsExact`, `ReferencedFilesExist`, `SegmentsUsable`, `ClosedLeavesNoGarbage`, `TypeOK` |
| `failures` | 1 name, generations to 3 (two attempts to commit after the initial commit), every write, sync and deletion may fail | `SyncedIsStable`, `CommitsAdvance`, `LastCommitStays`, `ClosedForgetsNothing` |
| `commit_lost` | 1 name, generations to 3, one crash, writes of segments_N fail | `Recoverable`, violated (section 5) |
| `commit_threads` | 3 threads, one call each (and the commit after a prepareCommit), 2 segments, writes and syncs fail, threads symmetric | `CommitCovers`, `CommitsSynced`, `CommitsNeverRegress`, `SegmentsFileOnce`, `ClosedIsFinal`, `TypeOK` |
| `commit_returns` | 3 threads, commit, close and rollback, writes and syncs fail | `CommitReturns` |
| `doc_threads` | 3 threads on 2 thread states, 4 calls, a ring of 2 that pauses at 1, documents fail and abort, flushes fail, threads symmetric | `BuffersDocuments`, `QueueConsistent`, `FlushIsDue`, `TypeOK` |
| `doc_returns` | 2 threads, 3 calls of six kinds, everything may fail | `CallsReturn` |
| `merge_threads` | 3 threads, 1 merge thread, 3 calls of seven kinds, 2 segments and an added index of 2, mergeFactor 2, threads symmetric | `DocsKept`, `MergesCanCommit`, `NoExternal`, `OptimizeDone`, `TypeOK` |
| `merge_aborts` | 3 threads, 1 merge thread, 3 calls of add, addIndexesNoOptimize and rollback, merges fail | `DocsKept`, `RegistryConsistent`, `MergesStopped`, `RollbackReverts` |
| `merge_returns` | 2 threads, 1 merge thread, 2 calls of all ten kinds | `MergeCallsReturn` |
| `reader` | generations to 3, 2 reads of segments.gen, listing not atomic, snapshots, failing commits, every directory of a crash | `KeepsLooking`, `QuietFinds`, `NeverStale`, `ReaderReturns`, `TypeOK` |

What the less obvious ones say:

- `Recoverable`: after a crash now, FindSegmentsFile finds a whole commit, and no
  older one than the last commit that returned.
- `SnapshotHeld`: the files of a snapshot's commit stay over later commits and over
  close and the next writer. A crash ends the process that took the snapshot, and the
  snapshot with it.
- `LastCommitStays`: until the next commit has succeeded, nothing of the last one is
  removed, whatever fails: not by the commit that fails, its rollback, a refresh or
  another try at a deletion that failed. `CommitsAdvance` says of the deleter's list
  that a commit point goes only when a newer one is on it.
- `ClosedForgetsNothing`: when deletions fail a closed writer may leave files that
  belong to no commit, but each of them is one it was still trying to delete.
  `ClosedLeavesNoGarbage` is the case without failing deletions, where none is left.
- `BuffersDocuments` is the refinement `DocumentsThreads` => `DocumentBuffer!Spec`:
  under the mapping `AbstractBuffer` every step of a thread is a step of the buffer,
  or leaves it alone. A document that is in the store, or in the slot its number has
  in the ring, is finished; once `aborting` is set the buffer is empty. So a wrong
  slot, a document written twice or out of turn, or a flush with a document half
  done is no step of the buffer.
- `FlushIsDue`: `flushPending` stops every thread, so that whenever it is set some
  thread must be on its way to flush. `CallsReturn` says that it gets there.
- `DocsKept`: the segments hold, in order, exactly the documents that were flushed,
  added by a transaction that was committed, and not rolled back or deleted, however
  merges and transactions overlap.
- `MergesCanCommit`: the segments of a registered merge stay contiguous in the list
  until commitMerge, so that ensureContiguousMerge never throws, as
  rollbackTransaction wants it when it finishes merges first ("so merges don't hit
  exceptions on trying to commit themselves", `IndexWriter.cpp:1371`).
  `merge_threads` checks it with optimize and addIndexes; for failures and rollback it
  is proved (section 6).
- `OptimizeDone`: when optimize returns without an exception the documents it found
  are in at most maxNumSegments segments, although other calls share, re-mark and
  extend its merges. It holds in this run because no merge fails or is aborted
  there: section 5.
- `QuietFinds`: in a directory that nobody changes during the call, doRun comes to
  what `FindSegments` of `SegmentInfos` says. `IndexWriter` may therefore use the
  one-step operator for its own restart.
- `KeepsLooking` and `NeverStale` state exactly when a reader fails or goes back.

Why the bounds are enough to be interesting: two flushes and a merge is the least
that shares a doc store, closes it under a running merge and replaces segments; two
commits after the initial one is the least in which the policy deletes a commit
while a third is in the making; three threads is the least in which one syncs, one
waits for it and a third supersedes both, and in which a thread without a thread
state of its own waits for one that is aborting; a ring of two wraps and grows with
the documents of three threads; three calls is the least in which a rollback meets a
merge and a transaction; three generations is the least in which a reader holds a
deleted commit while the next is half written. Each property is also broken, in the
same run, by a small change of the code that `PROJECT.json` names (a dropped guard,
a missing reset, a swapped order), so the cases do occur.

Deletes and merges go with failing merges and commits in `merge`; with every flush
failing as well TLC does not end, and `RefCountsExact`, `ReferencedFilesExist` and
`SegmentsUsable` are left to their proofs there. The failures of syncs and deletions
are in `failures`, where two commits may follow one that failed.

Switches are off where the code breaks the property, and section 5 says how:
`SegmentsSyncMayFail` and `DeleteMayFail` in `crash` and `merge`,
`SegmentsWriteMayFail` in `crash` (`commit_lost` has it on), `DeleteAllWhilePending`
in `failures` (`merge` has it on).

## 4. Fairness and liveness

Every fair specification asks weak fairness of a thread's steps inside a call: a
thread that can go on does. Starting a call, adding a document in `CommitThreads`
and the writer's steps in `FindSegmentsFile` are not fair.

- `CommitThreads`: the waits are a mutex (commitLock) that every thread asks for a
  bounded number of times, so that starvation is not at issue; `doWait`, which looks
  again every second; and the condition variable of `synced`, which has no timeout.
  LuceneSignal can lose its notification, so `Wake` is not fair. A thread that
  prepared a commit follows it with `commit()` or `rollback()`, as `prepareCommit`
  requires.
- `DocumentsThreads`, `MergeThreads`: all waits have timeouts. The fairness of a
  merge thread is that of NextMerge and of its merge's steps. Calls are bounded, so
  a wait that other calls could prolong for ever (a stream of flushes) ends.
- `FindSegmentsFile`: the reader only. That the writer changes the directory a
  bounded number of times is the bound on generations; in the code doRun gives up
  after the retries it counts.

## 5. Where the code and its documentation disagree

`commit_lost` is the finding of `PROJECT.json`: after a commit that threw, the
generation stays advanced (`IndexWriter.cpp:3267`), so the next segments_N is two
above the last good one. If that one is cut short by a crash, doRun tries it, then
the missing segments_(N-1), then generations above, and throws. The comment at
`SegmentInfos.cpp:593` promises "the last good (previous) segments_N-1 file". In
`FindSegmentsFile` the same gap makes a reader throw while the commit after the
failed one is merely in the making. `KeepsLooking` says when doRun throws: in that
case, and when more than `defaultGenLookaheadCount` commits come and go while it
looks ahead, so that it has passed the newest before it was there.

The following were met as well. They need no run of their own: changing constants of
an existing run reproduces each.

Commits:

- finishCommit swallows a failed sync of segments_N (`SegmentInfos.cpp:599`), and the
  commit before it is deleted: `Recoverable` fails in `crash` with
  `SegmentsSyncMayFail = TRUE`, `MaxCounter = 1`, `MaxCrashes = 0`.
- deleteAll between prepareCommit and commit removes the prepared segments_N, which
  refresh (`IndexWriter.cpp:1520`) does not know of. When deletions succeed, commit
  then throws, since it cannot sync the file, and the last commit stays (`merge`).
  When the deletion of the open segments_N fails, as it does on Windows, the name is
  kept to be tried again: commit succeeds, and the deleter removes the new
  segments_N after it and the older one for the policy. No commit is left:
  `LastCommitStays` fails in `failures` with `DeleteAllWhilePending = TRUE`.
- a name still in `deletable` is created again after a restart, and the next
  checkpoint deletes the live file: `ReferencedFilesExist` fails in `merge` with
  `DeleteMayFail = TRUE`, `MaxCrashes = 1`, `MaxOpens = 2`.
- the constructor of IndexFileDeleter unlinks what a crash left behind
  (`IndexFileDeleter.cpp:117`), but keeps the names in `refCounts` with a count of 0.
  Segment names are taken again from the counter of the last commit; when a file gets
  such a name and the writer rolls back, refresh (`IndexFileDeleter.cpp:200`) and
  deleteNewFiles (line 355) find the name in `refCounts` and leave the file, although
  "we re-list the filesystem and delete such files" (`IndexFileDeleter.h:91`):
  `ClosedLeavesNoGarbage` fails in `merge` with `MaxCounter = 1`, `MaxCrashes = 1`,
  `MaxOpens = 2`.
- startCommit reads `info(-1)` when a document was added between the flush and the
  copy and no segment precedes the open doc store. `StartCommitOutOfRange` is that
  read, taken as the end of the process.
- the shadowed `syncing` and the lost notification make a thread wait for ever for
  another's sync: `SyncWaitEnds` fails in `commit_returns` with 2 threads and
  `Calls = {"prepare", "commit"}`, even when no sync fails.
- prepareCommit in one thread and commit in another wait for each other:
  `CommitReturns` fails with the same calls.
- rollback lets a prepareCommit in flight be committed: `RollbackReverts` of
  `CommitThreads` fails in `commit_threads` with 2 threads and
  `Calls = {"prepare", "rollback"}`; `ClosedIsFinal` and `CommitsNeverRegress` fail
  once rollback is among the calls of three threads.

Documents:

- "we always get N docs when we flush by doc count" (`DocumentsWriter.cpp:621`):
  `FlushByCount` fails in `doc_threads` with `MaxBufferedDocs = 2`, also when nothing
  fails. Both clearFlushPending after the resume (`IndexWriter.cpp:2092`) and threads
  that are past the check let more in.
- an exception from the documents behind a failed one is dropped by updateDocument
  (`DocumentsWriter.cpp:701`): all buffered documents are aborted and the caller sees
  a normal return.

Merges:

- "start with zero or 1 seg" (`IndexWriter.cpp:1855`): `AtMostOneSegment` fails in
  `merge_threads` with `MaxNumSegments = 2` and
  `Calls = {"add", "optimize", "addIndexes"}`; the segments that were too many are
  dropped from the index with the replacement.
- the assertion at the end of finishMerges (`IndexWriter.cpp:1583`) can fail when two
  finishMerges share stopMerges and one clears it: `MergesStopped` is conditional on
  stopMerges for that reason. With deleteAll even that fails, in `merge_aborts` with
  `Calls = {"deleteAll", "addIndexesNoOptimize", "optimize", "close"}`,
  `MaxCalls = 4` and `Existing = 2`: deleteAll waits for a transaction that fails and
  clears stopMerges, an optimize registers a merge after close has waited for merges,
  closeInternal sets stopMerges again without aborting any, and deleteAll ends its
  wait with a merge pending.
- `RollbackReverts` of `MergeThreads` fails in `merge_aborts` once "addIndexes" or
  "deleteAll" is among the calls: they do not look whether the writer is closing.
- deleteAll waits in finishMerges for a transaction, and has paused the indexing
  threads but nobody else. When that transaction fails it clears stopMerges, and an
  optimize may register a merge, or another transaction start, before deleteAll goes
  on and takes the segments away: `MergesCanCommit` fails in `merge_aborts` with
  `Calls = {"deleteAll", "addIndexesNoOptimize", "add", "optimize"}`, `MaxCalls = 4`
  and `Existing = 2`, and so does `DocsKept`, when the second transaction fails and
  puts back what was deleted.
- addIndexes(readers) replaces the segments in its transaction, with the reader it
  opened earlier and whatever was registered since: `MergesCanCommit` and `DocsKept`
  fail in `merge_aborts` with
  `Calls = {"add", "addIndexes", "optimize", "commit", "rollback"}`, `MaxCalls = 4`
  and `Existing = 2`, when a merge its optimize waited for has failed.
- when mergeInit throws in the thread that schedules, the merges behind it stay
  pending and nobody runs them: `MergeCallsReturn` fails in `merge_returns` with
  `MergeMayFail = TRUE`, `Existing = 4`, `Calls = {"optimize", "waitForMerges"}`.
- optimize returns normally when a merge it waited for was aborted, or failed with
  another call's mergeGen (`IndexWriter.cpp:2990`): `OptimizeDone` needs
  `MergeMayFail = FALSE` and no rollback.
- closeInternal resets docWriter (`IndexWriter.cpp:740`) under the lock while other
  threads use it without; the models take a late call to throw.

Readers:

- `NeverStale` has an exception: a snapshot's older commit can be opened through the
  fallback when the newest is deleted under the reader.
- a listing that is not atomic can show no segments_N at all ("noFile") while a
  commit replaces another.

## 6. The proofs

Constants have only the assumptions named in the modules (`BoundsAssumption`,
`SwitchesAssumption`, `ThreadsAssumption`, `DocumentsAssumption`, ...): bounds are
naturals, switches Booleans, a set of threads is any set that does not hold the value
for "nobody", finite where `DocumentsThreads` and `MergeThreads` count threads; in
`MergeThreads` no thread of a caller is a merge thread. A theorem with a
further hypothesis states it after ASSUME.

### IndexWriter

**`RefCountsAreExact`** (`IndexWriterProofs`): `Spec => []RefCountsExact`, for all
bounds and every combination of failures. `RefCountsExact` is not inductive: that a
decRef gives back one reference needs to know that the holder exists. The invariant
`IInv` has three parts. `CountsInv` says it of the whole record: outside the files,
too, counts equal holders (`Exact`, in `IndexFileDeleterProofs`), with finitely many
commit points. `CallInv` ties `toSync` to the user thread's place: it is empty
whenever no commit is under way, so that each `incRef` of `StartCommit` meets one
`decRef`, in `Unwind`, in finishCommit or in rollback. `GenInv` says a prepared
commit's generation is above that of every commit point; without it the new commit
point of finishCommit could coincide with an existing one and a reference would be
counted once for two incRefs. One lemma per operation of the deleter
(`ExactIncRef`, `ExactDecRef`, `ExactCheckpoint`, `ExactDeleteCommits`, ...) shows
that it keeps `Exact`; one lemma per piece of a handler (`Fine...`) lifts this to
`w`; one lemma per action (`Step...`) concludes. `FindSegmentsNewest`, used for
`Open`, says that what FindSegmentsFile settles on is the newest readable commit.

**`CommitPointsAdvance`**: `Spec => CommitsAdvance`, from `GenInv`. The commit that
finishCommit hands to the deleter is above every commit point, so the policy leaves
it, and a commit point the policy marks is below it; the `Kept...` lemmas show that
no other step of an open writer touches the commit points or `acked`.

**`Typed`**: `TypeOK`. Two of its parts lean on invariants of their own: that
reference counts stay natural numbers is `Exact` again, and that commitMerge finds
where to put the merged segment, so that the list it builds is a sequence of
segments, is `SourcesInv` (the sources of a merge stay in the list until its commitMerge).

### What the directory holds

`IndexWriterFilesProofs` proves seven properties of `IndexWriter` for all bounds,
under one hypothesis, `Reliable`: `DeleteMayFail`, `SegmentsSyncMayFail` and
`DeleteAllWhilePending` are FALSE. Writes and the syncs of data files may fail, the
machine may crash at any step, snapshots come and go. With `DeleteMayFail` the code
breaks `ReferencedFilesExist`, with `SegmentsSyncMayFail` `Recoverable` (section 5),
so that these two parts cannot be dropped. The third is what the proof needs, since
its invariant has the segments_N of a prepared commit in the directory; `merge`
checks `ReferencedFilesExist` and `SegmentsUsable` with `DeleteAllWhilePending`, and
`failures` checks `SyncedIsStable` where deletions and syncs fail.

| Theorem | Property |
|---|---|
| `ReferencedFilesAreThere` | `ReferencedFilesExist` |
| `SegmentsAreUsable` | `SegmentsUsable` |
| `SyncedFilesAreStable` | `SyncedIsStable` |
| `CommitPointsAreDurable` | `CommitPointsDurable` |
| `SnapshotIsHeld` | `SnapshotHeld` |
| `FilesAreWrittenOnce` | `WriteOnce` |
| `IndexIsRecoverable` | `Recoverable`, where moreover `SegmentsWriteMayFail` is FALSE |

None is inductive. That a file with a reference exists needs that nobody unlinks or
overwrites it, which needs to know where names come from: that the counter of
segmentInfos is above all numbers in use, that no deletion generation on disk is
ahead of its segment's, and that both stay so when a crash or a rollback goes back to
an older commit. The invariant is `IInv /\ TypeInv /\ FilesInv`, and the parts of
`FilesInv` are:

- `PlaceInv`: what goes with the user thread's place (a closing writer has no commit
  pending, a closed one has forgotten everything);
- `DirectoryInv`: stable files exist, and a segments_N is there exactly when it has
  contents;
- `TidyInv`: what is held exists, what is about to be unlinked is not held, no
  deletion is outstanding;
- `SyncedInv`: what the deleter counts as synced is stable;
- `SegsInv`: the last checkpoint was of the live segments, and their numbers and
  deletion generations are ahead of every file that will stay;
- `RamInv`, `StoreInv`, `MergeInv`: the names of the buffered segment, of the open
  doc store and of the segment being merged are in nobody else's hands;
- `HistoryInv`: the same order of numbers and generations among the segments_N of the
  directory, oldest to newest;
- `PointInv`: each commit point is a readable segments_N with stable files, each
  segments_N is a commit point, or pending, or about to go, and the commit a snapshot
  or a rollback goes back to is among them;
- `SyncInv`: what the commit under way has synced so far;
- `RestInv`: without a writer, a readable segments_N has all its files or a newer one
  is there.

Inside a handler `Sound` says this of the record `w` that its pieces pass on:
`SoundStep` (write files, change segments, checkpoint), `SoundSpare` (files nobody
refers to) and `SoundChange` are the three ways a handler's piece changes it. One lemma
per action (`FilesFlush`, `FilesCheckpoint`, `FilesOpen`, ...) concludes, and
`NextFiles` collects them. The invariant was run by TLC, in the configurations of
`crash` and `merge`, before it was proved. `WriteOnce` is an action property and comes
from the step lemmas themselves (`WriteStep`).

`Recoverable` adds two invariants, both run by TLC first. `LatestInv` needs only
`Reliable`: the newest commit point of an open writer is the acknowledged one, and
segments.gen is not ahead of what can be read. `GapInv` says that generations leave no
gap (`Gapless`: every segments_N up to the acknowledged one is whole, and at most one
is behind it) and that the next commit takes the next one (`NextInLine`).
`FindSegmentsLast` then says what doRun comes to in such a directory. A write that
throws leaves a gap, and `commit_lost` is what comes of it: the hypothesis
`~SegmentsWriteMayFail`, which is that of the run `crash`, cannot be dropped.
Flushes, merges and syncs of data files may fail.

### Threads that commit

For any set of threads, `CommitThreadsProofs` proves:

- **`Typed`**: `TypeOK`, with `SyncingFile` (a thread inside a sync holds a file),
  without which `synced` could take in the value for "no file".
- **`CommitsAreSynced`**: `CommitsSynced`, strengthened by `CopySynced`: the files of
  a thread's copy are synced, or not yet visited, or left to another thread, or in
  its own hands; `waitForAllSynced` then leaves only the first case.
- **`SegmentsFilesOnce`**: `SegmentsFileOnce`, strengthened by `GenInv`: no written
  generation is above that of segmentInfos, and a pending commit has exactly that one.
- **`CommitsCover`**, **`CommitsOnlyAdvance`**, **`ClosedStays`**: when no thread
  calls rollback (`Calm`; with rollback the three fail, section 5), a commit that
  returns covers what was added before it, no commit takes back another, and a
  closed writer writes nothing more. The invariant `CalmInv` orders the change
  counts and the contents of what is committed, pending, copied and live
  (`Ordered`), says what a closed writer has left (`ClosedInv`), and for each place
  of a thread what it still has to commit (`CallInv`, `CloseInv`, `CoverInv`).

### Documents

`DocumentsThreadsProofs` first proves the ring: add, which writes, stores, grows the ring and
then writes those behind, puts a document under its number and changes no other
(**`AddedContent`**), for every ring. How far it
writes is an induction over the naturals, done by a least counterexample (`WFMin` of
`WellFoundedInduction` with `NatLessThanWellFounded`), since the induction theorems
themselves take an operator.

Then, for any finite set of threads, any number of thread
states, any ring and all failures **`Invariant`**: `IInv` says how the pc of a
thread goes with its binding and flags (`Kinds`, `Flags`, `Owners`), that pauses and
documents under way are counted (`PausesCounted`, `StartsCounted`), where each number
handed out is (`Numbered`, `Documents`, `RingKept`), and what holds while somebody
aborts, closes or is due to flush (`Aborting`, `Closing`, `LastFlush`, `FlushIsDue`).
It gives **`Typed`**, **`QueueIsConsistent`**, **`PendingFlushIsDue`** and the
refinement **`ImplementsBuffer`**: `Spec => BuffersDocuments`, initial states and
steps (the abstract specification states no fairness).

### Readers

`FindSegmentsFileProofs` proves, for any number of generations and reads,
**`Invariant`** (`IInv`: the newest whole commit of the directory, what the reader
may have seen of it since it began, where it looks ahead, how often it has retried;
and in a quiet directory, how far each step is towards what `FindSegments` says),
and from it **`Typed`**, **`GivesUpRarely`** (`KeepsLooking`),
**`ReadersAreNotStale`** (`NeverStale`) and **`SearchIsFindSegments`**
(`QuietFinds`). The attempt to prove `KeepsLooking` showed that its first form was
false beyond the bounds of the run: it had no exception for a look-ahead that is
overtaken by more than ten commits.

### Merges

`MergeThreadsProofs` proves, for any finite set of threads, any number of merge
threads, all calls and all bounds, **`Invariant`**: `Spec => []IInv`, whose parts
are

- `RegInv`, of the registry alone: a merge is known by its first segment
  (`RegNamed`), is pending once or running, without a name while it is pending
  (`RegQueued`), `mergingSegments` is what its merges reserve (`RegMerging`), and no
  two merges share a segment, nor is what becomes of one a source of another
  (`RegDisjoint`);
- `ProcInv`: what a process merges is a running merge, of no other process, which
  has its name from mergeInit on unless it was aborted;
- `AllNamed`: the lists of segments, the two saved ones too, have only names
  that were given, so that the one mergeInit gives is new;
- `Transactions`: who runs a transaction has the write lock and who has the lock
  runs one or rolls it back (`InLock`); segments of another directory are in the list
  only meanwhile, and in no saved list;
- `Upgrading`, `Paused` and `Typed`: who upgrades a lock reads; pauseAllThreads and
  resumeAllThreads go in pairs, so that the count never falls below zero.

It gives **`RegistryIsConsistent`** (`RegistryConsistent`), **`TypeCorrect`**
(`TypeOK`) and **`NoExternalCommitted`** (`NoExternal`).

The registry needs to know what the policy proposes, since registerMerge takes a
merge only by its names. **`FindMergesAre`** and `FindMergesForOptimizeAre` say it
for every list: each merge proposed is a run of neighbours of the list, not empty,
and no two proposed together have a segment in common. The list of proposals is
built by a function on a prefix of the levels; that it stays in bounds is an
induction by a least counterexample, as for the ring above. One lemma for each
operation of the registry (`RegisteredKeeps`, `StartedKeeps`, `FinishedKeeps`,
`AbortedKeeps`, ...) shows that it keeps `RegInv`; one lemma for each action lifts
these to a step.

`MergeDocumentsProofs` goes on from `IInv` to four properties:

| Theorem | Property | Calls |
|---|---|---|
| `DocumentsAreKept` | `DocsKept` | no addIndexes(readers), and not both deleteAll and addIndexesNoOptimize (`NoneReplaced`) |
| `MergesHaveStopped` | `MergesStopped` | neither deleteAll nor addIndexes(readers) (`NoneTaken`) |
| `RollbackRestores` | `RollbackReverts` | `NoneTaken` |
| `MergesCommit` | `MergesCanCommit` | `NoneTaken` |

Both hypotheses hold of the run `merge_aborts`, which checks the first three; TLC finds
`MergesCanCommit` to hold with its constants too, and `merge_threads` checks it for
calls the theorem leaves out, addIndexes(readers) among them. The hypotheses cannot be
dropped: section 5 has, for each call they exclude, the constants with which TLC finds
`DocsKept`, `RollbackReverts` and `MergesCanCommit` violated, and `MergesStopped` with
deleteAll. That `MergesStopped` leaves addIndexes(readers) out as well is what the
proof needs: TLC found no violation with it. Threads, merge threads, segments, added
indexes, failures and the other calls are arbitrary.

- For `DocsKept`: `Identified`, that a name is that of one segment in all lists and
  merges, and that a merge has not used its own before commitMerge, so that
  commitMerge finds its segments and takes no others (`MergedParts`). `Exclusive`,
  who may be where at once: who has the write lock runs addIndexesNoOptimize and has
  flushed before, nobody reverts meanwhile, one thread closes. `Kept`, the
  documents of the three lists: those of the segments are `expected`, those of the
  last commit are `committed`, and those saved at the start of a transaction are
  `expected` without `txAdded` (`WithoutAdded`). The history variable loses
  documents by a recursive function, `Without`, whose two lemmas go by the least
  counterexample, as do those about the concatenation of documents (`DocsConcat`).
- For `MergesStopped`: `Stopped`, what stopMerges stands for. Who waits in
  finishMerges with the write lock has it set, and as long as it is set no merge is
  pending and each that runs was told to abort (`NoneLeft`); a rollback that has
  put the segments back still has it set (`Reverted`). `Paths` says where a rollback
  comes by.
- For `RollbackReverts`: `Restores`, that from the revert on nothing is buffered,
  nobody has the write lock, and what is expected is what was committed.
- For `MergesCanCommit`: `Fitting`, that each merge is aborted, committed or
  contiguous, unless a rollback has put the segments back and not come to its second
  finishMerges. A flush or a transaction only appends (`ContiguousStays`), another
  merge takes a run that has no segment in common with this one
  (`ContiguousMerged`), and a transaction that fails has no merge left
  (`NoneLeftFits`).

### Only model-checked

- Liveness (`CommitReturns`, `CallsReturn`, `MergeCallsReturn`, `ReaderReturns`), which is out of
  the prover's reach.
- Of `IndexWriter`, `ClosedLeavesNoGarbage`, `LastCommitStays`,
  `ClosedForgetsNothing`, and everything about files when deletions fail.
- Of `MergeThreads`, the action property `OptimizeDone`; and `DocsKept` and
  `MergesCanCommit` when addIndexes(readers) is among the calls, which hold in
  `merge_threads` for three calls and no failing merge, but not in general.

## 7. Plan

Left to prove, the most important first:

1. of `IndexWriter`, `ClosedLeavesNoGarbage` without crashes (after one it is false,
   section 5), which needs that each file of the directory has a holder or is
   about to go;
2. of `MergeThreads`, `OptimizeDone`, which needs to follow the marks of optimize from
   merge to merge.

Left to model:

1. the lock factories with two writers (`SimpleFSLock::obtain` opens the lock file
   whether it exists or not);
2. SegmentReader's reference counts, deletes and norms, with the caches of
   `SegmentInfo::files`; near-real-time readers;
3. SerialMergeScheduler, expungeDeletes, the byte sizes of the policies.

### Not modelled

- Analysis (tokenizers, filters, the tables of `gunichartables.h` and
  `ASCIIFoldingFilter`), the Snowball stemmers, the highlighter and the rest of
  contrib: sequential functions of text, most of them generated or tables. A model
  would repeat them line by line and say nothing a test does not.
- The query parser and its token manager: generated.
- Search (queries, weights, scorers, collectors, sorting, field caches): numeric, over
  immutable segments, one thread to a searcher.
- The indexing chain, codecs, term vectors, stored fields and byte formats: one
  thread's data structures; what they share, the state of DocumentsWriter and the
  files, is modelled.
- LuceneThread, ThreadPool, SyncLock, LuceneSignal: taken as what they provide, a
  lock that its holder can take again and a wait that may miss its notification.

These parts are by far the larger share of the source: the stemmers and Unicode
tables alone are more than a quarter of the lines, so that the modelled lines, though they
cover most of what runs concurrently or meets failures, are a small part of the
repository.
