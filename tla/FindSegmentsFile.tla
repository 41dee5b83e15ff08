-------------------------- MODULE FindSegmentsFile --------------------------
(***************************************************************************)
(* A reader looks for the newest commit while a writer commits, rolls back *)
(* and deletes: FindSegmentsFile::doRun step by step, for IndexReader::    *)
(* open, DirectoryReader::isCurrent and reopen.  Nothing keeps the two     *)
(* apart.  SegmentInfos!FindSegments is what doRun comes to in a directory *)
(* nobody changes; here that is a property, not a definition.              *)
(*                                                                         *)
(* Readers do not write, so that one of them stands for all.  The writer   *)
(* is reduced to what it does to the directory; the lock over its commits  *)
(* and its files are those of module IndexWriter.                          *)
(***************************************************************************)
EXTENDS SegmentInfos, FiniteSets

CONSTANTS MaxGeneration,   \* bound on the generations of commits
          GenFileRetries,  \* defaultGenFileRetryCount
          AtomicListing,   \* listAll sees the directory at one moment
          Snapshots,       \* the policy may keep a commit that is not the last
          CommitMayFail    \* a commit may throw in a writer that stays open

ASSUME BoundsAssumption == /\ MaxGeneration \in Nat \ {0, 1}
                           /\ GenFileRetries \in Nat \ {0}
ASSUME SwitchesAssumption == {AtomicListing, Snapshots, CommitMayFail}
                                \subseteq BOOLEAN

VARIABLES files,    \* the names in the directory, segments.gen excepted
          sis,      \* what segments_g holds: [valid, segs], segs a set
          segGen,   \* what segments.gen holds: None when missing, 0 when empty
          writer,   \* the IndexWriter that holds the write lock
          reader,   \* the thread that looks for a commit
          atStart,  \* the newest commit and the commit points when it began
          quiet,    \* the directory has not changed since
          failed    \* the generations of commits that threw

dirVars == <<files, sis, segGen>>
histVars == <<atStart, quiet, failed>>
vars == <<files, sis, segGen, writer, reader, atStart, quiet, failed>>

Empty == 0
Generations == 1..MaxGeneration

Commits == {g \in Generations : Readable(files, sis, g)}

\* Every directory of this module holds a commit that can be read
Newest == CHOOSE g \in Commits : \A h \in Commits : h <= g

\* The files of commit g, in the directory or not
CommitFiles(g) == {Segments(g)} \cup {Core(n) : n \in sis[g].segs}

Larger(a, b) == IF a < b THEN b ELSE a

-----------------------------------------------------------------------------
(***************************************************************************)
(* The writer.  pc is where it is in a commit; last the commit it knows to *)
(* be the newest, generation that of its segmentInfos, points the commit   *)
(* points of its deleter, doomed what is being unlinked.                   *)
(***************************************************************************)
Closed == [pc |-> "closed", generation |-> None, last |-> None,
           points |-> {}, snapshot |-> None, doomed |-> {}]

\* A thread is in doRun
Reading == reader.pc \notin {"idle", "noFile", "threw"}

\* The directory changes: a reader under way is no longer alone in it
Changes == quiet' = ~Reading /\ UNCHANGED <<reader, atStart, failed>>

At(p) == writer.pc = p /\ writer.doomed = {}

\* IndexFileDeleter: every file that no commit point of P refers to
Unreferenced(P) == files \ UNION {CommitFiles(g) : g \in P}

\* Mutant: the deleter's constructor removes nothing
OpenKeepsOld ==
    /\ At("closed")
    /\ LET g == FindSegments(files, sis, segGen)
       IN  writer' = [Closed EXCEPT !.pc = "idle", !.generation = g,
                                    !.last = g, !.points = {g}]
    /\ UNCHANGED <<dirVars, reader, histVars>>

\* The IndexWriter's constructor, and that of its deleter: all but the
\* newest commit is removed, and whatever no commit refers to
Open ==
    /\ At("closed")
    /\ LET g == FindSegments(files, sis, segGen)
       IN  writer' = [Closed EXCEPT !.pc = "idle", !.generation = g,
                                    !.last = g, !.points = {g},
                                    !.doomed = Unreferenced({g})]
    /\ UNCHANGED <<dirVars, reader, histVars>>

\* Mutant: what was deleted stays on the list
UnlinkKeeps ==
    \E f \in writer.doomed :
        /\ files' = files \ {f}
        /\ Changes /\ UNCHANGED <<sis, segGen, writer>>

\* FSDirectory::deleteFile, one file of a handler after the other
Unlink ==
    \E f \in writer.doomed :
        /\ files' = files \ {f}
        /\ writer' = [writer EXCEPT !.doomed = @ \ {f}]
        /\ Changes /\ UNCHANGED <<sis, segGen>>

\* SegmentInfos::prepareCommit: segments_N is created and written, all but
\* its checksum.  The commit adds a segment or merges all there are.
Prepare ==
    /\ At("idle") /\ writer.generation < MaxGeneration
    /\ LET g == writer.generation + 1
       IN  /\ \E old \in {{}, sis[writer.last].segs} :
                 sis' = [sis EXCEPT ![g] = [valid |-> FALSE,
                                            segs |-> old \cup {g}]]
           /\ files' = files \cup {Segments(g), Core(g)}
           /\ writer' = [writer EXCEPT !.pc = "prepared", !.generation = g]
    /\ Changes /\ UNCHANGED segGen

\* rollbackCommit: segments_N is deleted.  IndexWriter::rollback closes the
\* writer and removes the segment; one whose write or finishCommit threw
\* stays open and keeps it, to be merged into that of a later commit, and the
\* generation too (startCommit's updateGeneration, on error as well).
RollbackCommit ==
    /\ At("prepared")
    /\ files' = files \ {Segments(writer.generation)}
    /\ \E throws \in {FALSE, CommitMayFail} :
          /\ writer' = [writer EXCEPT
                           !.pc = IF throws THEN "idle" ELSE "closed",
                           !.doomed = IF throws THEN {}
                                      ELSE {Core(writer.generation)}]
          /\ failed' = failed \cup (IF throws THEN {writer.generation} ELSE {})
    /\ sis' = [sis EXCEPT ![writer.generation].segs = {writer.generation}]
    /\ quiet' = ~Reading
    /\ UNCHANGED <<segGen, reader, atStart>>

\* finishCommit: the checksum is written, and segments_N closed and synced
FinishSegmentsFile ==
    /\ At("prepared")
    /\ sis' = [sis EXCEPT ![writer.generation].valid = TRUE]
    /\ writer' = [writer EXCEPT !.pc = "removeGen"]
    /\ Changes /\ UNCHANGED <<files, segGen>>

\* finishCommit: createOutput removes segments.gen and creates it, empty;
\* it is written when it is closed.  That it cannot be created is ignored.
SegmentsGen(from, to, held) ==
    /\ At(from)
    /\ segGen' = held /\ writer' = [writer EXCEPT !.pc = to]
    /\ Changes /\ UNCHANGED <<files, sis>>

RemoveGen   == SegmentsGen("removeGen", "createGen", None)
CreateGen   == SegmentsGen("createGen", "fillGen", Empty)
CreateFails == SegmentsGen("createGen", "checkpoint", None)
FillGen     == SegmentsGen("fillGen", "checkpoint", writer.generation)

\* The deleter's checkpoint(segmentInfos, true): the policy keeps the new
\* commit and the snapshot
Checkpoint ==
    /\ At("checkpoint")
    /\ LET g == writer.generation
           kept == (writer.points \cap {writer.snapshot}) \cup {g}
       IN  writer' = [writer EXCEPT !.pc = "idle", !.last = g,
                                    !.points = kept,
                                    !.doomed = Unreferenced(kept)]
    /\ UNCHANGED <<dirVars, reader, histVars>>

\* SnapshotDeletionPolicy::snapshot and release; the next writer has a new
\* policy
Snapshot ==
    /\ Snapshots /\ At("idle")
    /\ writer' = [writer EXCEPT !.snapshot =
                     IF @ = None THEN writer.last ELSE None]
    /\ UNCHANGED <<dirVars, reader, histVars>>

WriterNext == \/ Open \/ Unlink \/ Prepare \/ RollbackCommit
              \/ FinishSegmentsFile \/ RemoveGen \/ CreateGen
              \/ CreateFails \/ FillGen \/ Checkpoint \/ Snapshot

-----------------------------------------------------------------------------
(***************************************************************************)
(* The reader.  opened is the commit its IndexReader shows, None before    *)
(* the first; call which body is run: "open", the same for reopen, or      *)
(* "current", which only reads segments_N.  The other fields are doRun's   *)
(* locals; at is the generation the body is run on, unseen what is left of *)
(* the listing, toOpen the segments that are still to be opened.           *)
(***************************************************************************)
Reader(p, c, o) ==
    [pc |-> p, call |-> c, opened |-> o, unseen |-> Generations,
     genA |-> None, tries |-> 0, gen |-> 0, lastGen |-> None, retry |-> FALSE,
     method |-> 0, ahead |-> 0, at |-> None, toOpen |-> {}]

\* What was, where nobody reads
NotReading == [newest |-> 1, points |-> {}]

ReaderStep(r) ==
    /\ reader' = r
    /\ IF r.pc = "idle" THEN atStart' = NotReading /\ quiet' = TRUE
       ELSE UNCHANGED <<atStart, quiet>>
    /\ UNCHANGED <<dirVars, writer, failed>>

\* IndexReader::open, or reopen of the reader opened before: isCurrent first
Start ==
    /\ ~Reading
    /\ reader' = IF reader.opened = None THEN Reader("list", "open", None)
                 ELSE Reader("list", "current", reader.opened)
    /\ atStart' = [newest |-> Newest, points |-> writer.points]
    /\ quiet' = TRUE
    /\ UNCHANGED <<dirVars, writer, failed>>

\* Method 1: FSDirectory::listAll, through FileUtils::listDirectory: the
\* names one by one, in whichever order the directory gives them out.  (The
\* type of an entry comes with its name, so that none is found gone.)
ListEntry ==
    /\ reader.pc = "list"
    /\ IF AtomicListing
       THEN ReaderStep([reader EXCEPT
               !.genA = CurrentSegmentGeneration(files, sis), !.pc = "gen"])
       ELSE \E g \in reader.unseen :
               ReaderStep([reader EXCEPT
                  !.unseen = @ \ {g},
                  !.genA = IF Segments(g) \in files THEN Larger(@, g) ELSE @,
                  !.pc = IF reader.unseen = {g} THEN "gen" ELSE "list"])

\* Mutant: method 1 is asked only when method 2 does not answer
ChosenGenFirst(r, genB) ==
    LET g == IF genB = None THEN r.genA ELSE genB
    IN  [r EXCEPT !.gen = g, !.genA = None,
                  !.pc = IF g = None THEN "noFile" ELSE "choose"]

\* Both methods have answered: the larger generation, or an exception that
\* is not one of those doRun catches
Chosen(r, genB) ==
    LET g == Larger(r.genA, genB)
    IN  [r EXCEPT !.gen = g, !.genA = None,
                  !.pc = IF g = None THEN "noFile" ELSE "choose"]

\* Mutant: an empty segments.gen is read until it is not
ReadSegmentsGenForEver ==
    /\ reader.pc = "gen"
    /\ ReaderStep(IF segGen = Empty THEN [reader EXCEPT !.tries = 1]
                  ELSE Chosen(reader, segGen))

\* Method 2: segments.gen; when it is not whole it is read again after a
\* pause, a bounded number of times
ReadSegmentsGen ==
    /\ reader.pc = "gen"
    /\ ReaderStep(IF segGen # Empty THEN Chosen(reader, segGen)
                  ELSE IF reader.tries + 1 = GenFileRetries
                       THEN Chosen(reader, None)
                       ELSE [reader EXCEPT !.tries = @ + 1])

\* Mutant: the same generation is never tried a second time
ChooseNoRetry ==
    /\ reader.pc = "choose"
    /\ ReaderStep(IF reader.lastGen = reader.gen
                  THEN [reader EXCEPT !.pc = "threw"]
                  ELSE [reader EXCEPT !.lastGen = reader.gen,
                                      !.at = reader.gen, !.pc = "read"])

(***************************************************************************)
(* Which segments_N is tried: the generation found, once more when it was  *)
(* tried before, then the ones after it (method 3), and when these are     *)
(* used up the first exception is thrown.                                  *)
(***************************************************************************)
Choose ==
    /\ reader.pc = "choose"
    /\ LET m == IF reader.method = 1
                     \/ (reader.lastGen = reader.gen /\ reader.retry)
                THEN 1 ELSE 0
           step == IF m = 1 /\ reader.ahead < LookaheadCount THEN 1 ELSE 0
           g == reader.gen + step
           again == reader.lastGen = g
       IN  ReaderStep(IF again /\ reader.retry
                      THEN [reader EXCEPT !.pc = "threw"]
                      ELSE [reader EXCEPT
                              !.method = m, !.ahead = @ + step, !.gen = g,
                              !.lastGen = g, !.at = g, !.pc = "read",
                              !.retry = again \/ (m = 1 /\ @)])

\* The body threw: the segments_N before this one is tried unless the same
\* was tried twice, and the loop goes on
Failed(r) ==
    IF r.at = r.gen /\ ~r.retry /\ r.gen > 1 THEN [r EXCEPT !.pc = "prior"]
    ELSE IF r.method = 1 THEN [r EXCEPT !.pc = "choose"]
    ELSE [r EXCEPT !.pc = "list", !.unseen = Generations, !.tries = 0,
                   !.gen = 0, !.at = None]

\* The IndexReader of commit at is there; or isCurrent has its answer, and
\* reopen goes on to look for the commit anew when it is another
Found(r) ==
    IF r.call = "current" /\ r.at # r.opened
    THEN Reader("list", "open", r.opened)
    ELSE Reader("idle", r.call, r.at)

\* SegmentInfos::read, and whose segments reopen has not open already
ReadSegmentsFile ==
    /\ reader.pc = "read"
    /\ LET r == reader
           held == IF r.opened = None THEN {} ELSE sis[r.opened].segs
           new == IF r.call = "open" THEN sis[r.at].segs \ held ELSE {}
       IN  ReaderStep(
              IF r.at \notin Commits THEN Failed(r)
              ELSE IF new = {} THEN Found(r)
              ELSE [r EXCEPT !.pc = "segments", !.toOpen = new])

\* SegmentReader::get, from the newest segment to the oldest
OpenSegment ==
    /\ reader.pc = "segments"
    /\ LET r == reader
           n == CHOOSE k \in r.toOpen : \A i \in r.toOpen : i <= k
       IN  ReaderStep(
              IF Core(n) \notin files THEN Failed([r EXCEPT !.toOpen = {}])
              ELSE IF r.toOpen = {n} THEN Found(r)
              ELSE [r EXCEPT !.toOpen = @ \ {n}])

\* fileExists, of the segments_N before
CheckPrior ==
    /\ reader.pc = "prior"
    /\ LET r == [reader EXCEPT !.at = reader.gen - 1]
       IN  ReaderStep(IF Segments(r.at) \in files THEN [r EXCEPT !.pc = "read"]
                      ELSE Failed(r))

ReaderNext == \/ ListEntry \/ ReadSegmentsGen \/ Choose
              \/ ReadSegmentsFile \/ OpenSegment \/ CheckPrior

-----------------------------------------------------------------------------
(***************************************************************************)
(* Initially a crash has left a commit that can be read; next to it there  *)
(* may be one that was not finished, and parts of an older one that was    *)
(* being deleted.  segments.gen is never synced: it may be missing, empty  *)
(* or old.                                                                 *)
(***************************************************************************)
Init ==
    \E last \in 1..2, torn \in BOOLEAN,
       left \in SUBSET {Segments(1), Core(1)} :
        /\ torn => last < MaxGeneration
        /\ files = left \cup {Segments(last), Core(last)}
                     \cup (IF torn THEN {Segments(last + 1)} ELSE {})
        /\ sis = [g \in Generations |-> [valid |-> g <= last, segs |-> {g}]]
        /\ segGen \in {None, Empty} \cup 1..last
        /\ writer = Closed
        /\ reader = Reader("idle", "open", None)
        /\ atStart = NotReading /\ quiet = TRUE /\ failed = {}

Next == WriterNext \/ Start \/ ReaderNext

Spec == Init /\ [][Next]_vars

\* A reader that looks for a commit goes on; the writer need not
FairSpec == Spec /\ WF_vars(ReaderNext)

-----------------------------------------------------------------------------
TypeOK ==
    /\ files \subseteq {Segments(g) : g \in Generations}
                         \cup {Core(g) : g \in Generations}
    /\ sis \in [Generations -> [valid: BOOLEAN, segs: SUBSET Generations]]
    /\ segGen \in {None, Empty} \cup Generations
    /\ writer \in [pc: {"closed", "idle", "prepared", "removeGen",
                        "createGen", "fillGen", "checkpoint"},
                   generation: {None} \cup Generations,
                   last: {None} \cup Generations,
                   points: SUBSET Generations,
                   snapshot: {None} \cup Generations,
                   doomed: SUBSET files]
    /\ reader \in [pc: {"idle", "list", "gen", "choose", "read", "segments",
                        "prior", "noFile", "threw"},
                   call: {"open", "current"},
                   opened: {None} \cup Generations,
                   unseen: SUBSET Generations,
                   genA: {None} \cup Generations,
                   tries: 0..GenFileRetries,
                   gen: Int, lastGen: Int, retry: BOOLEAN, method: {0, 1},
                   ahead: 0..LookaheadCount, at: Int,
                   toOpen: SUBSET Generations]
    /\ atStart \in [newest: Generations, points: SUBSET Generations]
    /\ quiet \in BOOLEAN /\ failed \subseteq Generations

\* The reader has just come to an end
Finds == Reading /\ reader'.pc = "idle"

(***************************************************************************)
(* What a reader opens is the commit that was the newest when it began, or *)
(* a later one; or else an older commit the policy kept for a snapshot,    *)
(* which the fallback to the segments_N before comes upon when the newest  *)
(* is deleted under it.  But for snapshots, reopen does not go back in     *)
(* time.                                                                   *)
(***************************************************************************)
NeverStale ==
    [][Finds => \/ reader'.opened \in atStart.newest..Newest
                \/ reader'.opened \in atStart.points]_vars

(***************************************************************************)
(* A reader that gives up while a writer commits.  It throws only when the *)
(* generation before the unfinished one it found is that of a commit that  *)
(* failed: the fallback does not look further back; or when the writer     *)
(* finished every commit of the look-ahead, and removed it again before    *)
(* the reader came to it.  And it sees no segments_N at all only when the  *)
(* listing is not atomic and a commit was finished meanwhile.              *)
(***************************************************************************)
KeepsLooking ==
    /\ reader.pc = "threw" =>
          \/ reader.gen - reader.ahead - 1 \in failed
          \/ reader.ahead = LookaheadCount /\ Newest > reader.gen
    /\ reader.pc = "noFile" => ~AtomicListing /\ Newest > atStart.newest

\* In a directory that nobody changes doRun comes to what FindSegments says,
\* whatever a crash or a failed commit has left there
QuietFinds ==
    [][Reading /\ ~Reading' /\ quiet =>
         LET g == FindSegments(files, sis, segGen)
         IN  IF g = None THEN reader'.pc # "idle"
             ELSE reader'.pc = "idle" /\ reader'.opened = g]_vars

\* A reader comes to an end: with a commit, or with an exception
ReaderReturns == Reading ~> ~Reading
=============================================================================
