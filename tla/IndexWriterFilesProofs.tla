------------------------ MODULE IndexWriterFilesProofs ------------------------
(***************************************************************************)
(* What the directory holds: the files that somebody refers to are there,  *)
(* commit points are on stable storage, and no name is used again.         *)
(***************************************************************************)
EXTENDS IndexWriterProofs

-----------------------------------------------------------------------------
\* The switches that are off where the code breaks what is proved here:
\* deletions succeed, so does the sync of segments_N, and nobody calls
\* deleteAll while a commit is prepared.
Reliable == ~DeleteMayFail /\ ~SegmentsSyncMayFail /\ ~DeleteAllWhilePending

\* A file of the index proper, not a segments_N
IsData(f) == f[1] # "segments"

\* The numbers of the files of F were handed out before n.
NumbersBelow(F, n) == \A f \in F : IsData(f) => f[2] < n

\* The deletion generations in F are not ahead of those of segs.
DelsBelow(segs, F) ==
    \A k \in DOMAIN segs : \A f \in F :
        f[1] = "del" /\ f[2] = segs[k].name => f[3] <= segs[k].delGen

\* A segment has one deletion generation.
Coherent(segs) ==
    \A j, k \in DOMAIN segs :
        segs[j].name = segs[k].name => segs[j].delGen = segs[k].delGen

-----------------------------------------------------------------------------
\* The handlers change segments, not only the end of a rollback or a close.
Alive == /\ status = "open" /\ pc # "drain"
         /\ ~(pc = "closing" /\ op = "rollback")

\* The files that will stay, and those somebody refers to
Staying == files \ ifd.doomed
HeldFiles == Held(ifd, Committing)

PlaceInv ==
    /\ pc \in {"closing", "drain"} => ~pending /\ op \in {"close", "rollback"}
    /\ pc = "aborting" => op \in {"rollback", "deleteAll"}
    /\ pc = "aborting" /\ op = "deleteAll" => ~pending
    /\ pc = "closing" /\ op = "rollback" =>
          merge.stage = "none" /\ pooled = {} /\ infos.segs = rollbackInfos
    /\ status # "open" =>
          /\ ifd = NoDeleter /\ merge = NoMerge /\ pooled = {}
          /\ ram = None /\ docStore = None
          /\ toSync = NoInfos /\ infos = NoInfos /\ rollbackInfos = <<>>

\* segments_N files and their contents
DirectoryInv ==
    /\ stable \subseteq files
    /\ \A g \in DOMAIN sis : Segments(g) \in files
    /\ \A f \in files : ~IsData(f) => f[2] \in DOMAIN sis /\ f = Segments(f[2])

\* The deleter knows what is there: no deletion is outstanding from before,
\* what is held exists, what is about to go is not held, what is synced is.
TidyInv == status = "open" => Tidy(ifd, Committing, files)

SyncedInv == status = "open" => ifd.synced \subseteq stable

SegsInv ==
    Alive =>
        /\ ifd.lastFiles[1] = InfosFiles(infos.segs)
        /\ \A f \in ifd.lastFiles[2] : IsData(f)
        /\ NumbersBelow(Staying, infos.counter)
        /\ DelsBelow(infos.segs, Staying)
        /\ Coherent(infos.segs)

\* The name of the buffered documents' segment is not in use, but for the
\* doc store it may share with them.
RamInv ==
    Alive /\ ram # None =>
        /\ ram < infos.counter /\ docStore # None
        /\ \A f \in Staying :
              IsData(f) /\ f[2] = ram => docStore = ram /\ f = Store(ram)

StoreInv ==
    Alive /\ docStore # None =>
        /\ docStore < infos.counter
        /\ Store(docStore) \in Staying
        /\ Cfx(docStore) \notin Staying
        /\ \/ Store(docStore) \in ifd.lastFiles[2]
           \/ Store(docStore) \notin HeldFiles

MergeInv ==
    Alive /\ merge.stage \notin {"none", "merged"} =>
        /\ merge.name < infos.counter
        /\ merge.name # ram /\ merge.name # docStore
        /\ \A f \in HeldFiles : IsData(f) => f[2] # merge.name
        /\ \A f \in Staying : IsData(f) /\ f[2] = merge.name =>
              /\ merge.stage = "written"
              /\ f \in {Core(merge.name), Store(merge.name), Cfs(merge.name)}
        /\ merge.stage = "written" =>
              IF UseCompoundFile THEN Cfs(merge.name) \in Staying
              ELSE /\ Core(merge.name) \in Staying
                   /\ merge.ds = None => Store(merge.name) \in Staying
        /\ merge.mds <=> merge.ds = None
        /\ merge.ds # None =>
              \E k \in DOMAIN infos.segs :
                  infos.segs[k].ds = merge.ds /\ (merge.dsc => infos.segs[k].dsc)

\* The commits in the directory, in the order they were made
HistoryInv ==
    /\ \A h \in DOMAIN sis :
          /\ NumbersBelow(InfosFiles(sis[h].segs), sis[h].counter)
          /\ Coherent(sis[h].segs)
    /\ \A g, h \in DOMAIN sis :
          h < g => /\ sis[h].counter <= sis[g].counter
                   /\ DelsBelow(sis[g].segs, InfosFiles(sis[h].segs))

\* A commit point is a readable segments_N with all its files.
IsPoint(c) ==
    /\ c.generation \in DOMAIN sis
    /\ sis[c.generation].valid
    /\ c.files = InfosFiles(sis[c.generation].segs) \cup {Segments(c.generation)}
    /\ c.files \subseteq stable
    /\ sis[c.generation].counter <= infos.counter

PointInv ==
    status = "open" =>
        /\ \A c \in ifd.commits : IsPoint(c)
        /\ \A h \in DOMAIN sis :
              \/ \E c \in ifd.commits : c.generation = h
              \/ pending /\ h = toSync.generation
              \/ /\ Segments(h) \in ifd.doomed
                 /\ sis[h].valid => \E c \in ifd.commits : c.generation > h
        /\ \E c \in ifd.commits : InfosFiles(rollbackInfos) \subseteq c.files
        /\ snapshot # None => \E c \in ifd.commits : c.generation = snapshot

\* The commit under way
SyncInv ==
    /\ pc \in {"sync", "turn", "unwind"} \/ pending =>
          /\ toSync.counter <= infos.counter
          /\ NumbersBelow(Committing, toSync.counter)
          /\ Coherent(toSync.segs)
          /\ \A c \in ifd.commits : /\ sis[c.generation].counter <= toSync.counter
                                    /\ DelsBelow(toSync.segs, c.files)
    /\ pc = "turn" \/ pending => Committing \subseteq stable
    /\ pending =>
          /\ toSync.generation \in DOMAIN sis
          /\ sis[toSync.generation].segs = toSync.segs
          /\ sis[toSync.generation].counter = toSync.counter
          /\ Segments(toSync.generation) \notin ifd.doomed
    /\ pc \in {"fcSync", "fcGen", "fcCheckpoint"} => sis[toSync.generation].valid
    /\ pc \in {"fcGen", "fcCheckpoint"} =>
          /\ Segments(toSync.generation) \in stable
          /\ toSync.lastGeneration = toSync.generation

\* Without a writer: a commit has all its files, or a newer one is there
\* and nobody holds on to it.
RestInv ==
    status # "open" =>
        /\ \A h \in DOMAIN sis :
              sis[h].valid =>
                 \/ InfosFiles(sis[h].segs) \cup {Segments(h)} \subseteq stable
                 \/ /\ snapshot # h
                    /\ \E g \in DOMAIN sis : g > h /\ sis[g].valid
        /\ snapshot # None => snapshot \in DOMAIN sis /\ sis[snapshot].valid

FilesInv == /\ PlaceInv /\ DirectoryInv /\ TidyInv /\ SyncedInv /\ SegsInv
            /\ RamInv /\ StoreInv /\ MergeInv /\ HistoryInv /\ PointInv
            /\ SyncInv /\ RestInv

-----------------------------------------------------------------------------
(***************************************************************************)
(* Inside a handler: what holds of its record w after each piece, with     *)
(* the numbers of M not touched and all numbers below N.                   *)
(***************************************************************************)
AllData(F) == \A f \in F : IsData(f)

Avoids(F, M) == \A f \in F : IsData(f) => f[2] \notin M

Sound(w, M, N) ==
    /\ Fine(w, ifd.commits, Committing)
    /\ Tidy(w.ifd, Committing, w.files)
    /\ w.segs \in Seq(SegmentInfo)
    /\ w.files \subseteq FileName
    /\ w.files = files \cup w.created /\ w.created \cap files = {}
    /\ w.ifd.doomed \subseteq w.files
    /\ w.ifd.synced \subseteq ifd.synced
    /\ w.ifd.lastFiles[1] = InfosFiles(w.segs)
    /\ AllData(w.ifd.lastFiles[2]) /\ AllData(w.ifd.doomed)
    /\ AllData(w.created)
    /\ Avoids(Held(w.ifd, Committing), M)
    /\ Avoids(w.ifd.doomed, M) /\ Avoids(w.created, M)
    /\ NumbersBelow(w.files, N)
    /\ DelsBelow(w.segs, w.files) /\ Coherent(w.segs)

\* Names for new files: nobody has used them.
Fresh(F, w, M, N) == /\ F \cap w.files = {} /\ F \subseteq FileName
                     /\ AllData(F) /\ Avoids(F, M) /\ NumbersBelow(F, N)

\* Files that are there and will stay
StaysIn(F, w, M) == /\ F \subseteq w.files \ w.ifd.doomed
                    /\ AllData(F) /\ Avoids(F, M)

\* A piece of a handler: new files, new segments and a checkpoint
Stepped(w, F, S1, O) == CheckpointW([Create(w, F) EXCEPT !.segs = S1], O)

\* What it does to the directory and to the deleter
StepOf(w, v, F, O) ==
    /\ v.files = w.files \cup F
    /\ v.created = w.created \cup F
    /\ v.ifd.lastFiles[2] = O
    /\ v.ifd.doomed \subseteq
          w.ifd.doomed \cup (Held(w.ifd, Committing) \ Held(v.ifd, Committing))

\* What one checkpoint gives up the one before it held.
LEMMA HeldParts ==
    ASSUME NEW d, NEW e, NEW T, e.commits = d.commits
    PROVE  /\ Held(e, T) \subseteq
                 e.lastFiles[1] \cup e.lastFiles[2] \cup Held(d, T)
           /\ Held(d, T) \ Held(e, T) \subseteq d.lastFiles[1] \cup d.lastFiles[2]
           /\ e.lastFiles[1] \subseteq Held(e, T)
           /\ e.lastFiles[2] \subseteq Held(e, T)
  BY DEF Held

\* The files of segments are data.
LEMMA SegmentsData ==
    ASSUME NEW S
    PROVE  AllData(InfosFiles(S))
  <1> SUFFICES ASSUME NEW k \in DOMAIN S, NEW f \in SegmentFiles(S[k])
               PROVE  IsData(f)
    BY DEF AllData, InfosFiles
  <1> QED
    BY DEF SegmentFiles, IsData, Cfs, Core, Cfx, Store, Del

\* The fields of the record after it
LEMMA SteppedFields ==
    ASSUME NEW w, NEW F, NEW S1, NEW O,
           DOMAIN w = {"files", "created", "segs", "ifd"}
    PROVE  /\ Stepped(w, F, S1, O).files = w.files \cup F
           /\ Stepped(w, F, S1, O).created = w.created \cup F
           /\ Stepped(w, F, S1, O).segs = S1
           /\ Stepped(w, F, S1, O).ifd = Checkpoint(w.ifd, InfosFiles(S1), O)
  BY DEF Stepped, CheckpointW, Create

\* v is w with a checkpoint of the segments S1 and the new files F.
CheckpointOf(w, v, F, S1, O) ==
    /\ DOMAIN v = {"files", "created", "segs", "ifd"}
    /\ v.files = w.files \cup F /\ v.created = w.created \cup F
    /\ v.segs = S1 /\ v.ifd = Checkpoint(w.ifd, InfosFiles(S1), O)

\* New files that the new segments refer to
LEMMA SoundCheckpointed ==
    ASSUME NEW w, NEW M, NEW N, NEW F, NEW S1 \in Seq(SegmentInfo), NEW O,
           NEW v, CheckpointOf(w, v, F, S1, O),
           Sound(w, M, N), Fresh(F, w, M, N), StaysIn(O, w, M),
           \A f \in InfosFiles(S1) : f \in F \/ StaysIn({f}, w, M),
           DelsBelow(S1, w.files \cup F), Coherent(S1)
    PROVE  Sound(v, M, N) /\ StepOf(w, v, F, O)
  <1> DEFINE T == Committing
             I == InfosFiles(S1)
  <1>1. /\ v.files = w.files \cup F /\ v.created = w.created \cup F
        /\ v.segs = S1 /\ v.ifd = Checkpoint(w.ifd, I, O)
    BY DEF CheckpointOf
  <1>2. Fine(v, ifd.commits, T)
    <2>1. Exact(w.ifd, T) /\ w.ifd.commits = ifd.commits
      BY DEF Sound, Fine
    <2>2. Exact(v.ifd, T) /\ v.ifd.commits = ifd.commits
      BY <1>1, <2>1, ExactCheckpoint
    <2> QED
      BY <2>2 DEF Fine, CheckpointOf
  <1>3. /\ Exact(w.ifd, T) /\ Settled(w.ifd) /\ w.ifd.commits = ifd.commits
        /\ v.ifd.commits = ifd.commits
    BY <1>2 DEF Sound, Fine, Tidy, Settled
  <1>4. /\ Releases(w.ifd, T, v.ifd, T)
        /\ v.ifd.lastFiles[1] = I /\ v.ifd.lastFiles[2] = O
    BY <1>1, <1>3, ReleasesCheckpoint
  <1> HIDE DEF T, I
  <1>5. /\ Held(v.ifd, T) \subseteq I \cup O \cup Held(w.ifd, T)
        /\ Held(w.ifd, T) \ Held(v.ifd, T)
              \subseteq w.ifd.lastFiles[1] \cup w.ifd.lastFiles[2]
        /\ I \subseteq Held(v.ifd, T)
    BY <1>3, <1>4, HeldParts
  <1>6. I \cup O \subseteq (w.files \ w.ifd.doomed) \cup F
    BY DEF StaysIn, I
  <1>7. /\ Held(w.ifd, T) \subseteq w.files
        /\ w.ifd.doomed \cap Held(w.ifd, T) = {}
        /\ w.ifd.doomed \subseteq w.files /\ F \cap w.files = {}
        /\ w.ifd.synced \subseteq Held(w.ifd, T)
    BY DEF Sound, Tidy, Fresh, T
  <1>8. Tidy(v.ifd, T, v.files)
    <2>1. Tidy(w.ifd, T, w.files)
      BY DEF Sound, T
    <2>2. Held(v.ifd, T) \subseteq v.files
      BY <1>1, <1>5, <1>6, <1>7
    <2>3. w.ifd.doomed \cap Held(v.ifd, T) = {}
      BY <1>5, <1>6, <1>7
    <2> QED
      BY <2>1, <2>2, <2>3, <1>4, TidyReleases
  <1>9. /\ v.files = files \cup v.created /\ v.created \cap files = {}
        /\ v.files \subseteq FileName
    BY <1>1, <1>7 DEF Sound, Fresh
  <1>10. /\ v.ifd.doomed \subseteq w.ifd.doomed \cup (Held(w.ifd, T) \ Held(v.ifd, T))
         /\ v.ifd.doomed \subseteq v.files
         /\ v.ifd.synced \subseteq ifd.synced
    BY <1>1, <1>4, <1>7 DEF Releases, Sound
  <1>11. AllData(w.ifd.lastFiles[1])
    BY SegmentsData DEF Sound
  <1>12. AllData(O) /\ AllData(v.ifd.doomed) /\ AllData(v.created)
    BY <1>1, <1>5, <1>10, <1>11 DEF Sound, AllData, StaysIn, Fresh
  <1>13. Avoids(I, M)
    BY DEF Avoids, StaysIn, Fresh, I
  <1>14. /\ Avoids(Held(v.ifd, T), M)
         /\ Avoids(v.ifd.doomed, M) /\ Avoids(v.created, M)
    BY <1>1, <1>5, <1>10, <1>13 DEF Sound, Avoids, StaysIn, Fresh, T
  <1>15. NumbersBelow(v.files, N)
    BY <1>1 DEF Sound, NumbersBelow, Fresh
  <1>16. DelsBelow(v.segs, v.files) /\ Coherent(v.segs)
    BY <1>1
  <1>17. v.ifd.lastFiles[1] = InfosFiles(v.segs) /\ v.segs \in Seq(SegmentInfo)
    BY <1>1, <1>4 DEF I
  <1>18. Sound(v, M, N)
    BY <1>2, <1>4, <1>8, <1>9, <1>10, <1>12, <1>14, <1>15, <1>16, <1>17
    DEF Sound, T
  <1>19. StepOf(w, v, F, O)
    BY <1>1, <1>4, <1>10 DEF StepOf, T
  <1> QED
    BY <1>18, <1>19

\* Writing the files F, setting the segments and a checkpoint keep the record
\* of a handler sound.
LEMMA SoundStep ==
    ASSUME NEW w, NEW M, NEW N, NEW F, NEW S1 \in Seq(SegmentInfo), NEW O,
           Sound(w, M, N), Fresh(F, w, M, N), StaysIn(O, w, M),
           \A f \in InfosFiles(S1) : f \in F \/ StaysIn({f}, w, M),
           DelsBelow(S1, w.files \cup F), Coherent(S1)
    PROVE  /\ Sound(Stepped(w, F, S1, O), M, N)
           /\ StepOf(w, Stepped(w, F, S1, O), F, O)
  <1>1. DOMAIN w = {"files", "created", "segs", "ifd"}
    BY DEF Sound, Fine
  <1>2. DOMAIN Stepped(w, F, S1, O) = {"files", "created", "segs", "ifd"}
    BY <1>1 DEF Stepped, CheckpointW, Create
  <1>3. CheckpointOf(w, Stepped(w, F, S1, O), F, S1, O)
    BY <1>1, <1>2, SteppedFields DEF CheckpointOf
  <1> QED
    BY <1>3, SoundCheckpointed

\* New files that nobody refers to, and files of nobody given up
SpareOf(w, v, F, D) ==
    /\ DOMAIN v = {"files", "created", "segs", "ifd"}
    /\ v.files = w.files \cup F /\ v.created = w.created \cup F
    /\ v.segs = w.segs
    /\ v.ifd.lastFiles = w.ifd.lastFiles /\ v.ifd.commits = w.ifd.commits
    /\ v.ifd.synced = w.ifd.synced /\ Settled(v.ifd)
    /\ Exact(v.ifd, Committing)
    /\ v.ifd.doomed \subseteq w.ifd.doomed \cup D

\* So does writing files that nobody refers to, and giving up files of nobody.
LEMMA SoundSpare ==
    ASSUME NEW w, NEW M, NEW N, NEW F, NEW D, NEW v,
           Sound(w, M, N), SpareOf(w, v, F, D), Fresh(F, w, M, N),
           \A f \in F : f[1] # "del",
           D \subseteq w.files \cup F, AllData(D), Avoids(D, M),
           D \cap Held(w.ifd, Committing) = {}
    PROVE  Sound(v, M, N)
  <1>1. Held(v.ifd, Committing) = Held(w.ifd, Committing)
    BY DEF Held, SpareOf
  <1>2. Fine(v, ifd.commits, Committing)
    BY DEF Fine, SpareOf, Sound
  <1>3. Tidy(v.ifd, Committing, v.files)
    BY <1>1 DEF SpareOf, Sound, Tidy, Settled
  <1>4. /\ v.files = files \cup v.created /\ v.created \cap files = {}
        /\ v.files \subseteq FileName
    BY DEF Sound, SpareOf, Fresh
  <1>5. v.ifd.doomed \subseteq v.files /\ v.ifd.synced \subseteq ifd.synced
    BY DEF Sound, SpareOf
  <1>6. /\ AllData(v.ifd.lastFiles[2]) /\ AllData(v.ifd.doomed)
        /\ AllData(v.created)
    BY DEF Sound, SpareOf, AllData, Fresh
  <1>7. /\ Avoids(Held(v.ifd, Committing), M)
        /\ Avoids(v.ifd.doomed, M) /\ Avoids(v.created, M)
    BY <1>1 DEF Sound, SpareOf, Avoids, Fresh
  <1>8. NumbersBelow(v.files, N)
    BY DEF Sound, SpareOf, NumbersBelow, Fresh
  <1>9. DelsBelow(v.segs, v.files) /\ Coherent(v.segs)
    BY DEF Sound, SpareOf, DelsBelow
  <1>10. v.ifd.lastFiles[1] = InfosFiles(v.segs) /\ v.segs \in Seq(SegmentInfo)
    BY DEF Sound, SpareOf
  <1> QED
    BY <1>2, <1>3, <1>4, <1>5, <1>6, <1>7, <1>8, <1>9, <1>10 DEF Sound

\* Creating files
LEMMA SoundCreate ==
    ASSUME NEW w, NEW M, NEW N, NEW F,
           Sound(w, M, N), Fresh(F, w, M, N), \A f \in F : f[1] # "del"
    PROVE  /\ Sound(Create(w, F), M, N)
           /\ SpareOf(w, Create(w, F), F, {})
  <1>1. SpareOf(w, Create(w, F), F, {})
    BY DEF SpareOf, Create, Sound, Fine, Tidy, Settled
  <1>2. AllData({}) /\ Avoids({}, M)
    BY DEF AllData, Avoids
  <1> QED
    BY <1>1, <1>2, SoundSpare

\* refresh
LEMMA SoundRefresh ==
    ASSUME NEW w, NEW M, NEW N, NEW S, NEW D,
           Sound(w, M, N), S \subseteq w.files,
           D = S \ Held(w.ifd, Committing), AllData(D), Avoids(D, M)
    PROVE  /\ Sound([w EXCEPT !.ifd = Refresh(w.ifd, S)], M, N)
           /\ SpareOf(w, [w EXCEPT !.ifd = Refresh(w.ifd, S)], {}, D)
  <1> DEFINE v == [w EXCEPT !.ifd = Refresh(w.ifd, S)]
  <1>1. Exact(w.ifd, Committing) /\ w.ifd.deletable = {}
    BY DEF Sound, Fine, Tidy
  <1>2. Exact(Refresh(w.ifd, S), Committing)
    BY <1>1, ExactRefresh
  <1>3. DOMAIN w = {"files", "created", "segs", "ifd"}
    BY DEF Sound, Fine
  <1>4. /\ DOMAIN v = {"files", "created", "segs", "ifd"}
        /\ v.files = w.files /\ v.created = w.created /\ v.segs = w.segs
        /\ v.ifd = Refresh(w.ifd, S)
    BY <1>3
  <1> HIDE DEF v
  <1>5. /\ v.ifd.deletable = {} /\ v.ifd.lastFiles = w.ifd.lastFiles
        /\ v.ifd.synced = w.ifd.synced /\ v.ifd.commits = w.ifd.commits
        /\ v.ifd.doomed \subseteq w.ifd.doomed \cup D
    <2>1. Spares(w.ifd, Committing, S, v.ifd)
      BY <1>1, <1>4, RefreshSpares
    <2> QED
      BY <1>1, <2>1 DEF Spares
  <1>6. SpareOf(w, v, {}, D)
    BY <1>2, <1>4, <1>5 DEF SpareOf, Settled
  <1>7. Fresh({}, w, M, N)
    BY DEF Fresh, AllData, Avoids, NumbersBelow
  <1>8. Sound(v, M, N)
    BY <1>6, <1>7, SoundSpare
  <1> QED
    BY <1>6, <1>8 DEF v

\* Fewer numbers to avoid, a larger bound
LEMMA SoundLess ==
    ASSUME NEW w, NEW M, NEW N \in Nat, NEW N1 \in Nat, N <= N1,
           Sound(w, M, N)
    PROVE  Sound(w, {}, N) /\ Sound(w, M, N1)
  <1>1. \A F : Avoids(F, {})
    BY DEF Avoids
  <1>2. \A f \in FileName : f[2] \in Int
    BY DEF FileName
  <1>3. NumbersBelow(w.files, N1)
    BY <1>2 DEF Sound, NumbersBelow
  <1> QED
    BY <1>1, <1>3 DEF Sound

\* The file of a segment's own that is always there
LEMMA HeadFile ==
    ASSUME NEW S, NEW k \in DOMAIN S
    PROVE  \E f \in InfosFiles(S) : /\ f[1] \in {"core", "cfs"}
                                    /\ f[2] = S[k].name
  <1>1. SegmentFiles(S[k]) \subseteq InfosFiles(S)
    BY DEF InfosFiles
  <1>2. (IF S[k].cfs THEN Cfs(S[k].name) ELSE Core(S[k].name))
            \in SegmentFiles(S[k])
    BY DEF SegmentFiles
  <1>3. CASE S[k].cfs
    <2>1. Cfs(S[k].name) \in InfosFiles(S)
      BY <1>1, <1>2, <1>3
    <2>2. Cfs(S[k].name)[1] = "cfs" /\ Cfs(S[k].name)[2] = S[k].name
      BY DEF Cfs
    <2> QED
      BY <2>1, <2>2
  <1>4. CASE ~S[k].cfs
    <2>1. Core(S[k].name) \in InfosFiles(S)
      BY <1>1, <1>2, <1>4
    <2>2. Core(S[k].name)[1] = "core" /\ Core(S[k].name)[2] = S[k].name
      BY DEF Core
    <2> QED
      BY <2>1, <2>2
  <1> QED
    BY <1>3, <1>4

\* What a changed segment refers to that it did not before
LEMMA ChangedFiles ==
    ASSUME NEW s \in SegmentInfo
    PROVE  /\ SegmentFiles([s EXCEPT !.dsc = TRUE])
                 \subseteq SegmentFiles(s) \cup {Cfx(s.ds)}
           /\ SegmentFiles([s EXCEPT !.cfs = TRUE])
                 \subseteq SegmentFiles(s) \cup {Cfs(s.name)}
           /\ SegmentFiles([s EXCEPT !.delGen = @ + 1])
                 \subseteq SegmentFiles(s) \cup {Del(s.name, s.delGen + 1)}
  <1> DEFINE t1 == [s EXCEPT !.dsc = TRUE]
             t2 == [s EXCEPT !.cfs = TRUE]
             t3 == [s EXCEPT !.delGen = @ + 1]
  <1>1. /\ t1.name = s.name /\ t1.ds = s.ds /\ t1.dsc = TRUE
        /\ t1.cfs = s.cfs /\ t1.delGen = s.delGen
    BY DEF SegmentInfo
  <1>2. /\ t2.name = s.name /\ t2.ds = s.ds /\ t2.dsc = s.dsc
        /\ t2.cfs = TRUE /\ t2.delGen = s.delGen
    BY DEF SegmentInfo
  <1>3. /\ t3.name = s.name /\ t3.ds = s.ds /\ t3.dsc = s.dsc
        /\ t3.cfs = s.cfs /\ t3.delGen = s.delGen + 1
    BY DEF SegmentInfo
  <1> HIDE DEF t1, t2, t3
  <1>4. SegmentFiles(t1) \subseteq SegmentFiles(s) \cup {Cfx(s.ds)}
    BY <1>1 DEF SegmentFiles
  <1>5. SegmentFiles(t2) \subseteq SegmentFiles(s) \cup {Cfs(s.name)}
    BY <1>2 DEF SegmentFiles
  <1>6. SegmentFiles(t3) \subseteq SegmentFiles(s) \cup {Del(s.name, s.delGen + 1)}
    BY <1>3 DEF SegmentFiles
  <1> QED
    BY <1>4, <1>5, <1>6 DEF t1, t2, t3

\* The files of the segments are there and stay, and their names are known.
LEMMA SoundSegments ==
    ASSUME NEW w, NEW M, NEW N, Sound(w, M, N)
    PROVE  /\ \A f \in InfosFiles(w.segs) : StaysIn({f}, w, M)
           /\ \A k \in DOMAIN w.segs :
                 w.segs[k].name < N /\ w.segs[k].name \notin M
  <1>1. InfosFiles(w.segs) \subseteq Held(w.ifd, Committing)
    BY DEF Sound, Held
  <1>2. AllData(InfosFiles(w.segs))
    BY SegmentsData
  <1>3. InfosFiles(w.segs) \subseteq w.files \ w.ifd.doomed
    BY <1>1 DEF Sound, Tidy
  <1>4. \A f \in InfosFiles(w.segs) : f[2] \notin M /\ f[2] < N
    BY <1>1, <1>2, <1>3 DEF Sound, Avoids, AllData, NumbersBelow
  <1>5. \A f \in InfosFiles(w.segs) : StaysIn({f}, w, M)
    BY <1>2, <1>3, <1>4 DEF StaysIn, AllData, Avoids
  <1>6. ASSUME NEW k \in DOMAIN w.segs
        PROVE  w.segs[k].name < N /\ w.segs[k].name \notin M
    BY <1>4, HeadFile
  <1> QED
    BY <1>5, <1>6

\* Deletions of segments of S
DelFiles(F, S) ==
    \A f \in F : f[1] = "del" /\ \E k \in DOMAIN S : f[2] = S[k].name

\* readerPool->commit and the like
LEMMA SoundWriteDeletes ==
    ASSUME NEW w, NEW M, NEW N, NEW names, NEW O,
           Sound(w, M, N), StaysIn(O, w, M)
    PROVE  /\ Sound(WriteDeletes(w, names, O), M, N)
           /\ \/ WriteDeletes(w, names, O) = w
              \/ \E F : /\ StepOf(w, WriteDeletes(w, names, O), F, O)
                        /\ DelFiles(F, w.segs)
  <1>1. CASE names = {}
    BY <1>1 DEF WriteDeletes
  <1>2. CASE names # {}
    <2> DEFINE S == w.segs
               S1 == [k \in DOMAIN S |->
                        IF S[k].name \in names
                        THEN [S[k] EXCEPT !.delGen = @ + 1] ELSE S[k]]
               K == {j \in DOMAIN S1 : S1[j].name \in names}
               new == {Del(S1[k].name, S1[k].delGen) : k \in K}
    <2>1. WriteDeletes(w, names, O) = Stepped(w, new, S1, O)
      BY <1>2, Zenon DEF WriteDeletes, Stepped
    <2>2. S \in Seq(SegmentInfo)
      BY DEF Sound
    <2>3. DOMAIN S1 = DOMAIN S
      OBVIOUS
    <2>4. ASSUME NEW k \in DOMAIN S
          PROVE  /\ S[k] \in SegmentInfo /\ S1[k] \in SegmentInfo
                 /\ S1[k].name = S[k].name
                 /\ k \in K <=> S[k].name \in names
                 /\ S1[k].delGen \in Nat
                 /\ S1[k].delGen = IF k \in K THEN S[k].delGen + 1
                                   ELSE S[k].delGen
                 /\ S[k].delGen \in Nat
                 /\ SegmentFiles(S1[k]) \subseteq SegmentFiles(S[k]) \cup new
      <3>1. S[k] \in SegmentInfo
        BY <2>2
      <3>2. CASE S[k].name \in names
        <4>1. S1[k] = [S[k] EXCEPT !.delGen = @ + 1]
          BY <2>4, <3>2
        <4>2. /\ S1[k].name = S[k].name /\ S1[k].delGen = S[k].delGen + 1
              /\ S[k].delGen \in Nat
          BY <3>1, <4>1 DEF SegmentInfo
        <4>3. k \in K
          BY <2>3, <2>4, <3>2, <4>2
        <4>4. SegmentFiles(S1[k]) \subseteq SegmentFiles(S[k])
                                   \cup {Del(S1[k].name, S1[k].delGen)}
          BY <3>1, <4>1, <4>2, ChangedFiles
        <4>5. S1[k] \in SegmentInfo
          BY <3>1, <4>1, ChangedInfo
        <4>6. Del(S1[k].name, S1[k].delGen) \in new
          BY <4>3
        <4> HIDE DEF new, S1, K
        <4> QED
          BY <3>1, <3>2, <4>2, <4>3, <4>4, <4>5, <4>6
      <3>3. CASE S[k].name \notin names
        <4>1. S1[k] = S[k]
          BY <2>4, <3>3
        <4> QED
          BY <3>1, <3>3, <4>1 DEF SegmentInfo
      <3> QED
        BY <3>2, <3>3
    <2>5. \A f \in new : \E k \in DOMAIN S :
              k \in K /\ f = Del(S1[k].name, S1[k].delGen)
      BY <2>3
    <2>6. S1 = [k \in DOMAIN S |-> S1[k]]
      OBVIOUS
    <2> HIDE DEF S1, K, new
    <2>7. S1 \in Seq(SegmentInfo)
      BY <2>2, <2>3, <2>4, <2>6, MapSegs
    <2>8. Coherent(S) /\ DelsBelow(S, w.files)
      BY DEF Sound
    <2>9. Coherent(S1)
      BY <2>3, <2>4, <2>8 DEF Coherent
    <2>10. \A n, g : /\ Del(n, g)[1] = "del" /\ Del(n, g)[2] = n
                     /\ Del(n, g)[3] = g
      BY DEF Del
    <2>11. Fresh(new, w, M, N)
      <3>1. new \cap w.files = {}
        <4> SUFFICES ASSUME NEW f \in new, f \in w.files PROVE FALSE
          OBVIOUS
        <4>1. PICK k \in DOMAIN S : k \in K /\ f = Del(S1[k].name, S1[k].delGen)
          BY <2>5
        <4>2. f[3] <= S[k].delGen
          BY <2>4, <2>8, <2>10, <4>1 DEF DelsBelow
        <4> QED
          BY <2>4, <2>10, <4>1, <4>2
      <3>2. AllData(new)
        BY <2>5, <2>10 DEF AllData, IsData
      <3>3. \A f \in new : f[2] < N /\ f[2] \notin M
        BY <2>4, <2>5, <2>10, SoundSegments
      <3>4. \A k \in DOMAIN S : Del(S1[k].name, S1[k].delGen) \in FileName
        BY <2>4, FileNames DEF SegmentInfo
      <3> QED
        BY <2>5, <3>1, <3>2, <3>3, <3>4 DEF Fresh, Avoids, NumbersBelow
    <2>12. \A f \in InfosFiles(S1) : f \in new \/ f \in InfosFiles(S)
      BY <2>3, <2>4 DEF InfosFiles
    <2>13. DelsBelow(S1, w.files \cup new)
      <3> SUFFICES ASSUME NEW k \in DOMAIN S, NEW f \in w.files \cup new,
                          f[1] = "del", f[2] = S[k].name
                   PROVE  f[3] <= S1[k].delGen
        BY <2>3, <2>4 DEF DelsBelow
      <3>1. CASE f \in w.files
        <4>1. f[3] <= S[k].delGen
          BY <2>8, <3>1 DEF DelsBelow
        <4>2. CASE k \in K
          <5>1. f[3] <= S[k].delGen /\ S1[k].delGen = S[k].delGen + 1
            BY <2>4, <4>1, <4>2
          <5>2. f[3] \in Int
            BY <3>1 DEF Sound, FileName
          <5> QED
            BY <2>4, <5>1, <5>2
        <4> QED
          BY <2>4, <4>1, <4>2
      <3>2. CASE f \in new
        <4>1. PICK j \in DOMAIN S : j \in K /\ f = Del(S1[j].name, S1[j].delGen)
          BY <2>5, <3>2
        <4>2. S1[j].delGen = S1[k].delGen
          BY <2>3, <2>4, <2>9, <2>10, <4>1 DEF Coherent
        <4> QED
          BY <2>4, <2>10, <4>1, <4>2
      <3> QED
        BY <3>1, <3>2
    <2>14. DelFiles(new, S)
      BY <2>4, <2>5, <2>10 DEF DelFiles
    <2>15. /\ Sound(Stepped(w, new, S1, O), M, N)
           /\ StepOf(w, Stepped(w, new, S1, O), new, O)
      <3>1. \A f \in InfosFiles(S1) : f \in new \/ StaysIn({f}, w, M)
        BY <2>12, SoundSegments
      <3> QED
        BY <2>7, <2>9, <2>11, <2>13, <3>1, SoundStep
    <2> QED
      BY <2>1, <2>14, <2>15
  <1> QED
    BY <1>1, <1>2

\* The numbers of the buffered documents: they are in use for nothing else.
Buffers(M, N) ==
    /\ ram \in Nat \cup {None} /\ docStore \in Nat \cup {None}
    /\ ram # None => ram < N /\ ram \notin M /\ docStore # None
    /\ docStore # None => docStore < N /\ docStore \notin M

\* The open doc store is there, and not yet a compound file.
DocOpen(w) ==
    docStore # None =>
        /\ Store(docStore) \in w.files \ w.ifd.doomed
        /\ Cfx(docStore) \notin w.files
        /\ \/ Store(docStore) \in w.ifd.lastFiles[2]
           \/ Store(docStore) \notin Held(w.ifd, Committing)

\* The segment to be written has no files but that doc store.
RamFree(w) ==
    ram # None =>
        \A f \in w.files :
            IsData(f) /\ f[2] = ram => docStore = ram /\ f = Store(ram)

\* The name of a data file
LEMMA DataFiles ==
    ASSUME NEW n \in Nat, NEW M, NEW N, n < N, n \notin M,
           NEW F, F \subseteq {Core(n), Store(n), Cfs(n), Cfx(n)}
    PROVE  /\ F \subseteq FileName /\ AllData(F) /\ Avoids(F, M)
           /\ NumbersBelow(F, N) /\ \A f \in F : f[1] # "del"
  <1>1. /\ Core(n) \in FileName /\ Store(n) \in FileName
        /\ Cfs(n) \in FileName /\ Cfx(n) \in FileName
    BY FileNames
  <1>2. \A f \in F : /\ f[1] \in {"core", "store", "cfs", "cfx"}
                     /\ f[2] = n
    BY DEF Core, Store, Cfs, Cfx
  <1> QED
    BY <1>1, <1>2 DEF AllData, IsData, Avoids, NumbersBelow

\* The files of the DocumentsWriter that a checkpoint counts
LEMMA OpenStays ==
    ASSUME NEW w, NEW M, NEW N, NEW c \in BOOLEAN, Buffers(M, N),
           c \/ DocOpen(w)
    PROVE  StaysIn(OpenAfter(c), w, M)
  <1>1. CASE OpenAfter(c) = {}
    BY <1>1 DEF StaysIn, AllData, Avoids
  <1>2. CASE OpenAfter(c) # {}
    <2>1. /\ ~c /\ docStore # None /\ OpenAfter(c) = {Store(docStore)}
      BY <1>2 DEF OpenAfter, OpenFiles
    <2>2. Store(docStore) \in w.files \ w.ifd.doomed
      BY <2>1 DEF DocOpen
    <2>3. docStore \in Nat /\ docStore < N /\ docStore \notin M
      BY <2>1 DEF Buffers
    <2>4. AllData({Store(docStore)}) /\ Avoids({Store(docStore)}, M)
      BY <2>3, DataFiles
    <2> QED
      BY <2>1, <2>2, <2>4 DEF StaysIn
  <1> QED
    BY <1>1, <1>2

\* It stays open.
LEMMA StepKeepsOpen ==
    ASSUME NEW w, NEW v, NEW F, DocOpen(w),
           StepOf(w, v, F, OpenAfter(FALSE)), Cfx(docStore) \notin F
    PROVE  DocOpen(v)
  <1> SUFFICES ASSUME docStore # None
               PROVE  /\ Store(docStore) \in v.files \ v.ifd.doomed
                      /\ Cfx(docStore) \notin v.files
                      /\ Store(docStore) \in v.ifd.lastFiles[2]
    BY DEF DocOpen
  <1>1. OpenAfter(FALSE) = {Store(docStore)}
    BY DEF OpenAfter, OpenFiles
  <1>2. v.ifd.lastFiles[2] \subseteq Held(v.ifd, Committing)
    BY DEF Held
  <1> QED
    BY <1>1, <1>2 DEF StepOf, DocOpen

\* Files that nobody refers to leave an open doc store alone.
LEMMA SpareKeepsOpen ==
    ASSUME NEW w, NEW v, NEW F, NEW D, DocOpen(w), SpareOf(w, v, F, D),
           Cfx(docStore) \notin F, Store(docStore) \notin D
    PROVE  DocOpen(v)
  <1>1. Held(v.ifd, Committing) = Held(w.ifd, Committing)
    BY DEF Held, SpareOf
  <1> QED
    BY <1>1 DEF DocOpen, SpareOf

\* Writing the buffered deletes keeps the record sound and an open doc store open.
LEMMA DeletesKeepOpen ==
    ASSUME NEW w, NEW M, NEW N, NEW names, NEW c \in BOOLEAN, Sound(w, M, N),
           Buffers(M, N), c \/ DocOpen(w)
    PROVE  /\ Sound(WriteDeletes(w, names, OpenAfter(c)), M, N)
           /\ ~c => DocOpen(WriteDeletes(w, names, OpenAfter(c)))
           /\ RamFree(w) => RamFree(WriteDeletes(w, names, OpenAfter(c)))
  <1> DEFINE v == WriteDeletes(w, names, OpenAfter(c))
  <1>1. StaysIn(OpenAfter(c), w, M)
    BY OpenStays
  <1>2. /\ Sound(v, M, N)
        /\ \/ v = w
           \/ \E F : StepOf(w, v, F, OpenAfter(c)) /\ DelFiles(F, w.segs)
    BY <1>1, SoundWriteDeletes
  <1> HIDE DEF v
  <1>3. CASE v = w
    BY <1>2, <1>3 DEF v
  <1>4. ASSUME NEW F, StepOf(w, v, F, OpenAfter(c)), DelFiles(F, w.segs)
        PROVE  /\ ~c => DocOpen(v)
               /\ RamFree(w) => RamFree(v)
    <2>1. Cfx(docStore) \notin F
      BY <1>4 DEF Cfx, DelFiles
    <2>2. ASSUME ~c PROVE DocOpen(v)
      <3>1. StepOf(w, v, F, OpenAfter(FALSE))
        BY <1>4, <2>2
      <3> QED
        BY <2>1, <2>2, <3>1, StepKeepsOpen
    <2>3. ASSUME RamFree(w), ram # None PROVE RamFree(v)
      <3>1. \A k \in DOMAIN w.segs : w.segs[k].name # ram
        <4> SUFFICES ASSUME NEW k \in DOMAIN w.segs, w.segs[k].name = ram
                     PROVE  FALSE
          OBVIOUS
        <4>1. PICK f \in InfosFiles(w.segs) :
                  f[1] \in {"core", "cfs"} /\ f[2] = w.segs[k].name
          BY HeadFile
        <4>2. f \in w.files
          BY <4>1, SoundSegments DEF StaysIn
        <4>3. f = Store(ram)
          BY <2>3, <4>1, <4>2 DEF RamFree, IsData
        <4> QED
          BY <4>1, <4>3 DEF Store
      <3> QED
        BY <1>4, <2>3, <3>1 DEF RamFree, StepOf, DelFiles
    <2> QED
      BY <2>2, <2>3 DEF RamFree
  <1> QED
    BY <1>2, <1>3, <1>4 DEF v

\* Segments that refer to new files as well, with the deletes they had
ChangedTo(S, S1, F) ==
    /\ DOMAIN S1 = DOMAIN S /\ S1 = [k \in DOMAIN S |-> S1[k]]
    /\ \A k \in DOMAIN S :
          /\ S1[k] \in SegmentInfo
          /\ S1[k].name = S[k].name /\ S1[k].delGen = S[k].delGen
          /\ SegmentFiles(S1[k]) \subseteq SegmentFiles(S[k]) \cup F

\* Segments that take on new files (a compound file, a doc store) and keep
\* their names and deletes keep the record sound.
LEMMA SoundChange ==
    ASSUME NEW w, NEW M, NEW N, NEW S1, NEW F, NEW O, Sound(w, M, N),
           ChangedTo(w.segs, S1, F), Fresh(F, w, M, N),
           \A f \in F : f[1] # "del", StaysIn(O, w, M)
    PROVE  /\ Sound(Stepped(w, F, S1, O), M, N)
           /\ StepOf(w, Stepped(w, F, S1, O), F, O)
  <1>1. w.segs \in Seq(SegmentInfo) /\ DelsBelow(w.segs, w.files) /\ Coherent(w.segs)
    BY DEF Sound
  <1>2. S1 \in Seq(SegmentInfo)
    BY <1>1, MapSegs DEF ChangedTo
  <1>3. DelsBelow(S1, w.files \cup F)
    BY <1>1 DEF DelsBelow, ChangedTo
  <1>4. Coherent(S1)
    <2> SUFFICES ASSUME NEW j \in DOMAIN w.segs, NEW k \in DOMAIN w.segs,
                        S1[j].name = S1[k].name
                 PROVE  S1[j].delGen = S1[k].delGen
      BY DEF Coherent, ChangedTo
    <2>1. w.segs[j].name = w.segs[k].name
      BY DEF ChangedTo
    <2>2. w.segs[j].delGen = w.segs[k].delGen
      BY <1>1, <2>1 DEF Coherent
    <2> QED
      BY <2>2 DEF ChangedTo
  <1>5. \A f \in InfosFiles(S1) : f \in F \/ f \in InfosFiles(w.segs)
    BY DEF InfosFiles, ChangedTo
  <1>6. \A f \in InfosFiles(S1) : f \in F \/ StaysIn({f}, w, M)
    BY <1>5, SoundSegments
  <1> QED
    BY <1>2, <1>3, <1>4, <1>6, SoundStep

\* The doc stores are closed
LEMMA SoundStoresFlushed ==
    ASSUME NEW w, NEW M, NEW N, NEW c \in BOOLEAN, Sound(w, M, N),
           Buffers(M, N), DocOpen(w), RamFree(w)
    PROVE  /\ Sound(StoresFlushed(w, c), M, N)
           /\ RamFree(StoresFlushed(w, c))
           /\ IF Shared(c) /\ UseCompoundFile
              THEN Cfx(docStore) \in StoresFlushed(w, c).files
                                        \ StoresFlushed(w, c).ifd.doomed
              ELSE StoresFlushed(w, c) = w
  <1>1. CASE ~(Shared(c) /\ UseCompoundFile)
    <2>1. StoresFlushed(w, c) = w
      BY <1>1 DEF StoresFlushed, FlushDocStores
    <2> QED
      BY <1>1, <2>1
  <1>2. CASE Shared(c) /\ UseCompoundFile
    <2> DEFINE S == w.segs
               S1 == [k \in DOMAIN S |->
                        IF S[k].ds = docStore
                        THEN [S[k] EXCEPT !.dsc = TRUE] ELSE S[k]]
               F == {Cfx(docStore)}
               w1 == Stepped(w, F, S1, {})
               v == [w1 EXCEPT !.ifd = Refresh(w1.ifd, {Store(docStore)})]
               D == {Store(docStore)} \ Held(w1.ifd, Committing)
    <2>1. StoresFlushed(w, c) = v
      BY <1>2 DEF StoresFlushed, FlushDocStores, Stepped
    <2>2. /\ docStore \in Nat /\ docStore < N /\ docStore \notin M
          /\ docStore # ram /\ docStore # None
      BY <1>2 DEF Shared, Buffers
    <2>3. S \in Seq(SegmentInfo)
      BY DEF Sound
    <2>4. ASSUME NEW k \in DOMAIN S
          PROVE  /\ S1[k] \in SegmentInfo
                 /\ S1[k].name = S[k].name /\ S1[k].delGen = S[k].delGen
                 /\ SegmentFiles(S1[k]) \subseteq SegmentFiles(S[k]) \cup F
      <3>1. S[k] \in SegmentInfo
        BY <2>3
      <3>2. CASE S[k].ds = docStore
        <4>1. S1[k] = [S[k] EXCEPT !.dsc = TRUE]
          BY <2>4, <3>2
        <4>2. S1[k].name = S[k].name /\ S1[k].delGen = S[k].delGen
          BY <3>1, <4>1 DEF SegmentInfo
        <4>3. SegmentFiles(S1[k]) \subseteq SegmentFiles(S[k]) \cup {Cfx(S[k].ds)}
          BY <3>1, <4>1, ChangedFiles
        <4>4. S1[k] \in SegmentInfo
          BY <3>1, <4>1, ChangedInfo
        <4> QED
          BY <3>2, <4>2, <4>3, <4>4
      <3>3. CASE S[k].ds # docStore
        <4>1. S1[k] = S[k]
          BY <2>4, <3>3
        <4> QED
          BY <3>1, <4>1
      <3> QED
        BY <3>2, <3>3
    <2>5. ChangedTo(S, S1, F)
      BY <2>4 DEF ChangedTo
    <2> HIDE DEF S1
    <2>6. /\ F \subseteq FileName /\ AllData(F) /\ Avoids(F, M)
          /\ NumbersBelow(F, N) /\ \A f \in F : f[1] # "del"
      BY <2>2, DataFiles
    <2>7. Cfx(docStore) \notin w.files
      BY <2>2 DEF DocOpen
    <2>8. Fresh(F, w, M, N)
      BY <2>6, <2>7 DEF Fresh
    <2>9. StaysIn({}, w, M)
      BY DEF StaysIn, AllData, Avoids
    <2>10. Sound(w1, M, N) /\ StepOf(w, w1, F, {})
      BY <2>5, <2>6, <2>8, <2>9, SoundChange
    <2> HIDE DEF w1
    <2>11. {Store(docStore)} \subseteq w1.files
      BY <2>2, <2>10 DEF StepOf, DocOpen
    <2>12. AllData(D) /\ Avoids(D, M)
      BY <2>2, DataFiles DEF AllData, Avoids
    <2>13. Sound(v, M, N) /\ SpareOf(w1, v, {}, D)
      BY <2>10, <2>11, <2>12, SoundRefresh
    <2> HIDE DEF v
    <2>14. v.files = w.files \cup F
      BY <2>10, <2>13 DEF StepOf, SpareOf
    <2>15. Cfx(docStore) \notin v.ifd.doomed
      <3>1. v.ifd.doomed \subseteq w.ifd.doomed \cup Held(w.ifd, Committing)
                                     \cup {Store(docStore)}
        BY <2>10, <2>13 DEF StepOf, SpareOf
      <3>2. w.ifd.doomed \cup Held(w.ifd, Committing) \subseteq w.files
        BY DEF Sound, Tidy
      <3>3. Cfx(docStore) # Store(docStore)
        BY DEF Cfx, Store
      <3> QED
        BY <2>7, <3>1, <3>2, <3>3
    <2>16. RamFree(v)
      BY <2>2, <2>14 DEF RamFree, Cfx
    <2> QED
      BY <1>2, <2>1, <2>13, <2>14, <2>15, <2>16
  <1> QED
    BY <1>1, <1>2

\* A segment at the end
LEMMA AppendedSegs ==
    ASSUME NEW S \in Seq(SegmentInfo), NEW s \in SegmentInfo, NEW F,
           DelsBelow(S, F), Coherent(S),
           \A k \in DOMAIN S : S[k].name # s.name,
           \A f \in F : f[1] = "del" => f[2] # s.name
    PROVE  /\ Append(S, s) \in Seq(SegmentInfo)
           /\ \A f \in InfosFiles(Append(S, s)) :
                 f \in InfosFiles(S) \/ f \in SegmentFiles(s)
           /\ DelsBelow(Append(S, s), F) /\ Coherent(Append(S, s))
  <1> DEFINE S1 == Append(S, s)
             n == Len(S)
  <1>1. /\ n \in Nat /\ DOMAIN S = 1..n /\ S1 \in Seq(SegmentInfo)
        /\ DOMAIN S1 = 1..(n + 1) /\ S1[n + 1] = s
        /\ \A k \in 1..n : S1[k] = S[k]
    OBVIOUS
  <1> HIDE DEF S1, n
  <1>2. \A k \in DOMAIN S1 : \/ k \in DOMAIN S /\ S1[k] = S[k]
                             \/ S1[k] = s
    BY <1>1
  <1>3. DelsBelow(S1, F)
    BY <1>2 DEF DelsBelow
  <1>4. Coherent(S1)
    <2> SUFFICES ASSUME NEW j \in DOMAIN S1, NEW k \in DOMAIN S1,
                        S1[j].name = S1[k].name
                 PROVE  S1[j].delGen = S1[k].delGen
      BY DEF Coherent
    <2>1. CASE S1[j] = s
      BY <1>2, <2>1
    <2>2. CASE S1[k] = s
      BY <1>2, <2>2
    <2>3. CASE /\ j \in DOMAIN S /\ S1[j] = S[j]
               /\ k \in DOMAIN S /\ S1[k] = S[k]
      BY <2>3 DEF Coherent
    <2> QED
      BY <1>2, <2>1, <2>2, <2>3
  <1>5. \A f \in InfosFiles(S1) : f \in InfosFiles(S) \/ f \in SegmentFiles(s)
    BY <1>2 DEF InfosFiles
  <1> QED
    BY <1>1, <1>3, <1>4, <1>5 DEF S1

\* The new segment is written
LEMMA SoundSegmentFlushed ==
    ASSUME NEW w, NEW M, NEW N, NEW c \in BOOLEAN, Sound(w, M, N),
           Buffers(M, N), DocOpen(w), RamFree(w), ram # None
    PROVE  /\ Sound(SegmentFlushed(w, c), M, N)
           /\ ~c => DocOpen(SegmentFlushed(w, c))
           /\ Cfs(ram) \notin SegmentFlushed(w, c).files
  <1> DEFINE x == StoresFlushed(w, c)
             ds == IF c /\ docStore = ram THEN None ELSE docStore
             dsc == Shared(c) /\ UseCompoundFile
             seg == [name |-> ram, ds |-> ds, dsc |-> dsc, cfs |-> FALSE,
                     delGen |-> 0]
             S1 == Append(x.segs, seg)
             F == {Core(ram)}
             O == OpenAfter(c)
             v == Stepped(x, F, S1, O)
  <1>1. SegmentFlushed(w, c) = v
    BY DEF SegmentFlushed, AddSegment, Stepped
  <1>2. /\ Sound(x, M, N) /\ RamFree(x)
        /\ dsc => Cfx(docStore) \in x.files \ x.ifd.doomed
        /\ ~dsc => x = w
    BY SoundStoresFlushed
  <1>3. /\ ram \in Nat /\ ram < N /\ ram \notin M
        /\ docStore \in Nat /\ docStore < N /\ docStore \notin M
        /\ docStore # None
    BY DEF Buffers
  <1>4. seg \in SegmentInfo
    BY <1>3, SwitchesAssumption DEF SegmentInfo, Shared
  <1>5. ~c => x = w
    BY <1>2 DEF Shared
  <1> HIDE DEF x
  <1>6. \E fx : SegmentFiles(seg) \subseteq {Core(ram), fx} /\ StaysIn({fx}, x, M)
    <2>1. /\ AllData({Store(docStore)}) /\ Avoids({Store(docStore)}, M)
          /\ AllData({Cfx(docStore)}) /\ Avoids({Cfx(docStore)}, M)
      BY <1>3, DataFiles
    <2>2. CASE dsc
      <3>1. ds = docStore
        BY <2>2 DEF Shared
      <3>2. /\ seg.name = ram /\ seg.ds = ds /\ seg.dsc = dsc /\ seg.cfs = FALSE
            /\ seg.delGen = 0
        OBVIOUS
      <3> HIDE DEF seg, ds, dsc
      <3>3. SegmentFiles(seg) \subseteq {Core(ram), Cfx(docStore)}
        BY <1>3, <2>2, <3>1, <3>2 DEF SegmentFiles
      <3> QED
        BY <1>2, <2>1, <2>2, <3>3 DEF StaysIn
    <2>3. CASE ~dsc
      <3>0. /\ seg.name = ram /\ seg.ds = ds /\ seg.dsc = dsc /\ seg.cfs = FALSE
            /\ seg.delGen = 0
            /\ ds = docStore \/ (ds = None /\ docStore = ram)
        OBVIOUS
      <3>1. SegmentFiles(seg) \subseteq {Core(ram), Store(docStore)}
        <4> HIDE DEF seg, ds, dsc
        <4> QED
          BY <1>3, <2>3, <3>0 DEF SegmentFiles
      <3>2. Store(docStore) \in x.files \ x.ifd.doomed
        BY <1>2, <1>3, <2>3 DEF DocOpen
      <3> QED
        BY <2>1, <3>1, <3>2 DEF StaysIn
    <2> QED
      BY <2>2, <2>3
  <1>7. seg.name = ram
    OBVIOUS
  <1> HIDE DEF seg, dsc, ds
  <1>8. \A k \in DOMAIN x.segs : x.segs[k].name # ram
    <2> SUFFICES ASSUME NEW k \in DOMAIN x.segs, x.segs[k].name = ram
                 PROVE  FALSE
      OBVIOUS
    <2>1. PICK f \in InfosFiles(x.segs) :
              f[1] \in {"core", "cfs"} /\ f[2] = x.segs[k].name
      BY HeadFile
    <2>2. f \in x.files
      BY <1>2, <2>1, SoundSegments DEF StaysIn
    <2>3. f = Store(ram)
      BY <1>2, <2>1, <2>2 DEF RamFree, IsData
    <2> QED
      BY <2>1, <2>3 DEF Store
  <1>9. /\ F \subseteq FileName /\ AllData(F) /\ Avoids(F, M)
        /\ NumbersBelow(F, N) /\ \A f \in F : f[1] # "del"
    BY <1>3, DataFiles
  <1>10. Core(ram) \notin x.files /\ Cfs(ram) \notin x.files
    BY <1>2 DEF RamFree, Core, Cfs, Store, IsData
  <1>11. Fresh(F, x, M, N)
    BY <1>9, <1>10 DEF Fresh
  <1>12. \A f \in x.files \cup F : f[1] = "del" => f[2] # ram
    BY <1>2, <1>9 DEF RamFree, IsData, Store
  <1>13. /\ x.segs \in Seq(SegmentInfo) /\ Coherent(x.segs)
         /\ DelsBelow(x.segs, x.files \cup F)
    BY <1>2, <1>9 DEF Sound, DelsBelow
  <1>14. /\ S1 \in Seq(SegmentInfo)
         /\ \A f \in InfosFiles(S1) :
               f \in InfosFiles(x.segs) \/ f \in SegmentFiles(seg)
         /\ DelsBelow(S1, x.files \cup F) /\ Coherent(S1)
    BY <1>4, <1>7, <1>8, <1>12, <1>13, AppendedSegs
  <1>15. \A f \in InfosFiles(S1) : f \in F \/ StaysIn({f}, x, M)
    BY <1>2, <1>6, <1>14, SoundSegments
  <1>16. StaysIn(O, x, M)
    BY <1>5, OpenStays
  <1> HIDE DEF S1, F, O
  <1>17. Sound(v, M, N) /\ StepOf(x, v, F, O)
    BY <1>2, <1>11, <1>14, <1>15, <1>16, SoundStep
  <1> HIDE DEF v
  <1>18. ASSUME ~c PROVE DocOpen(v)
    <2>1. StepOf(x, v, F, OpenAfter(FALSE)) /\ DocOpen(x)
      BY <1>5, <1>17, <1>18 DEF O
    <2>2. Cfx(docStore) \notin F
      BY DEF F, Cfx, Core
    <2> QED
      BY <2>1, <2>2, StepKeepsOpen
  <1>19. Cfs(ram) \notin v.files
    BY <1>10, <1>17 DEF StepOf, F, Cfs, Core
  <1> QED
    BY <1>1, <1>17, <1>18, <1>19

\* A checkpoint of what is there
LEMMA SoundCheckpoint ==
    ASSUME NEW w, NEW M, NEW N, NEW c \in BOOLEAN, Sound(w, M, N),
           Buffers(M, N), c \/ DocOpen(w)
    PROVE  /\ Sound(CheckpointW(w, OpenAfter(c)), M, N)
           /\ ~c => DocOpen(CheckpointW(w, OpenAfter(c)))
  <1> DEFINE v == CheckpointW(w, OpenAfter(c))
             S == w.segs
  <1>1. DOMAIN w = {"files", "created", "segs", "ifd"}
    BY DEF Sound, Fine
  <1>2. CheckpointOf(w, v, {}, S, OpenAfter(c))
    BY <1>1 DEF CheckpointOf, CheckpointW
  <1> HIDE DEF v
  <1>3. Fresh({}, w, M, N)
    BY DEF Fresh, AllData, Avoids, NumbersBelow
  <1>4. S \in Seq(SegmentInfo) /\ DelsBelow(S, w.files \cup {}) /\ Coherent(S)
    BY DEF Sound
  <1>5. StaysIn(OpenAfter(c), w, M)
    BY OpenStays
  <1>6. \A f \in InfosFiles(S) : f \in {} \/ StaysIn({f}, w, M)
    BY SoundSegments
  <1> HIDE DEF S
  <1>7. Sound(v, M, N) /\ StepOf(w, v, {}, OpenAfter(c))
    BY <1>2, <1>3, <1>4, <1>5, <1>6, SoundCheckpointed
  <1>8. ~c => DocOpen(v)
    BY <1>7, StepKeepsOpen
  <1> QED
    BY <1>7, <1>8 DEF v

\* The compound file of the new segment
LEMMA SoundBuildCompound ==
    ASSUME NEW w, NEW M, NEW N, NEW c \in BOOLEAN, Sound(w, M, N),
           Buffers(M, N), c \/ DocOpen(w), ram # None, Cfs(ram) \notin w.files
    PROVE  /\ Sound(BuildCompound(w, ram, OpenAfter(c)), M, N)
           /\ ~c => DocOpen(BuildCompound(w, ram, OpenAfter(c)))
  <1>1. CASE ~UseCompoundFile
    BY <1>1 DEF BuildCompound
  <1>2. CASE UseCompoundFile
    <2> DEFINE S == w.segs
               S1 == [k \in DOMAIN S |->
                        IF S[k].name = ram
                        THEN [S[k] EXCEPT !.cfs = TRUE] ELSE S[k]]
               F == {Cfs(ram)}
               O == OpenAfter(c)
               v == Stepped(w, F, S1, O)
    <2>1. BuildCompound(w, ram, OpenAfter(c)) = v
      BY <1>2 DEF BuildCompound, Stepped
    <2>2. ram \in Nat /\ ram < N /\ ram \notin M
      BY DEF Buffers
    <2>3. S \in Seq(SegmentInfo)
      BY DEF Sound
    <2>4. ASSUME NEW k \in DOMAIN S
          PROVE  /\ S1[k] \in SegmentInfo
                 /\ S1[k].name = S[k].name /\ S1[k].delGen = S[k].delGen
                 /\ SegmentFiles(S1[k]) \subseteq SegmentFiles(S[k]) \cup F
      <3>1. S[k] \in SegmentInfo
        BY <2>3
      <3>2. CASE S[k].name = ram
        <4>1. S1[k] = [S[k] EXCEPT !.cfs = TRUE]
          BY <2>4, <3>2
        <4>2. S1[k].name = S[k].name /\ S1[k].delGen = S[k].delGen
          BY <3>1, <4>1 DEF SegmentInfo
        <4>3. SegmentFiles(S1[k]) \subseteq SegmentFiles(S[k]) \cup {Cfs(S[k].name)}
          BY <3>1, <4>1, ChangedFiles
        <4>4. S1[k] \in SegmentInfo
          BY <3>1, <4>1, ChangedInfo
        <4> QED
          BY <3>2, <4>2, <4>3, <4>4
      <3>3. CASE S[k].name # ram
        <4>1. S1[k] = S[k]
          BY <2>4, <3>3
        <4> QED
          BY <3>1, <4>1
      <3> QED
        BY <3>2, <3>3
    <2>5. ChangedTo(S, S1, F)
      BY <2>4 DEF ChangedTo
    <2> HIDE DEF S1
    <2>6. /\ F \subseteq FileName /\ AllData(F) /\ Avoids(F, M)
          /\ NumbersBelow(F, N) /\ \A f \in F : f[1] # "del"
      BY <2>2, DataFiles
    <2>7. Fresh(F, w, M, N)
      BY <2>6 DEF Fresh
    <2>8. StaysIn(O, w, M)
      BY OpenStays
    <2> HIDE DEF O
    <2>9. Sound(v, M, N) /\ StepOf(w, v, F, O)
      BY <2>5, <2>6, <2>7, <2>8, SoundChange
    <2> HIDE DEF v
    <2>10. ASSUME ~c PROVE DocOpen(v)
      <3>1. StepOf(w, v, F, OpenAfter(FALSE)) /\ DocOpen(w)
        BY <2>9, <2>10 DEF O
      <3>2. Cfx(docStore) \notin F
        BY DEF Cfx, Cfs
      <3> QED
        BY <3>1, <3>2, StepKeepsOpen
    <2> QED
      BY <2>1, <2>9, <2>10
  <1> QED
    BY <1>1, <1>2

\* doFlushInternal to its end
LEMMA SoundFlushed ==
    ASSUME NEW w, NEW M, NEW N, NEW c \in BOOLEAN, NEW names, Sound(w, M, N),
           Buffers(M, N), DocOpen(w), RamFree(w)
    PROVE  /\ Sound(FlushedW(w, c, names), M, N)
           /\ ~c => DocOpen(FlushedW(w, c, names))
  <1> DEFINE w1 == IF ram = None THEN SegmentFlushed(w, c)
                   ELSE BuildCompound(SegmentFlushed(w, c), ram, OpenAfter(c))
             w2 == WriteDeletes(w1, names, OpenAfter(c))
  <1>1. FlushedW(w, c, names) =
            IF ram = None THEN w2 ELSE CheckpointW(w2, OpenAfter(c))
    BY DEF FlushedW
  <1>2. Sound(w1, M, N) /\ (~c => DocOpen(w1))
    <2>1. CASE ram = None
      <3>1. w1 = StoresFlushed(w, c)
        BY <2>1 DEF SegmentFlushed
      <3>2. Sound(StoresFlushed(w, c), M, N)
        BY SoundStoresFlushed
      <3>3. ~c => StoresFlushed(w, c) = w
        BY DEF StoresFlushed, Shared
      <3> QED
        BY <3>1, <3>2, <3>3
    <2>2. CASE ram # None
      <3>1. /\ Sound(SegmentFlushed(w, c), M, N)
            /\ ~c => DocOpen(SegmentFlushed(w, c))
            /\ Cfs(ram) \notin SegmentFlushed(w, c).files
        BY <2>2, SoundSegmentFlushed
      <3>2. w1 = BuildCompound(SegmentFlushed(w, c), ram, OpenAfter(c))
        BY <2>2
      <3> QED
        BY <2>2, <3>1, <3>2, SoundBuildCompound
    <2> QED
      BY <2>1, <2>2
  <1> HIDE DEF w1
  <1>3. Sound(w2, M, N) /\ (~c => DocOpen(w2))
    BY <1>2, DeletesKeepOpen
  <1> HIDE DEF w2
  <1>4. /\ Sound(CheckpointW(w2, OpenAfter(c)), M, N)
        /\ ~c => DocOpen(CheckpointW(w2, OpenAfter(c)))
    BY <1>3, SoundCheckpoint
  <1> QED
    BY <1>1, <1>3, <1>4

\* ... and when it throws
LEMMA SoundFlushThrows ==
    ASSUME NEW w, NEW M, NEW N, NEW c \in BOOLEAN, Sound(w, M, N),
           Buffers(M, N), DocOpen(w), RamFree(w), ram # None
    PROVE  /\ Sound(FlushFailedW(w, c), M, N)
           /\ Sound(CompoundFailedW(w, c), M, N)
           /\ ~c => DocOpen(CompoundFailedW(w, c))
  <1>1. ram \in Nat /\ ram < N /\ ram \notin M
    BY DEF Buffers
  <1>2. Sound(FlushFailedW(w, c), M, N)
    <2> DEFINE x == StoresFlushed(w, c)
               F == {Core(ram)}
               w1 == Create(x, F)
               S == Prefixed(w1.files, ram)
               D == S \ Held(w1.ifd, Committing)
    <2>1. FlushFailedW(w, c) = [w1 EXCEPT !.ifd = Refresh(w1.ifd, S)]
      BY DEF FlushFailedW
    <2>2. Sound(x, M, N) /\ RamFree(x)
      BY SoundStoresFlushed
    <2> HIDE DEF x
    <2>3. /\ F \subseteq FileName /\ AllData(F) /\ Avoids(F, M)
          /\ NumbersBelow(F, N) /\ \A f \in F : f[1] # "del"
      BY <1>1, DataFiles
    <2>4. Core(ram) \notin x.files
      BY <2>2 DEF RamFree, Core, Store, IsData
    <2>5. Fresh(F, x, M, N)
      BY <2>3, <2>4 DEF Fresh
    <2>6. Sound(w1, M, N)
      BY <2>2, <2>3, <2>5, SoundCreate
    <2> HIDE DEF w1
    <2>7. S \subseteq w1.files /\ AllData(D) /\ Avoids(D, M)
      BY <1>1 DEF Prefixed, AllData, IsData, Avoids
    <2> HIDE DEF S
    <2>8. D = S \ Held(w1.ifd, Committing)
      OBVIOUS
    <2> HIDE DEF D
    <2>9. Sound([w1 EXCEPT !.ifd = Refresh(w1.ifd, S)], M, N)
      BY <2>6, <2>7, <2>8, SoundRefresh
    <2> QED
      BY <2>1, <2>9
  <1>3. /\ Sound(CompoundFailedW(w, c), M, N)
        /\ ~c => DocOpen(CompoundFailedW(w, c))
    <2> DEFINE x == SegmentFlushed(w, c)
               F == {Cfs(ram)}
               w1 == Create(x, F)
               v == [w1 EXCEPT !.ifd.doomed = @ \cup F]
    <2>1. CompoundFailedW(w, c) = v
      BY DEF CompoundFailedW
    <2>2. /\ Sound(x, M, N) /\ (~c => DocOpen(x)) /\ Cfs(ram) \notin x.files
      BY SoundSegmentFlushed
    <2> HIDE DEF x
    <2>3. /\ F \subseteq FileName /\ AllData(F) /\ Avoids(F, M)
          /\ NumbersBelow(F, N) /\ \A f \in F : f[1] # "del"
      BY <1>1, DataFiles
    <2>4. Fresh(F, x, M, N)
      BY <2>2, <2>3 DEF Fresh
    <2>5. /\ DOMAIN x = {"files", "created", "segs", "ifd"}
          /\ Exact(x.ifd, Committing) /\ Settled(x.ifd)
          /\ Held(x.ifd, Committing) \subseteq x.files
      BY <2>2 DEF Sound, Fine, Tidy, Settled
    <2>6. SpareOf(x, v, F, F)
      <3> DEFINE d == [x.ifd EXCEPT !.doomed = @ \cup F]
      <3>1. /\ d.refCounts = x.ifd.refCounts /\ d.lastFiles = x.ifd.lastFiles
            /\ d.commits = x.ifd.commits /\ d.deletable = x.ifd.deletable
            /\ d.synced = x.ifd.synced /\ d.doomed = x.ifd.doomed \cup F
            /\ IsRecord(d)
        BY <2>5 DEF Exact, IsRecord
      <3>2. Exact(d, Committing)
        <4> HIDE DEF d
        <4> QED
          BY <2>5, <3>1 DEF Exact
      <3>3. /\ DOMAIN v = {"files", "created", "segs", "ifd"}
            /\ v.files = x.files \cup F /\ v.created = x.created \cup F
            /\ v.segs = x.segs /\ v.ifd = d
        BY <2>5 DEF Create
      <3> HIDE DEF d, v
      <3> QED
        BY <2>5, <3>1, <3>2, <3>3 DEF SpareOf, Settled
    <2>7. F \cap Held(x.ifd, Committing) = {}
      BY <2>2, <2>5
    <2> HIDE DEF v
    <2>8. Sound(v, M, N)
      BY <2>2, <2>3, <2>4, <2>6, <2>7, SoundSpare
    <2>9. ASSUME ~c PROVE DocOpen(v)
      <3>1. Cfx(docStore) \notin F /\ Store(docStore) \notin F
        BY DEF Cfx, Cfs, Store
      <3> QED
        BY <2>2, <2>6, <2>9, <3>1, SpareKeepsOpen
    <2> QED
      BY <2>1, <2>8, <2>9
  <1> QED
    BY <1>2, <1>3

\* ... and when the doc store cannot be closed, or its .cfx not be built
LEMMA SoundStoresFailed ==
    ASSUME NEW M, NEW N, Sound(W, M, N), Buffers(M, N), DocOpen(W),
           docStore # None
    PROVE  Sound(StoresFailedW, M, N)
  <1> DEFINE x == W
             F == {Cfx(docStore)}
             w1 == Create(x, F)
             v == [w1 EXCEPT !.ifd.doomed = @ \cup F]
  <1>1. StoresFailedW = v
    BY DEF StoresFailedW
  <1>2. docStore \in Nat /\ docStore < N /\ docStore \notin M
    BY DEF Buffers
  <1>3. Sound(x, M, N) /\ Cfx(docStore) \notin x.files
    BY DEF DocOpen
  <1> HIDE DEF x
  <1>4. /\ F \subseteq FileName /\ AllData(F) /\ Avoids(F, M)
        /\ NumbersBelow(F, N) /\ \A f \in F : f[1] # "del"
    BY <1>2, DataFiles
  <1>5. Fresh(F, x, M, N)
    BY <1>3, <1>4 DEF Fresh
  <1>6. /\ DOMAIN x = {"files", "created", "segs", "ifd"}
        /\ Exact(x.ifd, Committing) /\ Settled(x.ifd)
        /\ Held(x.ifd, Committing) \subseteq x.files
    BY <1>3 DEF Sound, Fine, Tidy, Settled
  <1>7. SpareOf(x, v, F, F)
    <2> DEFINE d == [x.ifd EXCEPT !.doomed = @ \cup F]
    <2>1. /\ d.refCounts = x.ifd.refCounts /\ d.lastFiles = x.ifd.lastFiles
          /\ d.commits = x.ifd.commits /\ d.deletable = x.ifd.deletable
          /\ d.synced = x.ifd.synced /\ d.doomed = x.ifd.doomed \cup F
          /\ IsRecord(d)
      BY <1>6 DEF Exact, IsRecord
    <2>2. Exact(d, Committing)
      <3> HIDE DEF d
      <3> QED
        BY <1>6, <2>1 DEF Exact
    <2>3. /\ DOMAIN v = {"files", "created", "segs", "ifd"}
          /\ v.files = x.files \cup F /\ v.created = x.created \cup F
          /\ v.segs = x.segs /\ v.ifd = d
      BY <1>6 DEF Create
    <2> HIDE DEF d, v
    <2> QED
      BY <1>6, <2>1, <2>2, <2>3 DEF SpareOf, Settled
  <1>8. F \cap Held(x.ifd, Committing) = {}
    BY <1>3, <1>6
  <1> HIDE DEF v
  <1>9. Sound(v, M, N)
    BY <1>3, <1>4, <1>5, <1>7, <1>8, SoundSpare
  <1> QED
    BY <1>1, <1>9

-----------------------------------------------------------------------------
(***************************************************************************)
(* Handlers: what each leaves of the invariant's parts.                    *)
(***************************************************************************)
\* The number a running merge has taken, until it is committed
MergeNames == IF merge.stage \in {"none", "merged"} THEN {} ELSE {merge.name}

\* What WriteOnce says of a step
WriteStep ==
    /\ \A g \in DOMAIN sis \cap DOMAIN sis' :
          sis[g].valid /\ status' # "crashed" => sis'[g] = sis[g]
    /\ stable \cap files' \subseteq stable'

\* A step that writes no segments_N leaves the history of commits as it is.
LEMMA HistoryKept ==
    ASSUME HistoryInv, sis' = sis
    PROVE  HistoryInv'
  BY DEF HistoryInv

\* A step that only adds files of the index proper leaves segments_N alone.
LEMMA DirectoryKept ==
    ASSUME DirectoryInv, sis' = sis, files \subseteq files',
           stable' \subseteq files', AllData(files' \ files)
    PROVE  DirectoryInv'
  BY DEF DirectoryInv, AllData

\* The counters are numbers.
LEMMA CounterTypes ==
    ASSUME TypeOK
    PROVE  /\ infos.counter \in Nat /\ toSync.counter \in Nat
           /\ \A g \in DOMAIN sis : sis[g].counter \in Nat
           /\ infos.segs \in Seq(SegmentInfo) /\ toSync.segs \in Seq(SegmentInfo)
           /\ \A g \in DOMAIN sis : sis[g].segs \in Seq(SegmentInfo)
           /\ \A g \in DOMAIN sis : g \in Nat
  BY DEF TypeOK, InfosRecord

\* A step that commits nothing and deletes no commit keeps the commit points,
\* whatever else it writes, syncs or gives up.
LEMMA PointKept ==
    ASSUME TypeOK, PointInv, status = "open", ifd'.commits = ifd.commits,
           UNCHANGED <<sis, rollbackInfos, pending, snapshot>>,
           pending => toSync' = toSync,
           stable \subseteq stable', ifd.doomed \subseteq ifd'.doomed,
           infos'.counter \in Nat, infos.counter <= infos'.counter
    PROVE  PointInv'
  <1>1. /\ \A c \in ifd.commits : IsPoint(c)
        /\ \A h \in DOMAIN sis :
              \/ \E c \in ifd.commits : c.generation = h
              \/ pending /\ h = toSync.generation
              \/ /\ Segments(h) \in ifd.doomed
                 /\ sis[h].valid => \E c \in ifd.commits : c.generation > h
        /\ \E c \in ifd.commits : InfosFiles(rollbackInfos) \subseteq c.files
        /\ snapshot # None => \E c \in ifd.commits : c.generation = snapshot
    BY DEF PointInv
  <1>2. ASSUME NEW c \in ifd.commits
        PROVE  IsPoint(c)'
    <2>1. IsPoint(c)
      BY <1>1
    <2>2. /\ sis[c.generation].counter \in Nat /\ infos.counter \in Nat
      BY <2>1, CounterTypes DEF IsPoint
    <2> QED
      BY <2>1, <2>2 DEF IsPoint
  <1>3. \A c \in ifd'.commits : IsPoint(c)'
    BY <1>2
  <1>4. \A h \in DOMAIN sis' :
              \/ \E c \in ifd'.commits : c.generation = h
              \/ pending' /\ h = toSync'.generation
              \/ /\ Segments(h) \in ifd'.doomed
                 /\ sis'[h].valid => \E c \in ifd'.commits : c.generation > h
    BY <1>1
  <1> QED
    BY <1>1, <1>3, <1>4 DEF PointInv

\* A step outside the commit keeps what the commit under way has reached.
LEMMA SyncKept ==
    ASSUME TypeOK, SyncInv, ifd'.commits = ifd.commits,
           UNCHANGED <<sis, toSync, pending>>, pc' \in {pc, "idle", "flushed"},
           stable \subseteq stable',
           pending => Segments(toSync.generation) \notin ifd'.doomed,
           infos'.counter \in Nat, infos.counter <= infos'.counter
    PROVE  SyncInv'
  <1>1. infos.counter \in Nat /\ toSync.counter \in Nat
    BY CounterTypes
  <1>2. Committing' = Committing
    BY DEF Committing
  <1>3. \/ pc' \in {"sync", "turn", "unwind"} => pc \in {"sync", "turn", "unwind"}
    OBVIOUS
  <1>4. pc' \in {"sync", "turn", "unwind"} \/ pending' =>
          /\ toSync'.counter <= infos'.counter
          /\ NumbersBelow(Committing', toSync'.counter)
          /\ Coherent(toSync'.segs)
          /\ \A c \in ifd'.commits : /\ sis'[c.generation].counter <= toSync'.counter
                                     /\ DelsBelow(toSync'.segs, c.files)
    <2> SUFFICES ASSUME pc \in {"sync", "turn", "unwind"} \/ pending
                 PROVE  /\ toSync.counter <= infos'.counter
                        /\ NumbersBelow(Committing, toSync.counter)
                        /\ Coherent(toSync.segs)
                        /\ \A c \in ifd.commits :
                              /\ sis[c.generation].counter <= toSync.counter
                              /\ DelsBelow(toSync.segs, c.files)
      BY <1>2
    <2>1. toSync.counter <= infos.counter
      BY DEF SyncInv
    <2>2. toSync.counter <= infos'.counter
      BY <1>1, <2>1
    <2> QED
      BY <2>2 DEF SyncInv
  <1>5. pc' = "turn" \/ pending' => Committing' \subseteq stable'
    BY <1>2 DEF SyncInv
  <1>6. pending' =>
          /\ toSync'.generation \in DOMAIN sis'
          /\ sis'[toSync'.generation].segs = toSync'.segs
          /\ sis'[toSync'.generation].counter = toSync'.counter
          /\ Segments(toSync'.generation) \notin ifd'.doomed
    BY DEF SyncInv
  <1>7. /\ pc' \in {"fcSync", "fcGen", "fcCheckpoint"} =>
               sis'[toSync'.generation].valid
        /\ pc' \in {"fcGen", "fcCheckpoint"} =>
               /\ Segments(toSync'.generation) \in stable'
               /\ toSync'.lastGeneration = toSync'.generation
    BY DEF SyncInv
  <1> QED
    BY <1>4, <1>5, <1>6, <1>7 DEF SyncInv

\* Nothing waits to be unlinked, as when the lock is free.
Quiet == status = "open" /\ ifd.doomed = {}

\* The state a handler starts from
LEMMA SoundW ==
    ASSUME IInv, TypeInv, FilesInv, Quiet, Alive
    PROVE  /\ Sound(W, MergeNames, infos.counter)
           /\ Buffers(MergeNames, infos.counter)
           /\ DocOpen(W) /\ RamFree(W)
  <1>1. /\ W.files = files /\ W.created = {} /\ W.segs = infos.segs
        /\ W.ifd = ifd
    BY DEF W
  <1>2. status = "open" /\ ifd.doomed = {} /\ Staying = files
    BY DEF Quiet, Staying
  <1>3. Fine(W, ifd.commits, Committing)
    BY <1>2, FineW
  <1>4. Tidy(ifd, Committing, files)
    BY <1>2 DEF FilesInv, TidyInv
  <1>5. /\ ifd.lastFiles[1] = InfosFiles(infos.segs)
        /\ AllData(ifd.lastFiles[2])
        /\ NumbersBelow(files, infos.counter)
        /\ DelsBelow(infos.segs, files)
        /\ Coherent(infos.segs)
    BY <1>2 DEF FilesInv, SegsInv, AllData
  <1>6. Avoids(Held(ifd, Committing), MergeNames)
    BY DEF FilesInv, MergeInv, Avoids, MergeNames, HeldFiles
  <1>7. AllData({}) /\ Avoids({}, MergeNames)
    BY DEF AllData, Avoids
  <1>8. infos.segs \in Seq(SegmentInfo) /\ files \subseteq FileName
    BY CounterTypes DEF TypeInv, TypeOK
  <1>9. Sound(W, MergeNames, infos.counter)
    BY <1>1, <1>2, <1>3, <1>4, <1>5, <1>6, <1>7, <1>8 DEF Sound
  <1>10. Buffers(MergeNames, infos.counter)
    <2>1. ram \in Nat \cup {None} /\ docStore \in Nat \cup {None}
      BY DEF TypeInv, TypeOK
    <2>2. ram # None => ram < infos.counter /\ docStore # None
      BY DEF FilesInv, RamInv
    <2>3. docStore # None => docStore < infos.counter
      BY DEF FilesInv, StoreInv
    <2>4. ram \notin MergeNames /\ docStore \notin MergeNames
      BY DEF FilesInv, MergeInv, MergeNames
    <2> QED
      BY <2>1, <2>2, <2>3, <2>4 DEF Buffers
  <1>11. DocOpen(W)
    BY <1>1, <1>2 DEF FilesInv, StoreInv, DocOpen, HeldFiles
  <1>12. RamFree(W)
    BY <1>1, <1>2 DEF FilesInv, RamInv, RamFree
  <1> QED
    BY <1>9, <1>10, <1>11, <1>12

\* What a handler that ends in w, with N the next number, leaves of the
\* directory, of the deleter and of what the segments depend on.
Leaves(w, N) ==
    /\ files' = w.files /\ stable' = stable \ w.created
    /\ infos'.segs = w.segs /\ infos'.counter = N
    /\ status' = status
    /\ ifd'.lastFiles = w.ifd.lastFiles /\ ifd'.commits = w.ifd.commits
    /\ ifd'.deletable = w.ifd.deletable /\ ifd'.doomed = w.ifd.doomed
    /\ ifd'.synced = w.ifd.synced
    /\ HeldFiles' = Held(w.ifd, Committing)
    /\ UNCHANGED <<sis, rollbackInfos, pending, snapshot>>
    /\ pending => toSync' = toSync
    /\ (pc' = pc /\ op' = op) \/ pc' \in {"idle", "flushed", "sync"}

\* The directory, the deleter and the commits are in order.
LEMMA FilesLeaves ==
    ASSUME IInv, TypeInv, FilesInv, Quiet, Alive,
           NEW w, NEW N \in Nat, infos.counter <= N,
           Sound(w, {}, N), Leaves(w, N)
    PROVE  /\ PlaceInv' /\ DirectoryInv' /\ TidyInv' /\ SyncedInv' /\ SegsInv'
           /\ HistoryInv' /\ PointInv' /\ RestInv' /\ WriteStep
           /\ stable' = stable /\ AllData(ifd'.doomed)
  <1>1. /\ files' = w.files /\ stable' = stable \ w.created
        /\ infos'.segs = w.segs /\ infos'.counter = N
        /\ status' = "open" /\ status = "open" /\ ifd.doomed = {}
        /\ ifd'.lastFiles = w.ifd.lastFiles /\ ifd'.commits = w.ifd.commits
        /\ ifd'.deletable = w.ifd.deletable /\ ifd'.doomed = w.ifd.doomed
        /\ ifd'.synced = w.ifd.synced
        /\ UNCHANGED <<sis, rollbackInfos, pending, snapshot>>
        /\ pending => toSync' = toSync
        /\ (pc' = pc /\ op' = op) \/ pc' \in {"idle", "flushed", "sync"}
    BY DEF Leaves, Quiet
  <1>2. /\ w.files = files \cup w.created /\ w.created \cap files = {}
        /\ stable \subseteq files /\ AllData(w.created)
    BY DEF Sound, FilesInv, DirectoryInv
  <1>3. stable' = stable
    BY <1>1, <1>2
  <1>4. HeldFiles' = Held(w.ifd, Committing)
    BY DEF Leaves
  <1>5. /\ ifd'.commits = ifd.commits
        /\ ifd'.synced \subseteq ifd.synced
        /\ AllData(ifd'.doomed)
    BY <1>1 DEF Sound, Fine
  <1>6. PlaceInv'
    BY <1>1 DEF FilesInv, PlaceInv, Alive
  <1>7. DirectoryInv'
    <2>1. AllData(files' \ files)
      BY <1>1, <1>2 DEF AllData
    <2> QED
      BY <1>1, <1>2, <1>3, <2>1, DirectoryKept DEF FilesInv
  <1>8. TidyInv'
    <2>1. Tidy(w.ifd, Committing, w.files)
      BY DEF Sound
    <2>2. HeldFiles' = Held(ifd', Committing')
      BY DEF HeldFiles
    <2>3. Tidy(ifd', Committing', files')
      BY <1>1, <1>4, <2>1, <2>2 DEF Tidy
    <2> QED
      BY <2>3 DEF TidyInv
  <1>9. SyncedInv'
    BY <1>1, <1>3, <1>5 DEF FilesInv, SyncedInv
  <1>10. SegsInv'
    <2>1. Staying' \subseteq w.files
      BY <1>1 DEF Staying
    <2>2. /\ ifd'.lastFiles[1] = InfosFiles(infos'.segs)
          /\ \A f \in ifd'.lastFiles[2] : IsData(f)
          /\ NumbersBelow(w.files, infos'.counter)
          /\ DelsBelow(infos'.segs, w.files)
          /\ Coherent(infos'.segs)
      BY <1>1 DEF Sound, AllData
    <2>3. NumbersBelow(Staying', infos'.counter)
      BY <2>1, <2>2 DEF NumbersBelow
    <2>4. DelsBelow(infos'.segs, Staying')
      BY <2>1, <2>2 DEF DelsBelow
    <2> QED
      BY <2>2, <2>3, <2>4 DEF SegsInv
  <1>11. HistoryInv'
    BY <1>1, HistoryKept DEF FilesInv
  <1>12. PointInv'
    BY <1>1, <1>3, <1>5, PointKept DEF FilesInv, TypeInv
  <1>13. RestInv'
    BY <1>1 DEF RestInv
  <1>14. WriteStep
    BY <1>1, <1>3 DEF WriteStep
  <1> QED
    BY <1>3, <1>5, <1>6, <1>7, <1>8, <1>9, <1>10, <1>11, <1>12, <1>13, <1>14

\* A handler that ends in w, with N the next number, and that is not about
\* commits
Moves(w, N) ==
    /\ Becomes(w) /\ infos'.segs = w.segs /\ infos'.counter = N
    /\ status' = status
    /\ UNCHANGED <<sis, rollbackInfos, toSync, pending, snapshot>>
    /\ (pc' = pc /\ op' = op) \/ pc' \in {"idle", "flushed"}

\* It leaves w, as the name says.
LEMMA MovesLeaves ==
    ASSUME NEW w, NEW N, Moves(w, N)
    PROVE  Leaves(w, N)
  <1>1. Committing' = Committing /\ ifd' = w.ifd
    BY DEF Moves, Becomes, Committing
  <1>2. HeldFiles' = Held(w.ifd, Committing)
    BY <1>1 DEF HeldFiles
  <1> QED
    BY <1>1, <1>2 DEF Moves, Becomes, Leaves

\* It leaves the directory, the deleter and the commits in order.
LEMMA FilesBecomes ==
    ASSUME IInv, TypeInv, FilesInv, Quiet, Alive,
           NEW w, NEW N \in Nat, infos.counter <= N,
           Sound(w, {}, N), Moves(w, N)
    PROVE  /\ PlaceInv' /\ DirectoryInv' /\ TidyInv' /\ SyncedInv' /\ SegsInv'
           /\ HistoryInv' /\ PointInv' /\ SyncInv' /\ RestInv'
           /\ WriteStep
  <1>1. Leaves(w, N)
    BY MovesLeaves
  <1>2. /\ PlaceInv' /\ DirectoryInv' /\ TidyInv' /\ SyncedInv' /\ SegsInv'
        /\ HistoryInv' /\ PointInv' /\ RestInv' /\ WriteStep
        /\ stable' = stable /\ AllData(ifd'.doomed)
    BY <1>1, FilesLeaves
  <1>3. SyncInv'
    <2>1. IsData(Segments(toSync.generation)) = FALSE
      BY DEF IsData, Segments
    <2>2. Segments(toSync.generation) \notin ifd'.doomed
      BY <1>2, <2>1 DEF AllData
    <2>3. pc' \in {pc, "idle", "flushed"} /\ ifd'.commits = ifd.commits
      BY DEF Moves, Becomes, Sound, Fine
    <2>4. UNCHANGED <<sis, toSync, pending>> /\ infos'.counter = N
      BY DEF Moves
    <2> QED
      BY <1>2, <2>2, <2>3, <2>4, SyncKept DEF FilesInv, TypeInv
  <1> QED
    BY <1>2, <1>3

\* A running merge of which nothing changes but what is late, or that opens
\* its readers and may find that the doc stores have to be merged too
Merging ==
    /\ merge'.name = merge.name
    /\ \/ /\ merge'.stage = merge.stage /\ merge'.mds = merge.mds
          /\ merge'.ds = merge.ds /\ merge'.dsc = merge.dsc
       \/ /\ merge.stage = "init" /\ merge'.stage = "open"
          /\ merge'.mds <=> merge'.ds = None
          /\ merge'.ds # None =>
                merge'.ds = merge.ds /\ (merge'.dsc => merge.dsc)

\* The handler leaves the files of the running merge alone.
LEMMA MergeKept ==
    ASSUME IInv, TypeInv, FilesInv, Quiet, Alive,
           NEW w, NEW N \in Nat, infos.counter <= N,
           Sound(w, MergeNames, N), Leaves(w, N),
           Grows(infos.segs, w.segs), Merging,
           ram' \in {ram, None, infos.counter},
           docStore' \in {docStore, None, infos.counter}
    PROVE  MergeInv'
  <1> SUFFICES ASSUME merge'.stage \notin {"none", "merged"}
               PROVE  MergeInv'
    BY DEF MergeInv
  <1>1. /\ files' = w.files /\ infos'.segs = w.segs
        /\ infos'.counter = N /\ ifd.doomed = {}
        /\ ifd'.doomed = w.ifd.doomed
        /\ HeldFiles' = Held(w.ifd, Committing)
        /\ merge.stage \notin {"none", "merged"} /\ MergeNames = {merge.name}
    BY DEF Leaves, Quiet, Merging, MergeNames
  <1>2. /\ merge.name < infos.counter
        /\ merge.name # ram /\ merge.name # docStore
        /\ \A f \in files : IsData(f) /\ f[2] = merge.name =>
              /\ merge.stage = "written"
              /\ f \in {Core(merge.name), Store(merge.name), Cfs(merge.name)}
        /\ merge.stage = "written" =>
              IF UseCompoundFile THEN Cfs(merge.name) \in files
              ELSE /\ Core(merge.name) \in files
                   /\ merge.ds = None => Store(merge.name) \in files
        /\ merge.mds <=> merge.ds = None
    <2>1. Staying = files
      BY <1>1 DEF Staying
    <2> QED
      BY <1>1, <2>1 DEF FilesInv, MergeInv
  <1>3. merge.name \in Nat /\ infos.counter \in Nat
    BY <1>1, CounterTypes DEF TypeInv, SourcesInv
  <1>4. merge.name < N
    BY <1>2, <1>3
  <1>5. merge.name # ram' /\ merge.name # docStore'
    BY <1>2, <1>3 DEF None
  <1>6. /\ \A f \in Held(w.ifd, Committing) : IsData(f) => f[2] # merge.name
        /\ \A f \in w.ifd.doomed : f[2] # merge.name
        /\ \A f \in w.created : f[2] # merge.name
    BY <1>1 DEF Sound, Avoids, AllData
  <1>7. HeldFiles' = Held(w.ifd, Committing)
    BY <1>1
  <1>8. /\ \A f \in Staying' : f[2] = merge.name => f \in files
        /\ \A f \in files : f[2] = merge.name => f \in Staying'
    BY <1>1, <1>6 DEF Staying, Sound
  <1>9. /\ Cfs(merge.name)[2] = merge.name /\ Core(merge.name)[2] = merge.name
        /\ Store(merge.name)[2] = merge.name
    BY DEF Cfs, Core, Store
  <1>10. /\ \A f \in Staying' : IsData(f) /\ f[2] = merge.name =>
              /\ merge.stage = "written"
              /\ f \in {Core(merge.name), Store(merge.name), Cfs(merge.name)}
         /\ merge.stage = "written" =>
              IF UseCompoundFile THEN Cfs(merge.name) \in Staying'
              ELSE /\ Core(merge.name) \in Staying'
                   /\ merge.ds = None => Store(merge.name) \in Staying'
    BY <1>2, <1>8, <1>9
  <1>11. ASSUME merge.ds # None
         PROVE  \E k \in DOMAIN w.segs :
                   w.segs[k].ds = merge.ds /\ (merge.dsc => w.segs[k].dsc)
    <2>1. PICK k \in DOMAIN infos.segs :
              infos.segs[k].ds = merge.ds /\ (merge.dsc => infos.segs[k].dsc)
      BY <1>1, <1>11 DEF FilesInv, MergeInv
    <2> QED
      BY <2>1 DEF Grows, GrownInfo
  <1>12. /\ merge'.name = merge.name
         /\ merge'.stage = "written" <=> merge.stage = "written"
         /\ merge'.stage = "written" => merge'.ds = merge.ds
         /\ merge'.mds <=> merge'.ds = None
         /\ merge'.ds # None =>
               merge'.ds = merge.ds /\ (merge'.dsc => merge.dsc)
    BY <1>2 DEF Merging
  <1> QED
    BY <1>1, <1>2, <1>4, <1>5, <1>6, <1>7, <1>10, <1>11, <1>12 DEF MergeInv

\* The open doc store stays, or is closed.
LEMMA StoreKept ==
    ASSUME TypeInv, FilesInv, Quiet, Alive, NEW w, NEW N \in Nat,
           infos.counter <= N, Leaves(w, N), Sound(w, {}, N),
           docStore' = None \/ (docStore' = docStore /\ DocOpen(w))
    PROVE  StoreInv'
  <1> SUFFICES ASSUME docStore' # None
               PROVE  StoreInv'
    BY DEF StoreInv
  <1>1. /\ files' = w.files /\ infos'.counter = N
        /\ ifd'.doomed = w.ifd.doomed /\ ifd'.lastFiles = w.ifd.lastFiles
        /\ HeldFiles' = Held(w.ifd, Committing)
        /\ docStore' = docStore /\ DocOpen(w)
    BY DEF Leaves
  <1>2. docStore < infos.counter /\ docStore \in Nat /\ infos.counter \in Nat
    BY <1>1, CounterTypes DEF FilesInv, StoreInv, TypeInv, TypeOK
  <1>3. docStore < N
    BY <1>2
  <1> QED
    BY <1>1, <1>3 DEF StoreInv, DocOpen, Staying

\* So does the name of the buffered documents' segment.
LEMMA RamKept ==
    ASSUME TypeInv, FilesInv, Quiet, Alive, NEW w, NEW N \in Nat,
           infos.counter <= N, Leaves(w, N), Sound(w, {}, N),
           ram' = None \/ (ram' = ram /\ docStore' = docStore /\ RamFree(w))
    PROVE  RamInv'
  <1> SUFFICES ASSUME ram' # None
               PROVE  RamInv'
    BY DEF RamInv
  <1>1. /\ files' = w.files /\ ifd'.doomed = w.ifd.doomed
        /\ infos'.counter = N
        /\ ram' = ram /\ docStore' = docStore /\ RamFree(w)
    BY DEF Leaves
  <1>2. /\ ram < infos.counter /\ ram \in Nat /\ infos.counter \in Nat
        /\ docStore # None
    BY <1>1, CounterTypes DEF FilesInv, RamInv, TypeInv, TypeOK
  <1>3. ram < N
    BY <1>2
  <1> QED
    BY <1>1, <1>2, <1>3 DEF RamInv, RamFree, Staying

\* All of it together
LEMMA FilesKept ==
    ASSUME IInv, TypeInv, FilesInv, Quiet, Alive,
           NEW w, NEW N \in Nat, infos.counter <= N,
           Sound(w, MergeNames, N), Moves(w, N),
           Grows(infos.segs, w.segs), Merging,
           docStore' = None \/ (docStore' = docStore /\ DocOpen(w)),
           ram' = None \/ (ram' = ram /\ docStore' = docStore /\ RamFree(w))
    PROVE  FilesInv' /\ WriteStep
  <1>1. Sound(w, {}, N)
    BY SoundLess
  <1>2. /\ PlaceInv' /\ DirectoryInv' /\ TidyInv' /\ SyncedInv' /\ SegsInv'
        /\ HistoryInv' /\ PointInv' /\ SyncInv' /\ RestInv'
        /\ WriteStep
    BY <1>1, FilesBecomes
  <1>5. Leaves(w, N)
    BY MovesLeaves
  <1>3. MergeInv'
    BY <1>5, MergeKept
  <1>4. StoreInv' /\ RamInv'
    BY <1>1, <1>5, StoreKept, RamKept
  <1> QED
    BY <1>2, <1>3, <1>4 DEF FilesInv

\* A flush, in whichever way it ends
LEMMA FilesFlush ==
    ASSUME IInv, TypeInv, FilesInv, Quiet, Alive,
           NEW c \in BOOLEAN, NEW applies \in BOOLEAN,
           \/ FlushSucceeds(c, applies) \/ FlushThrows(c)
           \/ CompoundThrows(c) \/ StoresThrow,
           UNCHANGED <<sis, status, rollbackInfos, toSync, pending, snapshot>>,
           (pc' = pc /\ op' = op) \/ pc' \in {"idle", "flushed"}
    PROVE  FilesInv' /\ WriteStep
  <1> DEFINE N == infos.counter
  <1>1. /\ Sound(W, MergeNames, N) /\ Buffers(MergeNames, N)
        /\ DocOpen(W) /\ RamFree(W)
    BY SoundW
  <1>2. TypeOK /\ N \in Nat /\ infos.segs \in Seq(SegmentInfo)
    BY CounterTypes DEF TypeInv
  <1>3. Made(W, infos.segs)
    BY <1>2, MadeW
  <1>4. Merging
    <2>1. CASE UNCHANGED mergeVars
      BY <2>1 DEF mergeVars, Merging
    <2>2. CASE \E names : Hit(names)
      <3>1. \E b : merge' = [merge EXCEPT !.late = b]
        BY <2>2 DEF Hit
      <3> QED
        BY <1>2, <3>1 DEF Merging, TypeOK
    <2> QED
      BY <2>1, <2>2 DEF FlushSucceeds, FlushThrows, CompoundThrows, StoresThrow
  <1>5. \E w : /\ Sound(w, MergeNames, N) /\ Made(w, infos.segs)
               /\ Becomes(w) /\ infos' = [infos EXCEPT !.segs = w.segs]
               /\ docStore' = None \/ (docStore' = docStore /\ DocOpen(w))
    <2>1. CASE FlushSucceeds(c, applies)
      <3>1. PICK names : LET w == FlushedW(W, c, names \ HeldByMerge)
                         IN  /\ Becomes(w)
                             /\ infos' = [infos EXCEPT !.segs = w.segs]
        BY <2>1 DEF FlushSucceeds
      <3> DEFINE w == FlushedW(W, c, names \ HeldByMerge)
      <3>2. Sound(w, MergeNames, N) /\ (~c => DocOpen(w))
        BY <1>1, SoundFlushed
      <3>3. Made(w, infos.segs)
        BY <1>2, <1>3, MadeFlushed
      <3>4. Becomes(w) /\ infos' = [infos EXCEPT !.segs = w.segs]
        BY <3>1
      <3>5. docStore' = IF c THEN None ELSE docStore
        BY <2>1 DEF FlushSucceeds
      <3> HIDE DEF w
      <3> QED
        BY <3>2, <3>3, <3>4, <3>5
    <2>2. CASE FlushThrows(c)
      <3> DEFINE w == FlushFailedW(W, c)
      <3>1. /\ ram # None /\ Becomes(w) /\ infos' = [infos EXCEPT !.segs = w.segs]
            /\ docStore' = None
        BY <2>2 DEF FlushThrows, AbortDocuments
      <3>2. Sound(w, MergeNames, N)
        BY <1>1, <3>1, SoundFlushThrows
      <3>3. Made(w, infos.segs)
        BY <1>2, <1>3, <3>1, MadeFlushFailed
      <3> HIDE DEF w
      <3> QED
        BY <3>1, <3>2, <3>3
    <2>3. CASE CompoundThrows(c)
      <3> DEFINE w == CompoundFailedW(W, c)
      <3>1. /\ ram # None /\ Becomes(w) /\ infos' = [infos EXCEPT !.segs = w.segs]
            /\ docStore' = IF c THEN None ELSE docStore
        BY <2>3 DEF CompoundThrows
      <3>2. Sound(w, MergeNames, N) /\ (~c => DocOpen(w))
        BY <1>1, <3>1, SoundFlushThrows
      <3>3. Made(w, infos.segs)
        BY <1>2, <1>3, <3>1, MadeFlushFailed
      <3> HIDE DEF w
      <3> QED
        BY <3>1, <3>2, <3>3
    <2>4. CASE StoresThrow
      <3>1. PICK w \in {W, StoresFailedW} : Becomes(w)
        BY <2>4 DEF StoresThrow
      <3>2. docStore # None /\ docStore' = None
        BY <2>4 DEF StoresThrow, Shared, AbortDocuments
      <3>3. Sound(w, MergeNames, N)
        BY <1>1, <3>1, <3>2, SoundStoresFailed
      <3>4. Made(w, infos.segs)
        BY <1>2, <1>3, <3>1, <3>2, MadeStoresFailed
      <3>5. w.segs = infos.segs
        <4>1. W.segs = infos.segs
          BY DEF W
        <4>2. StoresFailedW.segs = infos.segs
          BY DEF StoresFailedW, Create, W
        <4> QED
          BY <3>1, <4>1, <4>2
      <3>6. infos' = [infos EXCEPT !.segs = w.segs]
        BY <1>2, <2>4, <3>5 DEF StoresThrow, TypeOK, InfosRecord
      <3> QED
        BY <3>1, <3>2, <3>3, <3>4, <3>6
    <2> QED
      BY <2>1, <2>2, <2>3, <2>4
  <1>6. PICK w : /\ Sound(w, MergeNames, N) /\ Made(w, infos.segs)
                 /\ Becomes(w) /\ infos' = [infos EXCEPT !.segs = w.segs]
                 /\ docStore' = None \/ (docStore' = docStore /\ DocOpen(w))
    BY <1>5
  <1>7. infos'.segs = w.segs /\ infos'.counter = infos.counter
    BY <1>2, <1>6 DEF TypeOK, InfosRecord
  <1>8. Moves(w, N)
    BY <1>6, <1>7 DEF Moves
  <1>9. ram' = None
    BY DEF FlushSucceeds, FlushThrows, CompoundThrows, StoresThrow,
           AbortDocuments
  <1>10. Grows(infos.segs, w.segs)
    BY <1>6 DEF Made
  <1>11. infos.counter <= N
    BY <1>2
  <1> HIDE DEF N
  <1> QED
    BY <1>2, <1>4, <1>6, <1>8, <1>9, <1>10, <1>11, FilesKept

\* The first document of a segment
LEMMA FilesAddDocument ==
    ASSUME IInv, TypeInv, FilesInv, AddDocument
    PROVE  FilesInv' /\ WriteStep
  <1> DEFINE n == infos.counter
             F == IF docStore = None THEN {Store(n)} ELSE {}
             w == Create(W, F)
             N == n + 1
  <1>1. /\ Quiet /\ Alive /\ ram = None
        /\ ram' = n /\ infos' = [infos EXCEPT !.counter = @ + 1]
        /\ docStore' = IF docStore = None THEN n ELSE docStore
        /\ UNCHANGED <<sis, ifd, status, rollbackInfos, mergeVars, userVars,
                       snapshot>>
    BY DEF AddDocument, Indexing, Quiet, Alive, AbortsMerges, FilesInv,
           PlaceInv, histVars
  <1>2. /\ Sound(W, MergeNames, n) /\ DocOpen(W)
    BY <1>1, SoundW
  <1>3. TypeOK /\ n \in Nat /\ N \in Nat /\ n <= N /\ n < N
    BY CounterTypes DEF TypeInv
  <1>4. infos'.segs = infos.segs /\ infos'.counter = N
    BY <1>1, <1>3 DEF TypeOK, InfosRecord
  <1>5. /\ W.files = files /\ W.created = {} /\ W.segs = infos.segs
        /\ W.ifd = ifd
    BY DEF W
  <1>6. Sound(W, MergeNames, N)
    BY <1>2, <1>3, SoundLess
  <1>7. \A f \in files : IsData(f) => f[2] < n
    BY <1>2, <1>5 DEF Sound, NumbersBelow
  <1>8. n \notin MergeNames
    BY <1>1, <1>3 DEF MergeNames, FilesInv, MergeInv
  <1>9. /\ F \subseteq FileName /\ AllData(F) /\ Avoids(F, MergeNames)
        /\ NumbersBelow(F, N) /\ \A f \in F : f[1] # "del"
    BY <1>3, <1>8, DataFiles
  <1>10. F \cap files = {}
    BY <1>3, <1>7 DEF Store, IsData
  <1>11. Fresh(F, W, MergeNames, N)
    BY <1>5, <1>9, <1>10 DEF Fresh
  <1>12. Sound(w, MergeNames, N) /\ SpareOf(W, w, F, {})
    BY <1>6, <1>9, <1>11, SoundCreate
  <1>13. /\ files' = files \cup F /\ stable' = stable \ F
    BY DEF AddDocument
  <1>14. /\ w.files = files \cup F /\ w.created = F /\ w.ifd = ifd
         /\ w.segs = infos.segs
    BY <1>5 DEF Create, W
  <1> HIDE DEF w
  <1>15. Moves(w, N)
    BY <1>1, <1>4, <1>13, <1>14 DEF Moves, Becomes, userVars
  <1>23. Leaves(w, N)
    BY <1>15, MovesLeaves
  <1>16. Merging /\ Grows(infos.segs, w.segs)
    <2>1. infos.segs \in Seq(SegmentInfo)
      BY <1>3, CounterTypes
    <2> QED
      BY <1>1, <1>14, <2>1, GrowsRefl DEF Merging, mergeVars
  <1>17. Sound(w, {}, N)
    BY <1>3, <1>12, SoundLess
  <1>18. /\ PlaceInv' /\ DirectoryInv' /\ TidyInv' /\ SyncedInv' /\ SegsInv'
         /\ HistoryInv' /\ PointInv' /\ SyncInv' /\ RestInv'
         /\ WriteStep
    BY <1>1, <1>3, <1>15, <1>17, FilesBecomes
  <1>19. MergeInv'
    BY <1>1, <1>3, <1>12, <1>23, <1>16, MergeKept
  <1>20. Staying' = files \cup F
    BY <1>1, <1>13 DEF Staying, Quiet
  <1>21. RamInv'
    <2>1. docStore' # None
      BY <1>1, <1>3 DEF None
    <2>2. \A f \in Staying' : IsData(f) /\ f[2] = n => docStore' = n /\ f = Store(n)
      BY <1>1, <1>3, <1>7, <1>20
    <2> QED
      BY <1>1, <1>3, <1>4, <2>1, <2>2 DEF RamInv
  <1>22. StoreInv'
    <2>1. CASE docStore = None
      <3>1. HeldFiles' \subseteq files
        BY <1>1, <1>2, <1>5 DEF HeldFiles, Sound, Tidy, Committing, userVars
      <3>2. Store(n) \notin files /\ Cfx(n) \notin files \cup F
        BY <1>3, <1>7 DEF Store, Cfx, IsData
      <3> QED
        BY <1>1, <1>3, <1>4, <1>20, <2>1, <3>1, <3>2 DEF StoreInv
    <2>2. CASE docStore # None
      <3>1. DocOpen(w)
        BY <1>2, <1>5, <1>14, <2>2 DEF DocOpen
      <3> QED
        BY <1>1, <1>3, <1>23, <1>17, <2>2, <3>1, StoreKept
    <2> QED
      BY <2>1, <2>2
  <1> QED
    BY <1>18, <1>19, <1>21, <1>22 DEF FilesInv

\* A step that is not about segments: the only data it takes away is what
\* was held until now.
LEMMA SegmentsAside ==
    ASSUME SegsInv, RamInv, StoreInv, MergeInv, Alive' => Alive,
           infos'.segs = infos.segs, infos'.counter = infos.counter,
           UNCHANGED <<merge, ram, docStore>>,
           ifd'.lastFiles[1] = ifd.lastFiles[1],
           ifd'.lastFiles[2] = ifd.lastFiles[2],
           \A f \in Staying' : IsData(f) => f \in Staying,
           \A f \in HeldFiles' : IsData(f) => f \in HeldFiles,
           \A f \in Staying : IsData(f) =>
               f \in Staying' \/ (f \in HeldFiles /\ f \notin HeldFiles')
    PROVE  SegsInv' /\ RamInv' /\ StoreInv' /\ MergeInv'
  <1> SUFFICES ASSUME Alive, Alive'
               PROVE  SegsInv' /\ RamInv' /\ StoreInv' /\ MergeInv'
    BY DEF SegsInv, RamInv, StoreInv, MergeInv
  <1>1. \A n : /\ IsData(Core(n)) /\ IsData(Store(n)) /\ IsData(Cfs(n))
               /\ IsData(Cfx(n))
               /\ Core(n)[2] = n /\ Store(n)[2] = n /\ Cfs(n)[2] = n
    BY DEF IsData, Core, Store, Cfs, Cfx
  <1>2. SegsInv'
    <2>1. NumbersBelow(Staying', infos.counter)
      BY DEF SegsInv, NumbersBelow
    <2>2. DelsBelow(infos.segs, Staying')
      BY DEF SegsInv, DelsBelow, IsData
    <2> QED
      BY <2>1, <2>2 DEF SegsInv
  <1>3. RamInv'
    BY DEF RamInv
  <1>4. StoreInv'
    <2> SUFFICES ASSUME docStore # None
                 PROVE  StoreInv'
      BY DEF StoreInv
    <2>1. /\ docStore < infos.counter
          /\ Store(docStore) \in Staying
          /\ Cfx(docStore) \notin Staying
          /\ \/ Store(docStore) \in ifd.lastFiles[2]
             \/ Store(docStore) \notin HeldFiles
      BY DEF StoreInv
    <2>2. ifd'.lastFiles[2] \subseteq HeldFiles'
      BY DEF HeldFiles, Held
    <2>3. Store(docStore) \in Staying'
      BY <1>1, <2>1, <2>2
    <2>4. Cfx(docStore) \notin Staying'
      BY <1>1, <2>1
    <2>5. \/ Store(docStore) \in ifd'.lastFiles[2]
          \/ Store(docStore) \notin HeldFiles'
      BY <1>1, <2>1
    <2> QED
      BY <2>1, <2>3, <2>4, <2>5 DEF StoreInv
  <1>5. MergeInv'
    <2> SUFFICES ASSUME merge.stage \notin {"none", "merged"}
                 PROVE  MergeInv'
      BY DEF MergeInv
    <2>1. \A f \in HeldFiles : IsData(f) => f[2] # merge.name
      BY DEF MergeInv
    <2>2. \A f \in Staying : IsData(f) /\ f[2] = merge.name => f \in Staying'
      BY <2>1
    <2>3. /\ Core(merge.name) \in Staying => Core(merge.name) \in Staying'
          /\ Store(merge.name) \in Staying => Store(merge.name) \in Staying'
          /\ Cfs(merge.name) \in Staying => Cfs(merge.name) \in Staying'
      BY <1>1, <2>2
    <2>4. \A f \in Staying' : IsData(f) /\ f[2] = merge.name =>
              /\ merge.stage = "written"
              /\ f \in {Core(merge.name), Store(merge.name), Cfs(merge.name)}
      BY DEF MergeInv
    <2>5. merge.stage = "written" =>
              IF UseCompoundFile THEN Cfs(merge.name) \in Staying'
              ELSE /\ Core(merge.name) \in Staying'
                   /\ merge.ds = None => Store(merge.name) \in Staying'
      BY <2>3 DEF MergeInv
    <2> QED
      BY <2>1, <2>4, <2>5 DEF MergeInv
  <1> QED
    BY <1>2, <1>3, <1>4, <1>5

\* A step that touches neither files nor segments
LEMMA FilesPlaces ==
    ASSUME FilesInv, Alive' => Alive,
           UNCHANGED <<files, stable, sis, ifd, status, infos, merge, ram,
                       docStore, toSync>>,
           PlaceInv', PointInv', SyncInv', RestInv'
    PROVE  FilesInv' /\ WriteStep
  <1>1. Committing' = Committing /\ HeldFiles' = HeldFiles /\ Staying' = Staying
    BY DEF Committing, HeldFiles, Staying
  <1>2. SegsInv' /\ RamInv' /\ StoreInv' /\ MergeInv'
    BY <1>1, SegmentsAside DEF FilesInv
  <1>3. DirectoryInv' /\ TidyInv' /\ SyncedInv' /\ HistoryInv'
    BY <1>1 DEF FilesInv, DirectoryInv, TidyInv, SyncedInv, HistoryInv
  <1>4. WriteStep
    BY DEF WriteStep
  <1> QED
    BY <1>2, <1>3, <1>4 DEF FilesInv

\* The steps between the calls of a commit, and those that begin a rollback
LEMMA FilesCalls ==
    ASSUME Reliable, IInv, TypeInv, FilesInv,
           \/ DeleteDocuments \/ CommitPrepared \/ NothingToCommit
           \/ SyncFails \/ SyncDone \/ FinishCommitGen
           \/ \E o \in {"rollback", "deleteAll"} : FinishMerges(o)
           \/ UNCHANGED vars
    PROVE  FilesInv' /\ WriteStep
  <1>1. UNCHANGED <<files, stable, sis, ifd, status, infos, rollbackInfos, merge,
                    pooled, ram, docStore, toSync, pending, snapshot>>
    BY DEF DeleteDocuments, CommitPrepared, NothingToCommit, SyncFails,
           SyncDone, FinishCommitGen, FinishMerges, vars, dirVars, mergeVars,
           docVars, userVars, histVars
  <1>2. \/ pc' = pc /\ op' = op
        \/ pc = "idle" /\ pc' = "fcWrite" /\ pending
        \/ pc = "flushed" /\ pc' = "closing" /\ op' = "close" /\ op = "close"
        \/ pc = "flushed" /\ pc' = "idle"
        \/ pc = "sync" /\ pc' = "unwind"
        \/ pc = "sync" /\ pc' = "turn" /\ Committing \subseteq ifd.synced
        \/ pc = "fcGen" /\ pc' = "fcCheckpoint"
        \/ /\ pc = "idle" /\ pc' = "aborting" /\ op' \in {"rollback", "deleteAll"}
           /\ op' = "deleteAll" => ~pending
    BY DEF DeleteDocuments, CommitPrepared, NothingToCommit, SyncFails, SyncDone,
           FinishCommitGen, FinishMerges, vars, userVars, GoTo, Committing,
           Reliable
  <1>3. Alive' => Alive
    BY <1>1, <1>2 DEF Alive
  <1>4. PlaceInv'
    BY <1>1, <1>2 DEF FilesInv, PlaceInv, IInv, CallInv
  <1>5. PointInv' /\ RestInv'
    BY <1>1 DEF FilesInv, PointInv, IsPoint, RestInv
  <1>6. SyncInv'
    <2>1. Committing' = Committing
      BY <1>1 DEF Committing
    <2>2. pc = "sync" => status = "open"
      BY DEF IInv, CallInv
    <2>3. pc' = "turn" => Committing \subseteq stable
      BY <1>2, <2>2 DEF FilesInv, SyncedInv, SyncInv
    <2>4. \/ pc' \notin {"sync", "turn", "unwind"}
          \/ pc \in {"sync", "turn", "unwind"}
      BY <1>2
    <2>5. \/ pc' \notin {"fcSync", "fcGen", "fcCheckpoint"} \/ pc' = pc
          \/ pc = "fcGen"
      BY <1>2
    <2>6. pending => Committing \subseteq stable
      BY DEF FilesInv, SyncInv
    <2>7. pc' \in {"sync", "turn", "unwind"} \/ pending' =>
          /\ toSync'.counter <= infos'.counter
          /\ NumbersBelow(Committing', toSync'.counter)
          /\ Coherent(toSync'.segs)
          /\ \A c \in ifd'.commits : /\ sis'[c.generation].counter <= toSync'.counter
                                     /\ DelsBelow(toSync'.segs, c.files)
      BY <1>1, <2>1, <2>4 DEF FilesInv, SyncInv
    <2>8. pending' =>
          /\ toSync'.generation \in DOMAIN sis'
          /\ sis'[toSync'.generation].segs = toSync'.segs
          /\ sis'[toSync'.generation].counter = toSync'.counter
          /\ Segments(toSync'.generation) \notin ifd'.doomed
      BY <1>1 DEF FilesInv, SyncInv
    <2>9. /\ pc' \in {"fcSync", "fcGen", "fcCheckpoint"} =>
                 sis'[toSync'.generation].valid
          /\ pc' \in {"fcGen", "fcCheckpoint"} =>
                 /\ Segments(toSync'.generation) \in stable'
                 /\ toSync'.lastGeneration = toSync'.generation
      BY <1>1, <1>2 DEF FilesInv, SyncInv
    <2> QED
      BY <1>1, <2>1, <2>3, <2>6, <2>7, <2>8, <2>9 DEF SyncInv
  <1> QED
    BY <1>1, <1>3, <1>4, <1>5, <1>6, FilesPlaces

\* Snapshots are taken of commit points.
LEMMA FilesSnapshot ==
    ASSUME TypeInv, FilesInv, TakeSnapshot \/ ReleaseSnapshot
    PROVE  FilesInv' /\ WriteStep
  <1>1. UNCHANGED <<files, stable, sis, ifd, status, infos, rollbackInfos, merge,
                    pooled, ram, docStore, toSync, pending, pc, op>>
    BY DEF TakeSnapshot, ReleaseSnapshot, dirVars, mergeVars, docVars, userVars
  <1>2. \/ snapshot' = None
        \/ status = "open" /\ \E c \in ifd.commits : snapshot' = c.generation
    BY DEF TakeSnapshot, ReleaseSnapshot
  <1>3. Alive' => Alive
    BY <1>1 DEF Alive
  <1>4. PlaceInv' /\ SyncInv'
    BY <1>1 DEF FilesInv, PlaceInv, SyncInv, Committing
  <1>5. PointInv'
    BY <1>1, <1>2 DEF FilesInv, PointInv, IsPoint
  <1>6. RestInv'
    <2>1. \A h \in DOMAIN sis : h # None
      BY CounterTypes DEF TypeInv, None
    <2> QED
      BY <1>1, <1>2, <2>1 DEF FilesInv, RestInv
  <1> QED
    BY <1>1, <1>3, <1>4, <1>5, <1>6, FilesPlaces

\* Names of the files of commits
LEMMA SegmentsNames ==
    /\ \A g, h : Segments(g) = Segments(h) => g = h
    /\ \A g : Segments(g)[2] = g /\ ~IsData(Segments(g))
  BY DEF Segments, IsData

\* Directory::sync of a file of the commit
LEMMA FilesSync ==
    ASSUME IInv, TypeInv, FilesInv, NEW f, SyncFile(f)
    PROVE  FilesInv' /\ WriteStep
  <1>1. /\ f \in Committing /\ pc = "sync" /\ status = "open"
        /\ stable' = stable \cup {f}
        /\ ifd' = [ifd EXCEPT !.synced = @ \cup {f}]
        /\ UNCHANGED <<files, sis, status, infos, rollbackInfos, merge, pooled,
                       ram, docStore, toSync, pending, pc, op, snapshot>>
    BY DEF SyncFile, Committing, IInv, CallInv, mergeVars, docVars, userVars,
           histVars
  <1>2. IsRecord(ifd)
    BY <1>1 DEF IInv, CountsInv, Exact
  <1>3. /\ ifd'.synced = ifd.synced \cup {f} /\ ifd'.lastFiles = ifd.lastFiles
        /\ ifd'.commits = ifd.commits /\ ifd'.doomed = ifd.doomed
        /\ ifd'.deletable = ifd.deletable
    BY <1>1, <1>2 DEF IsRecord
  <1>4. /\ Committing' = Committing /\ Staying' = Staying
        /\ HeldFiles' = HeldFiles
    BY <1>1, <1>3 DEF Committing, Staying, HeldFiles, Held
  <1>5. Tidy(ifd, Committing, files)
    BY <1>1 DEF FilesInv, TidyInv
  <1>6. Held(ifd', Committing') = Held(ifd, Committing)
    BY <1>4 DEF HeldFiles
  <1>7. Committing \subseteq Held(ifd, Committing)
    BY DEF Held
  <1>8. TidyInv'
    BY <1>1, <1>3, <1>5, <1>6, <1>7 DEF TidyInv, Tidy
  <1>9. f \in files
    BY <1>1, <1>5, <1>7 DEF Tidy
  <1>10. DirectoryInv'
    BY <1>1, <1>9 DEF FilesInv, DirectoryInv
  <1>11. SyncedInv'
    BY <1>1, <1>3 DEF FilesInv, SyncedInv
  <1>12. Alive' => Alive
    BY <1>1 DEF Alive
  <1>13. SegsInv' /\ RamInv' /\ StoreInv' /\ MergeInv'
    BY <1>1, <1>3, <1>4, <1>12, SegmentsAside DEF FilesInv
  <1>14. TypeOK /\ infos.counter \in Nat
    BY CounterTypes DEF TypeInv
  <1>15. PointInv'
    BY <1>1, <1>3, <1>14, PointKept DEF FilesInv
  <1>16. SyncInv'
    <2>1. pending => Segments(toSync.generation) \notin ifd'.doomed
      BY <1>3 DEF FilesInv, SyncInv
    <2> QED
      BY <1>1, <1>3, <1>14, <2>1, SyncKept DEF FilesInv
  <1>17. PlaceInv' /\ HistoryInv' /\ RestInv'
    BY <1>1, HistoryKept DEF FilesInv, PlaceInv, RestInv
  <1>18. WriteStep
    BY <1>1 DEF WriteStep
  <1> QED
    BY <1>8, <1>10, <1>11, <1>13, <1>15, <1>16, <1>17, <1>18 DEF FilesInv

\* The generation SegmentInfos::write takes has no segments_N yet.
LEMMA PreparedIsFree ==
    ASSUME IInv, TypeInv, FilesInv, pc = "turn", LockFree
    PROVE  /\ ~pending /\ Prepared.generation \in Nat
           /\ Prepared.segs = toSync.segs /\ Prepared.counter = toSync.counter
           /\ \A h \in DOMAIN sis :
                 /\ h < Prepared.generation
                 /\ \E c \in ifd.commits : c.generation = h
           /\ Segments(Prepared.generation) \notin files
  <1>1. ~pending /\ status = "open" /\ ifd.doomed = {}
    BY DEF IInv, CallInv, LockFree
  <1>2. /\ Prepared.generation \in Nat /\ Prepared.segs = toSync.segs
        /\ infos.generation < Prepared.generation
    BY PreparedIsNew
  <1>3. Prepared.counter = toSync.counter
    BY DEF Prepared, UpdateGeneration, TypeInv, TypeOK, InfosRecord
  <1>4. ASSUME NEW h \in DOMAIN sis
        PROVE  /\ h < Prepared.generation
               /\ \E c \in ifd.commits : c.generation = h
    <2>1. PICK c \in ifd.commits : c.generation = h
      BY <1>1 DEF FilesInv, PointInv
    <2>2. c.generation <= infos.generation /\ c.generation \in Nat
      BY <1>1 DEF IInv, GenInv
    <2>3. infos.generation \in Int
      BY DEF TypeInv, TypeOK, InfosRecord
    <2> QED
      BY <1>2, <2>1, <2>2, <2>3
  <1>5. Prepared.generation \notin DOMAIN sis
    BY <1>2, <1>4
  <1>6. Segments(Prepared.generation) \notin files
    BY <1>5, SegmentsNames DEF FilesInv, DirectoryInv
  <1> QED
    BY <1>1, <1>2, <1>3, <1>4, <1>6

\* segments_N is written
LEMMA FilesPrepare ==
    ASSUME IInv, TypeInv, FilesInv, PrepareCommit
    PROVE  FilesInv' /\ WriteStep
  <1> DEFINE g == Prepared.generation
  <1>1. /\ pc = "turn" /\ LockFree /\ status = "open" /\ ifd.doomed = {}
        /\ files' = files \cup {Segments(g)}
        /\ stable' = stable \ {Segments(g)}
        /\ DOMAIN sis' = DOMAIN sis \cup {g}
        /\ \A h \in DOMAIN sis : h # g => sis'[h] = sis[h]
        /\ sis'[g].segs = toSync.segs /\ sis'[g].counter = toSync.counter
        /\ sis'[g].valid = FALSE
        /\ toSync' = Prepared /\ infos' = UpdateGeneration(infos, Prepared)
        /\ pending' = TRUE /\ pc' \in {"idle", "fcWrite"}
        /\ UNCHANGED <<ifd, status, rollbackInfos, merge, pooled, ram, docStore,
                       snapshot>>
    BY DEF PrepareCommit, SegmentsFileStarted, LockFree, GoTo, mergeVars,
           docVars, histVars
  <1>2. /\ ~pending /\ g \in Nat
        /\ Prepared.segs = toSync.segs /\ Prepared.counter = toSync.counter
        /\ \A h \in DOMAIN sis :
              h < g /\ \E c \in ifd.commits : c.generation = h
        /\ Segments(g) \notin files
    BY <1>1, PreparedIsFree
  <1>3. infos'.segs = infos.segs /\ infos'.counter = infos.counter
    BY <1>1 DEF UpdateGeneration, TypeInv, TypeOK, InfosRecord
  <1> HIDE DEF g
  <1>4. \A h \in DOMAIN sis : h # g /\ sis'[h] = sis[h]
    BY <1>1, <1>2
  <1>5. toSync'.segs = toSync.segs /\ toSync'.counter = toSync.counter
        /\ toSync'.generation = g
    BY <1>1, <1>2 DEF g
  <1>6. /\ Committing' = Committing /\ HeldFiles' = HeldFiles
    BY <1>1, <1>5 DEF Committing, HeldFiles
  <1>7. Alive /\ (Alive' => Alive)
    BY <1>1 DEF Alive
  <1>8. stable' = stable /\ stable \subseteq files
    BY <1>1, <1>2 DEF FilesInv, DirectoryInv
  <1>9. DirectoryInv'
    BY <1>1, <1>8, SegmentsNames DEF FilesInv, DirectoryInv
  <1>10. TidyInv' /\ SyncedInv'
    BY <1>1, <1>6, <1>8 DEF FilesInv, TidyInv, Tidy, SyncedInv
  <1>11. SegsInv' /\ RamInv' /\ StoreInv' /\ MergeInv'
    <2>1. \A f \in Staying' : IsData(f) => f \in Staying
      BY <1>1, SegmentsNames DEF Staying
    <2>2. Staying \subseteq Staying'
      BY <1>1 DEF Staying
    <2> QED
      BY <1>1, <1>3, <1>6, <1>7, <2>1, <2>2, SegmentsAside DEF FilesInv
  <1>12. \A c \in ifd.commits : IsPoint(c)
    BY <1>1 DEF FilesInv, PointInv
  <1>13. /\ toSync.counter <= infos.counter
         /\ NumbersBelow(Committing, toSync.counter)
         /\ Coherent(toSync.segs)
         /\ \A c \in ifd.commits : /\ sis[c.generation].counter <= toSync.counter
                                   /\ DelsBelow(toSync.segs, c.files)
         /\ Committing \subseteq stable
    BY <1>1 DEF FilesInv, SyncInv
  <1>14. HistoryInv'
    <2>1. ASSUME NEW h \in DOMAIN sis
          PROVE  /\ sis[h].counter <= toSync.counter
                 /\ DelsBelow(toSync.segs, InfosFiles(sis[h].segs))
      <3>1. PICK c \in ifd.commits : c.generation = h
        BY <1>2
      <3>2. InfosFiles(sis[h].segs) \subseteq c.files
        BY <1>12, <3>1 DEF IsPoint
      <3> QED
        BY <1>13, <3>1, <3>2 DEF DelsBelow
    <2>2. \A h \in DOMAIN sis' : h \in DOMAIN sis \/ h = g
      BY <1>1
    <2>3. \A h \in DOMAIN sis : ~(g < h)
      BY <1>2, CounterTypes DEF TypeInv
    <2>4. ~(g < g)
      BY <1>2
    <2>5. /\ \A h \in DOMAIN sis' :
                /\ NumbersBelow(InfosFiles(sis'[h].segs), sis'[h].counter)
                /\ Coherent(sis'[h].segs)
      BY <1>1, <1>4, <1>13, <2>2 DEF FilesInv, HistoryInv, Committing
    <2>6. ASSUME NEW k \in DOMAIN sis', NEW h \in DOMAIN sis', h < k
          PROVE  /\ sis'[h].counter <= sis'[k].counter
                 /\ DelsBelow(sis'[k].segs, InfosFiles(sis'[h].segs))
      <3>1. CASE k \in DOMAIN sis
        <4>1. h \in DOMAIN sis
          BY <2>2, <2>3, <2>6, <3>1
        <4> QED
          BY <1>4, <2>6, <3>1, <4>1 DEF FilesInv, HistoryInv
      <3>2. CASE k = g
        <4>1. h \in DOMAIN sis
          BY <2>2, <2>4, <2>6, <3>2
        <4> QED
          BY <1>1, <1>4, <2>1, <3>2, <4>1
      <3> QED
        BY <2>2, <3>1, <3>2
    <2> QED
      BY <2>5, <2>6 DEF HistoryInv
  <1>15. PointInv'
    <2>1. \A c \in ifd.commits : c.generation \in DOMAIN sis
      BY <1>12 DEF IsPoint
    <2>2. \A c \in ifd.commits : IsPoint(c)'
      BY <1>1, <1>3, <1>4, <1>8, <1>12 DEF IsPoint
    <2>3. \A h \in DOMAIN sis' :
              \/ \E c \in ifd'.commits : c.generation = h
              \/ pending' /\ h = toSync'.generation
      BY <1>1, <1>2, <1>5
    <2> QED
      BY <1>1, <2>2, <2>3 DEF FilesInv, PointInv
  <1>16. SyncInv'
    <2>1. \A c \in ifd.commits : sis'[c.generation] = sis[c.generation]
      BY <1>4, <1>12 DEF IsPoint
    <2> QED
      BY <1>1, <1>3, <1>5, <1>6, <1>8, <1>13, <2>1 DEF SyncInv
  <1>17. PlaceInv' /\ RestInv'
    BY <1>1 DEF PlaceInv, RestInv
  <1>18. WriteStep
    BY <1>4, <1>8 DEF WriteStep
  <1> QED
    BY <1>9, <1>10, <1>11, <1>14, <1>15, <1>16, <1>17, <1>18 DEF FilesInv

\* ... or not
LEMMA FilesPrepareFails ==
    ASSUME Reliable, IInv, TypeInv, FilesInv, PrepareFails
    PROVE  FilesInv' /\ WriteStep
  <1>1. /\ pc = "turn" /\ LockFree /\ status = "open"
        /\ toSync' = Prepared /\ infos' = UpdateGeneration(infos, Prepared)
        /\ pc' = "unwind" /\ op' = op
        /\ UNCHANGED <<files, stable, sis, ifd, status, rollbackInfos, merge,
                       pooled, ram, docStore, pending, snapshot>>
    BY DEF PrepareFails, LockFree, Reliable, mergeVars, docVars, histVars
  <1>2. ~pending /\ Prepared.segs = toSync.segs /\ Prepared.counter = toSync.counter
    BY <1>1, PreparedIsFree
  <1>3. infos'.segs = infos.segs /\ infos'.counter = infos.counter
    BY <1>1 DEF UpdateGeneration, TypeInv, TypeOK, InfosRecord
  <1>4. /\ Committing' = Committing /\ HeldFiles' = HeldFiles
        /\ Staying' = Staying
    BY <1>1, <1>2 DEF Committing, HeldFiles, Staying
  <1>5. Alive' => Alive
    BY <1>1 DEF Alive
  <1>6. SegsInv' /\ RamInv' /\ StoreInv' /\ MergeInv'
    BY <1>1, <1>3, <1>4, <1>5, SegmentsAside DEF FilesInv
  <1>7. DirectoryInv' /\ TidyInv' /\ SyncedInv' /\ HistoryInv'
    BY <1>1, <1>4 DEF FilesInv, DirectoryInv, TidyInv, SyncedInv, HistoryInv
  <1>8. PointInv'
    BY <1>1, <1>2, <1>3 DEF FilesInv, PointInv, IsPoint
  <1>9. SyncInv'
    BY <1>1, <1>2, <1>3, <1>4 DEF FilesInv, SyncInv
  <1>10. PlaceInv' /\ RestInv'
    BY <1>1 DEF PlaceInv, RestInv
  <1>11. WriteStep
    BY <1>1 DEF WriteStep
  <1> QED
    BY <1>6, <1>7, <1>8, <1>9, <1>10, <1>11 DEF FilesInv

\* The commit under way is given up, and with it its segments_N (the files
\* G): decRef of what it held
Lets(G) ==
    /\ ifd' = DecRef(ifd, InfosFiles(toSync.segs)) /\ toSync' = NoInfos
    /\ pc' = "idle" /\ pending' = FALSE
    /\ files' = files \ G /\ stable' = stable \ G
    /\ DOMAIN sis' = {h \in DOMAIN sis : Segments(h) \notin G}
    /\ \A h \in DOMAIN sis' : sis'[h] = sis[h]
    /\ UNCHANGED <<status, infos, rollbackInfos, merge, ram, docStore, snapshot>>

\* Giving up the commit under way (its segments_N with it, if there is one)
\* keeps the invariant.
LEMMA FilesRelease ==
    ASSUME IInv, FilesInv, status = "open", Alive, NEW G, Lets(G),
           G = IF pending THEN {Segments(toSync.generation)} ELSE {}
    PROVE  FilesInv' /\ WriteStep
  <1> DEFINE T == Committing
  <1>1. Exact(ifd, T) /\ Tidy(ifd, T, files) /\ Settled(ifd)
    BY DEF IInv, CountsInv, FilesInv, TidyInv, Tidy, Settled
  <1>2. ifd' = DecRef(ifd, T)
    BY DEF Lets, Committing
  <1>3. /\ Releases(ifd, T, ifd', {})
        /\ ifd'.lastFiles = ifd.lastFiles /\ ifd'.commits = ifd.commits
    BY <1>1, <1>2, ReleasesDecRef
  <1>4. Committing' = {}
    BY DEF Lets, Committing, NoInfos, InfosFiles
  <1>5. /\ HeldFiles = Held(ifd, T) /\ HeldFiles' = Held(ifd', {})
    BY <1>4 DEF HeldFiles
  <1>6. /\ HeldFiles' \subseteq HeldFiles
        /\ HeldFiles \ HeldFiles' \subseteq T
    BY <1>3, <1>5 DEF Held
  <1>7. /\ ifd'.doomed = ifd.doomed \cup (HeldFiles \ HeldFiles')
        /\ ifd'.synced \subseteq ifd.synced
    BY <1>3, <1>5 DEF Releases
  <1>8. AllData(T)
    BY SegmentsData DEF Committing
  <1>9. \A c \in ifd.commits : IsPoint(c)
    BY DEF FilesInv, PointInv
  <1>10. G \cap HeldFiles' = {}
    <2> SUFFICES ASSUME pending, Segments(toSync.generation) \in HeldFiles'
                 PROVE  FALSE
      OBVIOUS
    <2> DEFINE f == Segments(toSync.generation)
    <2>1. ~IsData(f)
      BY SegmentsNames
    <2>2. AllData(InfosFiles(infos.segs))
      BY SegmentsData
    <2>3. f \notin ifd.lastFiles[1] /\ f \notin ifd.lastFiles[2]
      BY <2>1, <2>2 DEF FilesInv, SegsInv, AllData
    <2>4. PICK c \in ifd.commits : f \in c.files
      BY <1>3, <1>5, <2>3 DEF Held
    <2>5. AllData(InfosFiles(sis[c.generation].segs))
      BY SegmentsData
    <2>6. f = Segments(c.generation)
      BY <1>9, <2>1, <2>4, <2>5 DEF IsPoint, AllData
    <2>7. c.generation = toSync.generation
      BY <2>6, SegmentsNames
    <2> QED
      BY <2>7 DEF IInv, GenInv
  <1>11. \A f \in G : ~IsData(f)
    BY SegmentsNames
  <1> HIDE DEF T
  <1>12. HeldFiles' \subseteq files'
    BY <1>1, <1>5, <1>6, <1>10 DEF Tidy, Lets
  <1>13. TidyInv'
    <2>1. ifd.doomed \cap Held(ifd', {}) = {}
      BY <1>1, <1>5, <1>6 DEF Tidy
    <2>2. Held(ifd', {}) \subseteq files'
      BY <1>5, <1>12
    <2>3. Tidy(ifd', {}, files')
      BY <1>1, <1>3, <2>1, <2>2, TidyReleases
    <2> QED
      BY <1>4, <2>3 DEF TidyInv
  <1>14. DirectoryInv'
    <2>1. stable' \subseteq files'
      BY DEF FilesInv, DirectoryInv, Lets
    <2>2. \A g \in DOMAIN sis' : Segments(g) \in files'
      BY DEF FilesInv, DirectoryInv, Lets
    <2>3. \A f \in files' : ~IsData(f) => f[2] \in DOMAIN sis' /\ f = Segments(f[2])
      BY DEF FilesInv, DirectoryInv, Lets
    <2> QED
      BY <2>1, <2>2, <2>3 DEF DirectoryInv
  <1>15. SyncedInv'
    <2>1. ifd'.synced \subseteq HeldFiles'
      BY <1>4, <1>13 DEF TidyInv, Tidy, HeldFiles, Lets
    <2> QED
      BY <1>7, <1>10, <2>1 DEF FilesInv, SyncedInv, Lets
  <1>16. SegsInv' /\ RamInv' /\ StoreInv' /\ MergeInv'
    <2>1. \A f \in Staying' : f \in Staying
      BY <1>7 DEF Staying, Lets
    <2>2. \A f \in Staying : IsData(f) =>
              f \in Staying' \/ (f \in HeldFiles /\ f \notin HeldFiles')
      BY <1>7, <1>11 DEF Staying, Lets
    <2> QED
      BY <1>3, <1>6, <2>1, <2>2, SegmentsAside DEF FilesInv, Lets
  <1>17. PointInv'
    <2>1. ASSUME NEW c \in ifd.commits
          PROVE  IsPoint(c)'
      <3>1. c.files \subseteq HeldFiles'
        BY <1>3, <1>5 DEF Held
      <3>2. /\ c.generation \in DOMAIN sis /\ Segments(c.generation) \in c.files
            /\ c.files \subseteq stable
        BY <1>9 DEF IsPoint
      <3>3. c.files \subseteq stable' /\ Segments(c.generation) \notin G
        BY <1>10, <3>1, <3>2 DEF Lets
      <3> QED
        BY <1>9, <3>2, <3>3 DEF IsPoint, Lets
    <2>2. ASSUME NEW h \in DOMAIN sis'
          PROVE  \/ \E c \in ifd'.commits : c.generation = h
                 \/ /\ Segments(h) \in ifd'.doomed
                    /\ sis'[h].valid => \E c \in ifd'.commits : c.generation > h
      <3>1. h \in DOMAIN sis /\ Segments(h) \notin G /\ sis'[h] = sis[h]
        BY <2>2 DEF Lets
      <3>2. ~(pending /\ h = toSync.generation)
        BY <3>1
      <3> QED
        BY <1>3, <1>7, <3>1, <3>2 DEF FilesInv, PointInv
    <2> QED
      BY <1>3, <2>1, <2>2 DEF FilesInv, PointInv, Lets
  <1>18. HistoryInv'
    BY DEF FilesInv, HistoryInv, Lets
  <1>19. SyncInv'
    BY DEF SyncInv, Lets
  <1>20. PlaceInv' /\ RestInv'
    BY DEF PlaceInv, RestInv, Lets
  <1>21. WriteStep
    BY DEF WriteStep, Lets
  <1> QED
    BY <1>13, <1>14, <1>15, <1>16, <1>17, <1>18, <1>19, <1>20, <1>21 DEF FilesInv

\* startCommit's last section, after an exception
LEMMA FilesUnwind ==
    ASSUME IInv, FilesInv, Unwind
    PROVE  FilesInv' /\ WriteStep
  <1>1. status = "open" /\ pc = "unwind" /\ ~pending /\ Alive
    BY DEF Unwind, LockFree, IInv, CallInv, Alive
  <1>2. Lets({})
    BY <1>1 DEF Unwind, Lets, GoTo, dirVars, mergeVars, docVars, histVars, IInv,
                CallInv
  <1> QED
    BY <1>1, <1>2, FilesRelease

\* finishCommit completes segments_N or, when it throws, removes it.
LEMMA FilesFinishWrite ==
    ASSUME Reliable, IInv, TypeInv, FilesInv, FinishCommitWrite
    PROVE  FilesInv' /\ WriteStep
  <1> DEFINE g == toSync.generation
  <1>1. /\ status = "open" /\ pc = "fcWrite" /\ pending /\ Alive
        /\ UNCHANGED <<status, infos, rollbackInfos, merge, pooled, ram,
                       docStore, snapshot>>
    BY DEF FinishCommitWrite, LockFree, IInv, CallInv, Alive, mergeVars,
           docVars, histVars
  <1>2. CASE /\ sis' = [sis EXCEPT ![toSync.generation].valid = TRUE]
             /\ pc' = "fcSync"
             /\ UNCHANGED <<files, stable, ifd, toSync, pending, op>>
    <2>1. /\ g \in DOMAIN sis /\ sis[g].segs = toSync.segs
          /\ sis[g].counter = toSync.counter
      BY <1>1 DEF FilesInv, SyncInv
    <2>2. sis[g] \in [segs: Seq(SegmentInfo), counter: Nat, valid: BOOLEAN]
      BY <2>1 DEF TypeInv, TypeOK
    <2>3. /\ DOMAIN sis' = DOMAIN sis /\ \A h \in DOMAIN sis : h # g => sis'[h] = sis[h]
          /\ sis'[g].segs = sis[g].segs /\ sis'[g].counter = sis[g].counter
          /\ sis'[g].valid = TRUE
          /\ sis[g].valid = TRUE => sis'[g] = sis[g]
      BY <1>2, <2>1, <2>2
    <2> HIDE DEF g
    <2>4. \A h \in DOMAIN sis : /\ sis'[h].segs = sis[h].segs
                                /\ sis'[h].counter = sis[h].counter
      BY <2>3
    <2>5. /\ Committing' = Committing /\ HeldFiles' = HeldFiles
          /\ Staying' = Staying
      BY <1>2 DEF Committing, HeldFiles, Staying
    <2>6. SegsInv' /\ RamInv' /\ StoreInv' /\ MergeInv'
      BY <1>1, <1>2, <2>5, SegmentsAside DEF FilesInv
    <2>7. DirectoryInv' /\ TidyInv' /\ SyncedInv'
      BY <1>1, <1>2, <2>3, <2>5 DEF FilesInv, DirectoryInv, TidyInv, SyncedInv
    <2>8. HistoryInv'
      BY <2>3, <2>4 DEF FilesInv, HistoryInv
    <2>9. \A c \in ifd.commits : /\ c.generation # g /\ c.generation \in DOMAIN sis
                                 /\ IsPoint(c)
      BY <1>1 DEF IInv, GenInv, g, FilesInv, PointInv, IsPoint
    <2>10. PointInv'
      <3>1. \A c \in ifd.commits : IsPoint(c)'
        BY <1>1, <1>2, <2>3, <2>9 DEF IsPoint
      <3>2. \A h \in DOMAIN sis' :
              \/ \E c \in ifd'.commits : c.generation = h
              \/ pending' /\ h = toSync'.generation
              \/ /\ Segments(h) \in ifd'.doomed
                 /\ sis'[h].valid => \E c \in ifd'.commits : c.generation > h
        BY <1>1, <1>2, <2>3 DEF g, FilesInv, PointInv
      <3> QED
        BY <1>1, <1>2, <3>1, <3>2 DEF FilesInv, PointInv
    <2>11. SyncInv'
      BY <1>1, <1>2, <2>1, <2>3, <2>5, <2>9 DEF FilesInv, SyncInv, g
    <2>12. PlaceInv' /\ RestInv'
      BY <1>1, <1>2 DEF PlaceInv, RestInv
    <2>13. WriteStep
      <3>1. \A h \in DOMAIN sis : sis[h].valid => sis'[h] = sis[h]
        <4>1. sis[g].valid \in BOOLEAN
          BY <2>2
        <4> QED
          BY <2>3, <4>1
      <3> QED
        BY <1>2, <3>1 DEF WriteStep
    <2> QED
      BY <2>6, <2>7, <2>8, <2>10, <2>11, <2>12, <2>13 DEF FilesInv
  <1>3. CASE /\ \E gone \in Removals(Segments(toSync.generation)) : Removed(gone)
             /\ ReleasePending(ifd)
             /\ GoTo("idle", "none")
    <2> DEFINE G == {Segments(toSync.generation)}
    <2>1. Removals(Segments(toSync.generation)) = {G}
      BY DEF Removals, Reliable
    <2>2. Removed(G)
      BY <1>3, <2>1
    <2>3. Lets(G)
      BY <1>1, <1>3, <2>2 DEF Lets, Removed, Without, ReleasePending, GoTo
    <2> QED
      BY <1>1, <2>3, FilesRelease
  <1> QED
    BY <1>2, <1>3 DEF FinishCommitWrite

\* segments_N is synced.
LEMMA FilesFinishSync ==
    ASSUME Reliable, IInv, TypeInv, FilesInv, FinishCommitSync
    PROVE  FilesInv' /\ WriteStep
  <1> DEFINE f == Segments(toSync.generation)
  <1>1. /\ status = "open" /\ pc = "fcSync" /\ pending
        /\ stable' = stable \cup {f}
        /\ toSync' = [toSync EXCEPT !.lastGeneration = toSync.generation]
        /\ pc' = "fcGen"
        /\ UNCHANGED <<files, sis, ifd, op, pending, status, infos,
                       rollbackInfos, merge, pooled, ram, docStore, snapshot>>
    <2>1. pc = "fcSync" /\ pending
      BY DEF FinishCommitSync, IInv, CallInv
    <2>2. f \in files
      BY <2>1 DEF FilesInv, SyncInv, DirectoryInv
    <2> HIDE DEF f
    <2> QED
      BY <2>1, <2>2 DEF FinishCommitSync, IInv, CallInv, Reliable, f,
         SegmentsFileDone, mergeVars, docVars, histVars
  <1>2. /\ toSync'.segs = toSync.segs /\ toSync'.counter = toSync.counter
        /\ toSync'.generation = toSync.generation
        /\ toSync'.lastGeneration = toSync.generation
    BY <1>1 DEF TypeInv, TypeOK, InfosRecord
  <1>3. /\ Committing' = Committing /\ HeldFiles' = HeldFiles
        /\ Staying' = Staying
    BY <1>1, <1>2 DEF Committing, HeldFiles, Staying
  <1>4. Alive' => Alive
    BY <1>1 DEF Alive
  <1>5. SegsInv' /\ RamInv' /\ StoreInv' /\ MergeInv'
    BY <1>1, <1>3, <1>4, SegmentsAside DEF FilesInv
  <1>6. f \in files
    BY <1>1 DEF FilesInv, SyncInv, DirectoryInv
  <1>7. DirectoryInv' /\ TidyInv' /\ SyncedInv' /\ HistoryInv'
    BY <1>1, <1>3, <1>6 DEF FilesInv, DirectoryInv, TidyInv, SyncedInv, HistoryInv
  <1>8. PointInv'
    BY <1>1, <1>2 DEF FilesInv, PointInv, IsPoint
  <1>9. SyncInv'
    BY <1>1, <1>2, <1>3 DEF FilesInv, SyncInv
  <1>10. PlaceInv' /\ RestInv'
    BY <1>1 DEF PlaceInv, RestInv
  <1>11. WriteStep
    BY <1>1 DEF WriteStep
  <1> QED
    BY <1>5, <1>7, <1>8, <1>9, <1>10, <1>11 DEF FilesInv

\* What was to go goes.
LEMMA FilesUnlink ==
    ASSUME Reliable, IInv, TypeInv, FilesInv, Unlink
    PROVE  FilesInv' /\ WriteStep
  <1>1. PICK failed \in SUBSET (ifd.doomed \cap files) :
          /\ failed # {} => DeleteMayFail
          /\ Removed(ifd.doomed \ failed)
          /\ ifd' = [ifd EXCEPT !.doomed = {},
                                !.deletable = @ \cup failed]
    BY DEF Unlink
  <1>2. failed = {}
    BY <1>1 DEF Reliable
  <1> DEFINE G == ifd.doomed
  <1>3. /\ files' = files \ G /\ stable' = stable \ G
        /\ DOMAIN sis' = {h \in DOMAIN sis : Segments(h) \notin G}
        /\ \A h \in DOMAIN sis' : sis'[h] = sis[h]
        /\ UNCHANGED <<status, infos, rollbackInfos, merge, pooled, ram,
                       docStore, toSync, pending, pc, op, snapshot>>
    BY <1>1, <1>2 DEF Unlink, Removed, Without, mergeVars, docVars, userVars,
                      histVars
  <1>4. status = "open"
    BY DEF Unlink, FilesInv, PlaceInv, NoDeleter
  <1>5. IsRecord(ifd)
    BY <1>4 DEF IInv, CountsInv, Exact
  <1>6. /\ ifd'.doomed = {} /\ ifd'.deletable = ifd.deletable
        /\ ifd'.lastFiles = ifd.lastFiles /\ ifd'.commits = ifd.commits
        /\ ifd'.synced = ifd.synced
    BY <1>1, <1>2, <1>5 DEF IsRecord
  <1>7. /\ Committing' = Committing /\ HeldFiles' = HeldFiles
        /\ Staying' = Staying
    BY <1>3, <1>6 DEF Committing, HeldFiles, Held, Staying
  <1>8. Alive' => Alive
    BY <1>3 DEF Alive
  <1>9. SegsInv' /\ RamInv' /\ StoreInv' /\ MergeInv'
    BY <1>3, <1>6, <1>7, <1>8, SegmentsAside DEF FilesInv
  <1>10. /\ ifd.deletable = {} /\ HeldFiles \subseteq files
         /\ G \cap HeldFiles = {} /\ ifd.synced \subseteq HeldFiles
    BY <1>4 DEF FilesInv, TidyInv, Tidy, HeldFiles
  <1>11. TidyInv'
    BY <1>3, <1>6, <1>7, <1>10 DEF TidyInv, Tidy, HeldFiles
  <1>12. SyncedInv'
    BY <1>3, <1>6, <1>10 DEF FilesInv, SyncedInv
  <1>13. DirectoryInv'
    <2>1. stable' \subseteq files'
      BY <1>3 DEF FilesInv, DirectoryInv
    <2>2. \A g \in DOMAIN sis' : Segments(g) \in files'
      BY <1>3 DEF FilesInv, DirectoryInv
    <2>3. \A f \in files' : ~IsData(f) => f[2] \in DOMAIN sis' /\ f = Segments(f[2])
      BY <1>3 DEF FilesInv, DirectoryInv
    <2> QED
      BY <2>1, <2>2, <2>3 DEF DirectoryInv
  <1>14. HistoryInv'
    BY <1>3 DEF FilesInv, HistoryInv
  <1>15. PointInv'
    <2>1. ASSUME NEW c \in ifd.commits
          PROVE  IsPoint(c)'
      <3>1. IsPoint(c)
        BY <1>4 DEF FilesInv, PointInv
      <3>2. c.files \subseteq HeldFiles
        BY DEF HeldFiles, Held
      <3>3. c.files \subseteq stable' /\ Segments(c.generation) \notin G
        BY <1>3, <1>10, <3>1, <3>2 DEF IsPoint
      <3> QED
        BY <1>3, <3>1, <3>3 DEF IsPoint
    <2>2. \A h \in DOMAIN sis' :
              \/ \E c \in ifd'.commits : c.generation = h
              \/ pending' /\ h = toSync'.generation
      BY <1>3, <1>4, <1>6 DEF FilesInv, PointInv
    <2> QED
      BY <1>3, <1>6, <2>1, <2>2 DEF FilesInv, PointInv
  <1>16. SyncInv'
    <2>1. /\ Committing \subseteq HeldFiles
          /\ \A c \in ifd.commits : c.files \subseteq HeldFiles
      BY DEF HeldFiles, Held
    <2>2. pending => Segments(toSync.generation) \notin G
      BY DEF FilesInv, SyncInv
    <2>3. pending => toSync.generation \in DOMAIN sis'
      BY <1>3, <2>2 DEF FilesInv, SyncInv
    <2>4. pc \in {"fcSync", "fcGen", "fcCheckpoint"} => pending
      BY DEF IInv, CallInv
    <2>5. \A c \in ifd.commits : c.generation \in DOMAIN sis'
      BY <1>15, <1>3, <1>4, <1>6 DEF PointInv, IsPoint
    <2>6. pc = "turn" \/ pending => Committing \subseteq stable'
      BY <1>3, <1>10, <2>1 DEF FilesInv, SyncInv
    <2>7. pc \in {"fcGen", "fcCheckpoint"} =>
              Segments(toSync.generation) \in stable'
      BY <1>3, <2>2, <2>4 DEF FilesInv, SyncInv
    <2>8. pc \in {"sync", "turn", "unwind"} \/ pending =>
              \A c \in ifd.commits : /\ sis'[c.generation].counter <= toSync.counter
                                     /\ DelsBelow(toSync.segs, c.files)
      BY <1>3, <2>5 DEF FilesInv, SyncInv
    <2>9. pending => sis'[toSync.generation] = sis[toSync.generation]
      BY <1>3, <2>3
    <2> QED
      BY <1>3, <1>6, <1>7, <2>3, <2>4, <2>6, <2>7, <2>8, <2>9 DEF FilesInv, SyncInv
  <1>17. PlaceInv' /\ RestInv'
    BY <1>3, <1>4 DEF FilesInv, PlaceInv, RestInv
  <1>18. WriteStep
    BY <1>3 DEF WriteStep
  <1> QED
    BY <1>9, <1>11, <1>12, <1>13, <1>14, <1>15, <1>16, <1>17, <1>18 DEF FilesInv

\* Before the tail there are segments of the list, and none twice.
LEMMA BeforeTailFiles ==
    ASSUME NEW S \in Seq(SegmentInfo), NEW store, HeadFound(S, store)
    PROVE  /\ InfosFiles(BeforeTail(S, store)) \subseteq InfosFiles(S)
           /\ Coherent(S) => Coherent(BeforeTail(S, store))
           /\ \A F : DelsBelow(S, F) => DelsBelow(BeforeTail(S, store), F)
  <1> DEFINE K == {k \in DOMAIN S : S[k].ds # store}
             last == CHOOSE k \in K : \A l \in K : l <= k
             T == BeforeTail(S, store)
  <1>1. \A k \in DOMAIN T : k \in DOMAIN S /\ T[k] = S[k]
    <2>1. CASE store = None
      BY <2>1 DEF BeforeTail
    <2>2. CASE store # None
      <3>1. K # {} /\ K \subseteq Nat /\ Len(S) \in Nat
            /\ \A k \in K : k \in 1..Len(S)
        BY <2>2 DEF HeadFound
      <3>2. \A k \in K : k <= Len(S)
        BY <3>1
      <3>3. \E k \in K : \A l \in K : l <= k
        BY <3>1, <3>2, GreatestNat
      <3>4. last \in K
        BY <3>3
      <3>5. last \in 1..Len(S)
        BY <3>1, <3>4
      <3>6. T = SubSeq(S, 1, last)
        BY <2>2 DEF BeforeTail
      <3> HIDE DEF last, K, T
      <3> QED
        BY <3>5, <3>6
    <2> QED
      BY <2>1, <2>2
  <1> HIDE DEF T
  <1>2. InfosFiles(T) \subseteq InfosFiles(S)
    BY <1>1 DEF InfosFiles
  <1>3. ASSUME Coherent(S) PROVE Coherent(T)
    <2> SUFFICES ASSUME NEW j \in DOMAIN T, NEW k \in DOMAIN T,
                        T[j].name = T[k].name
                 PROVE  T[j].delGen = T[k].delGen
      BY DEF Coherent
    <2> QED
      BY <1>1, <1>3 DEF Coherent
  <1>4. ASSUME NEW F, DelsBelow(S, F) PROVE DelsBelow(T, F)
    BY <1>1, <1>4 DEF DelsBelow
  <1> QED
    BY <1>2, <1>3, <1>4 DEF T

\* startCommit: the files of the commit are held, and no other file changes.
LEMMA FilesStartCommit ==
    ASSUME IInv, TypeInv, FilesInv, StartCommit
    PROVE  FilesInv' /\ WriteStep
  <1> DEFINE N == infos.counter
             w == WriteDeletes(W, pooled, OpenFiles(docStore))
             S == BeforeTail(w.segs, docStore)
             T == InfosFiles(S)
  <1>1. /\ Quiet /\ Alive /\ pc = "flushed" /\ HeadFound(w.segs, docStore)
        /\ files' = w.files /\ stable' = stable \ w.created
        /\ ifd' = IncRef(w.ifd, T)
        /\ infos' = [infos EXCEPT !.segs = w.segs]
        /\ toSync' = [infos EXCEPT !.segs = S]
        /\ pc' = "sync"
        /\ UNCHANGED <<sis, status, rollbackInfos, merge, ram, docStore, op,
                       pending, snapshot>>
    BY DEF StartCommit, LockFree, Quiet, Alive, docVars, histVars
  <1>2. /\ Sound(W, MergeNames, N) /\ Buffers(MergeNames, N)
        /\ DocOpen(W) /\ RamFree(W)
    BY <1>1, SoundW
  <1>3. /\ TypeOK /\ N \in Nat /\ N <= N /\ infos.segs \in Seq(SegmentInfo)
        /\ DOMAIN infos = {"segs", "generation", "lastGeneration", "counter"}
    BY CounterTypes, SMTT(30) DEF TypeInv, TypeOK, InfosRecord
  <1>4. ~pending /\ toSync = NoInfos /\ Committing = {}
    BY <1>1 DEF IInv, CallInv, Committing, NoInfos, InfosFiles
  <1>5. Sound(w, MergeNames, N) /\ DocOpen(w) /\ RamFree(w)
    <2>1. w = WriteDeletes(W, pooled, OpenAfter(FALSE))
      BY DEF OpenAfter
    <2> HIDE DEF w
    <2> QED
      BY <1>2, <2>1, DeletesKeepOpen
  <1>6. Made(w, infos.segs)
    <2>1. OpenFiles(docStore) \in SUBSET FileName
      BY <1>3, OpenFilesType
    <2> QED
      BY <1>3, <2>1, MadeW, MadeWriteDeletes
  <1> HIDE DEF w, N
  <1>7. Grows(infos.segs, w.segs) /\ w.segs \in Seq(SegmentInfo)
    BY <1>6 DEF Made
  <1>8. /\ T \subseteq InfosFiles(w.segs) /\ Coherent(S)
        /\ \A F : DelsBelow(w.segs, F) => DelsBelow(S, F)
    <2>1. Coherent(w.segs)
      BY <1>5 DEF Sound
    <2> QED
      BY <1>1, <1>7, <2>1, BeforeTailFiles
  <1> HIDE DEF S
  <1>9. /\ toSync'.segs = S /\ toSync'.counter = N
        /\ infos'.segs = w.segs /\ infos'.counter = N
    BY <1>1, <1>3 DEF N
  <1>10. Committing' = T
    BY <1>9 DEF Committing
  <1> HIDE DEF T
  <1>11. Exact(w.ifd, {}) /\ Settled(w.ifd)
    BY <1>4, <1>5 DEF Sound, Fine, Tidy, Settled
  <1>12. /\ ifd'.lastFiles = w.ifd.lastFiles /\ ifd'.commits = w.ifd.commits
         /\ ifd'.deletable = w.ifd.deletable /\ ifd'.doomed = w.ifd.doomed
         /\ ifd'.synced = w.ifd.synced
    BY <1>1, <1>11, IncRefFields DEF Exact
  <1>13. HeldFiles' = Held(w.ifd, Committing)
    <2>1. HeldFiles' = Held(ifd', T)
      BY <1>10 DEF HeldFiles
    <2>2. Held(ifd', T) = Held(w.ifd, {}) \cup T
      BY <1>1, <1>11, ReleasesIncRef
    <2>3. T \subseteq w.ifd.lastFiles[1]
      BY <1>5, <1>8 DEF Sound
    <2> QED
      BY <1>4, <2>1, <2>2, <2>3 DEF Held
  <1>14. Leaves(w, N)
    BY <1>1, <1>4, <1>9, <1>12, <1>13 DEF Leaves
  <1>15. Sound(w, {}, N)
    BY <1>3, <1>5, SoundLess
  <1>16. /\ PlaceInv' /\ DirectoryInv' /\ TidyInv' /\ SyncedInv' /\ SegsInv'
         /\ HistoryInv' /\ PointInv' /\ RestInv' /\ WriteStep
         /\ stable' = stable
    BY <1>1, <1>3, <1>14, <1>15, FilesLeaves DEF N
  <1>17. MergeInv' /\ StoreInv' /\ RamInv'
    <2>1. Merging /\ infos.counter <= N
      BY <1>1, <1>3 DEF Merging, N
    <2> QED
      BY <1>1, <1>3, <1>5, <1>7, <1>14, <1>15, <2>1, MergeKept, StoreKept,
         RamKept
  <1>18. SyncInv'
    <2>1. ifd'.commits = ifd.commits
      BY <1>5, <1>12 DEF Sound, Fine
    <2>2. T \subseteq w.files
      BY <1>5, <1>8 DEF Sound, Tidy, Held
    <2>3. NumbersBelow(T, N)
      BY <1>5, <2>2 DEF Sound, NumbersBelow
    <2>4. ASSUME NEW c \in ifd.commits
          PROVE  sis[c.generation].counter <= N /\ DelsBelow(S, c.files)
      <3>1. IsPoint(c)
        BY <1>1 DEF FilesInv, PointInv, Alive
      <3>2. c.files \subseteq w.files
        BY <1>5, <3>1 DEF Sound, IsPoint, FilesInv, DirectoryInv
      <3>3. DelsBelow(w.segs, c.files)
        BY <1>5, <3>2 DEF Sound, DelsBelow
      <3> QED
        BY <1>8, <3>1, <3>3 DEF IsPoint, N
    <2> QED
      BY <1>1, <1>3, <1>4, <1>8, <1>9, <1>10, <2>1, <2>3, <2>4 DEF SyncInv, N
  <1> QED
    BY <1>16, <1>17, <1>18 DEF FilesInv

\* A flush on its own, or the one a commit or a close begins with
LEMMA FilesFlushes ==
    ASSUME IInv, TypeInv, FilesInv,
           Flush \/ \E o \in {"prepare", "commit", "close"} : BeginCommit(o)
    PROVE  FilesInv' /\ WriteStep
  <1>1. CASE Flush
    <2>1. /\ Quiet /\ Alive
          /\ UNCHANGED <<sis, status, rollbackInfos, toSync, pending, snapshot>>
          /\ pc' = pc /\ op' = op
      BY <1>1 DEF Flush, Indexing, LockFree, AbortsMerges, Quiet, Alive,
                  userVars, histVars
    <2>2. PICK c \in BOOLEAN, applies \in BOOLEAN :
              \/ FlushSucceeds(c, applies) \/ FlushThrows(c)
              \/ CompoundThrows(c) \/ StoresThrow
      BY <1>1 DEF Flush
    <2> QED
      BY <2>1, <2>2, FilesFlush
  <1>2. ASSUME NEW o \in {"prepare", "commit", "close"}, BeginCommit(o)
        PROVE  FilesInv' /\ WriteStep
    <2>1. /\ Quiet /\ Alive
          /\ UNCHANGED <<sis, status, rollbackInfos, toSync, pending, snapshot>>
          /\ pc' \in {"idle", "flushed"}
      BY <1>2 DEF BeginCommit, GoTo, LockFree, Quiet, Alive, histVars
    <2>2. \/ FlushSucceeds(TRUE, TRUE) \/ FlushThrows(TRUE)
          \/ CompoundThrows(TRUE) \/ StoresThrow
      BY <1>2 DEF BeginCommit
    <2> QED
      BY <2>1, <2>2, FilesFlush
  <1> QED
    BY <1>1, <1>2

-----------------------------------------------------------------------------
\* The merge takes a number nobody has used, and flushes before it starts.
LEMMA FilesMergeInit ==
    ASSUME IInv, TypeInv, FilesInv, NEW i, NEW j, MergeInit(i, j)
    PROVE  FilesInv' /\ WriteStep
  <1> DEFINE n == infos.counter
             N == n + 1
  <1>1. /\ Quiet /\ Alive /\ merge.stage = "none" /\ i < j
        /\ i \in DOMAIN infos.segs /\ j \in DOMAIN infos.segs
        /\ UNCHANGED <<sis, status, rollbackInfos, userVars, snapshot>>
    BY DEF MergeInit, LockFree, AbortsMerges, Quiet, Alive, histVars
  <1>2. TypeOK /\ n \in Nat /\ N \in Nat /\ n < N /\ n <= N
        /\ infos.segs \in Seq(SegmentInfo)
    BY CounterTypes DEF TypeInv
  <1>3. PICK names :
            LET w1 == WriteDeletes(W, names, OpenFiles(docStore))
                mds == MergeDocStores(w1.segs, i, j)
                flushes == mds /\ SharesOpenStore(w1.segs, i..j)
                w2 == IF flushes THEN FlushedW(w1, TRUE, {}) ELSE w1
                first == w1.segs[i]
            IN  /\ Becomes(w2)
                /\ infos' = [infos EXCEPT !.segs = w2.segs, !.counter = @ + 1]
                /\ StoreClosed(flushes, delTerms \ {"flushed"})
                /\ merge' = [stage |-> "init", name |-> infos.counter,
                             srcs |-> {infos.segs[k].name : k \in i..j},
                             ds |-> IF mds THEN None ELSE first.ds,
                             dsc |-> ~mds /\ first.dsc,
                             mds |-> mds, late |-> FALSE]
    BY DEF MergeInit
  <1> DEFINE w1 == WriteDeletes(W, names, OpenFiles(docStore))
             mds == MergeDocStores(w1.segs, i, j)
             flushes == mds /\ SharesOpenStore(w1.segs, i..j)
             w == IF flushes THEN FlushedW(w1, TRUE, {}) ELSE w1
  <1>4. /\ Becomes(w)
        /\ infos' = [infos EXCEPT !.segs = w.segs, !.counter = @ + 1]
        /\ StoreClosed(flushes, delTerms \ {"flushed"})
        /\ merge'.stage = "init" /\ merge'.name = n /\ merge'.mds = mds
        /\ merge'.ds = (IF mds THEN None ELSE w1.segs[i].ds)
        /\ merge'.dsc = (~mds /\ w1.segs[i].dsc)
    BY <1>3
  <1>5. infos'.segs = w.segs /\ infos'.counter = N
    BY <1>2, <1>4 DEF TypeOK, InfosRecord
  <1>6. MergeNames = {}
    BY <1>1 DEF MergeNames
  <1>7. /\ Sound(W, {}, n) /\ Buffers({}, n) /\ DocOpen(W) /\ RamFree(W)
    BY <1>1, <1>6, SoundW
  <1>8. Sound(w1, {}, n) /\ DocOpen(w1) /\ RamFree(w1)
    <2>1. w1 = WriteDeletes(W, names, OpenAfter(FALSE))
      BY DEF OpenAfter
    <2> HIDE DEF w1
    <2> QED
      BY <1>7, <2>1, DeletesKeepOpen
  <1>9. Made(w1, infos.segs)
    <2>1. OpenFiles(docStore) \in SUBSET FileName
      BY <1>2, OpenFilesType
    <2> QED
      BY <1>2, <2>1, MadeW, MadeWriteDeletes
  <1> HIDE DEF w1
  <1>10. i \in DOMAIN w1.segs
    BY <1>1, <1>9 DEF Made, Grows
  <1>11. ~mds => w = w1
    OBVIOUS
  <1>12. mds <=> (IF mds THEN None ELSE w1.segs[i].ds) = None
    <2>1. i \in Nat /\ j \in Nat
      BY <1>1, <1>2
    <2>2. i \in i..j
      BY <1>1, <2>1
    <2> QED
      BY <2>2 DEF MergeDocStores
  <1> HIDE DEF mds
  <1>13. Sound(w, {}, n) /\ (~flushes => DocOpen(w) /\ RamFree(w))
    <2>1. Sound(FlushedW(w1, TRUE, {}), {}, n)
      BY <1>7, <1>8, SoundFlushed
    <2> QED
      BY <1>8, <2>1
  <1>14. /\ ram' = (IF flushes THEN None ELSE ram)
         /\ docStore' = (IF flushes THEN None ELSE docStore)
    BY <1>4 DEF StoreClosed
  <1> HIDE DEF flushes, w
  <1>15. Sound(w, {}, N)
    BY <1>2, <1>13, SoundLess
  <1>16. Moves(w, N)
    BY <1>1, <1>4, <1>5 DEF Moves, userVars
  <1>17. Leaves(w, N)
    BY <1>16, MovesLeaves
  <1>18. /\ PlaceInv' /\ DirectoryInv' /\ TidyInv' /\ SyncedInv' /\ SegsInv'
         /\ HistoryInv' /\ PointInv' /\ SyncInv' /\ RestInv'
         /\ WriteStep
    BY <1>1, <1>2, <1>15, <1>16, FilesBecomes
  <1>19. StoreInv' /\ RamInv'
    BY <1>1, <1>2, <1>13, <1>14, <1>15, <1>17, StoreKept, RamKept
  <1>20. MergeInv'
    <2>1. n # ram' /\ n # docStore'
      BY <1>2, <1>7, <1>14 DEF Buffers, None
    <2>2. \A f \in w.files : IsData(f) => f[2] < n
      BY <1>13 DEF Sound, NumbersBelow
    <2>3. \A f \in w.files : IsData(f) => f[2] # n
      BY <1>2, <2>2
    <2>4. HeldFiles' \subseteq w.files /\ Staying' \subseteq w.files
      BY <1>13, <1>17 DEF Leaves, Sound, Tidy, Staying
    <2>5. ~mds => /\ w1.segs[i].ds = merge'.ds /\ i \in DOMAIN infos'.segs
                  /\ infos'.segs[i] = w1.segs[i]
      BY <1>4, <1>5, <1>10, <1>11
    <2>6. merge'.ds # None =>
              \E k \in DOMAIN infos'.segs :
                  /\ infos'.segs[k].ds = merge'.ds
                  /\ merge'.dsc => infos'.segs[k].dsc
      BY <1>4, <2>5
    <2>7. merge'.mds <=> merge'.ds = None
      BY <1>4, <1>12
    <2> QED
      BY <1>2, <1>4, <1>5, <2>1, <2>3, <2>4, <2>6, <2>7 DEF MergeInv
  <1> QED
    BY <1>18, <1>19, <1>20 DEF FilesInv

\* The merge opens its readers, and may have to flush before.
LEMMA FilesMergeOpen ==
    ASSUME IInv, TypeInv, FilesInv, MergeOpen
    PROVE  FilesInv' /\ WriteStep
  <1> DEFINE N == infos.counter
             K == {k \in DOMAIN infos.segs : infos.segs[k].name \in merge.srcs}
             mds == merge.mds \/ \E k \in K : infos.segs[k].delGen > 0
             flushes == mds /\ ~merge.mds /\ SharesOpenStore(infos.segs, K)
             w == IF flushes THEN FlushedW(W, TRUE, {}) ELSE W
  <1>1. /\ Quiet /\ Alive /\ merge.stage = "init"
        /\ UNCHANGED <<sis, status, rollbackInfos, userVars, snapshot>>
    BY DEF MergeOpen, LockFree, Quiet, Alive, FilesInv, PlaceInv, histVars
  <1>2. /\ TypeOK /\ N \in Nat /\ N <= N /\ infos.segs \in Seq(SegmentInfo)
    BY CounterTypes DEF TypeInv
  <1>3. /\ Becomes(w)
        /\ infos' = [infos EXCEPT !.segs = w.segs]
        /\ StoreClosed(flushes, delTerms)
        /\ merge' = [merge EXCEPT !.stage = "open", !.mds = mds,
                       !.ds = IF mds THEN None ELSE @,
                       !.dsc = ~mds /\ @]
    BY DEF MergeOpen
  <1> HIDE DEF K
  <1>4. Merging
    <2>1. /\ merge'.stage = "open" /\ merge'.name = merge.name
          /\ merge'.mds = mds
          /\ merge'.ds = (IF mds THEN None ELSE merge.ds)
          /\ merge'.dsc = (~mds /\ merge.dsc)
      BY <1>2, <1>3 DEF TypeOK
    <2>2. merge.mds <=> merge.ds = None
      BY <1>1 DEF FilesInv, MergeInv
    <2>3. merge.mds => mds
      OBVIOUS
    <2> HIDE DEF mds
    <2> QED
      BY <1>1, <2>1, <2>2, <2>3 DEF Merging
  <1> HIDE DEF mds
  <1>5. /\ Sound(W, MergeNames, N) /\ Buffers(MergeNames, N)
        /\ DocOpen(W) /\ RamFree(W)
    BY <1>1, SoundW
  <1>6. Sound(w, MergeNames, N) /\ (~flushes => DocOpen(w) /\ RamFree(w))
    <2>1. Sound(FlushedW(W, TRUE, {}), MergeNames, N)
      BY <1>5, SoundFlushed
    <2> QED
      BY <1>5, <2>1
  <1>7. Made(w, infos.segs)
    <2>1. Made(W, infos.segs)
      BY <1>2, MadeW
    <2>2. Made(FlushedW(W, TRUE, {}), infos.segs)
      BY <1>2, <2>1, MadeFlushed
    <2> QED
      BY <2>1, <2>2
  <1>8. /\ ram' = (IF flushes THEN None ELSE ram)
        /\ docStore' = (IF flushes THEN None ELSE docStore)
    BY <1>3 DEF StoreClosed
  <1> HIDE DEF flushes, w
  <1>9. infos'.segs = w.segs /\ infos'.counter = N
    BY <1>2, <1>3 DEF TypeOK, InfosRecord
  <1>10. Moves(w, N)
    BY <1>1, <1>3, <1>9 DEF Moves, userVars
  <1>11. Grows(infos.segs, w.segs) /\ infos.counter <= N
    BY <1>2, <1>7 DEF Made
  <1> HIDE DEF N
  <1> QED
    BY <1>1, <1>2, <1>4, <1>6, <1>8, <1>10, <1>11, FilesKept

\* mergeMiddle writes files under the merge's own number.
LEMMA FilesMergeWrite ==
    ASSUME IInv, TypeInv, FilesInv, MergeWrite
    PROVE  FilesInv' /\ WriteStep
  <1> DEFINE n == merge.name
             N == infos.counter
             parts == {Core(n)} \cup (IF merge.mds THEN {Store(n)} ELSE {})
             F == IF UseCompoundFile THEN parts \cup {Cfs(n)} ELSE parts
             D == IF UseCompoundFile THEN parts ELSE {}
             x == Create(W, F)
             w == IF UseCompoundFile
                  THEN [x EXCEPT !.ifd = Refresh(x.ifd, parts)] ELSE x
  <1>1. /\ Quiet /\ Alive /\ merge.stage = "open" /\ Becomes(w)
        /\ merge' = [merge EXCEPT !.stage = "written"]
        /\ UNCHANGED <<sis, status, infos, rollbackInfos, ram, docStore,
                       toSync, pending, pc, op, snapshot>>
    BY DEF MergeWrite, LockFree, Quiet, Alive, FilesInv, PlaceInv, docVars,
           userVars, histVars
  <1>2. TypeOK /\ N \in Nat /\ N <= N
    BY CounterTypes DEF TypeInv
  <1>3. /\ n \in Nat /\ n < N /\ n # ram /\ n # docStore
        /\ \A f \in files : IsData(f) => f[2] # n
        /\ \A f \in HeldFiles : IsData(f) => f[2] # n
        /\ merge.mds <=> merge.ds = None
    <2>1. Staying = files
      BY <1>1 DEF Staying, Quiet
    <2> QED
      BY <1>1, <2>1 DEF FilesInv, MergeInv, TypeInv, SourcesInv
  <1>4. /\ Sound(W, {}, N) /\ DocOpen(W) /\ RamFree(W)
        /\ W.files = files /\ W.ifd = ifd /\ W.segs = infos.segs
    <2>1. Sound(W, MergeNames, N) /\ DocOpen(W) /\ RamFree(W)
      BY <1>1, SoundW
    <2> QED
      BY <1>2, <2>1, SoundLess DEF W
  <1>5. /\ F \subseteq {Core(n), Store(n), Cfs(n)}
        /\ parts \subseteq {Core(n), Store(n)} /\ parts \subseteq F
    OBVIOUS
  <1>6. /\ F \subseteq FileName /\ AllData(F) /\ Avoids(F, {})
        /\ NumbersBelow(F, N) /\ \A f \in F : f[1] # "del"
    <2>1. F \subseteq {Core(n), Store(n), Cfs(n), Cfx(n)} /\ n \notin {}
      BY <1>5
    <2> HIDE DEF F
    <2> QED
      BY <1>3, <2>1, DataFiles
  <1>7. \A f \in F : f[2] = n /\ IsData(f) /\ f[1] # "cfx"
    BY <1>5 DEF Core, Store, Cfs, IsData
  <1> HIDE DEF parts
  <1>8. F \cap files = {}
    BY <1>3, <1>7
  <1>9. Fresh(F, W, {}, N)
    BY <1>4, <1>6, <1>8 DEF Fresh
  <1> HIDE DEF F
  <1>10. Sound(x, {}, N) /\ SpareOf(W, x, F, {})
    BY <1>4, <1>6, <1>9, SoundCreate
  <1>11. /\ x.files = files \cup F /\ x.segs = infos.segs
         /\ x.ifd.lastFiles = ifd.lastFiles /\ x.ifd.commits = ifd.commits
         /\ x.ifd.doomed = {}
    BY <1>1, <1>4, <1>10 DEF SpareOf, Quiet
  <1>12. Cfx(docStore) \notin F /\ Store(docStore) \notin F
    BY <1>3, <1>7 DEF Cfx, Store
  <1>13. DocOpen(x)
    BY <1>4, <1>10, <1>12, SpareKeepsOpen
  <1> HIDE DEF x
  <1>14. /\ Sound(w, {}, N) /\ DocOpen(w) /\ w.segs = x.segs
         /\ w.files = x.files /\ w.ifd.lastFiles = x.ifd.lastFiles
         /\ w.ifd.commits = x.ifd.commits /\ w.ifd.doomed \subseteq D
    <2>1. CASE ~UseCompoundFile
      BY <1>10, <1>11, <1>13, <2>1
    <2>2. CASE UseCompoundFile
      <3> DEFINE v == [x EXCEPT !.ifd = Refresh(x.ifd, parts)]
                 E == parts \ Held(x.ifd, Committing)
      <3>1. parts \subseteq x.files /\ AllData(E) /\ Avoids(E, {})
        BY <1>5, <1>6, <1>11 DEF AllData, Avoids
      <3>2. E = parts \ Held(x.ifd, Committing)
        OBVIOUS
      <3>3. E \subseteq parts
        OBVIOUS
      <3> HIDE DEF E
      <3>4. Sound(v, {}, N) /\ SpareOf(x, v, {}, E)
        BY <1>10, <3>1, <3>2, SoundRefresh
      <3> HIDE DEF v
      <3>5. Cfx(docStore) \notin {} /\ Store(docStore) \notin E
        BY <1>5, <1>12, <3>3
      <3>6. DocOpen(v)
        BY <1>13, <3>4, <3>5, SpareKeepsOpen
      <3>7. w = v /\ D = parts
        BY <2>2 DEF v
      <3> HIDE DEF w, D
      <3> QED
        BY <1>11, <3>3, <3>4, <3>6, <3>7 DEF SpareOf
    <2> QED
      BY <2>1, <2>2
  <1> HIDE DEF w
  <1>15. w.files = files \cup F
    BY <1>11, <1>14
  <1>16. RamFree(w)
    BY <1>3, <1>4, <1>7, <1>15 DEF RamFree
  <1>17. Moves(w, N) /\ Leaves(w, N)
    <2>1. Moves(w, N)
      BY <1>1, <1>11, <1>14 DEF Moves
    <2> QED
      BY <2>1, MovesLeaves
  <1>18. /\ PlaceInv' /\ DirectoryInv' /\ TidyInv' /\ SyncedInv' /\ SegsInv'
         /\ HistoryInv' /\ PointInv' /\ SyncInv' /\ RestInv'
         /\ WriteStep
    BY <1>1, <1>2, <1>14, <1>17, FilesBecomes
  <1>19. StoreInv' /\ RamInv'
    BY <1>1, <1>2, <1>14, <1>16, <1>17, StoreKept, RamKept
  <1>20. MergeInv'
    <2>1. /\ merge'.stage = "written" /\ merge'.name = n
          /\ merge'.mds = merge.mds /\ merge'.ds = merge.ds
          /\ merge'.dsc = merge.dsc
      BY <1>1, <1>2 DEF TypeOK
    <2>2. HeldFiles' = HeldFiles
      BY <1>11, <1>14, <1>17 DEF Leaves, HeldFiles, Held
    <2>3. /\ Staying' \subseteq files \cup F
          /\ \A f \in F : f \notin D => f \in Staying'
      BY <1>14, <1>15, <1>17 DEF Leaves, Staying
    <2>4. \A f \in Staying' : IsData(f) /\ f[2] = n => f \in F
      BY <1>3, <2>3
    <2>5. \A f \in Staying' : IsData(f) /\ f[2] = n =>
              f \in {Core(n), Store(n), Cfs(n)}
      BY <1>5, <2>4 DEF F
    <2>6. IF UseCompoundFile THEN Cfs(n) \in Staying'
          ELSE Core(n) \in Staying' /\ (merge.ds = None => Store(n) \in Staying')
      <3>1. CASE UseCompoundFile
        <4>1. Cfs(n) \in F /\ Cfs(n) \notin D
          BY <3>1 DEF F, parts, Core, Store, Cfs
        <4> QED
          BY <2>3, <3>1, <4>1
      <3>2. CASE ~UseCompoundFile
        <4>1. /\ D = {} /\ Core(n) \in F
              /\ merge.ds = None => Store(n) \in F
          BY <1>3, <3>2 DEF F, parts
        <4> QED
          BY <2>3, <3>2, <4>1
      <3> QED
        BY <3>1, <3>2
    <2>7. merge.ds # None =>
              \E k \in DOMAIN infos.segs :
                  infos.segs[k].ds = merge.ds /\ (merge.dsc => infos.segs[k].dsc)
      BY <1>1 DEF FilesInv, MergeInv
    <2> HIDE DEF n
    <2> QED
      BY <1>1, <1>3, <2>1, <2>2, <2>5, <2>6, <2>7 DEF MergeInv
  <1> QED
    BY <1>18, <1>19, <1>20 DEF FilesInv

\* The list in which one segment takes the place of those of K
Replaced(S, K, t) ==
    LET start == CHOOSE k \in K : \A l \in K : k <= l
    IN  SubSeq(S, 1, start - 1) \o <<t>>
          \o SubSeq(S, start + Cardinality(K), Len(S))

\* The elements of a list in which one segment takes the place of others
LEMMA ReplacedElements ==
    ASSUME NEW S \in Seq(SegmentInfo), NEW K \in SUBSET DOMAIN S, K # {}, NEW t,
           NEW S1, S1 = Replaced(S, K, t)
    PROVE  \A k \in DOMAIN S1 : S1[k] = t \/ \E j \in DOMAIN S : S1[k] = S[j]
  <1> DEFINE X == {t} \cup {S[j] : j \in DOMAIN S}
  <1>1. t \in X /\ S \in Seq(X)
    <2>1. DOMAIN S = 1..Len(S) /\ Len(S) \in Nat
      OBVIOUS
    <2>2. \A i \in 1..Len(S) : S[i] \in X
      BY <2>1
    <2> HIDE DEF X
    <2>3. S \in [1..Len(S) -> X]
      BY <2>1, <2>2
    <2>4. S \in UNION {[1..n -> X] : n \in Nat}
      BY <2>1, <2>3
    <2>5. S \in Seq(X)
      BY <2>4, SeqDef, Zenon
    <2> QED
      BY <2>5 DEF X
  <1> HIDE DEF X
  <1>2. S1 \in Seq(X)
    BY <1>1, ReplacedSegs DEF Replaced
  <1>3. \A k \in DOMAIN S1 : S1[k] \in X
    <2>1. DOMAIN S1 = 1..Len(S1)
      BY <1>2, LenProperties
    <2> QED
      BY <1>2, <2>1, ElementOfSeq
  <1> QED
    BY <1>3 DEF X

\* The merged segment finds its files, and those of the doc store it shares.
LEMMA MergedFiles ==
    ASSUME TypeInv, FilesInv, Quiet, Alive, merge.stage = "written",
           NEW new, NEW dsc,
           dsc = (merge.ds # None
                    /\ (merge.dsc \/ \E k \in DOMAIN infos.segs :
                             infos.segs[k].ds = merge.ds /\ infos.segs[k].dsc)),
           new = [name |-> merge.name, ds |-> merge.ds, dsc |-> dsc,
                  cfs |-> UseCompoundFile, delGen |-> 0]
    PROVE  \A f \in SegmentFiles(new) :
               \/ f \in InfosFiles(infos.segs)
               \/ f \in files /\ IsData(f)
  <1> DEFINE n == merge.name
             segs == infos.segs
  <1>1. /\ IF UseCompoundFile THEN Cfs(n) \in files
           ELSE /\ Core(n) \in files
                /\ merge.ds = None => Store(n) \in files
        /\ merge.ds # None =>
              \E k \in DOMAIN segs :
                  segs[k].ds = merge.ds /\ (merge.dsc => segs[k].dsc)
    BY DEF FilesInv, MergeInv, Staying, Quiet
  <1>2. /\ new.name = n /\ new.ds = merge.ds /\ new.dsc = dsc
        /\ new.cfs = UseCompoundFile /\ new.delGen = 0
    OBVIOUS
  <1>3. /\ IsData(Cfs(n)) /\ IsData(Core(n)) /\ IsData(Store(n))
    BY DEF IsData, Cfs, Core, Store
  <1>4. ASSUME merge.ds # None
        PROVE  (IF dsc THEN Cfx(merge.ds) ELSE Store(merge.ds))
                   \in InfosFiles(segs)
    <2>1. PICK k \in DOMAIN segs :
              segs[k].ds = merge.ds /\ (segs[k].dsc <=> dsc)
      BY <1>1, <1>4
    <2>2. (IF dsc THEN Cfx(merge.ds) ELSE Store(merge.ds))
              \in SegmentFiles(segs[k])
      BY <1>4, <2>1 DEF SegmentFiles
    <2> QED
      BY <2>2 DEF InfosFiles
  <1>5. SegmentFiles(new) =
            {IF UseCompoundFile THEN Cfs(n) ELSE Core(n)}
            \cup (IF merge.ds # None
                  THEN {IF dsc THEN Cfx(merge.ds) ELSE Store(merge.ds)}
                  ELSE IF UseCompoundFile THEN {} ELSE {Store(n)})
    <2> HIDE DEF n
    <2>1. ~(new.delGen > 0)
      BY <1>2
    <2> QED
      BY <1>2, <2>1 DEF SegmentFiles
  <1> HIDE DEF n, segs
  <1>6. CASE merge.ds # None
    BY <1>1, <1>3, <1>4, <1>5, <1>6 DEF segs
  <1>7. CASE merge.ds = None
    BY <1>1, <1>3, <1>5, <1>7
  <1> QED
    BY <1>6, <1>7

\* commitMerge: the merged segment takes the place of its sources.
LEMMA FilesCommitMerge ==
    ASSUME IInv, TypeInv, FilesInv, CommitMerge
    PROVE  FilesInv' /\ WriteStep
  <1> DEFINE n == merge.name
             N == infos.counter
             segs == infos.segs
             K == {k \in DOMAIN segs : segs[k].name \in merge.srcs}
             start == CHOOSE k \in K : \A l \in K : k <= l
             dsc == merge.ds # None
                    /\ (merge.dsc \/ \E k \in DOMAIN segs :
                                        segs[k].ds = merge.ds /\ segs[k].dsc)
             new == [name |-> merge.name, ds |-> merge.ds, dsc |-> dsc,
                     cfs |-> UseCompoundFile, delGen |-> 0]
             S1 == SubSeq(segs, 1, start - 1) \o <<new>>
                     \o SubSeq(segs, start + Cardinality(K), Len(segs))
             x == CheckpointW([W EXCEPT !.segs = S1], OpenFiles(docStore))
  <1>1. Becomes(x) /\ infos' = [infos EXCEPT !.segs = S1]
    BY Zenon DEF CommitMerge
  <1>2. /\ Quiet /\ Alive /\ merge.stage = "written" /\ MergeCommitted
        /\ UNCHANGED <<sis, status, rollbackInfos, ram, docStore,
                       toSync, pending, pc, op, snapshot>>
    BY DEF CommitMerge, LockFree, Quiet, Alive, FilesInv, PlaceInv, docVars,
           userVars, histVars
  <1>3. /\ TypeOK /\ N \in Nat /\ N <= N /\ segs \in Seq(SegmentInfo)
    BY CounterTypes DEF TypeInv
  <1>4. K # {} /\ K \in SUBSET DOMAIN segs
    BY <1>2 DEF TypeInv, SourcesInv
  <1>5. \A f \in SegmentFiles(new) :
            f \in InfosFiles(segs) \/ (f \in files /\ IsData(f))
    <2> HIDE DEF dsc
    <2>1. dsc = (merge.ds # None
                    /\ (merge.dsc \/ \E k \in DOMAIN segs :
                             segs[k].ds = merge.ds /\ segs[k].dsc))
      BY DEF dsc
    <2> QED
      BY <1>2, <2>1, MergedFiles
  <1>6. /\ new \in SegmentInfo /\ new.name = n /\ new.delGen = 0
    <2>1. merge.name \in Nat /\ merge.ds \in Nat \cup {None} /\ dsc \in BOOLEAN
      BY <1>2, <1>3 DEF TypeInv, SourcesInv, TypeOK
    <2> HIDE DEF dsc
    <2> QED
      BY <2>1, SwitchesAssumption DEF SegmentInfo
  <1> HIDE DEF new
  <1>7. \A k \in DOMAIN S1 : S1[k] = new \/ \E j \in DOMAIN segs : S1[k] = segs[j]
    <2>1. S1 = Replaced(segs, K, new)
      BY DEF Replaced
    <2> HIDE DEF S1, K, start
    <2> QED
      BY <1>3, <1>4, <1>6, <2>1, ReplacedElements
  <1>8. S1 \in Seq(SegmentInfo)
    BY <1>3, <1>4, <1>6, ReplacedSegs
  <1> HIDE DEF S1, K, start
  <1>9. /\ Sound(W, {}, N) /\ Buffers({}, N) /\ DocOpen(W) /\ RamFree(W)
        /\ W.files = files /\ W.created = {} /\ W.ifd = ifd /\ W.segs = segs
        /\ DOMAIN W = {"files", "created", "segs", "ifd"}
    <2>1. /\ Sound(W, MergeNames, N) /\ Buffers(MergeNames, N)
          /\ DocOpen(W) /\ RamFree(W)
      BY <1>2, SoundW
    <2>2. Sound(W, {}, N)
      BY <1>3, <2>1, SoundLess
    <2>3. Buffers({}, N)
      BY <2>1 DEF Buffers
    <2> QED
      BY <2>1, <2>2, <2>3 DEF W
  <1>10. /\ \A f \in files : f[2] = n => f[1] # "del"
         /\ \A k \in DOMAIN segs : segs[k].name # n
    <2>1. \A f \in files : IsData(f) /\ f[2] = n =>
              f \in {Core(n), Store(n), Cfs(n)}
      BY <1>2 DEF FilesInv, MergeInv, Staying, Quiet
    <2>2. \A f \in files : f[2] = n => f[1] # "del"
      BY <2>1 DEF IsData, Core, Store, Cfs
    <2>3. InfosFiles(segs) \subseteq HeldFiles
      BY <1>2 DEF FilesInv, SegsInv, HeldFiles, Held
    <2>4. ASSUME NEW k \in DOMAIN segs PROVE segs[k].name # n
      <3>1. PICK f \in InfosFiles(segs) :
                f[1] \in {"core", "cfs"} /\ f[2] = segs[k].name
        BY HeadFile
      <3>2. f[2] # n
        BY <1>2, <2>3, <3>1 DEF FilesInv, MergeInv, IsData
      <3> QED
        BY <3>1, <3>2
    <2> QED
      BY <2>2, <2>4
  <1>11. CheckpointOf(W, x, {}, S1, OpenFiles(docStore))
    BY <1>9 DEF CheckpointOf, CheckpointW
  <1>12. Sound(x, {}, N) /\ StepOf(W, x, {}, OpenFiles(docStore))
    <2>1. Fresh({}, W, {}, N)
      BY DEF Fresh, AllData, Avoids, NumbersBelow
    <2>2. StaysIn(OpenFiles(docStore), W, {})
      <3>1. StaysIn(OpenAfter(FALSE), W, {})
        BY <1>9, OpenStays
      <3> QED
        BY <3>1 DEF OpenAfter
    <2>3. \A f \in InfosFiles(S1) : f \in {} \/ StaysIn({f}, W, {})
      <3> SUFFICES ASSUME NEW k \in DOMAIN S1, NEW f \in SegmentFiles(S1[k])
                   PROVE  StaysIn({f}, W, {})
        BY DEF InfosFiles
      <3>1. f \in InfosFiles(segs) \/ (f \in files /\ IsData(f))
        BY <1>5, <1>7 DEF InfosFiles
      <3>2. ASSUME f \in InfosFiles(segs) PROVE StaysIn({f}, W, {})
        BY <1>9, <3>2, SoundSegments
      <3>3. ASSUME f \in files, IsData(f) PROVE StaysIn({f}, W, {})
        BY <1>2, <1>9, <3>3 DEF StaysIn, AllData, Avoids, Quiet
      <3> QED
        BY <3>1, <3>2, <3>3
    <2>4. DelsBelow(S1, W.files \cup {})
      <3> SUFFICES ASSUME NEW k \in DOMAIN S1, NEW f \in files,
                          f[1] = "del", f[2] = S1[k].name
                   PROVE  f[3] <= S1[k].delGen
        BY <1>9 DEF DelsBelow
      <3>1. S1[k] # new
        BY <1>6, <1>10
      <3>2. PICK j \in DOMAIN segs : S1[k] = segs[j]
        BY <1>7, <3>1
      <3> QED
        BY <1>9, <3>2 DEF Sound, DelsBelow
    <2>5. Coherent(S1)
      <3> SUFFICES ASSUME NEW j \in DOMAIN S1, NEW k \in DOMAIN S1,
                          S1[j].name = S1[k].name
                   PROVE  S1[j].delGen = S1[k].delGen
        BY DEF Coherent
      <3>1. S1[j] = new <=> S1[k] = new
        BY <1>6, <1>7, <1>10
      <3>2. CASE S1[j] = new
        BY <3>1, <3>2
      <3>3. CASE S1[j] # new
        <4>1. PICK a \in DOMAIN segs : S1[j] = segs[a]
          BY <1>7, <3>3
        <4>2. PICK b \in DOMAIN segs : S1[k] = segs[b]
          BY <1>7, <3>1, <3>3
        <4> QED
          BY <1>9, <4>1, <4>2 DEF Sound, Coherent
      <3> QED
        BY <3>2, <3>3
    <2> DEFINE O == OpenFiles(docStore)
    <2>6. \A E : E = {} => /\ CheckpointOf(W, x, E, S1, O)
                           /\ Sound(W, E, N) /\ Fresh(E, W, E, N)
                           /\ StaysIn(O, W, E)
                           /\ \A f \in InfosFiles(S1) : f \in E \/ StaysIn({f}, W, E)
                           /\ DelsBelow(S1, W.files \cup E) /\ Coherent(S1)
      BY <1>9, <1>11, <2>1, <2>2, <2>3, <2>4, <2>5
    <2> HIDE DEF O, x, N
    <2>7. ASSUME NEW E, E = {}
          PROVE  Sound(x, E, N) /\ StepOf(W, x, E, O)
      <3>1. /\ CheckpointOf(W, x, E, S1, O)
            /\ Sound(W, E, N) /\ Fresh(E, W, E, N) /\ StaysIn(O, W, E)
            /\ \A f \in InfosFiles(S1) : f \in E \/ StaysIn({f}, W, E)
            /\ DelsBelow(S1, W.files \cup E) /\ Coherent(S1)
        BY <2>6, <2>7
      <3> QED
        BY <1>8, <3>1, SoundCheckpointed
    <2>8. Sound(x, {}, N) /\ StepOf(W, x, {}, O)
      BY <2>7
    <2> QED
      BY <2>8 DEF O
  <1> HIDE DEF x
  <1>13. DocOpen(x) /\ RamFree(x)
    <2>1. StepOf(W, x, {}, OpenAfter(FALSE))
      BY <1>12 DEF OpenAfter
    <2>2. DocOpen(x)
      BY <1>9, <2>1, StepKeepsOpen
    <2>3. x.files = W.files
      BY <1>12 DEF StepOf
    <2> QED
      BY <1>9, <2>2, <2>3 DEF RamFree
  <1>14. Moves(x, N) /\ Leaves(x, N)
    <2>1. x.segs = S1
      BY <1>11 DEF CheckpointOf
    <2>2. infos'.segs = x.segs /\ infos'.counter = N
      BY <1>1, <1>3, <2>1 DEF TypeOK, InfosRecord
    <2>3. Moves(x, N)
      BY <1>1, <1>2, <2>2 DEF Moves
    <2> QED
      BY <2>3, MovesLeaves
  <1>15. /\ PlaceInv' /\ DirectoryInv' /\ TidyInv' /\ SyncedInv' /\ SegsInv'
         /\ HistoryInv' /\ PointInv' /\ SyncInv' /\ RestInv'
         /\ WriteStep
    BY <1>2, <1>3, <1>12, <1>14, FilesBecomes
  <1>16. StoreInv' /\ RamInv'
    BY <1>2, <1>3, <1>12, <1>13, <1>14, StoreKept, RamKept
  <1>17. MergeInv'
    BY <1>2 DEF MergeInv, MergeCommitted, NoMerge
  <1> QED
    BY <1>15, <1>16, <1>17 DEF FilesInv

\* The release of the merged segment's reader writes deletes, as a flush may.
LEMMA FilesReleaseMerged ==
    ASSUME IInv, TypeInv, FilesInv, ReleaseMerged
    PROVE  FilesInv' /\ WriteStep
  <1> DEFINE N == infos.counter
             w == WriteDeletes(W, pooled \cap merge.srcs, OpenFiles(docStore))
  <1>1. Becomes(w) /\ infos' = [infos EXCEPT !.segs = w.segs]
    BY DEF ReleaseMerged
  <1>2. /\ Quiet /\ Alive /\ merge.stage = "merged" /\ merge' = NoMerge
        /\ UNCHANGED <<sis, status, rollbackInfos, ram, docStore,
                       toSync, pending, pc, op, snapshot>>
    BY DEF ReleaseMerged, LockFree, Quiet, Alive, FilesInv, PlaceInv, docVars,
           userVars, histVars
  <1>3. TypeOK /\ N \in Nat /\ N <= N
    BY CounterTypes DEF TypeInv
  <1>4. MergeNames = {}
    BY <1>2 DEF MergeNames
  <1>5. /\ Sound(W, {}, N) /\ Buffers({}, N) /\ DocOpen(W) /\ RamFree(W)
    BY <1>2, <1>4, SoundW
  <1>6. Sound(w, {}, N) /\ DocOpen(w) /\ RamFree(w)
    <2>1. w = WriteDeletes(W, pooled \cap merge.srcs, OpenAfter(FALSE))
      BY DEF OpenAfter
    <2> HIDE DEF w
    <2> QED
      BY <1>5, <2>1, DeletesKeepOpen
  <1> HIDE DEF w
  <1>7. Moves(w, N) /\ Leaves(w, N)
    <2>1. infos'.segs = w.segs /\ infos'.counter = N
      BY <1>1, <1>3 DEF TypeOK, InfosRecord
    <2>2. Moves(w, N)
      BY <1>1, <1>2, <2>1 DEF Moves
    <2> QED
      BY <2>2, MovesLeaves
  <1>8. /\ PlaceInv' /\ DirectoryInv' /\ TidyInv' /\ SyncedInv' /\ SegsInv'
        /\ HistoryInv' /\ PointInv' /\ SyncInv' /\ RestInv'
        /\ WriteStep
    BY <1>2, <1>3, <1>6, <1>7, FilesBecomes
  <1>9. StoreInv' /\ RamInv'
    BY <1>2, <1>3, <1>6, <1>7, StoreKept, RamKept
  <1>10. MergeInv'
    BY <1>2 DEF MergeInv, NoMerge
  <1> QED
    BY <1>8, <1>9, <1>10 DEF FilesInv

\* A merge that is given up: its files go.
LEMMA FilesAbortMerge ==
    ASSUME IInv, TypeInv, FilesInv, AbortMerge
    PROVE  FilesInv' /\ WriteStep
  <1> DEFINE n == merge.name
             N == infos.counter
             x == WriteDeletes(W, pooled \cap merge.srcs, OpenFiles(docStore))
             S == Prefixed(x.files, n)
             D == S \ Held(x.ifd, Committing)
             y == [x EXCEPT !.ifd = Refresh(x.ifd, S)]
             w == IF AbortsMerges /\ merge.stage = "written" THEN x ELSE y
  <1>1. Becomes(w) /\ infos' = [infos EXCEPT !.segs = w.segs]
    BY Zenon DEF AbortMerge
  <1>2. /\ Quiet /\ Alive /\ merge.stage \notin {"none", "merged"}
        /\ merge' = NoMerge
        /\ UNCHANGED <<sis, status, rollbackInfos, ram, docStore,
                       toSync, pending, pc, op, snapshot>>
    BY DEF AbortMerge, LockFree, Quiet, Alive, FilesInv, PlaceInv, docVars,
           userVars, histVars
  <1>3. TypeOK /\ N \in Nat /\ N <= N
    BY CounterTypes DEF TypeInv
  <1>4. n # ram /\ n # docStore
    BY <1>2 DEF FilesInv, MergeInv
  <1>5. /\ Sound(W, {}, N) /\ Buffers({}, N) /\ DocOpen(W) /\ RamFree(W)
    <2>1. /\ Sound(W, MergeNames, N) /\ Buffers(MergeNames, N)
          /\ DocOpen(W) /\ RamFree(W)
      BY <1>2, SoundW
    <2>2. Sound(W, {}, N)
      BY <1>3, <2>1, SoundLess
    <2>3. Buffers({}, N)
      BY <2>1 DEF Buffers
    <2> QED
      BY <2>1, <2>2, <2>3
  <1>6. Sound(x, {}, N) /\ DocOpen(x) /\ RamFree(x)
    <2>1. x = WriteDeletes(W, pooled \cap merge.srcs, OpenAfter(FALSE))
      BY DEF OpenAfter
    <2> HIDE DEF x
    <2> QED
      BY <1>5, <2>1, DeletesKeepOpen
  <1> HIDE DEF x
  <1>7. S \subseteq x.files /\ AllData(D) /\ Avoids(D, {})
    BY DEF Prefixed, AllData, IsData, Avoids
  <1>8. Store(docStore) \notin D
    BY <1>4 DEF Prefixed, Store
  <1> HIDE DEF S
  <1>9. D = S \ Held(x.ifd, Committing)
    OBVIOUS
  <1> HIDE DEF D
  <1>10. Sound(y, {}, N) /\ SpareOf(x, y, {}, D)
    BY <1>6, <1>7, <1>9, SoundRefresh
  <1> HIDE DEF y
  <1>11. DocOpen(y) /\ RamFree(y)
    <2>1. Cfx(docStore) \notin {}
      OBVIOUS
    <2>2. DocOpen(y)
      BY <1>6, <1>8, <1>10, <2>1, SpareKeepsOpen
    <2>3. y.files = x.files
      BY <1>10 DEF SpareOf
    <2> QED
      BY <1>6, <2>2, <2>3 DEF RamFree
  <1>12. Sound(w, {}, N) /\ DocOpen(w) /\ RamFree(w)
    BY <1>6, <1>10, <1>11
  <1> HIDE DEF w
  <1>13. Moves(w, N) /\ Leaves(w, N)
    <2>1. infos'.segs = w.segs /\ infos'.counter = N
      BY <1>1, <1>3 DEF TypeOK, InfosRecord
    <2>2. Moves(w, N)
      BY <1>1, <1>2, <2>1 DEF Moves
    <2> QED
      BY <2>2, MovesLeaves
  <1>14. /\ PlaceInv' /\ DirectoryInv' /\ TidyInv' /\ SyncedInv' /\ SegsInv'
         /\ HistoryInv' /\ PointInv' /\ SyncInv' /\ RestInv'
         /\ WriteStep
    BY <1>2, <1>3, <1>12, <1>13, FilesBecomes
  <1>15. StoreInv' /\ RamInv'
    BY <1>2, <1>3, <1>12, <1>13, StoreKept, RamKept
  <1>16. MergeInv'
    BY <1>2 DEF MergeInv, NoMerge
  <1> QED
    BY <1>14, <1>15, <1>16 DEF FilesInv

-----------------------------------------------------------------------------
\* finishCommit's checkpoint: the prepared commit becomes a point, and the
\* policy's victims give up what they alone held.
LEMMA FilesCheckpoint ==
    ASSUME IInv, TypeInv, FilesInv, FinishCommitCheckpoint
    PROVE  FilesInv' /\ WriteStep
  <1> DEFINE g == toSync.generation
             T == Committing
             F == InfosFiles(toSync.segs)
                    \cup {Segments(toSync.lastGeneration)}
             p == [generation |-> g, files |-> F]
             d == CommitCheckpoint(ifd, g, F, snapshot)
             H == HeldFiles
  <1>1. /\ pc = "fcCheckpoint" /\ ifd' = DecRef(d, InfosFiles(toSync.segs))
        /\ infos' = UpdateGeneration(infos, toSync)
        /\ rollbackInfos' = toSync.segs /\ toSync' = NoInfos
        /\ pending' = FALSE
        /\ (pc' = "closing" /\ op' = "close") \/ pc' = "idle"
        /\ UNCHANGED <<files, stable, sis, status, merge, ram, docStore, snapshot>>
    BY DEF FinishCommitCheckpoint, ReleasePending, GoTo, dirVars, mergeVars,
           docVars
  <1>2. status = "open" /\ pending /\ Alive
    BY <1>1 DEF IInv, CallInv, Alive
  <1>3. /\ Exact(ifd, T) /\ Settled(ifd) /\ Tidy(ifd, T, files)
        /\ g \in Nat
        /\ \A c \in ifd.commits : /\ c.generation \in Nat
                                  /\ c.generation < g
    BY <1>2 DEF IInv, CountsInv, GenInv, FilesInv, TidyInv, Tidy, Settled
  <1>4. /\ F = T \cup {Segments(g)} /\ T \subseteq stable
        /\ Segments(g) \in stable /\ stable \subseteq files
        /\ g \in DOMAIN sis /\ sis[g].valid /\ sis[g].segs = toSync.segs
        /\ sis[g].counter = toSync.counter
        /\ Segments(g) \notin ifd.doomed
        /\ toSync.counter <= infos.counter
    BY <1>1, <1>2 DEF FilesInv, SyncInv, DirectoryInv, Committing
  <1> HIDE DEF F
  <1>5. p \notin ifd.commits /\ p.generation = g /\ p.files = F
    BY <1>3
  <1>6. /\ Exact(d, T) /\ d.commits = Onwards(ifd.commits, p, snapshot)
        /\ MakesPoint(ifd, T, F, d)
    <2>1. [generation |-> g, files |-> F] \notin ifd.commits
      BY <1>5
    <2> HIDE DEF T, g
    <2> QED
      BY <1>3, <2>1, ExactCommitCheckpoint, ReleasesCommitCheckpoint
  <1> HIDE DEF d, p
  <1>7. /\ d.deletable = {} /\ d.lastFiles = ifd.lastFiles
        /\ d.doomed = ifd.doomed \cup ((H \cup F) \ Held(d, T))
        /\ d.synced = ifd.synced \ ((H \cup F) \ Held(d, T))
        /\ Held(d, T) \subseteq H \cup F
    BY <1>6 DEF MakesPoint, HeldFiles
  <1>8. /\ Releases(d, T, ifd', {})
        /\ ifd'.lastFiles = d.lastFiles /\ ifd'.commits = d.commits
    <2>1. Settled(d)
      BY <1>7 DEF Settled
    <2>2. ifd' = DecRef(d, T)
      BY <1>1 DEF Committing
    <2> QED
      BY <1>6, <2>1, <2>2, ReleasesDecRef
  <1>9. Committing' = {} /\ HeldFiles' = Held(ifd', {})
    <2>1. Committing' = {}
      BY <1>1 DEF Committing, NoInfos, InfosFiles
    <2> QED
      BY <2>1 DEF HeldFiles
  <1>10. /\ \A c \in ifd'.commits : c = p \/ c \in ifd.commits
         /\ p \in ifd'.commits
         /\ \A c \in ifd.commits : \/ c \in ifd'.commits
                                   \/ c.generation # snapshot
         /\ \A c \in ifd'.commits : c = p \/ c.generation = snapshot
    <2>1. \A c \in ifd.commits \cup {p} : c.generation <= p.generation
      BY <1>3, <1>5
    <2>2. p \notin PolicyVictims(ifd.commits \cup {p}, snapshot)
      BY <1>3, <1>5, <2>1 DEF PolicyVictims
    <2>3. \A c \in ifd.commits : c \in PolicyVictims(ifd.commits \cup {p}, snapshot)
                                   <=> c.generation # snapshot
      BY <1>3, <1>5 DEF PolicyVictims
    <2> QED
      BY <1>6, <1>8, <2>2, <2>3 DEF Onwards
  <1>11. HeldFiles' \subseteq Held(d, T) /\ F \subseteq HeldFiles'
    BY <1>5, <1>8, <1>9, <1>10 DEF Held
  <1>12. /\ ifd'.deletable = {} /\ ifd'.lastFiles = ifd.lastFiles
         /\ ifd'.doomed = ifd.doomed \cup (H \ HeldFiles')
         /\ ifd'.synced = ifd.synced \ (H \ HeldFiles')
         /\ HeldFiles' \subseteq H \cup F
    BY <1>7, <1>8, <1>9, <1>11 DEF Releases
  <1>13. /\ H \subseteq files /\ ifd.doomed \cap H = {} /\ ifd.synced \subseteq H
         /\ T \subseteq H /\ AllData(T)
    BY <1>3, SegmentsData DEF Tidy, HeldFiles, Held, Committing
  <1>14. TidyInv'
    <2>1. HeldFiles' \subseteq files
      BY <1>4, <1>12, <1>13
    <2>2. ifd'.doomed \cap HeldFiles' = {}
      BY <1>4, <1>12, <1>13
    <2>3. ifd'.synced \subseteq HeldFiles'
      BY <1>12, <1>13
    <2> QED
      BY <1>1, <1>9, <1>12, <2>1, <2>2, <2>3 DEF TidyInv, Tidy
  <1>15. DirectoryInv' /\ HistoryInv'
    BY <1>1 DEF FilesInv, DirectoryInv, HistoryInv
  <1>16. SyncedInv'
    BY <1>1, <1>2, <1>12 DEF FilesInv, SyncedInv
  <1>17. infos'.segs = infos.segs /\ infos'.counter = infos.counter
    BY <1>1 DEF UpdateGeneration, IInv, GenInv, IsInfos
  <1>18. SegsInv' /\ RamInv' /\ StoreInv' /\ MergeInv'
    <2>1. ~IsData(Segments(g))
      BY SegmentsNames
    <2>2. \A f \in Staying' : f \in Staying
      BY <1>1, <1>12 DEF Staying
    <2>3. \A f \in HeldFiles' : IsData(f) => f \in HeldFiles
      BY <1>4, <1>12, <1>13, <2>1
    <2>4. \A f \in Staying :
              f \in Staying' \/ (f \in HeldFiles /\ f \notin HeldFiles')
      BY <1>1, <1>12 DEF Staying
    <2> QED
      BY <1>1, <1>2, <1>12, <1>17, <2>2, <2>3, <2>4, SegmentsAside DEF FilesInv
  <1>19. \A c \in ifd'.commits : IsPoint(c)'
    <2>1. ASSUME NEW c \in ifd.commits PROVE IsPoint(c)'
      BY <1>1, <1>2, <1>17 DEF FilesInv, PointInv, IsPoint
    <2>2. ASSUME NEW c, c = p PROVE IsPoint(c)'
      <3>1. c.generation = g /\ c.files = F
        BY <1>5, <2>2
      <3>2. /\ g \in DOMAIN sis /\ sis[g].valid
            /\ F = InfosFiles(sis[g].segs) \cup {Segments(g)}
            /\ F \subseteq stable /\ sis[g].counter <= infos.counter
        BY <1>4 DEF Committing
      <3> HIDE DEF g
      <3> QED
        BY <1>1, <1>17, <3>1, <3>2 DEF IsPoint
    <2> SUFFICES ASSUME NEW c \in ifd'.commits PROVE IsPoint(c)'
      OBVIOUS
    <2>3. c = p \/ c \in ifd.commits
      BY <1>10
    <2> QED
      BY <2>1, <2>2, <2>3
  <1>20. ASSUME NEW h \in DOMAIN sis'
         PROVE  \/ \E c \in ifd'.commits : c.generation = h
                \/ /\ Segments(h) \in ifd'.doomed
                   /\ sis'[h].valid => \E c \in ifd'.commits : c.generation > h
    <2>1. h \in DOMAIN sis /\ h \in Nat
      BY <1>1, CounterTypes DEF TypeInv
    <2>2. CASE \E c \in ifd.commits : c.generation = h
      <3>1. PICK c \in ifd.commits : c.generation = h
        BY <2>2
      <3>2. CASE c \in ifd'.commits
        BY <3>1, <3>2
      <3>3. CASE c \notin ifd'.commits
        <4>1. h # snapshot /\ h < g
          BY <1>3, <1>10, <3>1, <3>3
        <4>2. Segments(h) \in H
          BY <1>2, <3>1 DEF FilesInv, PointInv, IsPoint, HeldFiles, Held
        <4>3. Segments(h) \notin HeldFiles'
          <5> SUFFICES ASSUME Segments(h) \in HeldFiles' PROVE FALSE
            OBVIOUS
          <5>1. ~IsData(Segments(h))
            BY SegmentsNames
          <5>2. AllData(InfosFiles(infos.segs))
            BY SegmentsData
          <5>3. Segments(h) \notin ifd.lastFiles[1] \cup ifd.lastFiles[2]
            BY <1>2, <5>1, <5>2 DEF FilesInv, SegsInv, AllData
          <5>4. PICK b \in ifd'.commits : Segments(h) \in b.files
            BY <1>9, <1>12, <5>3 DEF Held
          <5>5. IsPoint(b)'
            BY <1>19
          <5>6. AllData(InfosFiles(sis[b.generation].segs))
            BY SegmentsData
          <5>7. Segments(h) = Segments(b.generation)
            BY <1>1, <5>1, <5>4, <5>5, <5>6 DEF IsPoint, AllData
          <5>8. h = b.generation
            BY <5>7, SegmentsNames
          <5> QED
            BY <1>5, <1>10, <4>1, <5>8, <1>3
        <4>4. g > h
          BY <1>3, <2>1, <4>1
        <4> QED
          BY <1>5, <1>10, <1>12, <4>2, <4>3, <4>4
      <3> QED
        BY <3>2, <3>3
    <2>3. CASE h = g
      BY <1>5, <1>10, <2>3
    <2>4. CASE /\ Segments(h) \in ifd.doomed
               /\ sis[h].valid => \E c \in ifd.commits : c.generation > h
      <3>1. ASSUME sis[h].valid PROVE p.generation > h
        <4>1. PICK c \in ifd.commits : c.generation > h
          BY <2>4, <3>1
        <4>2. c.generation \in Nat /\ c.generation < g /\ g \in Nat
          BY <1>3
        <4> QED
          BY <1>5, <2>1, <4>1, <4>2
      <3> QED
        BY <1>1, <1>10, <1>12, <2>4, <3>1
    <2> HIDE DEF g
    <2> QED
      BY <1>2, <2>1, <2>2, <2>3, <2>4 DEF FilesInv, PointInv, g
  <1>21. PointInv'
    <2>1. \E c \in ifd'.commits : InfosFiles(rollbackInfos') \subseteq c.files
      BY <1>1, <1>4, <1>5, <1>10 DEF Committing
    <2>2. snapshot # None => \E c \in ifd'.commits : c.generation = snapshot
      BY <1>2, <1>10 DEF FilesInv, PointInv
    <2> QED
      BY <1>1, <1>19, <1>20, <2>1, <2>2 DEF PointInv
  <1>22. SyncInv'
    BY <1>1 DEF SyncInv
  <1>23. PlaceInv'
    BY <1>1, <1>2 DEF PlaceInv
  <1>24. RestInv' /\ WriteStep
    BY <1>1, <1>2 DEF RestInv, WriteStep
  <1> QED
    BY <1>14, <1>15, <1>16, <1>18, <1>21, <1>22, <1>23, <1>24 DEF FilesInv

-----------------------------------------------------------------------------
\* deleteAll drops every segment; what no commit holds goes.
LEMMA FilesDeleteAll ==
    ASSUME IInv, TypeInv, FilesInv, DeleteAll
    PROVE  FilesInv' /\ WriteStep
  <1> DEFINE N == infos.counter
             T == Committing
  <1>1. /\ Quiet /\ Alive /\ status = "open" /\ ifd.doomed = {}
        /\ merge.stage = "none" /\ ~pending
        /\ infos' = [infos EXCEPT !.segs = <<>>]
        /\ ifd' = Refresh(Checkpoint(ifd, {}, {}), files)
        /\ ram' = None /\ docStore' = None /\ pc' = "idle"
        /\ UNCHANGED <<files, stable, sis, status, rollbackInfos, merge,
                       toSync, pending, snapshot>>
    BY DEF DeleteAll, LockFree, Quiet, Alive, AbortDocuments, GoTo, dirVars,
           histVars, FilesInv, PlaceInv
  <1>2. N \in Nat /\ N <= N /\ infos'.segs = <<>> /\ infos'.counter = N
    BY <1>1, CounterTypes DEF TypeInv, TypeOK, InfosRecord
  <1>3. Sound(W, MergeNames, N) /\ MergeNames = {}
    BY <1>1, SoundW DEF MergeNames
  <1>4. ASSUME NEW E, E = {}, NEW S1, S1 = <<>>
        PROVE  /\ Sound(Stepped(W, E, S1, E), E, N)
               /\ Stepped(W, E, S1, E).files = files
               /\ Stepped(W, E, S1, E).created = {}
               /\ Stepped(W, E, S1, E).segs = <<>>
               /\ Stepped(W, E, S1, E).ifd = Checkpoint(ifd, E, E)
    <2>1. Sound(W, E, N)
      BY <1>3, <1>4
    <2>2. Fresh(E, W, E, N) /\ StaysIn(E, W, E)
      BY <1>4 DEF Fresh, StaysIn, AllData, Avoids, NumbersBelow
    <2>3. DOMAIN S1 = {} /\ S1 \in Seq(SegmentInfo)
      BY <1>4
    <2>4. InfosFiles(S1) = E
      BY <1>4, <2>3 DEF InfosFiles
    <2>5. DelsBelow(S1, W.files \cup E) /\ Coherent(S1)
      BY <2>3 DEF DelsBelow, Coherent
    <2>6. \A f \in InfosFiles(S1) : f \in E \/ StaysIn({f}, W, E)
      BY <2>4
    <2>7. Sound(Stepped(W, E, S1, E), E, N)
      BY <2>1, <2>2, <2>3, <2>5, <2>6, SoundStep
    <2>8. /\ DOMAIN W = {"files", "created", "segs", "ifd"}
          /\ W.files = files /\ W.created = {} /\ W.ifd = ifd
      BY DEF W
    <2>9. /\ Stepped(W, E, S1, E).files = W.files \cup E
          /\ Stepped(W, E, S1, E).created = W.created \cup E
          /\ Stepped(W, E, S1, E).segs = S1
          /\ Stepped(W, E, S1, E).ifd = Checkpoint(W.ifd, InfosFiles(S1), E)
      BY <2>8 DEF Stepped, CheckpointW, Create
    <2>10. files \cup E = files /\ {} \cup E = {}
      BY <1>4
    <2> QED
      BY <1>4, <2>4, <2>7, <2>8, <2>9, <2>10
  <1> DEFINE x == Stepped(W, {}, <<>>, {})
  <1>5. /\ Sound(x, {}, N) /\ x.files = files /\ x.created = {}
        /\ x.segs = <<>> /\ x.ifd = Checkpoint(ifd, {}, {})
    BY <1>4
  <1> HIDE DEF x
  <1> DEFINE y == [x EXCEPT !.ifd = Refresh(x.ifd, files)]
             D == files \ Held(x.ifd, Committing)
  <1>6. AllData(D)
    <2> SUFFICES ASSUME NEW f \in files, ~IsData(f)
                 PROVE  f \in Held(x.ifd, Committing)
      BY DEF AllData
    <2>1. f[2] \in DOMAIN sis /\ f = Segments(f[2])
      BY DEF FilesInv, DirectoryInv
    <2>2. PICK c \in ifd.commits : c.generation = f[2]
      BY <1>1, <2>1 DEF FilesInv, PointInv
    <2>3. IsPoint(c)
      BY <1>1 DEF FilesInv, PointInv
    <2>4. f \in c.files
      BY <2>1, <2>2, <2>3 DEF IsPoint
    <2>5. x.ifd.commits = ifd.commits
      BY <1>5 DEF Sound, Fine
    <2> QED
      BY <2>4, <2>5 DEF Held
  <1>7. D = files \ Held(x.ifd, Committing) /\ Avoids(D, {})
    BY DEF Avoids
  <1> HIDE DEF D
  <1>8. Sound(y, {}, N) /\ SpareOf(x, y, {}, D)
    <2>1. files \subseteq x.files
      BY <1>5
    <2> QED
      BY <1>5, <1>6, <1>7, <2>1, SoundRefresh
  <1>9. y.ifd = ifd'
    BY <1>1, <1>5 DEF Sound, Fine
  <1> HIDE DEF y
  <1>10. Moves(y, N) /\ Leaves(y, N)
    <2>1. y.files = files /\ y.created = {} /\ y.segs = <<>>
      BY <1>5, <1>8 DEF SpareOf
    <2>2. Moves(y, N)
      BY <1>1, <1>2, <1>9, <2>1 DEF Moves, Becomes
    <2> QED
      BY <2>2, MovesLeaves
  <1>11. /\ PlaceInv' /\ DirectoryInv' /\ TidyInv' /\ SyncedInv' /\ SegsInv'
         /\ HistoryInv' /\ PointInv' /\ SyncInv' /\ RestInv'
         /\ WriteStep
    BY <1>1, <1>2, <1>8, <1>10, FilesBecomes
  <1>12. StoreInv' /\ RamInv'
    BY <1>1, <1>2, <1>8, <1>10, StoreKept, RamKept
  <1>13. MergeInv'
    BY <1>1 DEF MergeInv
  <1> QED
    BY <1>11, <1>12, <1>13 DEF FilesInv

\* rollback gives up all but what the commits hold, and then only closes.
LEMMA FilesRollback ==
    ASSUME Reliable, IInv, TypeInv, FilesInv, Rollback
    PROVE  FilesInv' /\ WriteStep
  <1> DEFINE T == Committing
             R == InfosFiles(rollbackInfos)
             G == IF pending THEN {Segments(toSync.generation)} ELSE {}
             d1 == DecRef(ifd, T)
             d2 == Checkpoint(d1, R, {})
             H == HeldFiles
  <1>1. /\ Alive /\ status = "open" /\ ifd.doomed = {} /\ merge.stage = "none"
        /\ infos' = [infos EXCEPT !.segs = rollbackInfos]
        /\ toSync' = NoInfos /\ pending' = FALSE /\ pooled' = {}
        /\ pc' = "closing" /\ op' = "rollback"
        /\ UNCHANGED <<status, rollbackInfos, merge, snapshot>>
    BY DEF Rollback, LockFree, Alive, GoTo, histVars
  <1>2. Removed(G) /\ ifd' = Refresh(d2, files \ G)
    <2>1. PICK gone \in (IF pending THEN Removals(Segments(toSync.generation))
                         ELSE {{}}) :
             Removed(gone) /\ ifd' = Refresh(d2, files \ gone)
      BY DEF Rollback, Committing
    <2>2. gone = G
      BY <2>1 DEF Removals, Reliable
    <2> QED
      BY <2>1, <2>2
  <1>3. /\ files' = files \ G /\ stable' = stable \ G
        /\ DOMAIN sis' = {h \in DOMAIN sis : Segments(h) \notin G}
        /\ \A h \in DOMAIN sis' : sis'[h] = sis[h]
    BY <1>2 DEF Removed, Without
  <1>4. Exact(ifd, T) /\ Tidy(ifd, T, files) /\ Settled(ifd)
    BY <1>1 DEF IInv, CountsInv, FilesInv, TidyInv, Tidy, Settled
  <1>5. ASSUME NEW E, E = {}
        PROVE  /\ Releases(ifd, T, d1, E) /\ d1.commits = ifd.commits
               /\ d1.lastFiles = ifd.lastFiles
               /\ Releases(d1, E, Checkpoint(d1, R, E), E)
               /\ Checkpoint(d1, R, E).lastFiles[1] = R
               /\ Checkpoint(d1, R, E).lastFiles[2] = E
               /\ Checkpoint(d1, R, E).commits = d1.commits
               /\ Exact(Checkpoint(d1, R, E), E)
    <2>1. /\ Releases(ifd, T, d1, {}) /\ d1.commits = ifd.commits
          /\ d1.lastFiles = ifd.lastFiles /\ Exact(d1, {})
      BY <1>4, ReleasesDecRef, ExactDecRef
    <2>2. Releases(ifd, T, d1, E) /\ Exact(d1, E) /\ Settled(d1)
      BY <1>5, <2>1 DEF Releases, Settled
    <2> HIDE DEF d1, R
    <2>3. /\ Releases(d1, E, Checkpoint(d1, R, E), E)
          /\ Checkpoint(d1, R, E).lastFiles[1] = R
          /\ Checkpoint(d1, R, E).lastFiles[2] = E
          /\ Checkpoint(d1, R, E).commits = d1.commits
      BY <2>2, ReleasesCheckpoint
    <2>4. Exact(Checkpoint(d1, R, E), E)
      BY <2>2, ExactCheckpoint
    <2> QED
      BY <2>1, <2>2, <2>3, <2>4
  <1> HIDE DEF d1, R
  <1>6. /\ Releases(ifd, T, d1, {}) /\ d1.commits = ifd.commits
        /\ d1.lastFiles = ifd.lastFiles
        /\ Releases(d1, {}, d2, {}) /\ Exact(d2, {})
        /\ d2.lastFiles[1] = R /\ d2.lastFiles[2] = {}
        /\ d2.commits = ifd.commits
    BY <1>5
  <1> HIDE DEF d2
  <1>7. ASSUME NEW E, E = {}
        PROVE  Spares(d2, E, files \ G, Refresh(d2, files \ G))
    <2>1. Exact(d2, E)
      BY <1>6, <1>7
    <2> QED
      BY <2>1, RefreshSpares
  <1>8. Spares(d2, {}, files', ifd')
    BY <1>2, <1>3, <1>7
  <1>9. Committing' = {} /\ HeldFiles' = Held(ifd', {})
    <2>1. Committing' = {}
      BY <1>1 DEF Committing, NoInfos, InfosFiles
    <2> QED
      BY <2>1 DEF HeldFiles
  <1>10. /\ ifd'.commits = ifd.commits /\ ifd'.deletable = {}
         /\ HeldFiles' = Held(d2, {})
         /\ ifd'.synced = d2.synced
         /\ ifd'.doomed \subseteq d2.doomed \cup (files' \ HeldFiles')
    BY <1>6, <1>8, <1>9 DEF Spares, Releases
  <1>11. \A c \in ifd.commits : IsPoint(c)
    BY <1>1 DEF FilesInv, PointInv
  <1>12. \A f \in HeldFiles' : \E c \in ifd.commits : f \in c.files
    <2>1. \E c \in ifd.commits : R \subseteq c.files
      BY <1>1 DEF FilesInv, PointInv, R
    <2> QED
      BY <1>6, <1>10, <2>1 DEF Held
  <1>13. \A c \in ifd.commits : c.files \subseteq HeldFiles'
    BY <1>6, <1>10 DEF Held
  <1>14. HeldFiles' \subseteq H /\ H = Held(ifd, T)
    BY <1>12 DEF HeldFiles, Held
  <1>15. /\ d2.doomed \subseteq H \ HeldFiles'
         /\ d2.synced \subseteq HeldFiles' /\ d2.synced \subseteq ifd.synced
    <2>1. Held(d1, {}) \subseteq H
      BY <1>6, <1>14 DEF Held
    <2>2. HeldFiles' \subseteq Held(d1, {})
      BY <1>6, <1>12 DEF Held
    <2>3. /\ d2.doomed = (ifd.doomed \cup (H \ Held(d1, {})))
                            \cup (Held(d1, {}) \ HeldFiles')
          /\ d2.synced = (ifd.synced \ (H \ Held(d1, {})))
                            \ (Held(d1, {}) \ HeldFiles')
      BY <1>6, <1>10, <1>14 DEF Releases
    <2>4. ifd.synced \subseteq H
      BY <1>4, <1>14 DEF Tidy
    <2> QED
      BY <1>1, <2>1, <2>2, <2>3, <2>4
  <1>16. G \cap HeldFiles' = {}
    <2> SUFFICES ASSUME pending, Segments(toSync.generation) \in HeldFiles'
                 PROVE  FALSE
      OBVIOUS
    <2>1. ~IsData(Segments(toSync.generation))
      BY SegmentsNames
    <2>2. PICK c \in ifd.commits : Segments(toSync.generation) \in c.files
      BY <1>12
    <2>3. AllData(InfosFiles(sis[c.generation].segs))
      BY SegmentsData
    <2>4. Segments(toSync.generation) = Segments(c.generation)
      BY <1>11, <2>1, <2>2, <2>3 DEF IsPoint, AllData
    <2>5. c.generation = toSync.generation
      BY <2>4, SegmentsNames
    <2> QED
      BY <1>1, <2>5 DEF IInv, GenInv
  <1> HIDE DEF G, T
  <1>17. HeldFiles' \subseteq files'
    BY <1>3, <1>4, <1>14, <1>16 DEF Tidy
  <1>18. TidyInv'
    <2>1. Tidy(ifd', {}, files')
      BY <1>9, <1>10, <1>15, <1>17 DEF Tidy
    <2> QED
      BY <1>9, <2>1 DEF TidyInv
  <1>19. SyncedInv'
    BY <1>1, <1>3, <1>10, <1>15, <1>16 DEF FilesInv, SyncedInv
  <1>20. DirectoryInv'
    <2>1. stable' \subseteq files'
      BY <1>3 DEF FilesInv, DirectoryInv
    <2>2. \A g \in DOMAIN sis' : Segments(g) \in files'
      BY <1>3 DEF FilesInv, DirectoryInv
    <2>3. \A f \in files' : ~IsData(f) => f[2] \in DOMAIN sis' /\ f = Segments(f[2])
      BY <1>3 DEF FilesInv, DirectoryInv
    <2> QED
      BY <2>1, <2>2, <2>3 DEF DirectoryInv
  <1>21. SegsInv' /\ RamInv' /\ StoreInv' /\ MergeInv'
    BY <1>1 DEF Alive, SegsInv, RamInv, StoreInv, MergeInv
  <1>22. HistoryInv'
    BY <1>3 DEF FilesInv, HistoryInv
  <1>23. infos'.counter = infos.counter /\ infos'.segs = rollbackInfos
    BY <1>1 DEF TypeInv, TypeOK, InfosRecord
  <1>24. PointInv'
    <2>1. ASSUME NEW c \in ifd.commits
          PROVE  IsPoint(c)'
      <3>1. /\ c.generation \in DOMAIN sis /\ Segments(c.generation) \in c.files
            /\ c.files \subseteq stable
        BY <1>11 DEF IsPoint
      <3>2. c.files \subseteq stable' /\ Segments(c.generation) \notin G
        BY <1>3, <1>13, <1>16, <3>1
      <3> QED
        BY <1>3, <1>11, <1>23, <3>1, <3>2 DEF IsPoint
    <2>2. ASSUME NEW h \in DOMAIN sis'
          PROVE  \E c \in ifd'.commits : c.generation = h
      <3>1. h \in DOMAIN sis /\ Segments(h) \notin G
        BY <1>3
      <3>2. ~(pending /\ h = toSync.generation)
        BY <3>1 DEF G
      <3> QED
        BY <1>1, <1>10, <3>1, <3>2 DEF FilesInv, PointInv
    <2> QED
      BY <1>1, <1>10, <2>1, <2>2 DEF FilesInv, PointInv
  <1>25. PlaceInv'
    BY <1>1, <1>23 DEF PlaceInv
  <1>26. SyncInv' /\ RestInv'
    BY <1>1 DEF SyncInv, RestInv
  <1>27. WriteStep
    BY <1>3 DEF WriteStep
  <1> QED
    BY <1>18, <1>19, <1>20, <1>21, <1>22, <1>24, <1>25, <1>26, <1>27 DEF FilesInv

\* closeInternal saves the deletes of the readers and lets go of the segments.
LEMMA FilesClose ==
    ASSUME IInv, TypeInv, FilesInv, Close
    PROVE  FilesInv' /\ WriteStep
  <1> DEFINE w == WriteDeletes(W, pooled, OpenFiles(docStore))
             N == infos.counter
  <1>1. /\ pc = "closing" /\ Quiet /\ status = "open" /\ ifd.doomed = {}
        /\ files' = w.files /\ stable' = stable \ w.created
        /\ ifd' = CloseDeleter(w.ifd)
        /\ infos' = [infos EXCEPT !.segs = w.segs] /\ pc' = "drain"
        /\ UNCHANGED <<sis, status, rollbackInfos, merge, ram, docStore, op,
                       toSync, pending, snapshot>>
    BY Zenon DEF Close, LockFree, Quiet, docVars, histVars
  <1>2. ~pending /\ op \in {"close", "rollback"} /\ toSync = NoInfos
    BY <1>1 DEF FilesInv, PlaceInv, IInv, CallInv
  <1>3. Committing = {} /\ Committing' = {}
    BY <1>1, <1>2 DEF Committing, NoInfos, InfosFiles
  <1>4. /\ Fine(w, ifd.commits, Committing) /\ Tidy(w.ifd, Committing, w.files)
        /\ w.files = files \cup w.created /\ w.created \cap files = {}
        /\ w.ifd.synced \subseteq ifd.synced /\ AllData(w.created)
    <2>1. CASE op = "rollback"
      <3>1. pooled = {}
        BY <1>1, <2>1 DEF FilesInv, PlaceInv
      <3>2. w = W
        BY <3>1 DEF WriteDeletes
      <3>3. /\ W.files = files /\ W.created = {} /\ W.ifd = ifd
        BY DEF W
      <3>4. Fine(W, ifd.commits, Committing)
        BY <1>1, FineW
      <3>5. Tidy(ifd, Committing, files)
        BY <1>1 DEF FilesInv, TidyInv
      <3> HIDE DEF w
      <3> QED
        BY <3>2, <3>3, <3>4, <3>5 DEF AllData
    <2>2. CASE op = "close"
      <3>1. Alive
        BY <1>1, <2>2 DEF Alive
      <3>2. /\ Sound(W, MergeNames, N) /\ Buffers(MergeNames, N) /\ DocOpen(W)
        BY <1>1, <3>1, SoundW
      <3>3. w = WriteDeletes(W, pooled, OpenAfter(FALSE))
        BY DEF OpenAfter
      <3> HIDE DEF w
      <3>4. Sound(w, MergeNames, N)
        BY <3>2, <3>3, DeletesKeepOpen
      <3> QED
        BY <3>4 DEF Sound
    <2> QED
      BY <1>2, <2>1, <2>2
  <1> HIDE DEF w
  <1>5. /\ Exact(w.ifd, Committing) /\ w.ifd.commits = ifd.commits
        /\ Settled(w.ifd)
    BY <1>4 DEF Fine, Tidy, Settled
  <1>6. /\ Releases(w.ifd, Committing, ifd', Committing)
        /\ ifd'.lastFiles[1] = {} /\ ifd'.lastFiles[2] = {}
        /\ ifd'.commits = ifd.commits
    BY <1>1, <1>5, ReleasesClose
  <1>7. Held(ifd', Committing) \subseteq Held(w.ifd, Committing)
    BY <1>5, <1>6 DEF Held
  <1>8. TidyInv'
    <2>1. /\ Held(ifd', Committing) \subseteq w.files
          /\ w.ifd.doomed \cap Held(ifd', Committing) = {}
      BY <1>4, <1>7 DEF Tidy
    <2>2. Tidy(ifd', Committing, w.files)
      BY <1>4, <1>6, <2>1, TidyReleases
    <2> QED
      BY <1>1, <1>3, <2>2 DEF TidyInv
  <1>9. stable' = stable /\ stable \subseteq files
    BY <1>1, <1>4 DEF FilesInv, DirectoryInv
  <1>10. ifd'.synced \subseteq ifd.synced
    BY <1>4, <1>6 DEF Releases
  <1>11. SyncedInv'
    BY <1>1, <1>9, <1>10 DEF FilesInv, SyncedInv
  <1>12. DirectoryInv'
    <2>1. AllData(files' \ files) /\ files \subseteq files'
      BY <1>1, <1>4 DEF AllData
    <2> QED
      BY <1>1, <1>9, <2>1, DirectoryKept DEF FilesInv
  <1>13. HistoryInv'
    BY <1>1, HistoryKept DEF FilesInv
  <1>14. infos'.counter = infos.counter /\ infos.counter \in Nat
    BY <1>1, CounterTypes DEF TypeInv, TypeOK, InfosRecord
  <1>15. PointInv'
    <2>1. TypeOK /\ PointInv /\ ifd.doomed \subseteq ifd'.doomed
      BY <1>1 DEF TypeInv, FilesInv
    <2> QED
      BY <1>1, <1>6, <1>9, <1>14, <2>1, PointKept
  <1>16. SegsInv' /\ RamInv' /\ StoreInv' /\ MergeInv'
    BY <1>1 DEF Alive, SegsInv, RamInv, StoreInv, MergeInv
  <1>17. PlaceInv' /\ SyncInv' /\ RestInv'
    BY <1>1, <1>2 DEF PlaceInv, SyncInv, RestInv
  <1>18. WriteStep
    BY <1>1, <1>9 DEF WriteStep
  <1> QED
    BY <1>8, <1>11, <1>12, <1>13, <1>15, <1>16, <1>17, <1>18 DEF FilesInv

\* What is left of a writer that is gone
LEMMA FilesForget ==
    ASSUME Forget, status' # "open", DirectoryInv', HistoryInv', RestInv'
    PROVE  FilesInv'
  <1>1. PlaceInv'
    BY DEF PlaceInv, Forget, AbortDocuments, GoTo
  <1>2. TidyInv' /\ SyncedInv' /\ PointInv'
    BY DEF TidyInv, SyncedInv, PointInv
  <1>3. SegsInv' /\ RamInv' /\ StoreInv' /\ MergeInv'
    BY DEF Alive, SegsInv, RamInv, StoreInv, MergeInv
  <1>4. SyncInv'
    BY DEF SyncInv, Forget, GoTo
  <1> QED
    BY <1>1, <1>2, <1>3, <1>4 DEF FilesInv

\* After close every segments_N is a commit point with its files.
LEMMA FilesCloseDone ==
    ASSUME IInv, TypeInv, FilesInv, CloseDone
    PROVE  FilesInv' /\ WriteStep
  <1>1. /\ pc = "drain" /\ ifd.doomed = {} /\ status' = "closed" /\ Forget
        /\ UNCHANGED <<files, stable, sis, snapshot>>
    BY DEF CloseDone, dirVars, histVars
  <1>2. status = "open" /\ ~pending
    BY <1>1 DEF IInv, CallInv, FilesInv, PlaceInv
  <1>3. \A c \in ifd.commits : IsPoint(c)
    BY <1>2 DEF FilesInv, PointInv
  <1>4. RestInv'
    <2>1. ASSUME NEW h \in DOMAIN sis
          PROVE  InfosFiles(sis[h].segs) \cup {Segments(h)} \subseteq stable
      <3>1. PICK c \in ifd.commits : c.generation = h
        BY <1>1, <1>2 DEF FilesInv, PointInv
      <3> QED
        BY <1>3, <3>1 DEF IsPoint
    <2>2. snapshot # None => snapshot \in DOMAIN sis /\ sis[snapshot].valid
      BY <1>2, <1>3 DEF FilesInv, PointInv, IsPoint
    <2> QED
      BY <1>1, <2>1, <2>2 DEF RestInv
  <1>5. DirectoryInv' /\ HistoryInv' /\ WriteStep
    BY <1>1 DEF FilesInv, DirectoryInv, HistoryInv, WriteStep
  <1> QED
    BY <1>1, <1>4, <1>5, FilesForget

\* A crash leaves every commit point whole, and the commit under way if its
\* segments_N is.
LEMMA FilesDie ==
    ASSUME IInv, TypeInv, FilesInv, Crash \/ StartCommitOutOfRange
    PROVE  FilesInv' /\ WriteStep
  <1>1. Die /\ status = "open"
    BY DEF Crash, StartCommitOutOfRange, LockFree
  <1>2. /\ status' = "crashed" /\ snapshot' = None /\ Forget
    BY <1>1 DEF Die
  <1>3. PICK gone \in SUBSET (ifd.doomed \cap files),
             bad \in SUBSET (files \ stable), lost \in BOOLEAN :
          LET there == (IF lost THEN files \ bad ELSE files) \ gone
          IN  /\ files' = there
              /\ stable' = there \ bad
              /\ sis' = [g \in {h \in DOMAIN sis : Segments(h) \in there} |->
                           [sis[g] EXCEPT !.valid = @ /\ Segments(g) \notin bad]]
    BY <1>1 DEF Die
  <1>4. /\ gone \subseteq ifd.doomed /\ bad \subseteq files \ stable
        /\ files' \subseteq files \ gone
        /\ (files \ bad) \ gone \subseteq files'
        /\ stable' = files' \ bad
        /\ DOMAIN sis' = {h \in DOMAIN sis : Segments(h) \in files'}
        /\ \A g \in DOMAIN sis' :
              sis'[g] = [sis[g] EXCEPT !.valid = @ /\ Segments(g) \notin bad]
    BY <1>3
  <1>5. ASSUME NEW g \in DOMAIN sis'
        PROVE  /\ g \in DOMAIN sis /\ g \in Nat /\ Segments(g) \in files'
               /\ sis'[g].segs = sis[g].segs /\ sis'[g].counter = sis[g].counter
               /\ sis'[g].valid <=> sis[g].valid /\ Segments(g) \notin bad
    <2>1. g \in DOMAIN sis /\ g \in Nat /\ Segments(g) \in files'
      BY <1>4, CounterTypes DEF TypeInv
    <2>2. sis[g] \in [segs: Seq(SegmentInfo), counter: Nat, valid: BOOLEAN]
      BY <2>1 DEF TypeInv, TypeOK
    <2>3. sis'[g] = [sis[g] EXCEPT !.valid = @ /\ Segments(g) \notin bad]
      BY <1>4
    <2> QED
      BY <2>1, <2>2, <2>3
  <1>6. ASSUME NEW F, F \subseteq stable, F \subseteq HeldFiles
        PROVE  F \subseteq stable'
    <2>1. ifd.doomed \cap HeldFiles = {}
      BY <1>1 DEF FilesInv, TidyInv, Tidy, HeldFiles
    <2>2. stable \subseteq files
      BY DEF FilesInv, DirectoryInv
    <2> QED
      BY <1>4, <1>6, <2>1, <2>2
  <1>7. ASSUME NEW c \in ifd.commits
        PROVE  /\ IsPoint(c) /\ c.files \subseteq stable'
               /\ c.generation \in DOMAIN sis' /\ sis'[c.generation].valid
    <2>1. IsPoint(c)
      BY <1>1 DEF FilesInv, PointInv
    <2>2. c.files \subseteq HeldFiles
      BY DEF HeldFiles, Held
    <2>3. c.files \subseteq stable' /\ Segments(c.generation) \in stable'
      BY <1>6, <2>1, <2>2 DEF IsPoint
    <2>4. c.generation \in DOMAIN sis' /\ Segments(c.generation) \notin bad
      BY <1>4, <2>1, <2>3 DEF IsPoint
    <2> QED
      BY <1>5, <2>1, <2>3, <2>4 DEF IsPoint
  <1>8. RestInv'
    <2>1. ASSUME NEW h \in DOMAIN sis', sis'[h].valid
          PROVE  \/ InfosFiles(sis'[h].segs) \cup {Segments(h)} \subseteq stable'
                 \/ /\ snapshot' # h
                    /\ \E g \in DOMAIN sis' : g > h /\ sis'[g].valid
      <3>1. /\ h \in DOMAIN sis /\ h \in Nat /\ Segments(h) \in files'
            /\ sis'[h].segs = sis[h].segs /\ sis[h].valid
            /\ Segments(h) \notin bad
        BY <1>5, <2>1
      <3>2. CASE \E c \in ifd.commits : c.generation = h
        <4>1. PICK c \in ifd.commits : c.generation = h
          BY <3>2
        <4> QED
          BY <1>7, <3>1, <4>1 DEF IsPoint
      <3>3. CASE pending /\ h = toSync.generation
        <4>1. Committing \subseteq stable /\ sis[h].segs = toSync.segs
          BY <3>3 DEF FilesInv, SyncInv
        <4>2. Committing \subseteq HeldFiles
          BY DEF HeldFiles, Held
        <4>3. Committing \subseteq stable'
          BY <1>6, <4>1, <4>2
        <4>4. Segments(h) \in stable'
          BY <1>4, <3>1
        <4> QED
          BY <3>1, <4>1, <4>3, <4>4 DEF Committing
      <3>4. CASE \E c \in ifd.commits : c.generation > h
        <4>1. PICK c \in ifd.commits : c.generation > h
          BY <3>4
        <4>2. snapshot' # h
          BY <1>2, <3>1 DEF None
        <4> QED
          BY <1>7, <4>1, <4>2
      <3> QED
        BY <1>1, <3>1, <3>2, <3>3, <3>4 DEF FilesInv, PointInv
    <2> QED
      BY <1>2, <2>1 DEF RestInv
  <1>9. DirectoryInv'
    <2>1. stable' \subseteq files'
      BY <1>4
    <2>2. \A f \in files' : ~IsData(f) => f[2] \in DOMAIN sis' /\ f = Segments(f[2])
      BY <1>4 DEF FilesInv, DirectoryInv
    <2> QED
      BY <1>5, <2>1, <2>2 DEF DirectoryInv
  <1>10. HistoryInv'
    BY <1>5 DEF FilesInv, HistoryInv
  <1>11. WriteStep
    BY <1>2, <1>4 DEF WriteStep
  <1> QED
    BY <1>2, <1>8, <1>9, <1>10, <1>11, FilesForget

-----------------------------------------------------------------------------
\* The deletions a coherent list refers to are its own.
LEMMA OwnDels ==
    ASSUME NEW S \in Seq(SegmentInfo), Coherent(S)
    PROVE  DelsBelow(S, InfosFiles(S))
  <1> SUFFICES ASSUME NEW k \in DOMAIN S, NEW j \in DOMAIN S,
                      NEW f \in SegmentFiles(S[j]),
                      f[1] = "del", f[2] = S[k].name
               PROVE  f[3] <= S[k].delGen
    BY DEF DelsBelow, InfosFiles
  <1>1. f = Del(S[j].name, S[j].delGen)
    BY DEF SegmentFiles, Core, Cfs, Cfx, Store, Del
  <1>2. f[2] = S[j].name /\ f[3] = S[j].delGen
    BY <1>1 DEF Del
  <1>3. S[j].delGen = S[k].delGen
    BY <1>2 DEF Coherent
  <1>4. S[k] \in SegmentInfo
    OBVIOUS
  <1>5. S[k].delGen \in Nat
    BY <1>4 DEF SegmentInfo
  <1> QED
    BY <1>2, <1>3, <1>5

\* The next writer finds commit points with all their files, and unlinks
\* everything else.
LEMMA FilesOpen ==
    ASSUME IInv, TypeInv, FilesInv, NEW create \in BOOLEAN, Open(create)
    PROVE  FilesInv' /\ WriteStep
  <1> DEFINE g == FindSegments(files, sis, segGen)
             pt(h) == [generation |-> h,
                       files |-> InfosFiles(sis[h].segs) \cup {Segments(h)}]
             K == {k \in DOMAIN sis : Readable(files, sis, k)}
             P == {pt(h) : h \in K}
             segs == IF create THEN <<>> ELSE sis[g].segs
             I == InfosFiles(segs)
             y == IF create THEN {} ELSE I \cup {Segments(g)}
             held == UNION {c.files : c \in P}
             C1 == ifd'.commits
             H1 == Held(ifd', {})
  <1>1. /\ UNCHANGED <<files, stable, sis, merge, ram, docStore, toSync, pending,
                       pc, op, snapshot>>
        /\ status # "open" /\ status' = "open"
        /\ g # None /\ \A h \in DOMAIN sis : h <= g => Readable(files, sis, h)
        /\ infos' = [segs |-> segs, generation |-> g, lastGeneration |-> g,
                     counter |-> sis[g].counter]
        /\ rollbackInfos' = segs
        /\ ifd' = InitDeleter(files, P, I, snapshot, y)
    BY DEF Open, dirVars, mergeVars, docVars, userVars
  <1>2. Generations(DOMAIN sis) /\ segGen \in Nat \cup {None}
    BY DEF IInv, GenInv
  <1>3. g \in DOMAIN sis /\ \A h \in K : h <= g
    BY <1>1, <1>2, FindSegmentsNewest
  <1> HIDE DEF g
  <1>4. /\ \A h \in DOMAIN sis : h \in Nat /\ (h \in K <=> sis[h].valid)
        /\ K \subseteq DOMAIN sis
        /\ \A h \in DOMAIN sis : h \in K <=> h <= g
    BY <1>1, <1>2, <1>3 DEF Generations, Readable, FilesInv, DirectoryInv
  <1>5. IsFiniteSet(P)
    BY <1>2, FiniteCommits
  <1>6. StartsWith(files, P, I, snapshot, y, ifd')
    <2> HIDE DEF P, I, y
    <2> QED
      BY <1>1, <1>5, InitReleases
  <1>7. \A c \in P : /\ c.generation \in K /\ c = pt(c.generation)
                     /\ c.files = InfosFiles(sis[c.generation].segs)
                                     \cup {Segments(c.generation)}
    OBVIOUS
  <1>8. \A h \in K : /\ pt(h) \in P /\ pt(h).generation = h
                     /\ pt(h).files = InfosFiles(sis[h].segs) \cup {Segments(h)}
    OBVIOUS
  <1>9. g \in K /\ g \in Nat
    BY <1>3, <1>4
  <1>10. PICK b \in P : b.generation = g
    BY <1>8, <1>9
  <1>11. /\ b.files = InfosFiles(sis[g].segs) \cup {Segments(g)}
         /\ I \subseteq b.files /\ y \subseteq b.files
    BY <1>7, <1>10 DEF InfosFiles
  <1> HIDE DEF pt, P, I, y, K
  <1>12. /\ ifd'.deletable = {}
         /\ ifd'.lastFiles[1] = I /\ ifd'.lastFiles[2] = {}
         /\ C1 = P \ PolicyVictims(P, snapshot)
         /\ ifd'.doomed = (files \ held) \cup ((I \cup held) \ H1)
         /\ ifd'.synced = y \ ((I \cup held) \ H1)
    BY <1>6 DEF StartsWith
  <1>13. \A c \in P : /\ c.generation \in Nat /\ c.generation <= g
                      /\ c.generation \in DOMAIN sis /\ sis[c.generation].valid
    BY <1>3, <1>4, <1>7
  <1>14. /\ \A c \in C1 : /\ c \in P
                          /\ c.generation = g \/ c.generation = snapshot
         /\ \A c \in P : \/ c \in C1
                         \/ c.generation < g /\ c.generation # snapshot
         /\ b \in C1
    <2>1. \A c \in P : c \in PolicyVictims(P, snapshot) <=>
              c.generation < g /\ c.generation # snapshot
      BY <1>9, <1>10, <1>13 DEF PolicyVictims
    <2> QED
      BY <1>9, <1>10, <1>12, <1>13, <2>1
  <1>15. ASSUME NEW c \in C1
         PROVE  c.files \subseteq stable
    <2>1. /\ c.generation \in DOMAIN sis /\ sis[c.generation].valid
          /\ c.files = InfosFiles(sis[c.generation].segs)
                          \cup {Segments(c.generation)}
          /\ c.generation = g \/ c.generation = snapshot
      BY <1>7, <1>13, <1>14
    <2>2. \A h \in DOMAIN sis : sis[h].valid => ~(h > g)
      BY <1>4, <1>9
    <2> QED
      BY <1>1, <2>1, <2>2 DEF FilesInv, RestInv
  <1>16. /\ \A f \in H1 : \E c \in C1 : f \in c.files
         /\ \A c \in C1 : c.files \subseteq H1
    BY <1>11, <1>12, <1>14 DEF Held
  <1>17. H1 \subseteq stable /\ stable \subseteq files
    BY <1>15, <1>16 DEF FilesInv, DirectoryInv
  <1>18. \A c \in P : c.files \subseteq held
    OBVIOUS
  <1>19. H1 \subseteq held /\ I \subseteq H1 /\ y \subseteq H1
    BY <1>11, <1>14, <1>16, <1>18
  <1>20. \A f \in held : \E c \in P : f \in c.files
    OBVIOUS
  <1> HIDE DEF held
  <1>21. /\ ifd'.doomed \cap H1 = {} /\ files \ ifd'.doomed \subseteq H1
         /\ ifd'.synced = y
    BY <1>12, <1>17, <1>19
  <1>22. status' = "open" /\ ~pending /\ pc = "idle" /\ toSync = NoInfos
    BY <1>1 DEF IInv, CallInv
  <1>23. Committing' = {} /\ HeldFiles' = H1
    <2>1. Committing' = {}
      BY <1>1, <1>22 DEF Committing, NoInfos, InfosFiles
    <2> QED
      BY <2>1 DEF HeldFiles
  <1>24. TidyInv'
    <2>1. Tidy(ifd', {}, files)
      BY <1>12, <1>17, <1>19, <1>21 DEF Tidy
    <2> QED
      BY <1>1, <1>23, <2>1 DEF TidyInv
  <1>25. SyncedInv'
    BY <1>1, <1>17, <1>19, <1>21 DEF SyncedInv
  <1>26. DirectoryInv' /\ HistoryInv' /\ RestInv' /\ WriteStep
    BY <1>1 DEF FilesInv, DirectoryInv, HistoryInv, RestInv, WriteStep
  <1>27. PlaceInv' /\ SyncInv'
    BY <1>1, <1>22 DEF PlaceInv, SyncInv
  <1>28. merge.stage = "none" /\ ram = None /\ docStore = None
    BY <1>1 DEF FilesInv, PlaceInv, NoMerge
  <1>29. RamInv' /\ StoreInv' /\ MergeInv'
    BY <1>1, <1>28 DEF RamInv, StoreInv, MergeInv
  <1>30. infos'.segs = segs /\ infos'.counter = sis[g].counter
    BY <1>1
  <1>31. \A h \in DOMAIN sis : /\ sis[h].counter \in Nat
                               /\ sis[h].segs \in Seq(SegmentInfo)
    BY CounterTypes DEF TypeInv
  <1>32. \A h \in K : sis[h].counter <= sis[g].counter
    BY <1>3, <1>4, <1>31 DEF FilesInv, HistoryInv
  <1>33. ASSUME NEW f \in H1, IsData(f)
         PROVE  \E h \in K : f \in InfosFiles(sis[h].segs)
    <2>1. PICK c \in C1 : f \in c.files
      BY <1>16
    <2> QED
      BY <1>7, <1>14, <1>33, <2>1, SegmentsNames
  <1>34. NumbersBelow(H1, sis[g].counter)
    <2> SUFFICES ASSUME NEW f \in H1, IsData(f)
                 PROVE  f[2] < sis[g].counter
      BY DEF NumbersBelow
    <2>1. PICK h \in K : f \in InfosFiles(sis[h].segs)
      BY <1>33
    <2>2. f[2] < sis[h].counter
      BY <1>4, <2>1 DEF FilesInv, HistoryInv, NumbersBelow
    <2>3. f \in FileName
      BY <1>17 DEF TypeInv, TypeOK
    <2>4. f[2] \in Int
      BY <2>3 DEF FileName
    <2> QED
      BY <1>3, <1>4, <1>31, <1>32, <2>2, <2>4
  <1>35. DelsBelow(sis[g].segs, H1)
    <2> SUFFICES ASSUME NEW k \in DOMAIN sis[g].segs, NEW f \in H1,
                        f[1] = "del", f[2] = sis[g].segs[k].name
                 PROVE  f[3] <= sis[g].segs[k].delGen
      BY DEF DelsBelow
    <2>1. PICK h \in K : f \in InfosFiles(sis[h].segs)
      BY <1>33 DEF IsData
    <2>2. DelsBelow(sis[g].segs, InfosFiles(sis[h].segs))
      <3>1. CASE h = g
        BY <1>3, <1>31, <3>1, OwnDels DEF FilesInv, HistoryInv
      <3>2. CASE h # g
        BY <1>3, <1>4, <3>2 DEF FilesInv, HistoryInv
      <3> QED
        BY <3>1, <3>2
    <2> QED
      BY <2>1, <2>2 DEF DelsBelow
  <1>36. SegsInv'
    <2>1. files' \ ifd'.doomed \subseteq H1 /\ Staying' = files' \ ifd'.doomed
      BY <1>1, <1>21 DEF Staying
    <2>2. NumbersBelow(Staying', sis[g].counter)
      BY <1>34, <2>1 DEF NumbersBelow
    <2>3. DelsBelow(segs, Staying') /\ Coherent(segs)
      <3>1. CASE create
        <4>1. DOMAIN segs = {}
          BY <3>1
        <4> QED
          BY <4>1 DEF DelsBelow, Coherent
      <3>2. CASE ~create
        <4>1. segs = sis[g].segs
          BY <3>2
        <4>2. Coherent(sis[g].segs)
          BY <1>3 DEF FilesInv, HistoryInv
        <4>3. DelsBelow(sis[g].segs, Staying')
          BY <1>35, <2>1 DEF DelsBelow
        <4> QED
          BY <4>1, <4>2, <4>3
      <3> QED
        BY <3>1, <3>2
    <2> QED
      BY <1>12, <1>30, <2>2, <2>3 DEF SegsInv, I
  <1>37. ASSUME NEW c \in C1 PROVE IsPoint(c)'
    <2>1. /\ c.generation \in DOMAIN sis /\ sis[c.generation].valid
          /\ c.files = InfosFiles(sis[c.generation].segs)
                          \cup {Segments(c.generation)}
          /\ sis[c.generation].counter <= sis[g].counter
      BY <1>7, <1>13, <1>14, <1>32
    <2> QED
      BY <1>1, <1>15, <1>30, <2>1 DEF IsPoint
  <1>38. ASSUME NEW h \in DOMAIN sis
         PROVE  \/ \E c \in C1 : c.generation = h
                \/ /\ Segments(h) \in ifd'.doomed
                   /\ sis[h].valid => \E c \in C1 : c.generation > h
    <2>1. ASSUME NEW c \in P, Segments(h) \in c.files PROVE c.generation = h
      <3>1. AllData(InfosFiles(sis[c.generation].segs))
        BY SegmentsData
      <3> QED
        BY <1>7, <2>1, <3>1, SegmentsNames DEF AllData
    <2>2. CASE h \in K
      <3>1. PICK c \in P : c = pt(h) /\ c.generation = h /\ Segments(h) \in c.files
        BY <1>8, <2>2
      <3>2. CASE c \notin C1
        <4>1. h < g
          BY <1>14, <3>1, <3>2
        <4>2. Segments(h) \notin H1
          <5> SUFFICES ASSUME Segments(h) \in H1 PROVE FALSE
            OBVIOUS
          <5>1. PICK a \in C1 : Segments(h) \in a.files
            BY <1>16
          <5>2. a \in P /\ a.generation = h
            BY <1>14, <2>1, <5>1
          <5>3. a = c
            BY <1>7, <3>1, <5>2
          <5> QED
            BY <3>2, <5>3
        <4>3. Segments(h) \in ifd'.doomed
          BY <1>12, <1>18, <3>1, <4>2
        <4>4. g > h
          BY <1>4, <1>9, <4>1
        <4> QED
          BY <1>10, <1>14, <4>3, <4>4
      <3> QED
        BY <3>1, <3>2
    <2>3. CASE h \notin K
      <3>1. Segments(h) \notin held
        BY <1>7, <1>20, <2>1, <2>3
      <3>2. Segments(h) \in files
        BY DEF FilesInv, DirectoryInv
      <3> QED
        BY <1>4, <1>12, <2>3, <3>1, <3>2
    <2> QED
      BY <2>2, <2>3
  <1>39. PointInv'
    <2>1. \E c \in C1 : InfosFiles(rollbackInfos') \subseteq c.files
      BY <1>1, <1>11, <1>14 DEF I
    <2>2. ASSUME snapshot # None
          PROVE  \E c \in C1 : c.generation = snapshot
      <3>1. snapshot \in DOMAIN sis /\ sis[snapshot].valid
        BY <1>1, <2>2 DEF FilesInv, RestInv
      <3>2. PICK c \in P : c.generation = snapshot
        BY <1>4, <1>8, <3>1
      <3> QED
        BY <1>14, <3>2
    <2> QED
      BY <1>1, <1>37, <1>38, <2>1, <2>2 DEF PointInv
  <1> QED
    BY <1>24, <1>25, <1>26, <1>27, <1>29, <1>36, <1>39 DEF FilesInv

-----------------------------------------------------------------------------
(***************************************************************************)
(* The theorems.                                                           *)
(***************************************************************************)
\* Initially the directory holds one commit, whole, and there is no writer.
LEMMA InitFiles ==
    ASSUME Init
    PROVE  FilesInv
  <1>1. /\ files = {Segments(1)} /\ stable = {Segments(1)}
        /\ sis = [g \in {1} |-> [segs |-> <<>>, counter |-> 0, valid |-> TRUE]]
        /\ status = "closed" /\ pc = "idle" /\ ~pending /\ snapshot = None
        /\ ifd = NoDeleter /\ merge = NoMerge /\ pooled = {}
        /\ ram = None /\ docStore = None
        /\ toSync = NoInfos /\ infos = NoInfos /\ rollbackInfos = <<>>
    BY DEF Init
  <1>2. /\ DOMAIN sis = {1} /\ sis[1].segs = <<>> /\ sis[1].counter = 0
        /\ InfosFiles(sis[1].segs) = {} /\ DOMAIN sis[1].segs = {}
    BY <1>1 DEF InfosFiles
  <1>3. DirectoryInv
    BY <1>1, <1>2, SegmentsNames DEF DirectoryInv
  <1>4. HistoryInv
    BY <1>2 DEF HistoryInv, NumbersBelow, Coherent
  <1>5. RestInv
    BY <1>1, <1>2 DEF RestInv
  <1>6. PlaceInv
    BY <1>1 DEF PlaceInv
  <1>7. TidyInv /\ SyncedInv /\ PointInv
    BY <1>1 DEF TidyInv, SyncedInv, PointInv
  <1>8. SegsInv /\ RamInv /\ StoreInv /\ MergeInv
    BY <1>1 DEF Alive, SegsInv, RamInv, StoreInv, MergeInv
  <1>9. SyncInv
    BY <1>1 DEF SyncInv
  <1> QED
    BY <1>3, <1>4, <1>5, <1>6, <1>7, <1>8, <1>9 DEF FilesInv

\* Every step keeps the files in order and writes no name again.
LEMMA NextFiles ==
    ASSUME Reliable, IInv, TypeInv, FilesInv, [Next]_vars
    PROVE  FilesInv' /\ WriteStep
  <1>1. CASE AddDocument
    BY <1>1, FilesAddDocument
  <1>2. CASE Flush \/ \E o \in {"prepare", "commit", "close"} : BeginCommit(o)
    BY <1>2, FilesFlushes
  <1>3. CASE \E i, j \in DOMAIN infos.segs : MergeInit(i, j)
    BY <1>3, FilesMergeInit
  <1>4. CASE MergeOpen \/ MergeWrite
    BY <1>4, FilesMergeOpen, FilesMergeWrite
  <1>5. CASE CommitMerge \/ ReleaseMerged \/ AbortMerge
    BY <1>5, FilesCommitMerge, FilesReleaseMerged, FilesAbortMerge
  <1>6. CASE \/ DeleteDocuments \/ CommitPrepared \/ NothingToCommit
             \/ SyncFails \/ SyncDone \/ FinishCommitGen
             \/ \E o \in {"rollback", "deleteAll"} : FinishMerges(o)
             \/ UNCHANGED vars
    BY <1>6, FilesCalls
  <1>7. CASE StartCommit \/ \E f \in InfosFiles(toSync.segs) : SyncFile(f)
    BY <1>7, FilesStartCommit, FilesSync
  <1>8. CASE PrepareCommit \/ PrepareFails \/ Unwind
    BY <1>8, FilesPrepare, FilesPrepareFails, FilesUnwind
  <1>9. CASE FinishCommitWrite \/ FinishCommitSync \/ FinishCommitCheckpoint
    BY <1>9, FilesFinishWrite, FilesFinishSync, FilesCheckpoint
  <1>10. CASE Rollback \/ DeleteAll
    BY <1>10, FilesRollback, FilesDeleteAll
  <1>11. CASE Close \/ CloseDone
    BY <1>11, FilesClose, FilesCloseDone
  <1>12. CASE TakeSnapshot \/ ReleaseSnapshot
    BY <1>12, FilesSnapshot
  <1>13. CASE Unlink
    BY <1>13, FilesUnlink
  <1>14. CASE Crash \/ StartCommitOutOfRange
    BY <1>14, FilesDie
  <1>15. CASE \E create \in BOOLEAN : Open(create)
    BY <1>15, FilesOpen
  <1> QED
    BY <1>1, <1>2, <1>3, <1>4, <1>5, <1>6, <1>7, <1>8, <1>9, <1>10, <1>11,
       <1>12, <1>13, <1>14, <1>15 DEF Next

\* The inductive invariant of the counts, of the types and of the files holds
\* in every state.
LEMMA FilesInOrder ==
    ASSUME Reliable
    PROVE  Spec => [](IInv /\ TypeInv /\ FilesInv)
  <1>1. Init => IInv /\ TypeInv /\ FilesInv
    BY InitIInv, InitTypes, InitFiles
  <1>2. IInv /\ TypeInv /\ FilesInv /\ [Next]_vars
            => IInv' /\ TypeInv' /\ FilesInv'
    BY NextIInv, NextTypes, NextFiles
  <1> QED
    BY <1>1, <1>2, PTL DEF Spec

\* What is referenced is there and nobody is about to delete it: checkpoint
\* takes the new references before it drops the old ones, and startCommit
\* those of the commit before it gives up the lock.
THEOREM ReferencedFilesAreThere ==
    ASSUME Reliable
    PROVE  Spec => []ReferencedFilesExist
  <1>1. IInv /\ TypeInv /\ FilesInv => ReferencedFilesExist
    <2> SUFFICES ASSUME IInv, FilesInv, status = "open",
                        NEW f \in DOMAIN ifd.refCounts, ifd.refCounts[f] > 0
                 PROVE  f \in files \ (ifd.doomed \cup ifd.deletable)
      BY DEF ReferencedFilesExist
    <2>1. Exact(ifd, Committing) /\ Tidy(ifd, Committing, files)
      BY DEF IInv, CountsInv, FilesInv, TidyInv
    <2>2. Count(ifd.refCounts, f) # 0
      BY DEF Count
    <2>3. f \in Held(ifd, Committing)
      BY <2>1, <2>2, HeldCounts
    <2> QED
      BY <2>1, <2>3 DEF Tidy
  <1> QED
    BY <1>1, FilesInOrder, PTL

\* Whenever IndexWriter's lock is free the files of segmentInfos and of
\* rollbackSegmentInfos are there: no flush, merge, commit or rollback leaves
\* a list of segments behind that the deleter has not counted.
THEOREM SegmentsAreUsable ==
    ASSUME Reliable
    PROVE  Spec => []SegmentsUsable
  <1>1. IInv /\ TypeInv /\ FilesInv => SegmentsUsable
    <2> SUFFICES ASSUME FilesInv, LockFree
                 PROVE  InfosFiles(infos.segs) \cup InfosFiles(rollbackInfos)
                            \subseteq files
      BY DEF SegmentsUsable
    <2>1. status = "open" /\ pc # "drain"
      BY DEF LockFree
    <2>2. HeldFiles \subseteq files
      BY <2>1 DEF FilesInv, TidyInv, Tidy, HeldFiles
    <2>3. InfosFiles(rollbackInfos) \subseteq files
      <3>1. PICK c \in ifd.commits : InfosFiles(rollbackInfos) \subseteq c.files
        BY <2>1 DEF FilesInv, PointInv
      <3> QED
        BY <2>2, <3>1 DEF HeldFiles, Held
    <2>4. CASE Alive
      <3>1. InfosFiles(infos.segs) \subseteq HeldFiles
        BY <2>4 DEF FilesInv, SegsInv, HeldFiles, Held
      <3> QED
        BY <2>2, <2>3, <3>1
    <2>5. CASE ~Alive
      <3>1. infos.segs = rollbackInfos
        BY <2>1, <2>5 DEF Alive, FilesInv, PlaceInv
      <3> QED
        BY <2>3, <3>1
    <2> QED
      BY <2>4, <2>5
  <1> QED
    BY <1>1, FilesInOrder, PTL

\* A name in IndexWriter's synced set is a file that a crash cannot lose:
\* decRef takes a name out when it gives the file up.
THEOREM SyncedFilesAreStable ==
    ASSUME Reliable
    PROVE  Spec => []SyncedIsStable
  <1>1. IInv /\ TypeInv /\ FilesInv => SyncedIsStable
    BY DEF FilesInv, SyncedInv, PlaceInv, NoDeleter, SyncedIsStable
  <1> QED
    BY <1>1, FilesInOrder, PTL

\* Every commit point could be opened after a crash at any moment: startCommit
\* has synced its files, finishCommit its segments_N, and neither a failure
\* nor the deletion of other commits takes one of them away.
THEOREM CommitPointsAreDurable ==
    ASSUME Reliable
    PROVE  Spec => []CommitPointsDurable
  <1>1. IInv /\ TypeInv /\ FilesInv => CommitPointsDurable
    BY DEF FilesInv, PointInv, IsPoint, DirectoryInv, PlaceInv, NoDeleter,
           CommitPointsDurable
  <1> QED
    BY <1>1, FilesInOrder, PTL

\* The commit SnapshotDeletionPolicy::snapshot returned keeps its files across
\* commits, merges, rollbacks and restarts.
THEOREM SnapshotIsHeld ==
    ASSUME Reliable
    PROVE  Spec => []SnapshotHeld
  <1>1. IInv /\ TypeInv /\ FilesInv => SnapshotHeld
    <2> SUFFICES ASSUME FilesInv, snapshot # None
                 PROVE  /\ snapshot \in DOMAIN sis
                        /\ InfosFiles(sis[snapshot].segs) \cup {Segments(snapshot)}
                               \subseteq files
      BY DEF SnapshotHeld
    <2>1. stable \subseteq files
      BY DEF FilesInv, DirectoryInv
    <2>2. CASE status = "open"
      <3>1. PICK c \in ifd.commits : c.generation = snapshot
        BY <2>2 DEF FilesInv, PointInv
      <3>2. IsPoint(c)
        BY <2>2 DEF FilesInv, PointInv
      <3> QED
        BY <2>1, <3>1, <3>2 DEF IsPoint
    <2>3. CASE status # "open"
      BY <2>1, <2>3 DEF FilesInv, RestInv
    <2> QED
      BY <2>2, <2>3
  <1> QED
    BY <1>1, FilesInOrder, PTL

\* No segments_N that was whole is written again, and no synced file is
\* replaced by another of its name: segment names, deletion generations and
\* commit generations are never used twice, across crashes and restarts too.
THEOREM FilesAreWrittenOnce ==
    ASSUME Reliable
    PROVE  Spec => WriteOnce
  <1>1. IInv /\ TypeInv /\ FilesInv /\ [Next]_vars => [WriteStep]_vars
    BY NextFiles
  <1>2. WriteOnce <=> [][WriteStep]_vars
    BY PTL DEF WriteOnce, WriteStep
  <1> QED
    BY <1>1, <1>2, FilesInOrder, PTL DEF Spec

\* The newest commit point is the one that was acknowledged last, and
\* segments.gen is not ahead of what can be read.
LatestInv ==
    /\ status = "open" =>
          /\ \E c \in ifd.commits : c.generation = acked
          /\ \A c \in ifd.commits : c.generation <= acked
          /\ \/ segGen <= acked
             \/ pc = "fcCheckpoint" /\ segGen = toSync.generation
    /\ status # "open" =>
          \E h \in DOMAIN sis : sis[h].valid /\ segGen <= h /\ acked <= h
    /\ status = "closed" => \A h \in DOMAIN sis : h <= acked /\ sis[h].valid

\* A rollback has taken back what was prepared, but not its generation.
RolledBack == op = "rollback" /\ pc \in {"closing", "drain"}

\* When no write fails generations leave no gap: every segments_N up to the
\* acknowledged one is whole, and at most one is behind it ...
Gapless == /\ acked > 0 /\ acked \in DOMAIN sis
           /\ \A h \in DOMAIN sis :
                 /\ h <= acked + 1
                 /\ h <= acked => sis[h].valid /\ Segments(h) \in stable

\* ... and the next commit will be that one.
NextInLine ==
    /\ status = "open" /\ ~RolledBack =>
          infos.generation = IF pending THEN acked + 1 ELSE acked
    /\ pending => toSync.generation = acked + 1
    /\ pc \in {"sync", "turn", "unwind"} => toSync.generation = acked

GapInv == Gapless /\ NextInLine

-----------------------------------------------------------------------------
\* The acknowledged commit of an open writer is whole.
LEMMA AckedIsPoint ==
    ASSUME FilesInv, LatestInv, status = "open"
    PROVE  /\ acked \in DOMAIN sis /\ sis[acked].valid
           /\ Segments(acked) \in stable /\ Segments(acked) \in HeldFiles
           /\ InfosFiles(sis[acked].segs) \subseteq stable
  <1>1. PICK c \in ifd.commits : c.generation = acked
    BY DEF LatestInv
  <1>2. IsPoint(c)
    BY DEF FilesInv, PointInv
  <1> QED
    BY <1>1, <1>2 DEF IsPoint, HeldFiles, Held

\* A step of an open writer that commits nothing and writes no segments.gen
LEMMA LatestKept ==
    ASSUME IInv, LatestInv, status = "open", status' = "open", CommitsKept,
           segGen' = segGen, pc # "fcCheckpoint"
    PROVE  LatestInv'
  BY DEF LatestInv, CommitsKept

\* finishCommit acknowledges the commit it makes the newest.
LEMMA LatestCheckpoint ==
    ASSUME IInv, IInv', TypeInv, LatestInv, FinishCommitCheckpoint
    PROVE  LatestInv' /\ acked < acked'
  <1>1. /\ pc = "fcCheckpoint" /\ acked' = toSync.generation
        /\ infos' = UpdateGeneration(infos, toSync)
        /\ UNCHANGED <<segGen, status>>
    BY DEF FinishCommitCheckpoint, dirVars
  <1>2. status = "open" /\ pending
    BY <1>1 DEF IInv, CallInv
  <1>3. \A c \in ifd.commits : c.generation < toSync.generation
    BY <1>2 DEF IInv, GenInv
  <1>4. acked < acked'
    BY <1>1, <1>2, <1>3 DEF LatestInv
  <1>5. acked \in Nat /\ toSync.generation \in Nat /\ segGen \in Nat \cup {None}
    BY <1>2 DEF TypeInv, TypeOK, IInv, GenInv
  <1>6. acked' # acked
    BY <1>1, <1>4, <1>5
  <1>7. \E c \in ifd'.commits : c.generation = acked'
    BY <1>1, <1>2, <1>6, AdvanceCheckpoint DEF Advance
  <1>8. infos'.generation = toSync.generation
    BY <1>1 DEF IInv, GenInv, IsInfos, UpdateGeneration
  <1>9. \A c \in ifd'.commits : c.generation <= acked'
    BY <1>1, <1>2, <1>8 DEF IInv, GenInv
  <1>10. segGen' <= acked'
    BY <1>1, <1>2, <1>4, <1>5 DEF LatestInv, None
  <1> QED
    BY <1>1, <1>2, <1>4, <1>7, <1>9, <1>10 DEF LatestInv

\* After close every segments_N is a commit point.
LEMMA LatestCloseDone ==
    ASSUME IInv, TypeInv, FilesInv, LatestInv, CloseDone
    PROVE  LatestInv'
  <1>1. /\ pc = "drain" /\ ifd.doomed = {} /\ status' = "closed"
        /\ UNCHANGED <<sis, segGen, acked>>
    BY DEF CloseDone, dirVars, histVars
  <1>2. status = "open" /\ ~pending
    BY <1>1 DEF IInv, CallInv, FilesInv, PlaceInv
  <1>3. segGen <= acked
    BY <1>1, <1>2 DEF LatestInv
  <1>4. ASSUME NEW h \in DOMAIN sis
        PROVE  h <= acked /\ sis[h].valid
    <2>1. PICK c \in ifd.commits : c.generation = h
      BY <1>1, <1>2 DEF FilesInv, PointInv
    <2>2. IsPoint(c)
      BY <1>2 DEF FilesInv, PointInv
    <2> QED
      BY <1>2, <2>1, <2>2 DEF IsPoint, LatestInv
  <1>5. acked \in DOMAIN sis /\ acked \in Nat
    BY <1>2, AckedIsPoint DEF TypeInv, TypeOK
  <1>6. acked <= acked
    BY <1>5
  <1> QED
    BY <1>1, <1>3, <1>4, <1>5, <1>6 DEF LatestInv

\* What a crash leaves of the directory.
LEMMA DieLeaves ==
    ASSUME IInv, TypeInv, FilesInv, status = "open", Die
    PROVE  /\ DOMAIN sis' \subseteq DOMAIN sis
           /\ \A h \in DOMAIN sis :
                 /\ Segments(h) \in stable /\ Segments(h) \notin ifd.doomed =>
                       h \in DOMAIN sis'
                 /\ Segments(h) \in stable /\ h \in DOMAIN sis' =>
                       /\ sis'[h].valid <=> sis[h].valid
                       /\ Segments(h) \in stable'
  <1>1. PICK gone \in SUBSET (ifd.doomed \cap files),
             bad \in SUBSET (files \ stable), lost \in BOOLEAN :
          LET there == (IF lost THEN files \ bad ELSE files) \ gone
          IN  /\ files' = there
              /\ stable' = there \ bad
              /\ sis' = [g \in {h \in DOMAIN sis : Segments(h) \in there} |->
                           [sis[g] EXCEPT !.valid = @ /\ Segments(g) \notin bad]]
    BY DEF Die
  <1>2. /\ gone \subseteq ifd.doomed /\ bad \subseteq files \ stable
        /\ (files \ bad) \ gone \subseteq files'
        /\ stable' = files' \ bad
        /\ DOMAIN sis' = {h \in DOMAIN sis : Segments(h) \in files'}
        /\ \A g \in DOMAIN sis' :
              sis'[g] = [sis[g] EXCEPT !.valid = @ /\ Segments(g) \notin bad]
    BY <1>1
  <1>3. stable \subseteq files
    BY DEF FilesInv, DirectoryInv
  <1>4. ASSUME NEW h \in DOMAIN sis', Segments(h) \in stable
        PROVE  /\ sis'[h].valid <=> sis[h].valid
               /\ Segments(h) \in stable'
    <2>1. sis[h] \in [segs: Seq(SegmentInfo), counter: Nat, valid: BOOLEAN]
      BY <1>2 DEF TypeInv, TypeOK
    <2>2. sis'[h] = [sis[h] EXCEPT !.valid = @ /\ Segments(h) \notin bad]
      BY <1>2
    <2>3. Segments(h) \notin bad /\ Segments(h) \in files'
      BY <1>2, <1>4
    <2> QED
      BY <1>2, <2>1, <2>2, <2>3
  <1> QED
    BY <1>2, <1>3, <1>4

\* After a crash the commit acknowledged last can be read, and so can the one
\* that segments.gen names.
LEMMA LatestDie ==
    ASSUME IInv, TypeInv, FilesInv, LatestInv, Crash \/ StartCommitOutOfRange
    PROVE  LatestInv'
  <1>1. Die /\ status = "open"
    BY DEF Crash, StartCommitOutOfRange, LockFree
  <1>2. /\ status' = "crashed" /\ segGen' \in {segGen, None} /\ acked' = acked
    BY <1>1 DEF Die
  <1>3. acked \in Nat /\ segGen \in Nat \cup {None}
    BY DEF TypeInv, TypeOK
  <1> SUFFICES \E h \in DOMAIN sis' : sis'[h].valid /\ segGen' <= h /\ acked <= h
    BY <1>2 DEF LatestInv
  <1>4. CASE segGen <= acked
    <2>1. /\ acked \in DOMAIN sis /\ sis[acked].valid
          /\ Segments(acked) \in stable /\ Segments(acked) \in HeldFiles
      BY <1>1, AckedIsPoint
    <2>2. Segments(acked) \notin ifd.doomed
      BY <1>1, <2>1 DEF FilesInv, TidyInv, Tidy, HeldFiles
    <2>3. acked \in DOMAIN sis' /\ sis'[acked].valid
      BY <1>1, <2>1, <2>2, DieLeaves
    <2>4. segGen' <= acked /\ acked <= acked
      BY <1>2, <1>3, <1>4 DEF None
    <2> QED
      BY <2>3, <2>4
  <1>5. CASE ~(segGen <= acked)
    <2> DEFINE g == toSync.generation
    <2>1. pc = "fcCheckpoint" /\ segGen = g
      BY <1>1, <1>5 DEF LatestInv
    <2>2. pending
      BY <2>1 DEF IInv, CallInv
    <2>3. /\ g \in DOMAIN sis /\ sis[g].valid
          /\ Segments(g) \in stable /\ Segments(g) \notin ifd.doomed
      BY <2>1, <2>2 DEF FilesInv, SyncInv
    <2>4. g \in DOMAIN sis' /\ sis'[g].valid
      BY <1>1, <2>3, DieLeaves
    <2>5. g \in Nat
      BY <2>2 DEF IInv, GenInv
    <2>6. segGen' <= g /\ acked <= g
      BY <1>2, <1>3, <1>5, <2>1, <2>5 DEF None
    <2> QED
      BY <2>4, <2>6
  <1> QED
    BY <1>4, <1>5

\* The next writer goes on from the newest commit.
LEMMA LatestOpen ==
    ASSUME IInv, TypeInv, FilesInv, FilesInv', LatestInv,
           NEW create \in BOOLEAN, Open(create)
    PROVE  /\ LatestInv'
           /\ infos'.generation = acked' /\ acked' \in DOMAIN sis
           /\ acked <= acked'
           /\ \A h \in DOMAIN sis : sis[h].valid <=> h <= acked'
  <1> DEFINE g == FindSegments(files, sis, segGen)
  <1>1. /\ UNCHANGED <<files, stable, sis, segGen, pending>>
        /\ status # "open" /\ status' = "open"
        /\ g # None /\ \A h \in DOMAIN sis : h <= g => Readable(files, sis, h)
        /\ infos'.generation = g /\ acked' = g
    BY DEF Open, dirVars, userVars
  <1>2. Generations(DOMAIN sis) /\ segGen \in Nat \cup {None} /\ ~pending
    BY <1>1 DEF IInv, GenInv, CallInv
  <1>3. g \in DOMAIN sis /\ \A h \in DOMAIN sis : Readable(files, sis, h) => h <= g
    BY <1>1, <1>2, FindSegmentsNewest
  <1> HIDE DEF g
  <1>4. \A h \in DOMAIN sis : h \in Nat /\ (sis[h].valid <=> h <= g)
    BY <1>1, <1>2, <1>3 DEF Generations, Readable, FilesInv, DirectoryInv
  <1>5. acked \in Nat /\ g \in Nat
    BY <1>3, <1>4 DEF TypeInv, TypeOK
  <1>6. segGen <= g /\ acked <= g
    <2>1. PICK h \in DOMAIN sis : sis[h].valid /\ segGen <= h /\ acked <= h
      BY <1>1 DEF LatestInv
    <2> QED
      BY <1>2, <1>4, <1>5, <2>1 DEF None
  <1>7. \A c \in ifd'.commits : c.generation \in DOMAIN sis /\ c.generation <= g
    <2> SUFFICES ASSUME NEW c \in ifd'.commits
                 PROVE  c.generation \in DOMAIN sis /\ c.generation <= g
      OBVIOUS
    <2>1. IsPoint(c)'
      BY <1>1 DEF FilesInv, PointInv
    <2> QED
      BY <1>1, <1>4, <2>1 DEF IsPoint
  <1>8. \E c \in ifd'.commits : c.generation = g
    <2>1. g \in DOMAIN sis' /\ sis'[g].valid /\ ~pending'
      BY <1>1, <1>2, <1>3, <1>4, <1>5
    <2>2. \/ \E c \in ifd'.commits : c.generation = g
          \/ \E c \in ifd'.commits : c.generation > g
      BY <1>1, <2>1 DEF FilesInv, PointInv
    <2>3. ~(\E c \in ifd'.commits : c.generation > g)
      BY <1>4, <1>5, <1>7
    <2> QED
      BY <2>2, <2>3
  <1>9. LatestInv'
    BY <1>1, <1>6, <1>7, <1>8 DEF LatestInv
  <1> QED
    BY <1>1, <1>3, <1>4, <1>6, <1>9

\* Every step keeps the acknowledged commit the newest.
LEMMA NextLatest ==
    ASSUME Reliable, IInv, TypeInv, FilesInv, LatestInv, [Next]_vars
    PROVE  LatestInv'
  <1>0. IInv' /\ TypeInv' /\ FilesInv'
    BY NextIInv, NextTypes, NextFiles
  <1>1. CASE AddDocument \/ DeleteDocuments \/ Flush
             \/ \E o \in {"prepare", "commit", "close"} : BeginCommit(o)
    <2>1. CommitsKept
      BY <1>1, KeptIndexing
    <2>2. /\ status = "open" /\ status' = "open" /\ segGen' = segGen
      BY <1>1 DEF AddDocument, DeleteDocuments, Flush, BeginCommit, Indexing,
             LockFree, dirVars
    <2>3. pc # "fcCheckpoint" \/ (pc' = pc /\ toSync' = toSync)
      BY <1>1 DEF AddDocument, DeleteDocuments, Flush, BeginCommit, userVars
    <2> QED
      BY <2>1, <2>2, <2>3 DEF LatestInv, CommitsKept
  <1>2. CASE \/ \E i, j \in DOMAIN infos.segs : MergeInit(i, j)
             \/ MergeOpen \/ MergeWrite \/ CommitMerge \/ ReleaseMerged
             \/ AbortMerge
    <2>1. CommitsKept
      BY <1>2, KeptMerges
    <2>2. /\ status = "open" /\ status' = "open" /\ segGen' = segGen
          /\ pc # "fcCheckpoint"
      BY <1>2 DEF MergeInit, MergeOpen, MergeWrite, CommitMerge,
             ReleaseMerged, AbortMerge, LockFree
    <2> QED
      BY <2>1, <2>2, LatestKept
  <1>3. CASE \/ CommitPrepared \/ NothingToCommit \/ StartCommit
             \/ (\E f \in InfosFiles(toSync.segs) : SyncFile(f))
             \/ SyncFails \/ SyncDone
             \/ PrepareCommit \/ PrepareFails \/ Unwind
             \/ FinishCommitWrite \/ FinishCommitSync
    <2>1. CommitsKept
      BY <1>3, KeptCommitting
    <2>2. /\ status = "open" /\ status' = "open" /\ segGen' = segGen
          /\ pc # "fcCheckpoint"
      BY <1>3 DEF CommitPrepared, NothingToCommit, StartCommit, SyncFile,
             SyncFails, SyncDone, PrepareCommit, PrepareFails, Unwind,
             FinishCommitWrite, FinishCommitSync, LockFree, dirVars, IInv, CallInv
    <2> QED
      BY <2>1, <2>2, LatestKept
  <1>4. CASE FinishCommitGen
    <2>1. CommitsKept
      BY <1>4, KeptCommitting
    <2>2. /\ pc = "fcGen" /\ pc' = "fcCheckpoint"
          /\ segGen' = toSync.generation \/ segGen' = None
          /\ UNCHANGED <<toSync, status>>
      BY <1>4 DEF FinishCommitGen
    <2>3. status = "open"
      BY <2>2 DEF IInv, CallInv
    <2>4. None <= acked
      BY DEF TypeInv, TypeOK, None
    <2>5. segGen' <= acked' \/ segGen' = toSync'.generation
      BY <2>1, <2>2, <2>4 DEF CommitsKept
    <2> QED
      BY <2>1, <2>2, <2>3, <2>5 DEF LatestInv, CommitsKept
  <1>5. CASE FinishCommitCheckpoint
    BY <1>0, <1>5, LatestCheckpoint
  <1>6. CASE status = "open" /\ (\/ \E o \in {"rollback", "deleteAll"} : FinishMerges(o)
             \/ Rollback \/ DeleteAll \/ Close \/ TakeSnapshot
             \/ ReleaseSnapshot \/ Unlink \/ UNCHANGED vars)
    <2>1. CommitsKept
      BY <1>6, KeptShutDown
    <2>2. /\ status' = "open" /\ segGen' = segGen
      BY <1>6 DEF FinishMerges, Rollback, DeleteAll, Close, TakeSnapshot,
             ReleaseSnapshot, Unlink, vars, dirVars
    <2>3. pc # "fcCheckpoint" \/ (pc' = pc /\ toSync' = toSync)
      BY <1>6 DEF FinishMerges, Rollback, DeleteAll, Close, TakeSnapshot,
             ReleaseSnapshot, Unlink, vars, userVars
    <2> QED
      BY <1>6, <2>1, <2>2, <2>3 DEF LatestInv, CommitsKept
  <1>7. CASE status # "open" /\ (\/ \E o \in {"rollback", "deleteAll"} : FinishMerges(o)
             \/ Rollback \/ DeleteAll \/ Close \/ TakeSnapshot
             \/ ReleaseSnapshot \/ Unlink \/ UNCHANGED vars)
    <2>1. ifd.doomed = {}
      BY <1>7 DEF FilesInv, PlaceInv, NoDeleter
    <2>2. UNCHANGED <<sis, segGen, status, acked>>
      BY <1>7, <2>1 DEF FinishMerges, Rollback, DeleteAll, Close, TakeSnapshot,
             ReleaseSnapshot, Unlink, LockFree, vars, dirVars, histVars
    <2> QED
      BY <1>7, <2>2 DEF LatestInv
  <1>8. CASE CloseDone
    BY <1>8, LatestCloseDone
  <1>9. CASE Crash \/ StartCommitOutOfRange
    BY <1>9, LatestDie
  <1>10. CASE \E create \in BOOLEAN : Open(create)
    BY <1>0, <1>10, LatestOpen
  <1> QED
    BY <1>1, <1>2, <1>3, <1>4, <1>5, <1>6, <1>7, <1>8, <1>9, <1>10 DEF Next

-----------------------------------------------------------------------------
\* An open writer's steps keep what was acknowledged.
LEMMA GaplessKept ==
    ASSUME TypeInv, Gapless, status' = "open", acked' = acked,
           DOMAIN sis' \subseteq DOMAIN sis \cup {acked + 1},
           LatestInv', FilesInv', WriteStep
    PROVE  Gapless'
  <1>1. acked' \in DOMAIN sis'
    <2>1. PICK c \in ifd'.commits : c.generation = acked'
      BY DEF LatestInv
    <2>2. IsPoint(c)'
      BY DEF FilesInv, PointInv
    <2> QED
      BY <2>1, <2>2 DEF IsPoint
  <1>2. acked \in Nat
    BY DEF TypeInv, TypeOK
  <1>3. ASSUME NEW h \in DOMAIN sis', h <= acked
        PROVE  sis'[h].valid /\ Segments(h) \in stable'
    <2>1. h \in DOMAIN sis /\ sis[h].valid /\ Segments(h) \in stable
      BY <1>2, <1>3 DEF Gapless
    <2>2. Segments(h) \in files'
      BY <1>3 DEF FilesInv, DirectoryInv
    <2>3. sis'[h] = sis[h]
      BY <1>3, <2>1 DEF WriteStep
    <2> QED
      BY <2>1, <2>2, <2>3 DEF WriteStep
  <1>4. \A h \in DOMAIN sis' : h <= acked + 1
    BY <1>2 DEF Gapless
  <1> QED
    BY <1>1, <1>3, <1>4 DEF Gapless

\* Before a commit is prepared the generation is that of the last one.
LEMMA GapPrepare ==
    ASSUME IInv, TypeInv, GapInv, PrepareCommit
    PROVE  NextInLine' /\ DOMAIN sis' = DOMAIN sis \cup {acked + 1}
  <1>1. /\ pc = "turn" /\ status = "open" /\ acked' = acked /\ status' = status
        /\ DOMAIN sis' = DOMAIN sis \cup {Prepared.generation}
        /\ toSync' = Prepared /\ infos' = UpdateGeneration(infos, Prepared)
        /\ pending' = TRUE /\ pc' \in {"idle", "fcWrite"}
    BY DEF PrepareCommit, SegmentsFileStarted, LockFree, GoTo, histVars
  <1>2. ~pending
    BY <1>1 DEF IInv, CallInv
  <1>3. infos.generation = acked /\ toSync.generation = acked /\ acked \in Nat
    BY <1>1, <1>2 DEF GapInv, Gapless, NextInLine, RolledBack, TypeInv, TypeOK
  <1>4. Prepared.generation = acked + 1
    <2>1. Prepared = [toSync EXCEPT !.generation = NextGeneration(toSync)]
      BY <1>3 DEF Prepared
    <2>2. NextGeneration(toSync) = acked + 1
      BY <1>3 DEF NextGeneration, None
    <2> QED
      BY <2>1, <2>2 DEF IInv, GenInv, IsInfos
  <1>5. infos'.generation = acked + 1
    BY <1>1, <1>4 DEF UpdateGeneration, IInv, GenInv, IsInfos
  <1> QED
    BY <1>1, <1>4, <1>5 DEF NextInLine

\* The commit that becomes the acknowledged one is whole and on stable storage.
LEMMA GapCheckpoint ==
    ASSUME IInv, IInv', TypeInv, TypeInv', FilesInv, FilesInv', LatestInv,
           LatestInv', GapInv, FinishCommitCheckpoint
    PROVE  GapInv'
  <1> DEFINE g == toSync.generation
  <1>1. /\ pc = "fcCheckpoint" /\ acked' = g /\ pending' = FALSE
        /\ infos' = UpdateGeneration(infos, toSync)
        /\ pc' \in {"idle", "closing"}
        /\ UNCHANGED <<sis, stable, status>>
    BY DEF FinishCommitCheckpoint, ReleasePending, GoTo, dirVars
  <1>2. pending /\ status = "open"
    BY <1>1 DEF IInv, CallInv
  <1>3. g = acked + 1 /\ acked \in Nat
    BY <1>2 DEF GapInv, Gapless, NextInLine, TypeInv, TypeOK
  <1>4. g \in DOMAIN sis /\ sis[g].valid /\ Segments(g) \in stable
    BY <1>1, <1>2 DEF FilesInv, SyncInv
  <1>5. Gapless'
    <2>1. \A h \in DOMAIN sis : h \in Nat
      BY CounterTypes DEF TypeInv
    <2>2. \A h \in DOMAIN sis : h <= acked \/ h = g
      BY <1>3, <2>1 DEF GapInv, Gapless, NextInLine
    <2>3. \A h \in DOMAIN sis : /\ h <= g + 1
                                /\ sis[h].valid /\ Segments(h) \in stable
      BY <1>3, <1>4, <2>1, <2>2 DEF GapInv, Gapless, NextInLine
    <2> QED
      BY <1>1, <1>3, <1>4, <2>3 DEF Gapless
  <1>6. infos'.generation = g
    BY <1>1 DEF UpdateGeneration, IInv, GenInv, IsInfos
  <1>7. NextInLine'
    BY <1>1, <1>6 DEF NextInLine
  <1> QED
    BY <1>5, <1>7 DEF GapInv

\* A crash takes away nothing that was acknowledged.
LEMMA GapDie ==
    ASSUME IInv, TypeInv, FilesInv, LatestInv, GapInv,
           Crash \/ StartCommitOutOfRange
    PROVE  GapInv'
  <1>1. Die /\ status = "open"
    BY DEF Crash, StartCommitOutOfRange, LockFree
  <1>2. status' = "crashed" /\ acked' = acked /\ pc' = "idle" /\ pending' = FALSE
    BY <1>1 DEF Die, Forget, GoTo
  <1>3. /\ acked \in DOMAIN sis
        /\ Segments(acked) \in stable /\ Segments(acked) \in HeldFiles
    BY <1>1, AckedIsPoint
  <1>4. Segments(acked) \notin ifd.doomed
    BY <1>1, <1>3 DEF FilesInv, TidyInv, Tidy, HeldFiles
  <1>5. acked \in DOMAIN sis'
    BY <1>1, <1>3, <1>4, DieLeaves
  <1>6. \A h \in DOMAIN sis' : /\ h <= acked + 1
                               /\ h <= acked => /\ sis'[h].valid
                                                /\ Segments(h) \in stable'
    <2> SUFFICES ASSUME NEW h \in DOMAIN sis'
                 PROVE  /\ h <= acked + 1
                        /\ h <= acked => sis'[h].valid /\ Segments(h) \in stable'
      OBVIOUS
    <2>1. h \in DOMAIN sis
      BY <1>1, DieLeaves
    <2> QED
      BY <1>1, <2>1, DieLeaves DEF GapInv, Gapless, NextInLine
  <1> QED
    BY <1>2, <1>5, <1>6 DEF GapInv, Gapless, NextInLine

\* The next writer takes up the generation of the commit it goes on from.
LEMMA GapOpen ==
    ASSUME IInv, TypeInv, FilesInv, FilesInv', LatestInv, GapInv,
           NEW create \in BOOLEAN, Open(create)
    PROVE  GapInv'
  <1>1. /\ status # "open" /\ status' = "open"
        /\ UNCHANGED <<sis, stable, pc, pending>>
    BY DEF Open, dirVars, userVars
  <1>2. /\ infos'.generation = acked' /\ acked' \in DOMAIN sis /\ acked <= acked'
        /\ \A h \in DOMAIN sis : sis[h].valid <=> h <= acked'
    BY LatestOpen
  <1>3. /\ \A h \in DOMAIN sis : h \in Nat
        /\ acked \in Nat /\ acked' \in Nat /\ ~pending /\ pc = "idle"
    BY <1>1, <1>2, CounterTypes DEF TypeInv, TypeOK, IInv, CallInv
  <1>4. Segments(acked') \in stable
    <2>1. sis[acked'].valid
      BY <1>2, <1>3
    <2>2. ~(\E h \in DOMAIN sis : h > acked' /\ sis[h].valid)
      BY <1>2, <1>3
    <2> QED
      BY <1>1, <1>2, <2>1, <2>2 DEF FilesInv, RestInv
  <1>5. \A h \in DOMAIN sis : h <= acked \/ h = acked' \/ h = acked + 1
    BY <1>3 DEF GapInv, Gapless, NextInLine
  <1>6. \A h \in DOMAIN sis : h <= acked' + 1
    BY <1>2, <1>3 DEF GapInv, Gapless, NextInLine
  <1>7. \A h \in DOMAIN sis : h <= acked' => h <= acked \/ h = acked'
    BY <1>2, <1>3, <1>5 DEF GapInv, Gapless, NextInLine
  <1>8. \A h \in DOMAIN sis : h <= acked' => sis[h].valid /\ Segments(h) \in stable
    BY <1>2, <1>4, <1>7 DEF GapInv, Gapless
  <1>9. acked' > 0
    BY <1>2, <1>3 DEF GapInv, Gapless, NextInLine
  <1> QED
    BY <1>1, <1>2, <1>3, <1>6, <1>8, <1>9 DEF GapInv, Gapless, NextInLine

\* Every step that fails no write keeps generations without a gap.
LEMMA NextGap ==
    ASSUME Reliable, ~SegmentsWriteMayFail, IInv, TypeInv, FilesInv, LatestInv, GapInv,
           [Next]_vars
    PROVE  GapInv'
  <1>0. /\ IInv' /\ TypeInv' /\ FilesInv' /\ WriteStep /\ LatestInv'
    BY NextIInv, NextTypes, NextFiles, NextLatest
  <1>1. ASSUME status' = "open", acked' = acked, NextInLine',
               DOMAIN sis' \subseteq DOMAIN sis \cup {acked + 1}
        PROVE  GapInv'
    BY <1>0, <1>1, GaplessKept DEF GapInv
  <1>2. CASE \/ AddDocument \/ Flush
             \/ \E i, j \in DOMAIN infos.segs : MergeInit(i, j)
             \/ MergeOpen \/ CommitMerge \/ ReleaseMerged \/ AbortMerge
    <2>1. /\ status = "open" /\ status' = "open"
          /\ UNCHANGED <<sis, acked, pc, op, toSync, pending>>
      BY <1>2 DEF AddDocument, Flush, MergeInit, MergeOpen, CommitMerge,
             ReleaseMerged, AbortMerge, Indexing, LockFree, dirVars, userVars, histVars
    <2>2. IsInfos(infos)
      BY DEF IInv, GenInv
    <2>3. infos'.generation = infos.generation
      <3>1. CASE AddDocument
        BY <2>2, <3>1 DEF AddDocument, IsInfos
      <3>2. CASE Flush
        <4>1. infos' = infos \/ \E S : infos' = [infos EXCEPT !.segs = S]
          BY <3>2 DEF Flush, FlushSucceeds, FlushThrows, CompoundThrows,
                      StoresThrow
        <4> QED
          BY <2>2, <4>1 DEF IsInfos
      <3>3. CASE \E i, j \in DOMAIN infos.segs : MergeInit(i, j)
        <4>1. PICK i, j \in DOMAIN infos.segs : MergeInit(i, j)
          BY <3>3
        <4>2. \E w2 : infos' = [infos EXCEPT !.segs = w2.segs, !.counter = @ + 1]
          BY <4>1 DEF MergeInit
        <4> QED
          BY <2>2, <4>2 DEF IsInfos
      <3>4. CASE MergeOpen \/ CommitMerge \/ ReleaseMerged \/ AbortMerge
        <4>1. infos' = infos \/ \E S : infos' = [infos EXCEPT !.segs = S]
          BY <3>4 DEF MergeOpen, CommitMerge, ReleaseMerged, AbortMerge
        <4> QED
          BY <2>2, <4>1 DEF IsInfos
      <3> QED
        BY <1>2, <3>1, <3>2, <3>3, <3>4
    <2> QED
      BY <1>1, <2>1, <2>3 DEF GapInv, NextInLine, RolledBack
  <1>3. CASE \/ DeleteDocuments \/ MergeWrite
             \/ status = "open" /\ (TakeSnapshot \/ ReleaseSnapshot \/ UNCHANGED vars)
             \/ Unlink
    <2>1. /\ status = "open" /\ status' = "open" /\ DOMAIN sis' \subseteq DOMAIN sis
          /\ UNCHANGED <<infos, acked, pc, op, toSync, pending>>
      <3>1. CASE DeleteDocuments
        BY <3>1 DEF DeleteDocuments, LockFree, Indexing, dirVars, userVars, histVars
      <3>2. CASE MergeWrite
        BY <3>2 DEF MergeWrite, LockFree, Indexing, dirVars, userVars, histVars
      <3>3. CASE status = "open" /\ TakeSnapshot
        BY <3>3 DEF TakeSnapshot, dirVars, userVars, histVars
      <3>4. CASE status = "open" /\ ReleaseSnapshot
        BY <3>4 DEF ReleaseSnapshot, dirVars, userVars, histVars
      <3>5. CASE status = "open" /\ UNCHANGED vars
        BY <3>5 DEF vars, dirVars, userVars, histVars
      <3>6. CASE Unlink
        <4>1. status = "open"
          BY <3>6 DEF Unlink, FilesInv, PlaceInv, NoDeleter
        <4> QED
          BY <3>6, <4>1 DEF Unlink, Removed, Without, userVars, histVars
      <3> QED
        BY <1>3, <3>1, <3>2, <3>3, <3>4, <3>5, <3>6
    <2> QED
      BY <1>1, <2>1 DEF GapInv, NextInLine, RolledBack
  <1>4. CASE status # "open" /\ (ReleaseSnapshot \/ UNCHANGED vars)
    <2>1. UNCHANGED <<sis, stable, infos, acked, pc, op, toSync, pending, status>>
      BY <1>4 DEF ReleaseSnapshot, dirVars, userVars, vars, histVars
    <2> QED
      BY <2>1 DEF GapInv, Gapless, NextInLine, RolledBack
  <1>5. CASE \/ \E o \in {"prepare", "commit", "close"} : BeginCommit(o)
             \/ DeleteAll \/ Close
    <2>1. /\ status = "open" /\ status' = "open"
          /\ UNCHANGED <<sis, acked, toSync, pending>>
          /\ pc' \in {"idle", "flushed", "drain"}
          /\ RolledBack => RolledBack'
      BY <1>5 DEF BeginCommit, DeleteAll, Close, LockFree, GoTo, dirVars,
             histVars, RolledBack
    <2>2. infos' = infos \/ \E S : infos' = [infos EXCEPT !.segs = S]
      BY <1>5 DEF BeginCommit, FlushSucceeds, FlushThrows, CompoundThrows,
             StoresThrow, DeleteAll, Close
    <2>3. infos'.generation = infos.generation
      BY <2>2 DEF IInv, GenInv, IsInfos
    <2> QED
      BY <1>1, <2>1, <2>3 DEF GapInv, NextInLine
  <1>6. CASE \/ CommitPrepared \/ NothingToCommit \/ SyncFails \/ SyncDone
             \/ (\E f \in InfosFiles(toSync.segs) : SyncFile(f))
             \/ FinishCommitGen
             \/ \E o \in {"rollback", "deleteAll"} : FinishMerges(o)
    <2>1. /\ status = "open" /\ status' = "open"
          /\ UNCHANGED <<sis, acked, infos, toSync, pending>>
          /\ pc' \in {"sync", "turn", "unwind"} => pc \in {"sync", "turn", "unwind"}
          /\ RolledBack' => RolledBack
          /\ ~RolledBack
      BY <1>6 DEF CommitPrepared, NothingToCommit, SyncFails, SyncDone, SyncFile,
             FinishCommitGen, FinishMerges, LockFree, GoTo, dirVars, userVars,
             histVars, RolledBack, IInv, CallInv
    <2> QED
      BY <1>1, <2>1 DEF GapInv, NextInLine
  <1>7. CASE StartCommit
    <2>1. /\ status = "open" /\ status' = "open" /\ pc = "flushed" /\ pc' = "sync"
          /\ UNCHANGED <<sis, acked, pending, op>>
          /\ \E S : infos' = [infos EXCEPT !.segs = S]
          /\ \E S : toSync' = [infos EXCEPT !.segs = S]
      BY <1>7 DEF StartCommit, LockFree, histVars
    <2>2. ~pending
      BY <2>1 DEF IInv, CallInv
    <2>3. infos'.generation = infos.generation /\ toSync'.generation = infos.generation
      BY <2>1 DEF IInv, GenInv, IsInfos
    <2> QED
      BY <1>1, <2>1, <2>2, <2>3 DEF GapInv, NextInLine, RolledBack
  <1>8. CASE PrepareCommit
    <2>1. status' = "open" /\ acked' = acked
      BY <1>8 DEF PrepareCommit, LockFree, histVars
    <2> QED
      BY <1>1, <1>8, <2>1, GapPrepare
  <1>9. CASE PrepareFails
    BY <1>9 DEF PrepareFails
  <1>10. CASE Unwind
    <2>1. /\ status = "open" /\ status' = "open" /\ pc = "unwind" /\ pc' = "idle"
          /\ UNCHANGED <<sis, acked, infos, pending>>
      BY <1>10 DEF Unwind, LockFree, GoTo, dirVars, histVars
    <2>2. ~pending
      BY <2>1 DEF IInv, CallInv
    <2> QED
      BY <1>1, <2>1, <2>2 DEF GapInv, NextInLine, RolledBack
  <1>11. CASE FinishCommitWrite \/ FinishCommitSync
    <2>0. pc = "fcSync" => Segments(toSync.generation) \in files
      BY DEF IInv, CallInv, FilesInv, SyncInv, DirectoryInv
    <2>1. /\ pc \in {"fcWrite", "fcSync"} /\ pc' \in {"fcSync", "fcGen"}
          /\ DOMAIN sis' = DOMAIN sis
          /\ UNCHANGED <<acked, infos, pending, status>>
          /\ toSync'.generation = toSync.generation
      BY <1>11, <2>0 DEF FinishCommitWrite, FinishCommitSync, SegmentsFileDone,
             histVars, Reliable, IInv, GenInv, IsInfos
    <2>2. status = "open"
      BY <2>1 DEF IInv, CallInv
    <2> QED
      BY <1>1, <2>1, <2>2 DEF GapInv, NextInLine, RolledBack
  <1>12. CASE FinishCommitCheckpoint
    BY <1>0, <1>12, GapCheckpoint
  <1>13. CASE Rollback
    <2>1. /\ status = "open" /\ status' = "open" /\ pc' = "closing" /\ op = "rollback"
          /\ op' = op /\ UNCHANGED acked /\ pending' = FALSE
          /\ DOMAIN sis' \subseteq DOMAIN sis
      BY <1>13 DEF Rollback, Removed, Without, LockFree, GoTo, histVars
    <2> QED
      BY <1>1, <2>1 DEF NextInLine, RolledBack
  <1>14. CASE CloseDone
    <2>1. /\ status' = "closed" /\ pc' = "idle" /\ pending' = FALSE
          /\ UNCHANGED <<sis, stable, acked>>
      BY <1>14 DEF CloseDone, Forget, GoTo, dirVars, histVars
    <2> QED
      BY <2>1 DEF GapInv, Gapless, NextInLine
  <1>15. CASE Crash \/ StartCommitOutOfRange
    BY <1>15, GapDie
  <1>16. CASE \E create \in BOOLEAN : Open(create)
    BY <1>0, <1>16, GapOpen
  <1> QED
    BY <1>2, <1>3, <1>4, <1>5, <1>6, <1>7, <1>8, <1>9, <1>10, <1>11, <1>12,
       <1>13, <1>14, <1>15, <1>16 DEF Next, TakeSnapshot

-----------------------------------------------------------------------------
\* The directory a writer first finds holds one commit.
LEMMA InitLatest ==
    ASSUME Init
    PROVE  LatestInv /\ GapInv
  <1>1. /\ DOMAIN sis = {1} /\ sis[1].valid /\ stable = {Segments(1)} /\ segGen = 1
        /\ acked = 1 /\ status = "closed" /\ ~pending /\ pc = "idle"
    BY DEF Init
  <1>2. LatestInv
    BY <1>1 DEF LatestInv
  <1>3. Gapless
    BY <1>1 DEF Gapless
  <1> QED
    BY <1>1, <1>2, <1>3 DEF GapInv, NextInLine

\* What doRun comes to in a directory with at most one segments_N that cannot
\* be read, behind the newest that can.
LEMMA FindSegmentsLast ==
    ASSUME NEW F, NEW S, NEW s \in Nat \cup {None}, NEW n \in Nat, n > 0,
           DOMAIN S \subseteq Nat, n \in DOMAIN S,
           \A h \in DOMAIN S : /\ h <= n + 1 /\ Segments(h) \in F
                               /\ h <= n => S[h].valid,
           \E h \in DOMAIN S : S[h].valid /\ s <= h
    PROVE  LET g == FindSegments(F, S, s)
           IN  /\ g \in DOMAIN S /\ g \in {n, n + 1} /\ S[g].valid
               /\ \A h \in DOMAIN S : S[h].valid => h <= g
  <1> DEFINE gens == CommitGenerations(F, S)
             genA == CurrentSegmentGeneration(F, S)
             gen == IF s > genA THEN s ELSE genA
             ok(g) == g \in DOMAIN S /\ Readable(F, S, g)
             ahead == {g \in (gen + 1)..(gen + LookaheadCount) : ok(g)}
  <1>1. gens = DOMAIN S
    BY DEF CommitGenerations
  <1>2. PICK m \in DOMAIN S : m \in {n, n + 1} /\ \A h \in DOMAIN S : h <= m
    <2>1. CASE n + 1 \in DOMAIN S
      BY <2>1
    <2>2. CASE n + 1 \notin DOMAIN S
      <3>1. \A h \in DOMAIN S : h <= n
        BY <2>2
      <3> QED
        BY <3>1
    <2> QED
      BY <2>1, <2>2
  <1>3. genA = m
    <2>1. genA = CHOOSE g \in DOMAIN S : \A h \in DOMAIN S : h <= g
      BY <1>1, <1>2 DEF CurrentSegmentGeneration
    <2>2. genA \in DOMAIN S /\ \A h \in DOMAIN S : h <= genA
      BY <1>2, <2>1
    <2> QED
      BY <1>2, <2>2
  <1>4. s <= m
    BY <1>2 DEF None
  <1>5. gen = m
    BY <1>2, <1>3, <1>4 DEF None
  <1>6. FindSegments(F, S, s) =
           IF gen = None THEN None
           ELSE IF ok(gen) THEN gen
           ELSE IF gen > 1 /\ ok(gen - 1) THEN gen - 1
           ELSE IF ahead # {} THEN CHOOSE g \in ahead : \A h \in ahead : g <= h
           ELSE None
    BY DEF FindSegments
  <1>7. \A g \in DOMAIN S : ok(g) <=> S[g].valid
    BY DEF Readable
  <1> HIDE DEF gen, ok, ahead, genA, gens
  <1>8. CASE S[m].valid
    <2>1. FindSegments(F, S, s) = m
      BY <1>2, <1>5, <1>6, <1>7, <1>8 DEF None
    <2> QED
      BY <1>2, <1>8, <2>1
  <1>9. CASE ~S[m].valid
    <2>1. m = n + 1 /\ gen > 1 /\ gen - 1 = n /\ ok(n) /\ ~ok(gen) /\ gen # None
      BY <1>2, <1>5, <1>7, <1>9 DEF None
    <2>2. FindSegments(F, S, s) = n
      BY <1>6, <2>1
    <2>3. \A h \in DOMAIN S : S[h].valid => h <= n
      BY <1>2, <1>9, <2>1
    <2> QED
      BY <2>2, <2>3
  <1> QED
    BY <1>8, <1>9

\* After a crash or a close the index can be opened, at the commit that was
\* acknowledged last or the one after it, with all its files, provided no
\* write fails as well: a commit that throws leaves a gap in the generations,
\* which FindSegmentsFile does not look across.
THEOREM IndexIsRecoverable ==
    ASSUME Reliable, ~SegmentsWriteMayFail
    PROVE  Spec => []Recoverable
  <1>1. IInv /\ TypeInv /\ FilesInv /\ LatestInv /\ GapInv => Recoverable
    <2> SUFFICES ASSUME IInv, TypeInv, FilesInv, LatestInv, GapInv,
                        status # "open"
                 PROVE  LET g == FindSegments(files, sis, segGen)
                        IN  /\ g # None /\ g >= acked
                            /\ InfosFiles(sis[g].segs) \cup {Segments(g)}
                                 \subseteq files \cap stable
                            /\ \A h \in DOMAIN sis : h <= g => sis[h].valid
      BY DEF Recoverable
    <2> DEFINE g == FindSegments(files, sis, segGen)
    <2>1. /\ acked \in Nat /\ segGen \in Nat \cup {None}
          /\ DOMAIN sis \subseteq Nat
      BY DEF TypeInv, TypeOK
    <2>2. \A h \in DOMAIN sis : Segments(h) \in files
      BY DEF FilesInv, DirectoryInv
    <2>3. /\ g \in DOMAIN sis /\ g \in {acked, acked + 1} /\ sis[g].valid
          /\ \A h \in DOMAIN sis : sis[h].valid => h <= g
      BY <2>1, <2>2, FindSegmentsLast DEF GapInv, Gapless, LatestInv
    <2> HIDE DEF g
    <2>4. InfosFiles(sis[g].segs) \cup {Segments(g)} \subseteq stable
      <3>1. ~(\E h \in DOMAIN sis : h > g /\ sis[h].valid)
        BY <2>1, <2>3
      <3> QED
        BY <2>3, <3>1 DEF FilesInv, RestInv
    <2>5. stable \subseteq files
      BY DEF FilesInv, DirectoryInv
    <2>6. g # None /\ g >= acked
      BY <2>1, <2>3 DEF None
    <2>7. \A h \in DOMAIN sis : h <= g => sis[h].valid
      BY <2>1, <2>3 DEF GapInv, Gapless
    <2> QED
      BY <2>4, <2>5, <2>6, <2>7 DEF g
  <1>2. Init => LatestInv /\ GapInv
    BY InitLatest
  <1>3. IInv /\ TypeInv /\ FilesInv /\ LatestInv /\ GapInv /\ [Next]_vars
            => LatestInv' /\ GapInv'
    BY NextLatest, NextGap
  <1> QED
    BY <1>1, <1>2, <1>3, FilesInOrder, PTL DEF Spec

=============================================================================
