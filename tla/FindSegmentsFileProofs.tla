----------------------- MODULE FindSegmentsFileProofs -----------------------
(***************************************************************************)
(* Proofs about FindSegmentsFile: what a reader finds while a writer       *)
(* commits, for any number of commits.                                     *)
(***************************************************************************)
EXTENDS FindSegmentsFile, WellFoundedInduction, TLAPS

-----------------------------------------------------------------------------
(***************************************************************************)
(* The inductive invariant.                                                *)
(***************************************************************************)
\* The commits whose segments_N is in the directory, whole or not
Listed == {g \in Generations : Segments(g) \in files}

\* Commit n is the newest that can be read, and nothing of it is missing or
\* will be removed.
Whole(n) == /\ sis[n].valid
            /\ CommitFiles(n) \subseteq files
            /\ CommitFiles(n) \cap writer.doomed = {}

IsNewest(n) == /\ n \in Generations /\ Whole(n)
               /\ \A g \in Listed : sis[g].valid => g <= n

\* Between the newest commit and generation g all commits failed.
Skipped(n, g) == \A k \in Generations : n < k /\ k < g => k \in failed

Finished == {"removeGen", "createGen", "fillGen", "checkpoint"}

(***************************************************************************)
(* The directory, n being the newest commit.  Its writer has kept every    *)
(* commit point whole; it removes whatever else there is before it goes    *)
(* on, and between two commits there is nothing else.                      *)
(***************************************************************************)
Directory(n) ==
    /\ IsNewest(n)
    /\ \A g \in Generations : sis[g].segs \subseteq 1..g
    /\ segGen <= n
    /\ \A g \in Listed : g - 1 <= n \/ g - 1 \in failed
    /\ writer.pc = "closed" =>
          /\ \A g \in Listed : g <= n + 1
          /\ \A f \in writer.doomed : \E g \in Generations : g > n /\ f = Core(g)
    /\ writer.pc # "closed" =>
          /\ \A g \in writer.points : Whole(g)
          /\ writer.generation \in Generations
    /\ writer.pc = "idle" =>
          /\ writer.last = n /\ n \in writer.points /\ n <= writer.generation
          /\ Skipped(n, writer.generation + 1)
          /\ \A g \in Listed : g \in writer.points \/ Segments(g) \in writer.doomed
    /\ writer.pc \notin {"closed", "idle"} =>
          /\ writer.doomed = {} /\ Listed = writer.points \cup {writer.generation}
    /\ writer.pc = "prepared" =>
          /\ writer.last = n /\ n \in writer.points /\ n < writer.generation
          /\ Skipped(n, writer.generation)
          /\ ~sis[writer.generation].valid
          /\ CommitFiles(writer.generation) \subseteq files
          /\ Core(writer.generation) \in files
    /\ writer.pc \in Finished => writer.generation = n

(***************************************************************************)
(* What was removed since the reader began was not the newest commit then, *)
(* or a newer one has come; and then no older one is left but those that   *)
(* were kept.                                                              *)
(***************************************************************************)
Since(n) ==
    /\ atStart.newest <= n
    /\ \A g \in writer.points : g < atStart.newest => g \in atStart.points
    /\ n > atStart.newest =>
          \A g \in Listed : g < atStart.newest => g \in atStart.points

\* The reader looks for no older commit than the newest when it began, as
\* long as that is the newest.
LooksAhead(n) ==
    /\ n = atStart.newest =>
          /\ reader.pc = "list" => reader.genA >= n \/ n \in reader.unseen
          /\ reader.pc = "gen" => reader.genA >= n
          /\ reader.pc \in {"choose", "read", "segments", "prior"} => reader.gen >= n
          /\ reader.pc = "read" => reader.at >= n
          /\ reader.pc = "prior" => reader.gen - 1 >= n
          /\ reader.pc # "noFile"
    /\ AtomicListing => /\ reader.pc = "gen" => reader.genA # None
                        /\ reader.pc # "noFile"
    /\ reader.pc = "segments" =>
          /\ reader.at \in Generations /\ reader.at <= n /\ sis[reader.at].valid
          /\ reader.toOpen \subseteq sis[reader.at].segs /\ reader.toOpen # {}
          /\ \/ reader.at >= atStart.newest \/ reader.at \in atStart.points

\* Generation g is that of a commit the writer has begun: the one before is
\* finished, or has failed.  So is the one of g itself, or it has a successor.
Begun(n, g)   == g - 1 <= n \/ g - 1 \in failed
Reached(n, g) == g <= n \/ g - 1 \in failed
Passed(n, g)  == g < n \/ g - 1 \in failed

(***************************************************************************)
(* Why the reader goes on.  After it has failed on a generation, and on    *)
(* the one before, the commit of that generation is finished; after it     *)
(* has failed on that one again, there is a newer one, and so with each    *)
(* one the look-ahead fails on.                                            *)
(***************************************************************************)
Retries(n) ==
    LET r == reader
        base == r.gen - r.ahead
    IN  /\ Begun(n, r.genA)
        /\ r.pc \notin {"list", "gen"} => r.genA = None
        /\ r.method = 0 => r.ahead = 0
        /\ r.method = 0 /\ r.lastGen = None => ~r.retry
        /\ r.method = 1 => /\ r.retry /\ r.lastGen = r.gen
                           /\ r.pc \notin {"list", "gen", "prior"}
        /\ r.pc \in {"list", "gen", "choose"} /\ r.method = 0 /\ r.lastGen # None =>
              IF r.retry THEN Passed(n, r.lastGen) ELSE Reached(n, r.lastGen)
        /\ r.pc = "choose" =>
              /\ r.gen \in Nat \ {0}
              /\ r.method = 0 => Begun(n, r.gen)
              /\ r.method = 1 => r.gen < n \/ base - 1 \in failed
        /\ r.pc \in {"read", "segments", "prior"} =>
              /\ r.gen \in Nat \ {0} /\ r.lastGen = r.gen
              /\ r.method = 0 => /\ Begun(n, r.gen)
                                 /\ r.retry => Reached(n, r.gen)
              /\ r.method = 1 => r.gen <= n \/ base - 1 \in failed
        /\ r.pc \in {"read", "segments"} =>
              \/ r.at = r.gen
              \/ r.at = r.gen - 1 /\ r.gen > 1 /\ ~r.retry /\ r.method = 0
        /\ r.pc = "prior" => r.gen > 1 /\ ~r.retry
        /\ r.pc = "threw" => /\ r.ahead = LookaheadCount
                             /\ r.gen < n \/ base - 1 \in failed

\* Generation g is the largest in the directory.
Largest(g) == g \in Listed /\ \A h \in Listed : h <= g

\* Neither commit g nor the one before can be read.
Nothing(g) == /\ ~sis[g].valid
              /\ ~(g - 1 \in Listed /\ sis[g - 1].valid)

\* What the reader finds in a directory that does not change.
Quiet ==
    LET r == reader
    IN  quiet /\ Reading =>
        /\ r.pc = "list" => /\ \A g \in Listed \ r.unseen : g <= r.genA
                            /\ r.genA \in Listed \cup {None}
        /\ r.pc = "gen" => Largest(r.genA)
        /\ r.method = 0 =>
              /\ r.pc \in {"choose", "read", "segments", "prior"} => Largest(r.gen)
              /\ r.pc \in {"list", "gen", "choose"} /\ r.lastGen # None =>
                    Largest(r.lastGen) /\ Nothing(r.lastGen)
              /\ r.pc \in {"read", "segments"} /\ r.retry => Nothing(r.gen)
              /\ r.pc = "prior" \/ (r.pc \in {"read", "segments"} /\ r.at # r.gen) =>
                    ~sis[r.gen].valid
        /\ r.method = 1 => Largest(r.gen - r.ahead) /\ Nothing(r.gen - r.ahead)
        /\ r.pc = "segments" => r.at \in Listed

Types == /\ TypeOK
         /\ reader.tries < GenFileRetries

IInv == /\ Types
        /\ \E n \in Generations :
              Directory(n) /\ Since(n) /\ LooksAhead(n) /\ Retries(n)
        /\ Quiet

-----------------------------------------------------------------------------
(***************************************************************************)
(* Generations and names.                                                  *)
(***************************************************************************)
\* A set of generations has a largest one.
LEMMA LargestExists ==
    ASSUME NEW S \in SUBSET Generations, S # {}
    PROVE  \E m \in S : \A k \in S : k <= m
<1> DEFINE R == {ss \in Nat \X Nat : ss[1] < ss[2]}
           T == {MaxGeneration - g : g \in S}
<1>1. IsWellFoundedOn(R, Nat)
  BY NatLessThanWellFounded, Zenon DEF OpToRel
<1>2. /\ MaxGeneration \in Nat
      /\ \A g \in S : g \in Int /\ MaxGeneration - g \in Nat
  BY BoundsAssumption DEF Generations
<1>3. T \in SUBSET Nat /\ T # {}
  BY <1>2
<1>4. \A x, y \in Nat : x < y => <<x, y>> \in R
  OBVIOUS
<1> HIDE DEF R
<1>5. PICK m \in T : \A y \in T : <<y, m>> \notin R
  BY <1>1, <1>3, WFMin, Zenon
<1>6. \A y \in T : ~(y < m)
  BY <1>3, <1>4, <1>5
<1>7. PICK g \in S : m = MaxGeneration - g
  BY <1>5
<1>8. ASSUME NEW k \in S PROVE k <= g
  <2>1. ~(MaxGeneration - k < MaxGeneration - g)
    BY <1>6, <1>7
  <2> QED
    BY <1>2, <2>1
<1> QED
  BY <1>8

LEMMA Names ==
    /\ \A g, h : Segments(g) = Segments(h) => g = h
    /\ \A g, h : Core(g) = Core(h) => g = h
    /\ \A g, h : Core(g) # Segments(h)
BY DEF Segments, Core

\* The newest commit is what its name says.
LEMMA NewestIs ==
    ASSUME NEW n, IsNewest(n)
    PROVE  /\ n \in Commits /\ n \in Listed /\ Newest = n
           /\ \A g \in Commits : g <= n /\ g \in Listed /\ sis[g].valid
           /\ \A g \in Listed : sis[g].valid => g \in Commits
<1>1. Segments(n) \in files /\ sis[n].valid /\ n \in Generations
  BY DEF IsNewest, Whole, CommitFiles
<1>2. \A g : g \in Commits <=> g \in Listed /\ sis[g].valid
  BY DEF Commits, Readable, Listed
<1>3. n \in Commits /\ n \in Listed /\ \A g \in Commits : g <= n
  BY <1>1, <1>2 DEF IsNewest, Listed
<1>4. \A g \in Commits : g \in Int
  BY <1>2, BoundsAssumption DEF Listed, Generations
<1>5. Newest = n
  BY <1>3, <1>4 DEF Newest
<1> QED
  BY <1>2, <1>3, <1>5

LEMMA LargestIs ==
    ASSUME Types, NEW n, IsNewest(n)
    PROVE  /\ Largest(CurrentSegmentGeneration(files, sis))
           /\ \A g : Largest(g) => g = CurrentSegmentGeneration(files, sis)
<1>1. CommitGenerations(files, sis) = Listed
  BY DEF CommitGenerations, Listed, Types, TypeOK
<1>2. Listed \in SUBSET Generations /\ Listed # {}
  BY NewestIs DEF Listed
<1>3. PICK m \in Listed : \A k \in Listed : k <= m
  BY <1>2, LargestExists
<1>4. \A g \in Listed : g \in Int
  BY <1>2, BoundsAssumption DEF Generations
<1>5. CurrentSegmentGeneration(files, sis) =
        CHOOSE g \in Listed : \A h \in Listed : h <= g
  BY <1>1, <1>2 DEF CurrentSegmentGeneration
<1> QED
  BY <1>3, <1>4, <1>5 DEF Largest

\* What FindSegments comes to when the generation in segments.gen is not
\* larger than those in the directory.
LEMMA FindsIs ==
    ASSUME Types, NEW n, IsNewest(n), segGen <= n, NEW g, Largest(g)
    PROVE  FindSegments(files, sis, segGen) =
              IF sis[g].valid THEN g
              ELSE IF g - 1 \in Listed /\ sis[g - 1].valid THEN g - 1
              ELSE None
<1> DEFINE ok(h) == h \in DOMAIN sis /\ Readable(files, sis, h)
           ahead == {h \in (g + 1)..(g + LookaheadCount) : ok(h)}
<1>1. CurrentSegmentGeneration(files, sis) = g
  BY LargestIs
<1>2. /\ g \in Listed /\ n \in Listed /\ n <= g /\ Listed \subseteq Generations
      /\ DOMAIN sis = Generations /\ segGen \in Int
      /\ \A h \in Listed : h <= g
  BY NewestIs, BoundsAssumption DEF Largest, Listed, Types, TypeOK, Generations,
                                    None, Empty
<1>3. \A h \in Listed : h \in Int /\ h >= 1
  BY <1>2, BoundsAssumption DEF Generations
<1>4. \A h : ok(h) <=> h \in Listed /\ sis[h].valid
  BY <1>2 DEF Readable, Listed
<1>5. ahead = {}
  <2>1. ASSUME NEW h \in (g + 1)..(g + LookaheadCount), ok(h) PROVE FALSE
    BY <1>2, <1>3, <1>4, <2>1 DEF LookaheadCount
  <2> QED
    BY <2>1
<1>6. ~(segGen > g) /\ g # None
  BY <1>2, <1>3 DEF None
<1>7. FindSegments(files, sis, segGen) =
        IF ok(g) THEN g ELSE IF g > 1 /\ ok(g - 1) THEN g - 1
        ELSE IF ahead # {} THEN CHOOSE h \in ahead : \A k \in ahead : h <= k
        ELSE None
  BY <1>1, <1>6 DEF FindSegments
<1> HIDE DEF ahead, ok
<1>8. FindSegments(files, sis, segGen) =
        IF ok(g) THEN g ELSE IF g > 1 /\ ok(g - 1) THEN g - 1 ELSE None
  BY <1>5, <1>7
<1>9. g - 1 \in Listed => g > 1
  BY <1>2, <1>3
<1> QED
  BY <1>2, <1>4, <1>8, <1>9

-----------------------------------------------------------------------------
(***************************************************************************)
(* The steps of the writer.                                                *)
(***************************************************************************)
LEMMA Kinds ==
    ASSUME Types
    PROVE  /\ \A g \in Generations : g \in Nat \ {0} /\ g <= MaxGeneration
           /\ \A g \in Int : 1 <= g /\ g <= MaxGeneration => g \in Generations
           /\ MaxGeneration \in Nat
           /\ \A g \in Generations : /\ sis[g].segs \subseteq Generations
                                     /\ sis[g].valid \in BOOLEAN
           /\ DOMAIN sis = Generations
           /\ writer.points \subseteq Generations
           /\ writer.doomed \subseteq files
           /\ writer.generation \in {None} \cup Generations
           /\ writer.last \in {None} \cup Generations
           /\ segGen \in Int
           /\ atStart.newest \in Generations
           /\ failed \subseteq Generations
<1>1. \A g \in Generations : g \in Nat \ {0} /\ g <= MaxGeneration
  BY BoundsAssumption DEF Generations
<1>2. \A g \in Int : 1 <= g /\ g <= MaxGeneration => g \in Generations
  BY BoundsAssumption DEF Generations
<1>3. segGen \in Int
  BY <1>1 DEF Types, TypeOK, None, Empty
<1>4. /\ sis \in [Generations -> [valid: BOOLEAN, segs: SUBSET Generations]]
      /\ failed \subseteq Generations
      /\ atStart.newest \in Generations
  BY DEF Types, TypeOK
<1>5. /\ writer.points \subseteq Generations
      /\ writer.doomed \subseteq files
      /\ writer.generation \in {None} \cup Generations
      /\ writer.last \in {None} \cup Generations
  BY DEF Types, TypeOK
<1> QED
  BY <1>1, <1>2, <1>3, <1>4, <1>5, BoundsAssumption

\* The commits up to the newest stay what they are, and so does what the
\* reader and the failed commits say of them.
Later(n, m) == /\ n <= m
               /\ \A g \in Generations : g <= n => sis'[g] = sis[g]
               /\ failed \subseteq failed'
               /\ UNCHANGED <<reader, atStart>>

\* Whoever opens an index that nobody writes finds its newest commit.
LEMMA FindsNewest ==
    ASSUME Types, NEW n \in Generations, Directory(n), writer.pc = "closed"
    PROVE  FindSegments(files, sis, segGen) = n
<1>1. /\ IsNewest(n) /\ segGen <= n
      /\ \A g \in Listed : g <= n + 1
  BY DEF Directory
<1>2. Listed \subseteq Generations /\ n \in Listed
  BY <1>1, NewestIs DEF Listed
<1>3. PICK g \in Listed : \A h \in Listed : h <= g
  BY <1>2, LargestExists
<1>4. n <= g /\ g <= n + 1 /\ g \in Int /\ n \in Int
  BY <1>1, <1>2, <1>3, Kinds
<1>5. sis[g].valid => g <= n
  BY <1>1 DEF IsNewest
<1>6. g = n \/ (~sis[g].valid /\ g - 1 = n)
  BY <1>4, <1>5
<1>7. sis[n].valid
  BY <1>1 DEF IsNewest, Whole
<1> QED
  BY <1>1, <1>2, <1>3, <1>6, <1>7, FindsIs DEF Largest

\* The writer has found commit n.
LEMMA Opens ==
    ASSUME Types, NEW n \in Generations, Directory(n), Since(n), Open
    PROVE  Directory(n)' /\ Since(n)' /\ Later(n, n)
<1>1. FindSegments(files, sis, segGen) = n
  BY FindsNewest DEF Open, At
<1>2. /\ writer'.pc = "idle" /\ writer'.generation = n /\ writer'.last = n
      /\ writer'.points = {n} /\ writer'.doomed = files \ CommitFiles(n)
      /\ files' = files /\ sis' = sis /\ segGen' = segGen
      /\ reader' = reader /\ atStart' = atStart /\ failed' = failed
  BY <1>1, Zenon DEF Open, dirVars, histVars, Unreferenced, Closed
<1>3. Listed' = Listed /\ \A g : CommitFiles(g)' = CommitFiles(g)
  BY <1>2 DEF Listed, CommitFiles
<1>4. Whole(n)'
  BY <1>2, <1>3 DEF Directory, IsNewest, Whole
<1>5. \A g \in Listed : g = n \/ Segments(g) \in writer'.doomed
  BY <1>2, Names DEF Listed, CommitFiles
<1>6. Directory(n)'
  <2>1. IsNewest(n)'
    BY <1>2, <1>3, <1>4 DEF Directory, IsNewest
  <2>2. Skipped(n, n + 1)'
    BY Kinds DEF Skipped
  <2> QED
    BY <1>2, <1>3, <1>4, <1>5, <2>1, <2>2, Kinds DEF Directory, Finished
<1>7. Since(n)'
  BY <1>2, <1>3, Kinds DEF Since
<1> QED
  BY <1>2, <1>6, <1>7, Kinds DEF Later

\* One of the files the writer removes is gone.
LEMMA Unlinks ==
    ASSUME Types, NEW n \in Generations, Directory(n), Since(n), Unlink
    PROVE  Directory(n)' /\ Since(n)' /\ Later(n, n)
<1>1. PICK f \in writer.doomed :
        /\ files' = files \ {f}
        /\ writer' = [writer EXCEPT !.doomed = @ \ {f}]
        /\ Changes /\ UNCHANGED <<sis, segGen>>
  BY Zenon DEF Unlink
<1>2. /\ writer'.pc = writer.pc /\ writer'.generation = writer.generation
      /\ writer'.last = writer.last /\ writer'.points = writer.points
      /\ writer'.doomed = writer.doomed \ {f}
      /\ sis' = sis /\ segGen' = segGen
      /\ reader' = reader /\ atStart' = atStart /\ failed' = failed
  <2>1. writer \in [pc: {"closed", "idle", "prepared", "removeGen",
                        "createGen", "fillGen", "checkpoint"},
                   generation: {None} \cup Generations,
                   last: {None} \cup Generations,
                   points: SUBSET Generations,
                   snapshot: {None} \cup Generations,
                   doomed: SUBSET files]
    BY DEF Types, TypeOK
  <2> QED
    BY <1>1, <2>1 DEF Changes
<1>3. \A g : CommitFiles(g)' = CommitFiles(g)
  BY <1>2 DEF CommitFiles
<1>4. Listed' \subseteq Listed
  BY <1>1 DEF Listed
<1>5. \A g : Whole(g) => Whole(g)'
  BY <1>1, <1>2, <1>3 DEF Whole
<1>6. Directory(n)'
  <2>1. IsNewest(n)'
    BY <1>2, <1>4, <1>5 DEF Directory, IsNewest
  <2>2. writer.pc \in {"closed", "idle"}
    BY <1>1 DEF Directory
  <2>3. ASSUME writer.pc = "idle"
        PROVE  \A g \in Listed' : g \in writer'.points \/ Segments(g) \in writer'.doomed
    BY <1>1, <1>2, <1>4, <2>3 DEF Directory, Listed
  <2>4. /\ \A g \in Generations : sis'[g].segs \subseteq 1..g
        /\ segGen' <= n
        /\ \A g \in Listed' : g - 1 <= n \/ g - 1 \in failed'
    BY <1>2, <1>4 DEF Directory
  <2>5. writer'.pc = "closed" =>
          /\ \A g \in Listed' : g <= n + 1
          /\ \A h \in writer'.doomed : \E g \in Generations : g > n /\ h = Core(g)
    BY <1>2, <1>4 DEF Directory
  <2>6. writer'.pc # "closed" =>
          /\ \A g \in writer'.points : Whole(g)'
          /\ writer'.generation \in Generations
    BY <1>2, <1>5 DEF Directory
  <2>7. writer'.pc = "idle" =>
          /\ writer'.last = n /\ n \in writer'.points /\ n <= writer'.generation
          /\ Skipped(n, writer.generation + 1)'
    BY <1>2 DEF Directory, Skipped
  <2> QED
    BY <1>2, <2>1, <2>2, <2>3, <2>4, <2>5, <2>6, <2>7 DEF Directory, Finished
<1>7. Since(n)'
  BY <1>2, <1>4 DEF Since
<1> QED
  BY <1>2, <1>6, <1>7, Kinds DEF Later

\* The next commit is being written.
LEMMA Prepares ==
    ASSUME Types, NEW n \in Generations, Directory(n), Since(n), Prepare,
           NEW g, g = writer.generation + 1
    PROVE  Directory(n)' /\ Since(n)' /\ Later(n, n)
<1>1. PICK old \in {{}, sis[writer.last].segs} :
         sis' = [sis EXCEPT ![g] = [valid |-> FALSE, segs |-> old \cup {g}]]
  BY Zenon DEF Prepare
<1>2. /\ writer'.pc = "prepared" /\ writer'.generation = g
      /\ writer'.last = writer.last /\ writer'.points = writer.points
      /\ writer'.doomed = writer.doomed
      /\ files' = files \cup {Segments(g), Core(g)} /\ segGen' = segGen
      /\ reader' = reader /\ atStart' = atStart /\ failed' = failed
  <2>1. writer \in [pc: {"closed", "idle", "prepared", "removeGen",
                        "createGen", "fillGen", "checkpoint"},
                   generation: {None} \cup Generations,
                   last: {None} \cup Generations,
                   points: SUBSET Generations,
                   snapshot: {None} \cup Generations,
                   doomed: SUBSET files]
    BY DEF Types, TypeOK
  <2> QED
    BY <2>1 DEF Prepare, Changes
<1>3. /\ writer.pc = "idle" /\ writer.doomed = {} /\ writer.last = n
      /\ n \in writer.points /\ n <= writer.generation
      /\ writer.generation \in Generations
      /\ Skipped(n, g)
      /\ \A h \in Listed : h \in writer.points
      /\ \A h \in writer.points : Whole(h)
  BY DEF Prepare, At, Directory
<1>4. g \in Generations /\ n < g /\ g \in Int /\ n \in Int
  <2>1. writer.generation < MaxGeneration
    BY DEF Prepare
  <2> QED
    BY <1>3, <2>1, Kinds
<1>5. /\ sis'[g].valid = FALSE /\ sis'[g].segs = old \cup {g}
      /\ \A h \in Generations : h # g => sis'[h] = sis[h]
  BY <1>1, <1>4, Kinds
<1>6. Listed = writer.points
  BY <1>3, Kinds DEF Whole, CommitFiles, Listed
<1>7. Listed' = Listed \cup {g}
  BY <1>2, <1>4, Names DEF Listed
<1>8. \A h \in writer.points : h <= n /\ h # g
  BY <1>3, <1>4, <1>6, Kinds DEF Directory, IsNewest, Whole
<1>9. old \subseteq sis[n].segs
  BY <1>3
<1>10. \A h \in writer.points : Whole(h)'
  <2>1. ASSUME NEW h \in writer.points PROVE Whole(h)'
    <3>1. sis'[h] = sis[h]
      BY <1>5, <1>8, Kinds
    <3>2. CommitFiles(h)' = CommitFiles(h)
      BY <3>1 DEF CommitFiles
    <3> QED
      BY <1>2, <1>3, <3>1, <3>2 DEF Whole
  <2> QED
    BY <2>1
<1>11. CommitFiles(g)' \subseteq files' /\ Core(g) \in files'
  <2>1. \A k \in sis[n].segs : Core(k) \in files
    BY <1>3 DEF Whole, CommitFiles
  <2> QED
    BY <1>2, <1>5, <1>9, <2>1 DEF CommitFiles
<1>12. Directory(n)'
  <2>1. IsNewest(n)'
    BY <1>3, <1>5, <1>7, <1>8, <1>10, Kinds DEF Directory, IsNewest
  <2>2. ASSUME NEW h \in Generations PROVE sis'[h].segs \subseteq 1..h
    <3>1. CASE h # g
      BY <1>5, <3>1 DEF Directory
    <3>2. CASE h = g
      <4>1. \A k \in sis[n].segs : k \in Int /\ 1 <= k /\ k <= n
        BY <1>4 DEF Directory
      <4>2. 1 <= g
        BY <1>4, Kinds
      <4> QED
        BY <1>4, <1>5, <1>9, <3>2, <4>1, <4>2
    <3> QED
      BY <3>1, <3>2
  <2>3. g - 1 <= n \/ g - 1 \in failed'
    <3>1. CASE writer.generation = n
      BY <1>4, <3>1
    <3>2. CASE writer.generation # n
      BY <1>2, <1>3, <1>4, <3>2, Kinds DEF Skipped
    <3> QED
      BY <3>1, <3>2
  <2>4. \A h \in Listed' : h - 1 <= n \/ h - 1 \in failed'
    BY <1>2, <1>7, <2>3 DEF Directory
  <2>5. segGen' <= n /\ Listed' = writer'.points \cup {writer'.generation}
    BY <1>2, <1>6, <1>7 DEF Directory
  <2>6. Skipped(n, g)'
    BY <1>2, <1>3 DEF Skipped
  <2> QED
    BY <1>2, <1>3, <1>4, <1>5, <1>10, <1>11, <2>1, <2>2, <2>4, <2>5, <2>6
       DEF Directory, Finished
<1>13. Since(n)'
  <2>1. atStart.newest <= n /\ atStart.newest \in Int
    BY Kinds DEF Since
  <2>2. \A h \in Listed' : h < atStart.newest => h \in Listed
    BY <1>4, <1>7, <2>1
  <2> QED
    BY <1>2, <2>2 DEF Since
<1>14. \A h \in Generations : h <= n => sis'[h] = sis[h]
  BY <1>4, <1>5
<1> QED
  BY <1>2, <1>4, <1>12, <1>13, <1>14 DEF Later

\* A commit is given up.
LEMMA RollsBack ==
    ASSUME Types, NEW n \in Generations, Directory(n), Since(n), RollbackCommit,
           NEW g, g = writer.generation
    PROVE  Directory(n)' /\ Since(n)' /\ Later(n, n)
<1>1. PICK throws \in {FALSE, CommitMayFail} :
          /\ writer' = [writer EXCEPT
                           !.pc = IF throws THEN "idle" ELSE "closed",
                           !.doomed = IF throws THEN {}
                                      ELSE {Core(writer.generation)}]
          /\ failed' = failed \cup (IF throws THEN {writer.generation} ELSE {})
  BY Zenon DEF RollbackCommit
<1>2. /\ writer'.pc = (IF throws THEN "idle" ELSE "closed")
      /\ writer'.generation = g
      /\ writer'.last = writer.last /\ writer'.points = writer.points
      /\ writer'.doomed \subseteq {Core(g)}
      /\ files' = files \ {Segments(g)} /\ segGen' = segGen
      /\ reader' = reader /\ atStart' = atStart
      /\ sis' = [sis EXCEPT ![g].segs = {g}]
  <2>1. writer \in [pc: {"closed", "idle", "prepared", "removeGen",
                        "createGen", "fillGen", "checkpoint"},
                   generation: {None} \cup Generations,
                   last: {None} \cup Generations,
                   points: SUBSET Generations,
                   snapshot: {None} \cup Generations,
                   doomed: SUBSET files]
    BY DEF Types, TypeOK
  <2> QED
    BY <1>1, <2>1 DEF RollbackCommit
<1>3. /\ writer.pc = "prepared" /\ writer.doomed = {} /\ writer.last = n
      /\ n \in writer.points /\ n < g /\ g \in Generations
      /\ Skipped(n, g) /\ ~sis[g].valid
      /\ Listed = writer.points \cup {g}
      /\ \A h \in writer.points : Whole(h)
  BY DEF RollbackCommit, At, Directory, Finished
<1>4. g \in Int /\ n \in Int /\ g \in Nat \ {0}
  BY <1>3, Kinds
<1>5. /\ sis'[g].segs = {g} /\ sis'[g].valid = sis[g].valid
      /\ \A h \in Generations : h # g => sis'[h] = sis[h]
  <2>1. sis[g] \in [valid: BOOLEAN, segs: SUBSET Generations]
    BY <1>3 DEF Types, TypeOK
  <2> QED
    BY <1>2, <1>3, <2>1, Kinds
<1>6. \A h \in writer.points : h \in Int /\ h <= n /\ h # g /\ h \in Generations
  <2>1. \A h \in writer.points : h \in Listed /\ sis[h].valid
                                  /\ h \in Generations /\ h \in Int
    BY <1>3, Kinds DEF Whole
  <2>2. \A h \in Listed : sis[h].valid => h <= n
    BY DEF Directory, IsNewest
  <2> QED
    BY <1>3, <1>4, <2>1, <2>2
<1>7. Listed' = writer.points
  BY <1>2, <1>3, <1>6, Names DEF Listed
<1>8. \A h \in writer.points : Whole(h)'
  <2>1. ASSUME NEW h \in writer.points PROVE Whole(h)'
    <3>1. sis'[h] = sis[h]
      BY <1>5, <1>6
    <3>2. CommitFiles(h)' = CommitFiles(h)
      BY <3>1 DEF CommitFiles
    <3>3. Segments(g) \notin CommitFiles(h)
      BY <1>6, Names DEF CommitFiles
    <3>4. \A k \in sis[h].segs : k \in Int /\ k <= h
      BY <1>6 DEF Directory
    <3>5. Core(g) \notin CommitFiles(h)
      BY <1>3, <1>4, <1>6, <3>4, Names DEF CommitFiles
    <3> QED
      BY <1>2, <1>3, <3>1, <3>2, <3>3, <3>5 DEF Whole
  <2> QED
    BY <2>1
<1>9. failed \subseteq failed' /\ (throws => g \in failed')
  BY <1>1
<1>10. Directory(n)'
  <2>1. IsNewest(n)'
    BY <1>3, <1>5, <1>6, <1>7, <1>8 DEF Directory, IsNewest
  <2>2. ASSUME NEW h \in Generations PROVE sis'[h].segs \subseteq 1..h
    <3>1. CASE h = g
      BY <1>4, <1>5, <3>1
    <3>2. CASE h # g
      BY <1>5, <3>2 DEF Directory
    <3> QED
      BY <3>1, <3>2
  <2>3. \A h \in Listed' : h - 1 <= n \/ h - 1 \in failed'
    BY <1>4, <1>6, <1>7
  <2>4. segGen' <= n
    BY <1>2 DEF Directory
  <2>5. \A h \in Listed' : h <= n + 1
    BY <1>4, <1>6, <1>7
  <2>6. throws => Skipped(n, g + 1)'
    BY <1>3, <1>4, <1>9, Kinds DEF Skipped
  <2> QED
    BY <1>2, <1>3, <1>4, <1>7, <1>8, <2>1, <2>2, <2>3, <2>4, <2>5, <2>6
       DEF Directory, Finished
<1>11. Since(n)'
  BY <1>2, <1>3, <1>7 DEF Since
<1>12. \A h \in Generations : h <= n => sis'[h] = sis[h]
  BY <1>3, <1>4, <1>5
<1>13. failed \subseteq failed' /\ UNCHANGED <<reader, atStart>> /\ n <= n
  BY <1>2, <1>4, <1>9
<1>14. Later(n, n)
  BY <1>12, <1>13 DEF Later
<1> QED
  BY <1>10, <1>11, <1>14

\* The commit is finished: it is the newest.
LEMMA Finishes ==
    ASSUME Types, NEW n \in Generations, Directory(n), Since(n),
           FinishSegmentsFile, NEW m, m = writer.generation
    PROVE  m \in Generations /\ Directory(m)' /\ Since(m)' /\ Later(n, m)
<1>1. /\ writer'.pc = "removeGen" /\ writer'.generation = m
      /\ writer'.last = writer.last /\ writer'.points = writer.points
      /\ writer'.doomed = writer.doomed
      /\ files' = files /\ segGen' = segGen
      /\ reader' = reader /\ atStart' = atStart /\ failed' = failed
      /\ sis' = [sis EXCEPT ![m].valid = TRUE]
  <2>1. writer \in [pc: {"closed", "idle", "prepared", "removeGen",
                        "createGen", "fillGen", "checkpoint"},
                   generation: {None} \cup Generations,
                   last: {None} \cup Generations,
                   points: SUBSET Generations,
                   snapshot: {None} \cup Generations,
                   doomed: SUBSET files]
    BY DEF Types, TypeOK
  <2> QED
    BY <2>1 DEF FinishSegmentsFile, Changes
<1>2. /\ writer.pc = "prepared" /\ writer.doomed = {} /\ writer.last = n
      /\ n \in writer.points /\ n < m /\ m \in Generations
      /\ CommitFiles(m) \subseteq files
      /\ Listed = writer.points \cup {m}
      /\ \A h \in writer.points : Whole(h)
  BY DEF FinishSegmentsFile, At, Directory, Finished
<1>3. m \in Int /\ n \in Int
  BY <1>2, Kinds
<1>4. /\ sis'[m].valid = TRUE
      /\ \A h \in Generations : sis'[h].segs = sis[h].segs
      /\ \A h \in Generations : h # m => sis'[h] = sis[h]
  <2>1. sis[m] \in [valid: BOOLEAN, segs: SUBSET Generations]
    BY <1>2 DEF Types, TypeOK
  <2> QED
    BY <1>1, <1>2, <2>1, Kinds
<1>5. \A h \in Generations : CommitFiles(h)' = CommitFiles(h)
  BY <1>4 DEF CommitFiles
<1>6. Listed' = Listed
  BY <1>1 DEF Listed
<1>7. \A h \in writer.points : h \in Int /\ h <= n /\ h # m /\ h \in Generations
  <2>1. \A h \in writer.points : h \in Listed /\ sis[h].valid
                                  /\ h \in Generations /\ h \in Int
    BY <1>2, Kinds DEF Whole
  <2>2. \A h \in Listed : sis[h].valid => h <= n
    BY DEF Directory, IsNewest
  <2> QED
    BY <1>2, <1>3, <2>1, <2>2
<1>8. \A h \in writer.points : Whole(h)'
  BY <1>1, <1>2, <1>4, <1>5, <1>7 DEF Whole
<1>9. Whole(m)'
  BY <1>1, <1>2, <1>4, <1>5 DEF Whole
<1>10. Directory(m)'
  <2>1. IsNewest(m)'
    BY <1>2, <1>3, <1>6, <1>7, <1>9 DEF IsNewest
  <2>2. \A h \in Generations : sis'[h].segs \subseteq 1..h
    BY <1>4 DEF Directory
  <2>3. \A h \in Listed' : h - 1 <= m
    BY <1>2, <1>3, <1>6, <1>7
  <2>4. segGen' <= m
    BY <1>1, <1>2, <1>3, Kinds DEF Directory
  <2> QED
    BY <1>1, <1>2, <1>6, <1>8, <2>1, <2>2, <2>3, <2>4 DEF Directory, Finished
<1>11. Since(m)'
  <2>1. atStart.newest <= n /\ atStart.newest \in Int
    BY Kinds DEF Since
  <2>2. \A h \in Listed' : h < atStart.newest => h \in writer.points
    BY <1>2, <1>3, <1>6, <2>1
  <2> QED
    BY <1>1, <1>2, <1>3, <2>1, <2>2 DEF Since
<1>12. \A h \in Generations : h <= n => sis'[h] = sis[h]
  BY <1>2, <1>3, <1>4
<1> QED
  BY <1>1, <1>2, <1>3, <1>10, <1>11, <1>12 DEF Later

\* segments.gen is replaced; it never holds more than the newest commit.
LEMMA WritesGen ==
    ASSUME Types, NEW n \in Generations, Directory(n), Since(n),
           RemoveGen \/ CreateGen \/ CreateFails \/ FillGen
    PROVE  Directory(n)' /\ Since(n)' /\ Later(n, n)
<1>1. writer \in [pc: {"closed", "idle", "prepared", "removeGen",
                      "createGen", "fillGen", "checkpoint"},
                 generation: {None} \cup Generations,
                 last: {None} \cup Generations,
                 points: SUBSET Generations,
                 snapshot: {None} \cup Generations,
                 doomed: SUBSET files]
  BY DEF Types, TypeOK
<1>2. PICK to \in {"createGen", "fillGen", "checkpoint"} :
        /\ writer.pc \in Finished
        /\ segGen' \in {None, Empty, writer.generation}
        /\ writer' = [writer EXCEPT !.pc = to]
        /\ files' = files /\ sis' = sis
        /\ reader' = reader /\ atStart' = atStart /\ failed' = failed
  BY DEF RemoveGen, CreateGen, CreateFails, FillGen, SegmentsGen, At, Changes,
         Finished
<1>3. /\ writer'.pc \in Finished /\ writer'.generation = writer.generation
      /\ writer'.last = writer.last /\ writer'.points = writer.points
      /\ writer'.doomed = writer.doomed
  BY <1>1, <1>2 DEF Finished
<1>4. segGen' <= n
  <2>1. writer.generation = n /\ n \in Nat
    BY <1>2, Kinds DEF Directory
  <2> QED
    BY <1>2, <2>1 DEF None, Empty
<1>5. Listed' = Listed /\ \A g : Whole(g) => Whole(g)'
  BY <1>2, <1>3 DEF Listed, Whole, CommitFiles
<1>6. Directory(n)'
  <2>1. IsNewest(n)'
    BY <1>2, <1>5 DEF Directory, IsNewest
  <2> QED
    BY <1>2, <1>3, <1>4, <1>5, <2>1 DEF Directory, Finished
<1>7. Since(n)'
  BY <1>2, <1>3, <1>5 DEF Since
<1> QED
  BY <1>2, <1>6, <1>7, Kinds DEF Later

\* The deleter keeps the newest commit, and the snapshot.
LEMMA Checkpoints ==
    ASSUME Types, NEW n \in Generations, Directory(n), Since(n), Checkpoint
    PROVE  Directory(n)' /\ Since(n)' /\ Later(n, n)
<1>1. writer.generation = n /\ writer.pc = "checkpoint" /\ writer.doomed = {}
  BY DEF Checkpoint, At, Directory, Finished
<1>2. PICK kept \in SUBSET (writer.points \cup {n}) :
        /\ n \in kept
        /\ writer' = [writer EXCEPT !.pc = "idle", !.last = n, !.points = kept,
                                    !.doomed = Unreferenced(kept)]
        /\ files' = files /\ sis' = sis /\ segGen' = segGen
        /\ reader' = reader /\ atStart' = atStart /\ failed' = failed
  BY <1>1, Zenon DEF Checkpoint, dirVars, histVars
<1>3. writer \in [pc: {"closed", "idle", "prepared", "removeGen",
                      "createGen", "fillGen", "checkpoint"},
                 generation: {None} \cup Generations,
                 last: {None} \cup Generations,
                 points: SUBSET Generations,
                 snapshot: {None} \cup Generations,
                 doomed: SUBSET files]
  BY DEF Types, TypeOK
<1>4. /\ writer'.pc = "idle" /\ writer'.generation = n /\ writer'.last = n
      /\ writer'.points = kept /\ writer'.doomed = Unreferenced(kept)
  BY <1>1, <1>2, <1>3
<1>5. Listed' = Listed /\ \A g : CommitFiles(g)' = CommitFiles(g)
  BY <1>2 DEF Listed, CommitFiles
<1>6. \A g \in kept : Whole(g)
  BY <1>1, <1>2 DEF Directory, IsNewest
<1>7. \A g \in kept : Whole(g)'
  BY <1>2, <1>4, <1>5, <1>6 DEF Whole, Unreferenced
<1>8. \A g \in Listed : g \in kept \/ Segments(g) \in Unreferenced(kept)
  BY Names DEF Listed, Unreferenced, CommitFiles
<1>9. Directory(n)'
  <2>1. IsNewest(n)'
    BY <1>2, <1>5, <1>7 DEF Directory, IsNewest
  <2>2. Skipped(n, n + 1)'
    BY Kinds DEF Skipped
  <2> QED
    BY <1>2, <1>4, <1>5, <1>7, <1>8, <2>1, <2>2, Kinds DEF Directory, Finished
<1>10. Since(n)'
  <2>1. atStart.newest <= n /\ atStart.newest \in Int /\ n \in Int
    BY Kinds DEF Since
  <2>2. \A g \in kept : g < atStart.newest => g \in writer.points
    BY <1>2, <2>1
  <2> QED
    BY <1>2, <1>4, <1>5, <2>2 DEF Since
<1> QED
  BY <1>2, <1>9, <1>10, Kinds DEF Later

\* The policy takes a snapshot or lets go of it.
LEMMA TakesSnapshot ==
    ASSUME Types, NEW n \in Generations, Directory(n), Since(n), Snapshot
    PROVE  Directory(n)' /\ Since(n)' /\ Later(n, n)
<1>1. writer \in [pc: {"closed", "idle", "prepared", "removeGen",
                      "createGen", "fillGen", "checkpoint"},
                 generation: {None} \cup Generations,
                 last: {None} \cup Generations,
                 points: SUBSET Generations,
                 snapshot: {None} \cup Generations,
                 doomed: SUBSET files]
  BY DEF Types, TypeOK
<1>2. /\ files' = files /\ sis' = sis /\ segGen' = segGen
      /\ reader' = reader /\ atStart' = atStart /\ failed' = failed
      /\ writer'.pc = writer.pc /\ writer'.generation = writer.generation
      /\ writer'.last = writer.last /\ writer'.points = writer.points
      /\ writer'.doomed = writer.doomed
  BY <1>1 DEF Snapshot, dirVars, histVars
<1>3. Listed' = Listed /\ \A g : Whole(g) => Whole(g)'
  BY <1>2 DEF Listed, Whole, CommitFiles
<1>4. Directory(n)'
  <2>1. IsNewest(n)'
    BY <1>2, <1>3 DEF Directory, IsNewest
  <2>2. \A g : Skipped(n, g) => Skipped(n, g)'
    BY <1>2 DEF Skipped
  <2>3. CommitFiles(writer.generation)' = CommitFiles(writer.generation)
    BY <1>2 DEF CommitFiles
  <2> QED
    BY <1>2, <1>3, <2>1, <2>2, <2>3 DEF Directory, Finished, Skipped
<1>5. Since(n)'
  BY <1>2, <1>3 DEF Since
<1> QED
  BY <1>2, <1>4, <1>5, Kinds DEF Later

LEMMA WriterSteps ==
    ASSUME Types, NEW n \in Generations, Directory(n), Since(n), WriterNext
    PROVE  \E m \in Generations : Directory(m)' /\ Since(m)' /\ Later(n, m)
<1>1. CASE FinishSegmentsFile
  BY <1>1, Finishes
<1>2. CASE Prepare
  BY <1>2, Prepares
<1>3. CASE RollbackCommit
  BY <1>3, RollsBack
<1> QED
  BY <1>1, <1>2, <1>3, Opens, Unlinks, WritesGen, Checkpoints, TakesSnapshot
     DEF WriterNext

NamesOf(G) == {Segments(g) : g \in G} \cup {Core(g) : g \in G}

\* The writer's steps keep the kinds of what they change.
LEMMA WriterTypes ==
    ASSUME Types, NEW n \in Generations, Directory(n), WriterNext
    PROVE  Types'
<1> DEFINE WriterOf(F) == [pc: {"closed", "idle", "prepared", "removeGen",
                                "createGen", "fillGen", "checkpoint"},
                           generation: {None} \cup Generations,
                           last: {None} \cup Generations,
                           points: SUBSET Generations,
                           snapshot: {None} \cup Generations,
                           doomed: SUBSET F]
           Sis == [Generations -> [valid: BOOLEAN, segs: SUBSET Generations]]
<1>1. /\ files \subseteq NamesOf(Generations)
      /\ sis \in Sis
      /\ segGen \in {None, Empty} \cup Generations
      /\ writer \in WriterOf(files)
      /\ failed \subseteq Generations
  BY DEF Types, TypeOK, NamesOf
<1> DEFINE Goal == /\ files' \subseteq NamesOf(Generations)
                   /\ sis' \in Sis
                   /\ segGen' \in {None, Empty} \cup Generations
                   /\ writer' \in WriterOf(files')
                   /\ failed' \subseteq Generations
<1>2. SUFFICES Goal
  <2>1. reader' = reader /\ atStart' = atStart
    BY DEF WriterNext, Open, Unlink, Prepare, RollbackCommit, FinishSegmentsFile,
           RemoveGen, CreateGen, CreateFails, FillGen, SegmentsGen, Checkpoint,
           Snapshot, Changes, histVars
  <2>2. quiet' \in BOOLEAN
    <3>1. quiet' = ~Reading \/ quiet' = quiet
      BY DEF WriterNext, Open, Unlink, Prepare, RollbackCommit, FinishSegmentsFile,
             RemoveGen, CreateGen, CreateFails, FillGen, SegmentsGen, Checkpoint,
             Snapshot, Changes, histVars
    <3>2. quiet \in BOOLEAN
      BY DEF Types, TypeOK
    <3>3. (~Reading) \in BOOLEAN
      BY DEF Reading
    <3> QED
      BY <3>1, <3>2, <3>3, Zenon
  <2> QED
    BY <2>1, <2>2 DEF Types, TypeOK, NamesOf
<1>3. CASE Open
  <2>1. writer' = [Closed EXCEPT !.pc = "idle", !.generation = n,
                      !.last = n, !.points = {n},
                      !.doomed = files \ CommitFiles(n)]
    BY <1>3, FindsNewest, Zenon DEF Open, At, Unreferenced
  <2>2. files \ CommitFiles(n) \subseteq files
    OBVIOUS
  <2>3. writer' \in WriterOf(files)
    BY <2>1, <2>2 DEF Closed
  <2>4. UNCHANGED <<files, sis, segGen, failed>>
    BY <1>3 DEF Open, dirVars, histVars
  <2> QED
    BY <1>1, <2>3, <2>4
<1>4. CASE Unlink
  <2>1. PICK f \in writer.doomed : /\ files' = files \ {f}
                                  /\ writer' = [writer EXCEPT !.doomed = @ \ {f}]
    BY <1>4, Zenon DEF Unlink
  <2> QED
    BY <1>1, <1>4, <2>1 DEF Unlink, Changes
<1>5. CASE Prepare
  <2>1. PICK g : g = writer.generation + 1
    OBVIOUS
  <2>2. PICK old \in {{}, sis[writer.last].segs} :
           sis' = [sis EXCEPT ![g] = [valid |-> FALSE, segs |-> old \cup {g}]]
    BY <1>5, <2>1, Zenon DEF Prepare
  <2>3. g \in Generations /\ n \in Generations /\ writer.last = n
    <3>1. writer.pc = "idle" /\ writer.generation < MaxGeneration
      BY <1>5 DEF Prepare, At
    <3> QED
      BY <2>1, <3>1, Kinds DEF Directory
  <2>4. old \subseteq Generations
    BY <2>2, <2>3, Kinds
  <2>5. sis' \in Sis
    BY <1>1, <2>2, <2>3, <2>4
  <2>6. files' = files \cup {Segments(g), Core(g)} /\ segGen' = segGen
        /\ failed' = failed
        /\ writer' = [writer EXCEPT !.pc = "prepared", !.generation = g]
    BY <1>5, <2>1, Zenon DEF Prepare, Changes
  <2>7. files' \subseteq NamesOf(Generations)
    BY <1>1, <2>3, <2>6 DEF NamesOf
  <2> QED
    BY <1>1, <2>3, <2>5, <2>6, <2>7
<1>6. CASE RollbackCommit
  <2>1. PICK throws \in {FALSE, CommitMayFail} :
          /\ writer' = [writer EXCEPT
                           !.pc = IF throws THEN "idle" ELSE "closed",
                           !.doomed = IF throws THEN {}
                                      ELSE {Core(writer.generation)}]
          /\ failed' = failed \cup (IF throws THEN {writer.generation} ELSE {})
    BY <1>6, Zenon DEF RollbackCommit
  <2>2. /\ writer.generation \in Generations
        /\ Core(writer.generation) \in files
    BY <1>6 DEF RollbackCommit, At, Directory, Finished
  <2>3. /\ files' = files \ {Segments(writer.generation)}
        /\ sis' = [sis EXCEPT ![writer.generation].segs = {writer.generation}]
        /\ segGen' = segGen
    BY <1>6 DEF RollbackCommit
  <2>4. Core(writer.generation) \in files'
    BY <2>2, <2>3, Names
  <2> QED
    BY <1>1, <2>1, <2>2, <2>3, <2>4
<1>7. CASE FinishSegmentsFile
  BY <1>1, <1>7 DEF FinishSegmentsFile, Changes
<1>8. CASE RemoveGen \/ CreateGen \/ CreateFails \/ FillGen
  <2>1. writer.pc \in Finished
    BY <1>8 DEF RemoveGen, CreateGen, CreateFails, FillGen, SegmentsGen, At, Finished
  <2>2. writer.generation \in Generations
    BY <2>1 DEF Directory, Finished
  <2> QED
    BY <1>1, <1>8, <2>2
       DEF RemoveGen, CreateGen, CreateFails, FillGen, SegmentsGen, Changes
<1>9. CASE Checkpoint
  <2>1. PICK kept \in SUBSET (writer.points \cup {writer.generation}) :
          writer' = [writer EXCEPT !.pc = "idle", !.last = writer.generation,
                                   !.points = kept, !.doomed = Unreferenced(kept)]
    BY <1>9, Zenon DEF Checkpoint
  <2>2. writer.generation \in Generations
    BY <1>9 DEF Checkpoint, At, Directory, Finished
  <2>3. Unreferenced(kept) \subseteq files
    BY DEF Unreferenced
  <2>4. writer' \in WriterOf(files)
    BY <1>1, <2>1, <2>2, <2>3
  <2>5. UNCHANGED <<files, sis, segGen, failed>>
    BY <1>9 DEF Checkpoint, dirVars, histVars
  <2> QED
    BY <1>1, <2>4, <2>5
<1>10. CASE Snapshot
  BY <1>1, <1>10 DEF Snapshot, dirVars, histVars
<1> QED
  BY <1>3, <1>4, <1>5, <1>6, <1>7, <1>8, <1>9, <1>10 DEF WriterNext

\* What the reader has seen stays true when a commit is added.
LEMMA WriterKeepsReader ==
    ASSUME Types, NEW n \in Generations, NEW m \in Generations,
           Since(n), Since(m)', Later(n, m), LooksAhead(n), Retries(n)
    PROVE  LooksAhead(m)' /\ Retries(m)'
<1>1. /\ reader' = reader /\ atStart' = atStart /\ failed \subseteq failed'
      /\ n <= m /\ \A g \in Generations : g <= n => sis'[g] = sis[g]
  BY DEF Later
<1>2. /\ n \in Int /\ m \in Int /\ atStart.newest \in Int
      /\ atStart.newest <= n
  BY Kinds DEF Since
<1>3. LooksAhead(m)'
  <2>1. m = atStart.newest => n = atStart.newest /\ m = n
    BY <1>1, <1>2
  <2>2. reader.pc = "segments" => reader.at \in Generations /\ reader.at <= n
    BY DEF LooksAhead
  <2>3. reader.pc = "segments" => /\ reader.at <= m
                                  /\ sis'[reader.at] = sis[reader.at]
    <3>1. reader.pc = "segments" => reader.at \in Int
      BY <2>2, Kinds
    <3> QED
      BY <1>1, <1>2, <2>2, <3>1
  <2> QED
    BY <1>1, <2>1, <2>3 DEF LooksAhead
<1>4. /\ reader.genA \in Int /\ reader.gen \in Int /\ reader.lastGen \in Int
      /\ reader.ahead \in Int
  BY Kinds DEF Types, TypeOK, None
<1>5. \A g \in Int : /\ Begun(n, g) => Begun(m, g)'
                     /\ Reached(n, g) => Reached(m, g)'
                     /\ Passed(n, g) => Passed(m, g)'
                     /\ (g < n => g < m) /\ (g <= n => g <= m)
  BY <1>1, <1>2 DEF Begun, Reached, Passed
<1>6. Retries(m)'
  BY <1>1, <1>4, <1>5 DEF Retries
<1> QED
  BY <1>3, <1>6

\* A reader that was alone is alone no longer, or nothing has changed.
LEMMA WriterQuiet ==
    ASSUME Types, Quiet, WriterNext
    PROVE  Quiet'
<1>1. CASE Open \/ Checkpoint \/ Snapshot
  <2>1. UNCHANGED <<files, sis, reader, quiet>>
    BY <1>1 DEF Open, Checkpoint, Snapshot, dirVars, histVars
  <2> QED
    BY <2>1 DEF Quiet, Reading, Listed, Largest, Nothing
<1>2. CASE ~(Open \/ Checkpoint \/ Snapshot)
  <2>1. quiet' = ~Reading /\ reader' = reader
    BY <1>2 DEF WriterNext, Unlink, Prepare, RollbackCommit, FinishSegmentsFile,
           RemoveGen, CreateGen, CreateFails, FillGen, SegmentsGen, Changes
  <2> QED
    BY <2>1 DEF Quiet, Reading
<1> QED
  BY <1>1, <1>2

-----------------------------------------------------------------------------
(***************************************************************************)
(* The steps of the reader.                                                *)
(***************************************************************************)
ReaderRecord == [pc: {"idle", "list", "gen", "choose", "read", "segments",
                      "prior", "noFile", "threw"},
                 call: {"open", "current"},
                 opened: {None} \cup Generations,
                 unseen: SUBSET Generations,
                 genA: {None} \cup Generations,
                 tries: 0..GenFileRetries,
                 gen: Int, lastGen: Int, retry: BOOLEAN, method: {0, 1},
                 ahead: 0..LookaheadCount, at: Int,
                 toOpen: SUBSET Generations]

LEMMA ReaderKinds ==
    ASSUME Types
    PROVE  /\ reader \in ReaderRecord
           /\ reader.genA \in {None} \cup Generations /\ reader.genA \in Int
           /\ reader.genA >= None
           /\ reader.gen \in Int /\ reader.lastGen \in Int /\ reader.at \in Int
           /\ reader.ahead \in Int /\ reader.ahead <= LookaheadCount
           /\ reader.method \in {0, 1} /\ reader.retry \in BOOLEAN
           /\ reader.tries \in Nat /\ reader.tries < GenFileRetries
           /\ reader.opened \in {None} \cup Generations
<1>1. reader \in ReaderRecord /\ reader.tries < GenFileRetries
  BY DEF Types, TypeOK, ReaderRecord
<1>2. /\ reader.genA \in {None} \cup Generations
      /\ reader.gen \in Int /\ reader.lastGen \in Int /\ reader.at \in Int
      /\ reader.ahead \in Int /\ reader.ahead <= LookaheadCount
      /\ reader.method \in {0, 1} /\ reader.retry \in BOOLEAN
      /\ reader.tries \in 0..GenFileRetries
      /\ reader.opened \in {None} \cup Generations
  BY <1>1 DEF ReaderRecord, LookaheadCount
<1>3. reader.genA \in Int /\ reader.genA >= None
  BY <1>2, Kinds DEF None
<1> QED
  BY <1>1, <1>2, <1>3, BoundsAssumption

\* A step of the reader changes nothing but the reader.
LEMMA ReaderFrame ==
    ASSUME Types, NEW n \in Generations, Directory(n), Since(n),
           NEW r \in ReaderRecord, r.tries < GenFileRetries, ReaderStep(r)
    PROVE  /\ Types' /\ Directory(n)' /\ Since(n)'
           /\ reader' = r /\ files' = files /\ sis' = sis /\ segGen' = segGen
           /\ failed' = failed
           /\ r.pc # "idle" => atStart' = atStart /\ quiet' = quiet
           /\ Listed' = Listed
<1>1. /\ reader' = r /\ files' = files /\ sis' = sis /\ segGen' = segGen
      /\ writer' = writer /\ failed' = failed
      /\ r.pc # "idle" => atStart' = atStart /\ quiet' = quiet
      /\ r.pc = "idle" => atStart' = NotReading /\ quiet' = TRUE
  BY DEF ReaderStep, dirVars
<1>2. Listed' = Listed
  BY <1>1 DEF Listed
<1>3. 1 \in Generations /\ 1 <= n /\ \A g \in Generations : ~(g < 1)
  BY Kinds, BoundsAssumption
<1>4. Types'
  <2>1. atStart' \in [newest: Generations, points: SUBSET Generations]
    BY <1>1, <1>3 DEF NotReading, Types, TypeOK
  <2>2. quiet' \in BOOLEAN
    BY <1>1 DEF Types, TypeOK
  <2> QED
    BY <1>1, <2>1, <2>2 DEF Types, TypeOK, ReaderRecord
<1>5. Directory(n)'
  BY <1>1, <1>2 DEF Directory, IsNewest, Whole, CommitFiles, Skipped
<1>6. Since(n)'
  <2>1. CASE r.pc # "idle"
    BY <1>1, <1>2, <2>1 DEF Since
  <2>2. CASE r.pc = "idle"
    BY <1>1, <1>2, <1>3, <2>2, Kinds DEF Since, NotReading, Listed
  <2> QED
    BY <2>1, <2>2
<1> QED
  BY <1>1, <1>2, <1>4, <1>5, <1>6

\* The reader begins anew, with isCurrent, or with open when another commit
\* was found.
LEMMA Begins ==
    ASSUME Types, NEW n \in Generations,
           NEW c \in {"open", "current"}, NEW o \in {None} \cup Generations
    PROVE  /\ Reader("list", c, o) \in ReaderRecord
           /\ Reader("list", c, o).tries < GenFileRetries
           /\ reader' = Reader("list", c, o) =>
                LooksAhead(n)' /\ Retries(n)' /\ Quiet'
<1>1. GenFileRetries \in Nat \ {0} /\ LookaheadCount = 10
  BY BoundsAssumption DEF LookaheadCount
<1>2. Reader("list", c, o) \in ReaderRecord
  BY <1>1 DEF Reader, ReaderRecord, None
<1>3. Reader("list", c, o).tries < GenFileRetries
  BY <1>1 DEF Reader
<1>4. ASSUME reader' = Reader("list", c, o)
      PROVE  LooksAhead(n)' /\ Retries(n)' /\ Quiet'
  <2>1. /\ reader'.pc = "list" /\ reader'.unseen = Generations
        /\ reader'.genA = None /\ reader'.gen = 0 /\ reader'.lastGen = None
        /\ reader'.retry = FALSE /\ reader'.method = 0 /\ reader'.ahead = 0
    BY <1>4 DEF Reader
  <2>2. LooksAhead(n)'
    BY <2>1 DEF LooksAhead
  <2>3. Begun(n, None)'
    BY Kinds DEF Begun, None
  <2>4. Retries(n)'
    BY <2>1, <2>3 DEF Retries
  <2>5. Quiet'
    BY <2>1 DEF Quiet, Listed
  <2> QED
    BY <2>2, <2>4, <2>5
<1> QED
  BY <1>2, <1>3, <1>4

\* The reader has come to its end, with a commit.
LEMMA Ends ==
    ASSUME Types, NEW n \in Generations,
           NEW c \in {"open", "current"}, NEW o \in Generations
    PROVE  /\ Reader("idle", c, o) \in ReaderRecord
           /\ Reader("idle", c, o).tries < GenFileRetries
           /\ reader' = Reader("idle", c, o) =>
                LooksAhead(n)' /\ Retries(n)' /\ Quiet'
<1>1. GenFileRetries \in Nat \ {0} /\ LookaheadCount = 10
  BY BoundsAssumption DEF LookaheadCount
<1>2. Reader("idle", c, o) \in ReaderRecord
  BY <1>1 DEF Reader, ReaderRecord, None
<1>3. Reader("idle", c, o).tries < GenFileRetries
  BY <1>1 DEF Reader
<1>4. ASSUME reader' = Reader("idle", c, o)
      PROVE  LooksAhead(n)' /\ Retries(n)' /\ Quiet'
  <2>1. /\ reader'.pc = "idle" /\ reader'.genA = None
        /\ reader'.retry = FALSE /\ reader'.method = 0 /\ reader'.ahead = 0
    BY <1>4 DEF Reader
  <2>2. Begun(n, None)'
    BY Kinds DEF Begun, None
  <2> QED
    BY <2>1, <2>2 DEF LooksAhead, Retries, Quiet, Reading
<1> QED
  BY <1>2, <1>3, <1>4

\* What one action of the reader preserves.
Keeps(n) == /\ Types' /\ Directory(n)' /\ Since(n)'
            /\ LooksAhead(n)' /\ Retries(n)' /\ Quiet'

LEMMA Lists ==
    ASSUME Types, NEW n \in Generations, Directory(n), Since(n),
           LooksAhead(n), Retries(n), Quiet, ListEntry
    PROVE  Keeps(n)
<1>1. /\ n \in Listed /\ IsNewest(n) /\ Listed \subseteq Generations
      /\ \A g \in Listed : Begun(n, g)
  BY NewestIs DEF Directory, Begun, Listed
<1>2. reader.pc = "list" /\ reader.method = 0
  BY ReaderKinds DEF ListEntry, Retries
<1>3. ASSUME NEW genA \in {None} \cup Generations, NEW unseen \in SUBSET Generations,
             NEW pc \in {"list", "gen"},
             ReaderStep([reader EXCEPT !.genA = genA, !.unseen = unseen, !.pc = pc]),
             genA = reader.genA \/ genA \in Listed,
             n = atStart.newest => genA >= n \/ (pc = "list" /\ n \in unseen),
             AtomicListing /\ pc = "gen" => genA # None,
             quiet => /\ \A g \in Listed \ unseen : g <= genA
                      /\ genA \in Listed \cup {None}
                      /\ pc = "gen" => Largest(genA)
      PROVE  Keeps(n)
  <2> DEFINE r == [reader EXCEPT !.genA = genA, !.unseen = unseen, !.pc = pc]
  <2>1. r \in ReaderRecord /\ r.tries < GenFileRetries
    BY <1>3, ReaderKinds DEF ReaderRecord
  <2>2. /\ r.pc = pc /\ r.genA = genA /\ r.unseen = unseen
        /\ r.gen = reader.gen /\ r.lastGen = reader.lastGen
        /\ r.retry = reader.retry /\ r.method = reader.method
        /\ r.ahead = reader.ahead /\ r.at = reader.at
    BY ReaderKinds DEF ReaderRecord
  <2>3. ReaderStep(r)
    BY <1>3
  <2> HIDE DEF r
  <2>4. /\ Types' /\ Directory(n)' /\ Since(n)'
        /\ reader' = r /\ files' = files /\ sis' = sis /\ failed' = failed
        /\ atStart' = atStart /\ quiet' = quiet /\ Listed' = Listed
    BY <1>3, <2>1, <2>2, <2>3, ReaderFrame
  <2>5. LooksAhead(n)'
    BY <1>3, <2>2, <2>4 DEF LooksAhead
  <2>6. Begun(n, genA)
    BY <1>1, <1>3 DEF Retries
  <2>7. Retries(n)'
    BY <1>2, <1>3, <2>2, <2>4, <2>6 DEF Retries, Begun, Reached, Passed
  <2>8. Quiet'
    BY <1>2, <1>3, <2>2, <2>4 DEF Quiet, Reading, Largest, Nothing
  <2> QED
    BY <2>4, <2>5, <2>7, <2>8 DEF Keeps
<1>4. CASE AtomicListing
  <2>1. ReaderStep([reader EXCEPT !.genA = CurrentSegmentGeneration(files, sis),
                                  !.pc = "gen"])
    BY <1>4 DEF ListEntry
  <2>2. PICK g : g = CurrentSegmentGeneration(files, sis)
    OBVIOUS
  <2>3. Largest(g)
    BY <1>1, <2>2, LargestIs
  <2>4. g \in Listed /\ g >= n /\ g # None
    BY <1>1, <2>3, Kinds DEF Largest, None
  <2>5. [reader EXCEPT !.genA = g, !.pc = "gen"]
          = [reader EXCEPT !.genA = g, !.unseen = reader.unseen, !.pc = "gen"]
    BY ReaderKinds DEF ReaderRecord
  <2>6. reader.unseen \in SUBSET Generations
    BY ReaderKinds DEF ReaderRecord
  <2> QED
    BY <1>1, <1>3, <2>1, <2>2, <2>3, <2>4, <2>5, <2>6 DEF Largest
<1>5. CASE ~AtomicListing
  <2>1. PICK g \in reader.unseen :
          ReaderStep([reader EXCEPT
             !.unseen = reader.unseen \ {g},
             !.genA = IF Segments(g) \in files THEN Larger(reader.genA, g)
                      ELSE reader.genA,
             !.pc = IF reader.unseen = {g} THEN "gen" ELSE "list"])
    BY <1>5, Zenon DEF ListEntry
  <2>2. PICK genA, unseen, pc :
          /\ unseen = reader.unseen \ {g}
          /\ genA = IF Segments(g) \in files THEN Larger(reader.genA, g)
                    ELSE reader.genA
          /\ pc = IF reader.unseen = {g} THEN "gen" ELSE "list"
    OBVIOUS
  <2>3. /\ reader.unseen \in SUBSET Generations /\ g \in Generations /\ g \in Int
        /\ n \in Int /\ n > None
    BY <2>1, ReaderKinds, Kinds DEF ReaderRecord, None
  <2>4. ReaderStep([reader EXCEPT !.genA = genA, !.unseen = unseen, !.pc = pc])
    <3>1. [reader EXCEPT !.unseen = unseen, !.genA = genA, !.pc = pc]
            = [reader EXCEPT !.genA = genA, !.unseen = unseen, !.pc = pc]
      BY ReaderKinds DEF ReaderRecord
    <3> QED
      BY <2>1, <2>2, <3>1
  <2>5. /\ genA \in {None} \cup Generations /\ unseen \in SUBSET Generations
        /\ pc \in {"list", "gen"} /\ genA \in Int /\ reader.genA \in Int
        /\ genA >= reader.genA
    BY <2>2, <2>3, ReaderKinds DEF Larger
  <2>6. genA = reader.genA \/ genA \in Listed
    BY <2>2, <2>3 DEF Larger, Listed
  <2>7. g \in Listed => genA >= g
    BY <2>2, <2>3, <2>5 DEF Larger, Listed
  <2>8. n = atStart.newest => genA >= n \/ (pc = "list" /\ n \in unseen)
    <3>1. n = atStart.newest => reader.genA >= n \/ n \in reader.unseen
      BY <1>2 DEF LooksAhead
    <3> QED
      BY <1>1, <2>2, <2>3, <2>5, <2>7, <3>1
  <2>9. ASSUME quiet
        PROVE  /\ \A h \in Listed \ unseen : h <= genA
               /\ genA \in Listed \cup {None}
               /\ pc = "gen" => Largest(genA)
    <3>1. /\ \A h \in Listed \ reader.unseen : h <= reader.genA
          /\ reader.genA \in Listed \cup {None}
      BY <1>2, <2>9 DEF Quiet, Reading
    <3>2. \A h \in Listed : h \in Int
      BY <1>1, Kinds
    <3>3. \A h \in Listed \ unseen : h <= genA
      BY <2>2, <2>5, <2>7, <3>1, <3>2
    <3>4. genA \in Listed \cup {None}
      BY <2>6, <3>1
    <3>5. ASSUME pc = "gen" PROVE Largest(genA)
      <4>1. \A h \in Listed : h <= genA
        BY <2>2, <3>3, <3>5
      <4>2. genA >= n
        BY <1>1, <2>3, <2>5, <4>1
      <4>3. genA # None
        BY <2>3, <2>5, <4>2 DEF None
      <4> QED
        BY <3>4, <4>1, <4>3 DEF Largest
    <3> QED
      BY <3>3, <3>4, <3>5
  <2> QED
    BY <1>3, <1>5, <2>4, <2>5, <2>6, <2>8, <2>9
<1> QED
  BY <1>4, <1>5

LEMMA ReadsGen ==
    ASSUME Types, NEW n \in Generations, Directory(n), Since(n),
           LooksAhead(n), Retries(n), Quiet, ReadSegmentsGen
    PROVE  Keeps(n)
<1>1. /\ n \in Listed /\ IsNewest(n) /\ Listed \subseteq Generations
      /\ segGen <= n /\ segGen \in {None, Empty} \cup Generations
  BY NewestIs DEF Directory, Listed, Types, TypeOK
<1>2. reader.pc = "gen" /\ reader.method = 0
  BY ReaderKinds DEF ReadSegmentsGen, Retries
<1>3. ASSUME NEW genB \in {None} \cup Generations, genB <= n,
             ReaderStep(Chosen(reader, genB))
      PROVE  Keeps(n)
  <2>1. PICK g : g = Larger(reader.genA, genB)
    OBVIOUS
  <2>2. PICK pc : pc = IF g = None THEN "noFile" ELSE "choose"
    OBVIOUS
  <2>3. PICK r : r = [reader EXCEPT !.gen = g, !.genA = None, !.pc = pc]
    OBVIOUS
  <2>4. ReaderStep(r)
    BY <1>3, <2>1, <2>2, <2>3, Zenon DEF Chosen
  <2>5. /\ genB \in Int /\ reader.genA \in Int /\ g \in Int /\ n \in Int
        /\ g \in {None} \cup Generations /\ g >= reader.genA
        /\ reader.genA >= None
        /\ g = reader.genA \/ g = genB
        /\ reader.genA >= n => g = reader.genA
    BY <1>3, <2>1, Kinds, ReaderKinds DEF Larger, None
  <2>6. r \in ReaderRecord /\ r.tries < GenFileRetries
    BY <2>2, <2>3, <2>5, ReaderKinds DEF ReaderRecord, None
  <2>7. /\ r.pc = pc /\ r.genA = None /\ r.gen = g
        /\ r.lastGen = reader.lastGen /\ r.retry = reader.retry
        /\ r.method = reader.method /\ r.ahead = reader.ahead
    BY <2>3, ReaderKinds DEF ReaderRecord
  <2>8. /\ Types' /\ Directory(n)' /\ Since(n)'
        /\ reader' = r /\ files' = files /\ sis' = sis /\ failed' = failed
        /\ atStart' = atStart /\ quiet' = quiet /\ Listed' = Listed
    BY <2>2, <2>4, <2>6, <2>7, ReaderFrame
  <2>9. LooksAhead(n)'
    <3>1. n = atStart.newest => g >= n /\ g # None
      BY <1>2, <2>5, Kinds DEF LooksAhead, None
    <3>2. AtomicListing => g # None
      BY <1>2, <2>5 DEF LooksAhead, None
    <3> QED
      BY <2>2, <2>7, <2>8, <3>1, <3>2 DEF LooksAhead
  <2>10. Retries(n)'
    <3>1. Begun(n, None)
      BY Kinds DEF Begun, None
    <3>2. Begun(n, g)
      BY <1>3, <2>5 DEF Begun, Retries
    <3>3. g # None => g \in Nat \ {0}
      BY <2>5, Kinds
    <3> QED
      BY <1>2, <2>2, <2>7, <2>8, <3>1, <3>2, <3>3
         DEF Retries, Begun, Reached, Passed
  <2>11. Quiet'
    <3>1. ASSUME quiet PROVE Largest(g) /\ g # None
      <4>1. Largest(reader.genA)
        BY <1>2, <3>1 DEF Quiet, Reading
      <4>2. reader.genA >= n
        BY <1>1, <4>1 DEF Largest
      <4> QED
        BY <2>5, <4>1, <4>2, Kinds DEF None
    <3> QED
      BY <1>2, <2>2, <2>7, <2>8, <3>1 DEF Quiet, Reading, Largest, Nothing
  <2> QED
    BY <2>8, <2>9, <2>10, <2>11 DEF Keeps
<1>4. CASE segGen # Empty
  <2>1. segGen \in {None} \cup Generations /\ ReaderStep(Chosen(reader, segGen))
    BY <1>1, <1>4 DEF ReadSegmentsGen
  <2> QED
    BY <1>1, <1>3, <2>1
<1>5. CASE segGen = Empty /\ reader.tries + 1 = GenFileRetries
  <2>1. ReaderStep(Chosen(reader, None)) /\ None <= n
    BY <1>5, Kinds DEF ReadSegmentsGen, None
  <2> QED
    BY <1>3, <2>1
<1>6. CASE segGen = Empty /\ reader.tries + 1 # GenFileRetries
  <2>1. PICK r : r = [reader EXCEPT !.tries = reader.tries + 1]
    OBVIOUS
  <2>2. ReaderStep(r)
    BY <1>6, <2>1, Zenon DEF ReadSegmentsGen
  <2>3. reader.tries + 1 \in 0..GenFileRetries /\ reader.tries + 1 < GenFileRetries
    BY <1>6, ReaderKinds, BoundsAssumption
  <2>4. r \in ReaderRecord /\ r.tries < GenFileRetries
    BY <2>1, <2>3, ReaderKinds DEF ReaderRecord
  <2>5. /\ r.pc = "gen" /\ r.genA = reader.genA /\ r.gen = reader.gen
        /\ r.lastGen = reader.lastGen /\ r.retry = reader.retry
        /\ r.method = reader.method /\ r.ahead = reader.ahead
    BY <1>2, <2>1, ReaderKinds DEF ReaderRecord
  <2>6. /\ Types' /\ Directory(n)' /\ Since(n)'
        /\ reader' = r /\ files' = files /\ sis' = sis /\ failed' = failed
        /\ atStart' = atStart /\ quiet' = quiet /\ Listed' = Listed
    BY <2>2, <2>4, <2>5, ReaderFrame
  <2>7. LooksAhead(n)'
    BY <1>2, <2>5, <2>6 DEF LooksAhead
  <2>8. Retries(n)'
    BY <1>2, <2>5, <2>6 DEF Retries, Begun, Reached, Passed
  <2>9. Quiet'
    BY <1>2, <2>5, <2>6 DEF Quiet, Reading, Largest, Nothing
  <2> QED
    BY <2>6, <2>7, <2>8, <2>9 DEF Keeps
<1> QED
  BY <1>4, <1>5, <1>6

LEMMA Chooses ==
    ASSUME Types, NEW n \in Generations, Directory(n), Since(n),
           LooksAhead(n), Retries(n), Quiet, Choose
    PROVE  Keeps(n)
<1>1. reader.pc = "choose"
  BY DEF Choose
<1> DEFINE m_ == IF reader.method = 1
                      \/ (reader.lastGen = reader.gen /\ reader.retry)
                 THEN 1 ELSE 0
           step_ == IF m_ = 1 /\ reader.ahead < LookaheadCount THEN 1 ELSE 0
           g_ == reader.gen + step_
<1>2a. ReaderStep(IF reader.lastGen = g_ /\ reader.retry
                  THEN [reader EXCEPT !.pc = "threw"]
                  ELSE [reader EXCEPT
                          !.method = m_, !.ahead = reader.ahead + step_,
                          !.gen = g_, !.lastGen = g_, !.at = g_, !.pc = "read",
                          !.retry = reader.lastGen = g_
                                       \/ (m_ = 1 /\ reader.retry)])
  BY DEF Choose
<1>2b. PICK m, step, g : m = m_ /\ step = step_ /\ g = g_
  OBVIOUS
<1>2. /\ m = IF reader.method = 1
                  \/ (reader.lastGen = reader.gen /\ reader.retry)
             THEN 1 ELSE 0
      /\ step = IF m = 1 /\ reader.ahead < LookaheadCount THEN 1 ELSE 0
      /\ g = reader.gen + step
      /\ ReaderStep(IF reader.lastGen = g /\ reader.retry
                    THEN [reader EXCEPT !.pc = "threw"]
                    ELSE [reader EXCEPT
                            !.method = m, !.ahead = reader.ahead + step,
                            !.gen = g, !.lastGen = g, !.at = g, !.pc = "read",
                            !.retry = reader.lastGen = g
                                         \/ (m = 1 /\ reader.retry)])
  <2> HIDE DEF m_, step_, g_
  <2>1. ReaderStep(IF reader.lastGen = g /\ reader.retry
                    THEN [reader EXCEPT !.pc = "threw"]
                    ELSE [reader EXCEPT
                            !.method = m, !.ahead = reader.ahead + step,
                            !.gen = g, !.lastGen = g, !.at = g, !.pc = "read",
                            !.retry = reader.lastGen = g
                                         \/ (m = 1 /\ reader.retry)])
    BY <1>2a, <1>2b, Zenon
  <2> QED
    BY <1>2b, <2>1 DEF m_, step_, g_
<1> HIDE DEF m_, step_, g_
<1>3. /\ reader.gen \in Nat \ {0} /\ reader.lastGen \in Int /\ n \in Nat
      /\ reader.ahead \in Int /\ reader.ahead <= LookaheadCount /\ reader.ahead >= 0
      /\ reader.method \in {0, 1} /\ reader.retry \in BOOLEAN
      /\ reader.method = 0 => reader.ahead = 0
      /\ reader.method = 1 => reader.retry /\ reader.lastGen = reader.gen
      /\ reader.genA = None
  BY <1>1, Kinds, ReaderKinds DEF Retries, ReaderRecord
<1>4. LookaheadCount = 10
  BY DEF LookaheadCount
<1>5. \A k : Begun(n, k)' = Begun(n, k)
  BY <1>2 DEF Begun, ReaderStep
<1>6. ASSUME reader.lastGen = g, reader.retry PROVE Keeps(n)
  <2>1. PICK r : r = [reader EXCEPT !.pc = "threw"]
    OBVIOUS
  <2>2. ReaderStep(r)
    BY <1>2, <1>6, <2>1
  <2>3. r \in ReaderRecord /\ r.tries < GenFileRetries
    BY <2>1, ReaderKinds DEF ReaderRecord
  <2>4. /\ r.pc = "threw" /\ r.genA = None /\ r.gen = reader.gen
        /\ r.lastGen = reader.lastGen /\ r.retry = reader.retry
        /\ r.method = reader.method /\ r.ahead = reader.ahead
    BY <1>3, <2>1, ReaderKinds DEF ReaderRecord
  <2>5. /\ Types' /\ Directory(n)' /\ Since(n)'
        /\ reader' = r /\ failed' = failed /\ atStart' = atStart
    BY <2>2, <2>3, <2>4, ReaderFrame
  <2>6. step = 0 /\ reader.method = 1 /\ reader.ahead = LookaheadCount
    <3>1. reader.lastGen = reader.gen + step /\ (step = 0 \/ step = 1)
      BY <1>2, <1>6
    <3>2. m = 1 => step = 0
      BY <1>2, <1>3, <3>1, <1>6, <1>4
    <3>3. step = 0
      BY <1>2, <3>1, <3>2
    <3>4. m = 1
      BY <1>2, <1>6, <3>1, <3>3, <1>3
    <3> QED
      BY <1>2, <1>3, <1>4, <3>3, <3>4
  <2>7. LooksAhead(n)'
    BY <2>4, <2>5 DEF LooksAhead
  <2>8. Retries(n)'
    BY <1>1, <1>3, <2>4, <2>5, <2>6 DEF Retries, Begun
  <2>9. Quiet'
    BY <2>4, <2>5 DEF Quiet, Reading
  <2> QED
    BY <2>5, <2>7, <2>8, <2>9 DEF Keeps
<1>7. ASSUME NEW t \in BOOLEAN, NEW a \in 0..LookaheadCount, m \in {0, 1},
             g \in Nat \ {0},
             ReaderStep([reader EXCEPT
                           !.method = m, !.ahead = a, !.gen = g, !.lastGen = g,
                           !.at = g, !.pc = "read", !.retry = t]),
             n = atStart.newest => g >= n,
             m = 0 => a = 0 /\ Begun(n, g) /\ (t => Reached(n, g)),
             m = 1 => t /\ (g <= n \/ g - a - 1 \in failed),
             quiet /\ m = 0 => Largest(g) /\ (t => Nothing(g)),
             quiet /\ m = 1 => Largest(g - a) /\ Nothing(g - a)
      PROVE  Keeps(n)
  <2>1. PICK r : r = [reader EXCEPT
                         !.method = m, !.ahead = a, !.gen = g, !.lastGen = g,
                         !.at = g, !.pc = "read", !.retry = t]
    OBVIOUS
  <2>2. ReaderStep(r)
    BY <1>7, <2>1
  <2>3. r \in ReaderRecord /\ r.tries < GenFileRetries
    <3>1. reader \in ReaderRecord /\ reader.tries < GenFileRetries
      BY ReaderKinds
    <3>2. g \in Int
      BY <1>7
    <3> QED
      BY <1>7, <2>1, <3>1, <3>2 DEF ReaderRecord
  <2>4. /\ r.pc = "read" /\ r.genA = None /\ r.gen = g /\ r.at = g
        /\ r.lastGen = g /\ r.retry = t /\ r.method = m /\ r.ahead = a
    BY <1>3, <2>1, ReaderKinds DEF ReaderRecord
  <2>5. /\ Types' /\ Directory(n)' /\ Since(n)'
        /\ reader' = r /\ files' = files /\ sis' = sis /\ failed' = failed
        /\ atStart' = atStart /\ quiet' = quiet /\ Listed' = Listed
    BY <2>2, <2>3, <2>4, ReaderFrame
  <2>6. LooksAhead(n)'
    BY <1>7, <2>4, <2>5 DEF LooksAhead
  <2>7. Begun(n, None)
    BY Kinds DEF Begun, None
  <2>8. g # None
    BY <1>7 DEF None
  <2>9. Retries(n)'
    BY <1>7, <2>4, <2>5, <2>7, <2>8 DEF Retries, Begun, Reached, Passed
  <2>10. Quiet'
    BY <1>7, <2>4, <2>5 DEF Quiet, Reading, Largest, Nothing
  <2> QED
    BY <2>5, <2>6, <2>9, <2>10 DEF Keeps
<1>8. CASE reader.method = 1 /\ ~(reader.lastGen = g /\ reader.retry)
  <2>1. m = 1 /\ step = 1 /\ g = reader.gen + 1 /\ reader.retry
    BY <1>2, <1>3, <1>8
  <2>0. PICK a, t : a = reader.ahead + 1 /\ t = TRUE
    OBVIOUS
  <2>2. a \in 0..LookaheadCount /\ t \in BOOLEAN /\ t
    BY <1>2, <1>3, <1>4, <2>0, <2>1
  <2>3. ReaderStep([reader EXCEPT
                      !.method = m, !.ahead = a, !.gen = g,
                      !.lastGen = g, !.at = g, !.pc = "read", !.retry = t])
    <3>1. (reader.lastGen = g \/ (m = 1 /\ reader.retry)) = TRUE
      BY <1>3, <2>1
    <3> QED
      BY <1>2, <1>8, <2>0, <2>1, <3>1
  <2>4. g - a = reader.gen - reader.ahead
    BY <1>3, <2>0, <2>1
  <2>5. n = atStart.newest => g >= n
    BY <1>1, <1>3, <2>1 DEF LooksAhead
  <2>6. g <= n \/ g - a - 1 \in failed
    BY <1>1, <1>3, <1>8, <2>1, <2>4 DEF Retries
  <2>7. quiet => /\ Largest(g - a)
                 /\ Nothing(g - a)
    BY <1>1, <1>8, <2>4 DEF Quiet, Reading
  <2>20. m \in {0, 1} /\ g \in Nat \ {0}
    BY <1>3, <2>1
  <2>21. m = 0 => a = 0 /\ Begun(n, g) /\ (t => Reached(n, g))
    BY <2>1, <2>2, <2>6, <2>7
  <2>22. m = 1 => t /\ (g <= n \/ g - a - 1 \in failed)
    BY <2>1, <2>2, <2>6, <2>7
  <2>23. quiet /\ m = 0 => Largest(g) /\ (t => Nothing(g))
    BY <2>1, <2>2, <2>6, <2>7
  <2>24. quiet /\ m = 1 => Largest(g - a) /\ Nothing(g - a)
    BY <2>1, <2>2, <2>6, <2>7
  <2> QED
    BY <1>7, <2>2, <2>3, <2>5, <2>20, <2>21, <2>22, <2>23, <2>24, Zenon
<1>9. CASE reader.method = 0 /\ reader.lastGen = reader.gen /\ reader.retry
  <2>1. m = 1 /\ step = 1 /\ g = reader.gen + 1 /\ reader.ahead = 0
    BY <1>2, <1>3, <1>4, <1>9
  <2>0. PICK a, t : a = 1 /\ t = TRUE
    OBVIOUS
  <2>2. a \in 0..LookaheadCount /\ t \in BOOLEAN /\ t
    BY <1>4, <2>0
  <2>3. ReaderStep([reader EXCEPT
                      !.method = m, !.ahead = a, !.gen = g,
                      !.lastGen = g, !.at = g, !.pc = "read", !.retry = t])
    <3>1. (reader.lastGen = g \/ (m = 1 /\ reader.retry)) = TRUE
      BY <1>9, <2>1
    <3>2. reader.lastGen # g /\ reader.ahead + step = 1
      BY <1>3, <1>9, <2>1
    <3> QED
      BY <1>2, <2>0, <2>1, <3>1, <3>2
  <2>4. g - a = reader.gen
    BY <1>3, <2>0, <2>1
  <2>5. n = atStart.newest => g >= n
    BY <1>1, <1>3, <2>1 DEF LooksAhead
  <2>6. reader.lastGen # None
    BY <1>3, <1>9 DEF None
  <2>7. g <= n \/ g - a - 1 \in failed
    BY <1>1, <1>3, <1>9, <2>1, <2>4, <2>6 DEF Retries, Passed
  <2>8. quiet => Largest(g - a) /\ Nothing(g - a)
    BY <1>1, <1>9, <2>4, <2>6 DEF Quiet, Reading
  <2>20. m \in {0, 1} /\ g \in Nat \ {0}
    BY <1>3, <2>1
  <2>21. m = 0 => a = 0 /\ Begun(n, g) /\ (t => Reached(n, g))
    BY <2>1, <2>2, <2>7, <2>8
  <2>22. m = 1 => t /\ (g <= n \/ g - a - 1 \in failed)
    BY <2>1, <2>2, <2>7, <2>8
  <2>23. quiet /\ m = 0 => Largest(g) /\ (t => Nothing(g))
    BY <2>1, <2>2, <2>7, <2>8
  <2>24. quiet /\ m = 1 => Largest(g - a) /\ Nothing(g - a)
    BY <2>1, <2>2, <2>7, <2>8
  <2> QED
    BY <1>7, <2>2, <2>3, <2>5, <2>20, <2>21, <2>22, <2>23, <2>24, Zenon
<1>10. CASE reader.method = 0 /\ ~(reader.lastGen = reader.gen /\ reader.retry)
  <2>1. m = 0 /\ step = 0 /\ g = reader.gen /\ reader.ahead = 0
    BY <1>2, <1>3, <1>10
  <2>0. PICK a : a = 0
    OBVIOUS
  <2>2. a \in 0..LookaheadCount
    BY <1>4, <2>0
  <2>3. PICK t \in BOOLEAN : t = (reader.lastGen = g)
    OBVIOUS
  <2>4. ReaderStep([reader EXCEPT
                      !.method = m, !.ahead = a, !.gen = g,
                      !.lastGen = g, !.at = g, !.pc = "read", !.retry = t])
    <3>1. (reader.lastGen = g \/ (m = 1 /\ reader.retry)) = t
      <4>1. ~(m = 1)
        BY <2>1
      <4> QED
        BY <2>3, <4>1, Zenon
    <3>2. ~(reader.lastGen = g /\ reader.retry) /\ reader.ahead + step = 0
      BY <1>10, <2>1
    <3> QED
      BY <1>2, <2>0, <2>1, <3>1, <3>2
  <2>5. n = atStart.newest => g >= n
    BY <1>1, <2>1 DEF LooksAhead
  <2>6. g # None /\ (t => reader.lastGen = g /\ ~reader.retry)
    <3>1. g # None
      BY <1>3, <2>1 DEF None
    <3>2. t => reader.lastGen = g
      BY <2>3, Zenon
    <3>3. reader.lastGen = g => ~reader.retry
      BY <1>10, <2>1, Zenon
    <3> QED
      BY <3>1, <3>2, <3>3, Zenon
  <2>7. Begun(n, g) /\ (t => Reached(n, g))
    BY <1>1, <1>10, <2>1, <2>6 DEF Retries
  <2>8. quiet => Largest(g) /\ (t => Nothing(g))
    BY <1>1, <1>10, <2>1, <2>6 DEF Quiet, Reading
  <2>20. m \in {0, 1} /\ g \in Nat \ {0}
    BY <1>3, <2>1
  <2>21. m = 0 => a = 0 /\ Begun(n, g) /\ (t => Reached(n, g))
    BY <2>0, <2>1, <2>2, <2>7, <2>8
  <2>22. m = 1 => t /\ (g <= n \/ g - a - 1 \in failed)
    BY <2>0, <2>1, <2>2, <2>7, <2>8
  <2>23. quiet /\ m = 0 => Largest(g) /\ (t => Nothing(g))
    BY <2>0, <2>1, <2>2, <2>7, <2>8
  <2>24. quiet /\ m = 1 => Largest(g - a) /\ Nothing(g - a)
    BY <2>0, <2>1, <2>2, <2>7, <2>8
  <2> QED
    BY <1>7, <2>2, <2>3, <2>4, <2>5, <2>20, <2>21, <2>22, <2>23, <2>24, Zenon
<1> QED
  BY <1>3, <1>6, <1>8, <1>9, <1>10

\* A body that throws, on a commit that is not the newest.
LEMMA Fails ==
    ASSUME Types, NEW n \in Generations, Directory(n), Since(n),
           LooksAhead(n), Retries(n), Quiet,
           reader.pc \in {"read", "segments", "prior"},
           NEW at \in Int, NEW toOpen \in SUBSET Generations, at # n,
           at = IF reader.pc = "prior" THEN reader.gen - 1 ELSE reader.at,
           ReaderStep(Failed([reader EXCEPT !.at = at, !.toOpen = toOpen]))
    PROVE  Keeps(n)
<1>1. PICK r : r = [reader EXCEPT !.at = at, !.toOpen = toOpen]
  OBVIOUS
<1>2. r \in ReaderRecord /\ r.tries < GenFileRetries /\ ReaderStep(Failed(r))
  BY <1>1, ReaderKinds DEF ReaderRecord
<1>3. /\ r.pc = reader.pc /\ r.genA = reader.genA /\ r.gen = reader.gen
      /\ r.lastGen = reader.lastGen /\ r.retry = reader.retry
      /\ r.method = reader.method /\ r.ahead = reader.ahead /\ r.at = at
  BY <1>1, ReaderKinds DEF ReaderRecord
<1>4. /\ r.gen \in Nat \ {0} /\ r.lastGen = r.gen /\ r.genA = None
      /\ r.method \in {0, 1} /\ r.retry \in BOOLEAN /\ r.ahead \in Int
      /\ at \in Int /\ n \in Nat \ {0}
      /\ r.gen # None
  BY <1>3, Kinds, ReaderKinds DEF Retries, None
<1>5. /\ r.method = 0 => /\ r.ahead = 0 /\ Begun(n, r.gen)
                         /\ r.retry => Reached(n, r.gen) /\ at = r.gen
      /\ r.method = 1 => /\ r.retry /\ at = r.gen
                         /\ r.gen <= n \/ r.gen - r.ahead - 1 \in failed
      /\ \/ at = r.gen
         \/ at = r.gen - 1 /\ r.gen > 1 /\ ~r.retry /\ r.method = 0
  BY <1>3, <1>4 DEF Retries
<1>6. n = atStart.newest => r.gen >= n
  BY <1>3 DEF LooksAhead
<1>7. /\ IsNewest(n) /\ n \in Listed /\ sis[n].valid /\ Listed \subseteq Generations
      /\ \A g \in Listed : sis[g].valid => g <= n
  BY NewestIs DEF Directory, IsNewest, Whole, Listed
<1>8. Begun(n, None)
  BY Kinds DEF Begun, None
<1>9. CASE at = r.gen /\ ~r.retry /\ r.gen > 1
  <2>1. PICK q : q = [r EXCEPT !.pc = "prior"]
    OBVIOUS
  <2>2. ReaderStep(q)
    BY <1>2, <1>3, <1>9, <2>1 DEF Failed
  <2>3. q \in ReaderRecord /\ q.tries < GenFileRetries
    BY <1>2, <2>1 DEF ReaderRecord
  <2>4. /\ q.pc = "prior" /\ q.genA = r.genA /\ q.gen = r.gen
        /\ q.lastGen = r.lastGen /\ q.retry = r.retry
        /\ q.method = r.method /\ q.ahead = r.ahead /\ q.at = at
    BY <1>2, <1>3, <2>1 DEF ReaderRecord
  <2>5. /\ Types' /\ Directory(n)' /\ Since(n)'
        /\ reader' = q /\ files' = files /\ sis' = sis /\ failed' = failed
        /\ atStart' = atStart /\ quiet' = quiet /\ Listed' = Listed
    BY <2>2, <2>3, <2>4, ReaderFrame
  <2>6. LooksAhead(n)'
    <3>1. n = atStart.newest => r.gen - 1 >= n
      BY <1>4, <1>6, <1>9
    <3> QED
      BY <1>6, <2>4, <2>5, <3>1 DEF LooksAhead
  <2>7. r.method = 0
    BY <1>4, <1>5, <1>9
  <2>8. Retries(n)'
    BY <1>4, <1>5, <1>8, <1>9, <2>4, <2>5, <2>7 DEF Retries, Begun, Reached, Passed
  <2>9. Quiet'
    <3>1. ASSUME quiet PROVE Largest(r.gen) /\ ~sis[r.gen].valid
      <4>1. Largest(r.gen)
        BY <1>3, <2>7, <3>1 DEF Quiet, Reading
      <4>2. r.gen >= n /\ r.gen \in Listed
        BY <1>7, <4>1 DEF Largest
      <4>3. sis[r.gen].valid => r.gen = n
        BY <1>4, <1>7, <4>2
      <4> QED
        BY <1>9, <4>1, <4>3
    <3> QED
      BY <2>4, <2>5, <2>7, <3>1 DEF Quiet, Reading, Largest, Nothing
  <2> QED
    BY <2>5, <2>6, <2>8, <2>9 DEF Keeps
<1>10. CASE r.method = 1
  <2>1. PICK q : q = [r EXCEPT !.pc = "choose"]
    OBVIOUS
  <2>2. ReaderStep(q)
    BY <1>2, <1>5, <1>10, <2>1 DEF Failed
  <2>3. q \in ReaderRecord /\ q.tries < GenFileRetries
    BY <1>2, <2>1 DEF ReaderRecord
  <2>4. /\ q.pc = "choose" /\ q.genA = r.genA /\ q.gen = r.gen
        /\ q.lastGen = r.lastGen /\ q.retry = r.retry
        /\ q.method = r.method /\ q.ahead = r.ahead /\ q.at = at
    BY <1>2, <1>3, <2>1 DEF ReaderRecord
  <2>5. /\ Types' /\ Directory(n)' /\ Since(n)'
        /\ reader' = q /\ files' = files /\ sis' = sis /\ failed' = failed
        /\ atStart' = atStart /\ quiet' = quiet /\ Listed' = Listed
    BY <2>2, <2>3, <2>4, ReaderFrame
  <2>6. LooksAhead(n)'
    BY <1>6, <2>4, <2>5 DEF LooksAhead
  <2>7. r.gen < n \/ r.gen - r.ahead - 1 \in failed
    BY <1>4, <1>5, <1>10
  <2>8. Retries(n)'
    BY <1>4, <1>5, <1>8, <1>10, <2>4, <2>5, <2>7 DEF Retries, Begun, Reached, Passed
  <2>9. Quiet'
    <3>1. quiet => Largest(r.gen - r.ahead) /\ Nothing(r.gen - r.ahead)
      BY <1>3, <1>10 DEF Quiet, Reading
    <3> QED
      BY <1>10, <2>4, <2>5, <3>1 DEF Quiet, Reading, Largest, Nothing
  <2> QED
    BY <2>5, <2>6, <2>8, <2>9 DEF Keeps
<1>11. CASE r.method = 0 /\ ~(at = r.gen /\ ~r.retry /\ r.gen > 1)
  <2>1. PICK q : q = [r EXCEPT !.pc = "list", !.unseen = Generations,
                              !.tries = 0, !.gen = 0, !.at = None]
    OBVIOUS
  <2>2. ReaderStep(q)
    BY <1>2, <1>3, <1>11, <2>1 DEF Failed
  <2>3. q \in ReaderRecord /\ q.tries < GenFileRetries
    <3>1. 0 \in 0..GenFileRetries /\ 0 < GenFileRetries /\ None \in Int
      BY BoundsAssumption DEF None
    <3>2. r \in ReaderRecord
      BY <1>2
    <3>3. Generations \in SUBSET Generations
      OBVIOUS
    <3>4. q \in ReaderRecord
      <4>1. PICK p : p = [r EXCEPT !.pc = "list", !.unseen = Generations]
        OBVIOUS
      <4>2. p \in ReaderRecord
        BY <3>2, <3>3, <4>1 DEF ReaderRecord
      <4>3. q = [p EXCEPT !.tries = 0, !.gen = 0, !.at = None]
        BY <2>1, <3>2, <4>1 DEF ReaderRecord
      <4>4. PICK z : z = 0
        OBVIOUS
      <4>5. z \in 0..GenFileRetries /\ z \in Int
        BY <3>1, <4>4
      <4>6. q = [p EXCEPT !.tries = z, !.gen = z, !.at = None]
        BY <4>3, <4>4
      <4>7. PICK s : s = [p EXCEPT !.tries = z]
        OBVIOUS
      <4>8. s \in ReaderRecord
        BY <4>2, <4>5, <4>7 DEF ReaderRecord
      <4>9. q = [s EXCEPT !.gen = z, !.at = None]
        BY <4>2, <4>6, <4>7 DEF ReaderRecord
      <4> QED
        BY <3>1, <4>5, <4>8, <4>9 DEF ReaderRecord
    <3>5. q.tries = 0
      BY <2>1, <3>2 DEF ReaderRecord
    <3> QED
      BY <3>1, <3>4, <3>5
  <2>4. /\ q.pc = "list" /\ q.genA = None /\ q.gen = 0 /\ q.unseen = Generations
        /\ q.lastGen = r.gen /\ q.retry = r.retry
        /\ q.method = 0 /\ q.ahead = 0
    BY <1>2, <1>3, <1>4, <1>5, <1>11, <2>1 DEF ReaderRecord
  <2>5. /\ Types' /\ Directory(n)' /\ Since(n)'
        /\ reader' = q /\ files' = files /\ sis' = sis /\ failed' = failed
        /\ atStart' = atStart /\ quiet' = quiet /\ Listed' = Listed
    BY <2>2, <2>3, <2>4, ReaderFrame
  <2>6. LooksAhead(n)'
    BY <2>4, <2>5 DEF LooksAhead
  <2>7. IF r.retry THEN Passed(n, r.gen) ELSE Reached(n, r.gen)
    <3>1. CASE r.retry
      BY <1>4, <1>5, <1>11, <3>1 DEF Reached, Passed
    <3>2. CASE ~r.retry
      BY <1>4, <1>5, <1>11, <3>2 DEF Begun, Reached
    <3> QED
      BY <3>1, <3>2
  <2>8. Retries(n)'
    BY <1>4, <1>8, <2>4, <2>5, <2>7 DEF Retries, Begun, Reached, Passed
  <2>9. Quiet'
    <3>1. ASSUME quiet PROVE Largest(r.gen) /\ Nothing(r.gen)
      <4>1. Largest(r.gen)
        BY <1>3, <1>11, <3>1 DEF Quiet, Reading
      <4>2. r.gen >= n /\ r.gen \in Listed
        BY <1>7, <4>1 DEF Largest
      <4>3. CASE r.retry
        <5>1. reader.pc \in {"read", "segments"}
          BY <1>3, <4>3 DEF Retries
        <5> QED
          BY <1>3, <1>11, <3>1, <4>1, <4>3, <5>1 DEF Quiet, Reading
      <4>4. CASE ~r.retry /\ at = r.gen - 1
        <5>1. ~sis[r.gen].valid
          BY <1>3, <1>4, <1>11, <3>1, <4>4 DEF Quiet, Reading
        <5>2. n <= r.gen - 1
          BY <1>4, <1>7, <4>2, <5>1
        <5>3. ~(r.gen - 1 \in Listed /\ sis[r.gen - 1].valid)
          BY <1>4, <1>7, <4>4, <5>2
        <5> QED
          BY <4>1, <5>1, <5>3 DEF Nothing
      <4>5. CASE ~r.retry /\ at # r.gen - 1
        <5>1. at = r.gen /\ r.gen = 1
          BY <1>4, <1>5, <1>11, <4>5
        <5> QED
          BY <1>4, <4>2, <5>1
      <4> QED
        BY <4>3, <4>4, <4>5
    <3> QED
      BY <1>4, <2>4, <2>5, <3>1 DEF Quiet, Reading, Largest, Nothing, Listed
  <2> QED
    BY <2>5, <2>6, <2>8, <2>9 DEF Keeps
<1> QED
  BY <1>4, <1>9, <1>10, <1>11

\* A body that comes to its end.
LEMMA ReturnsCommit ==
    ASSUME Types, NEW n \in Generations, Directory(n), Since(n),
           reader.at \in Generations, ReaderStep(Found(reader))
    PROVE  Keeps(n)
<1>1. reader.opened \in {None} \cup Generations /\ reader.call \in {"open", "current"}
  BY ReaderKinds DEF ReaderRecord
<1>2. CASE reader.call = "current" /\ reader.at # reader.opened
  <2>1. PICK r : r = Reader("list", "open", reader.opened)
    OBVIOUS
  <2>2. r \in ReaderRecord /\ r.tries < GenFileRetries
    BY <1>1, <2>1, Begins
  <2>3. ReaderStep(r)
    BY <1>2, <2>1 DEF Found
  <2>4. Types' /\ Directory(n)' /\ Since(n)' /\ reader' = r
    BY <2>2, <2>3, ReaderFrame
  <2> QED
    BY <1>1, <2>1, <2>4, Begins DEF Keeps
<1>3. CASE ~(reader.call = "current" /\ reader.at # reader.opened)
  <2>1. PICK r : r = Reader("idle", reader.call, reader.at)
    OBVIOUS
  <2>2. r \in ReaderRecord /\ r.tries < GenFileRetries
    BY <1>1, <2>1, Ends
  <2>3. ReaderStep(r)
    BY <1>3, <2>1 DEF Found
  <2>4. Types' /\ Directory(n)' /\ Since(n)' /\ reader' = r
    BY <2>2, <2>3, ReaderFrame
  <2> QED
    BY <1>1, <2>1, <2>4, Ends DEF Keeps
<1> QED
  BY <1>2, <1>3

LEMMA ReadsSegmentsFile ==
    ASSUME Types, NEW n \in Generations, Directory(n), Since(n),
           LooksAhead(n), Retries(n), Quiet, ReadSegmentsFile
    PROVE  Keeps(n)
<1>1. /\ reader.pc = "read" /\ reader \in ReaderRecord /\ reader.at \in Int
      /\ reader.tries < GenFileRetries
  BY ReaderKinds DEF ReadSegmentsFile
<1>2. /\ n \in Commits
      /\ \A g \in Commits : /\ g <= n /\ g \in Listed /\ sis[g].valid
                            /\ g \in Generations
  BY NewestIs DEF Directory, Listed
<1>3. PICK held, new :
        /\ new = IF reader.call = "open" THEN sis[reader.at].segs \ held ELSE {}
        /\ ReaderStep(IF reader.at \notin Commits THEN Failed(reader)
                      ELSE IF new = {} THEN Found(reader)
                      ELSE [reader EXCEPT !.pc = "segments", !.toOpen = new])
  BY Zenon DEF ReadSegmentsFile
<1>4. CASE reader.at \notin Commits
  <2>1. reader = [reader EXCEPT !.at = reader.at, !.toOpen = reader.toOpen]
    BY <1>1 DEF ReaderRecord
  <2>2. reader.toOpen \in SUBSET Generations
    BY <1>1 DEF ReaderRecord
  <2>3. ReaderStep(Failed([reader EXCEPT !.at = reader.at, !.toOpen = reader.toOpen]))
    BY <1>3, <1>4, <2>1
  <2> QED
    BY <1>1, <1>2, <1>4, <2>2, <2>3, Fails
<1>5. CASE reader.at \in Commits /\ new = {}
  BY <1>2, <1>3, <1>5, ReturnsCommit
<1>6. CASE reader.at \in Commits /\ new # {}
  <2>1. PICK r : r = [reader EXCEPT !.pc = "segments", !.toOpen = new]
    OBVIOUS
  <2>2. ReaderStep(r)
    BY <1>3, <1>6, <2>1
  <2>3. new \subseteq sis[reader.at].segs /\ new \in SUBSET Generations
    BY <1>2, <1>3, <1>6, Kinds
  <2>4. r \in ReaderRecord /\ r.tries < GenFileRetries
    BY <1>1, <2>1, <2>3 DEF ReaderRecord
  <2>5. /\ r.pc = "segments" /\ r.genA = reader.genA /\ r.gen = reader.gen
        /\ r.lastGen = reader.lastGen /\ r.retry = reader.retry
        /\ r.method = reader.method /\ r.ahead = reader.ahead
        /\ r.at = reader.at /\ r.toOpen = new
    BY <1>1, <2>1 DEF ReaderRecord
  <2>6. /\ Types' /\ Directory(n)' /\ Since(n)'
        /\ reader' = r /\ files' = files /\ sis' = sis /\ failed' = failed
        /\ atStart' = atStart /\ quiet' = quiet /\ Listed' = Listed
    BY <2>2, <2>4, <2>5, ReaderFrame
  <2>7. reader.at >= atStart.newest \/ reader.at \in atStart.points
    <3>1. /\ atStart.newest <= n /\ atStart.newest \in Int /\ n \in Int
          /\ n > atStart.newest =>
               \A g \in Listed : g < atStart.newest => g \in atStart.points
      BY Kinds DEF Since
    <3>2. n = atStart.newest => reader.at >= n
      BY <1>1 DEF LooksAhead
    <3>3. reader.at \in Listed
      BY <1>2, <1>6
    <3> QED
      BY <1>1, <3>1, <3>2, <3>3
  <2>8. /\ reader.at \in Generations /\ reader.at <= n /\ sis[reader.at].valid
        /\ reader.at \in Listed
    BY <1>2, <1>6
  <2>9. LooksAhead(n)'
    BY <1>1, <1>6, <2>3, <2>5, <2>6, <2>7, <2>8 DEF LooksAhead
  <2>10. Retries(n)'
    BY <1>1, <2>5, <2>6 DEF Retries, Begun, Reached, Passed
  <2>11. Quiet'
    BY <1>1, <2>5, <2>6, <2>8 DEF Quiet, Reading, Largest, Nothing
  <2> QED
    BY <2>6, <2>9, <2>10, <2>11 DEF Keeps
<1> QED
  BY <1>4, <1>5, <1>6

LEMMA OpensSegment ==
    ASSUME Types, NEW n \in Generations, Directory(n), Since(n),
           LooksAhead(n), Retries(n), Quiet, OpenSegment
    PROVE  Keeps(n)
<1>1. /\ reader.pc = "segments" /\ reader \in ReaderRecord /\ reader.at \in Int
      /\ reader.tries < GenFileRetries
  BY ReaderKinds DEF OpenSegment
<1>2. /\ reader.at \in Generations /\ reader.toOpen \subseteq sis[reader.at].segs
      /\ reader.toOpen # {} /\ reader.toOpen \subseteq Generations
  BY <1>1 DEF LooksAhead, ReaderRecord
<1>3. PICK k : k = CHOOSE j \in reader.toOpen : \A i \in reader.toOpen : i <= j
  OBVIOUS
<1>4. k \in reader.toOpen
  BY <1>2, <1>3, LargestExists
<1>5. ReaderStep(IF Core(k) \notin files THEN Failed([reader EXCEPT !.toOpen = {}])
                 ELSE IF reader.toOpen = {k} THEN Found(reader)
                 ELSE [reader EXCEPT !.toOpen = reader.toOpen \ {k}])
  BY <1>3, Zenon DEF OpenSegment
<1>6. CASE Core(k) \notin files
  <2>1. [reader EXCEPT !.toOpen = {}] = [reader EXCEPT !.at = reader.at, !.toOpen = {}]
    BY <1>1 DEF ReaderRecord
  <2>2. reader.at # n
    BY <1>2, <1>4, <1>6 DEF Directory, IsNewest, Whole, CommitFiles
  <2>3. ReaderStep(Failed([reader EXCEPT !.at = reader.at, !.toOpen = {}]))
    BY <1>5, <1>6, <2>1
  <2> QED
    BY <1>1, <2>2, <2>3, Fails
<1>7. CASE Core(k) \in files /\ reader.toOpen = {k}
  BY <1>2, <1>5, <1>7, ReturnsCommit
<1>8. CASE Core(k) \in files /\ reader.toOpen # {k}
  <2>1. PICK r : r = [reader EXCEPT !.toOpen = reader.toOpen \ {k}]
    OBVIOUS
  <2>2. ReaderStep(r)
    BY <1>5, <1>8, <2>1
  <2>3. /\ reader.toOpen \ {k} \in SUBSET Generations
        /\ reader.toOpen \ {k} # {}
    BY <1>2, <1>4, <1>8
  <2>4. r \in ReaderRecord /\ r.tries < GenFileRetries
    BY <1>1, <2>1, <2>3 DEF ReaderRecord
  <2>5. /\ r.pc = "segments" /\ r.genA = reader.genA /\ r.gen = reader.gen
        /\ r.lastGen = reader.lastGen /\ r.retry = reader.retry
        /\ r.method = reader.method /\ r.ahead = reader.ahead
        /\ r.at = reader.at /\ r.toOpen = reader.toOpen \ {k}
    BY <1>1, <2>1 DEF ReaderRecord
  <2>6. /\ Types' /\ Directory(n)' /\ Since(n)'
        /\ reader' = r /\ files' = files /\ sis' = sis /\ failed' = failed
        /\ atStart' = atStart /\ quiet' = quiet /\ Listed' = Listed
    BY <2>2, <2>4, <2>5, ReaderFrame
  <2>7. LooksAhead(n)'
    BY <1>1, <1>2, <2>3, <2>5, <2>6 DEF LooksAhead
  <2>8. Retries(n)'
    BY <1>1, <2>5, <2>6 DEF Retries, Begun, Reached, Passed
  <2>9. Quiet'
    BY <1>1, <2>5, <2>6 DEF Quiet, Reading, Largest, Nothing
  <2> QED
    BY <2>6, <2>7, <2>8, <2>9 DEF Keeps
<1> QED
  BY <1>6, <1>7, <1>8

LEMMA ChecksPrior ==
    ASSUME Types, NEW n \in Generations, Directory(n), Since(n),
           LooksAhead(n), Retries(n), Quiet, CheckPrior
    PROVE  Keeps(n)
<1>1. /\ reader.pc = "prior" /\ reader \in ReaderRecord
      /\ reader.gen - 1 \in Int /\ reader.gen \in Int
      /\ reader.tries < GenFileRetries
  BY ReaderKinds DEF CheckPrior
<1>2. PICK at : at = reader.gen - 1
  OBVIOUS
<1>3. ReaderStep(IF Segments([reader EXCEPT !.at = at].at) \in files
                 THEN [[reader EXCEPT !.at = at] EXCEPT !.pc = "read"]
                 ELSE Failed([reader EXCEPT !.at = at]))
  BY <1>2, Zenon DEF CheckPrior
<1>4. [reader EXCEPT !.at = at].at = at
  BY <1>1 DEF ReaderRecord
<1>5. CASE Segments(at) \notin files
  <2>1. [reader EXCEPT !.at = at]
          = [reader EXCEPT !.at = at, !.toOpen = reader.toOpen]
    BY <1>1 DEF ReaderRecord
  <2>2. at # n
    BY <1>5, NewestIs DEF Directory, Listed
  <2>3. reader.toOpen \in SUBSET Generations
    BY <1>1 DEF ReaderRecord
  <2>4. ReaderStep(Failed([reader EXCEPT !.at = at, !.toOpen = reader.toOpen]))
    BY <1>3, <1>4, <1>5, <2>1
  <2> QED
    BY <1>1, <1>2, <2>2, <2>3, <2>4, Fails
<1>6. CASE Segments(at) \in files
  <2>1. PICK r : r = [[reader EXCEPT !.at = at] EXCEPT !.pc = "read"]
    OBVIOUS
  <2>2. ReaderStep(r)
    BY <1>3, <1>4, <1>6, <2>1
  <2>3. r \in ReaderRecord /\ r.tries < GenFileRetries
    BY <1>1, <1>2, <2>1 DEF ReaderRecord
  <2>4. /\ r.pc = "read" /\ r.genA = reader.genA /\ r.gen = reader.gen
        /\ r.lastGen = reader.lastGen /\ r.retry = reader.retry
        /\ r.method = reader.method /\ r.ahead = reader.ahead
        /\ r.at = reader.gen - 1
    BY <1>1, <1>2, <2>1 DEF ReaderRecord
  <2>5. /\ Types' /\ Directory(n)' /\ Since(n)'
        /\ reader' = r /\ files' = files /\ sis' = sis /\ failed' = failed
        /\ atStart' = atStart /\ quiet' = quiet /\ Listed' = Listed
    BY <2>2, <2>3, <2>4, ReaderFrame
  <2>6. LooksAhead(n)'
    BY <1>1, <2>4, <2>5 DEF LooksAhead
  <2>7. reader.method = 0 /\ ~reader.retry /\ reader.gen > 1
    BY <1>1, ReaderKinds DEF Retries
  <2>8. Retries(n)'
    BY <1>1, <2>4, <2>5, <2>7 DEF Retries, Begun, Reached, Passed
  <2>9. Quiet'
    BY <1>1, <2>4, <2>5, <2>7 DEF Quiet, Reading, Largest, Nothing
  <2> QED
    BY <2>5, <2>6, <2>8, <2>9 DEF Keeps
<1> QED
  BY <1>5, <1>6

LEMMA Starts ==
    ASSUME Types, NEW n \in Generations, Directory(n), Since(n), Start
    PROVE  Keeps(n)
<1>1. /\ files' = files /\ sis' = sis /\ segGen' = segGen /\ writer' = writer
      /\ failed' = failed /\ quiet' = TRUE
      /\ atStart' = [newest |-> Newest, points |-> writer.points]
  BY DEF Start, dirVars
<1>2. PICK c \in {"open", "current"}, o \in {None} \cup Generations :
         reader' = Reader("list", c, o)
  <2>1. reader.opened \in {None} \cup Generations
    BY ReaderKinds
  <2>2. CASE reader.opened = None
    <3>1. reader' = Reader("list", "open", None)
      BY <2>2 DEF Start
    <3> QED
      BY <3>1
  <2>3. CASE reader.opened # None
    <3>1. reader' = Reader("list", "current", reader.opened)
      BY <2>3 DEF Start
    <3> QED
      BY <2>1, <3>1
  <2> QED
    BY <2>2, <2>3
<1>3. Newest = n /\ writer.points \in SUBSET Generations
  BY NewestIs, Kinds DEF Directory
<1>4. Listed' = Listed
  BY <1>1 DEF Listed
<1>5. reader' \in ReaderRecord /\ reader'.tries < GenFileRetries
  BY <1>2, Begins
<1>6. Types'
  BY <1>1, <1>3, <1>5 DEF Types, TypeOK, ReaderRecord
<1>7. Directory(n)'
  BY <1>1, <1>4 DEF Directory, IsNewest, Whole, CommitFiles, Skipped
<1>8. Since(n)'
  BY <1>1, <1>3, Kinds DEF Since
<1> QED
  BY <1>2, <1>6, <1>7, <1>8, Begins DEF Keeps

LEMMA ReaderSteps ==
    ASSUME Types, NEW n \in Generations, Directory(n), Since(n),
           LooksAhead(n), Retries(n), Quiet, Start \/ ReaderNext
    PROVE  Keeps(n)
BY Starts, Lists, ReadsGen, Chooses, ReadsSegmentsFile, OpensSegment, ChecksPrior
   DEF ReaderNext

-----------------------------------------------------------------------------
(***************************************************************************)
(* The invariant.                                                          *)
(***************************************************************************)
LEMMA InitInvariant == Init => IInv
<1> SUFFICES ASSUME Init PROVE IInv
  OBVIOUS
<1>1. PICK n \in 1..2, torn \in BOOLEAN, left \in SUBSET {Segments(1), Core(1)} :
        /\ torn => n < MaxGeneration
        /\ files = left \cup {Segments(n), Core(n)}
                     \cup (IF torn THEN {Segments(n + 1)} ELSE {})
        /\ sis = [g \in Generations |-> [valid |-> g <= n, segs |-> {g}]]
        /\ segGen \in {None, Empty} \cup 1..n
        /\ writer = Closed
        /\ reader = Reader("idle", "open", None)
        /\ atStart = NotReading /\ quiet = TRUE /\ failed = {}
  BY Zenon DEF Init
<1>2. /\ n \in Generations /\ 1 \in Generations /\ n \in Nat \ {0}
      /\ torn => n + 1 \in Generations
      /\ \A g \in Generations : g \in Nat \ {0}
      /\ 1..n \subseteq Generations
  BY <1>1, BoundsAssumption DEF Generations
<1>3. Types
  <2>1. files \subseteq NamesOf(Generations)
    BY <1>1, <1>2 DEF NamesOf
  <2>2. sis \in [Generations -> [valid: BOOLEAN, segs: SUBSET Generations]]
    BY <1>1, <1>2
  <2>3. segGen \in {None, Empty} \cup Generations
    BY <1>1, <1>2
  <2>4. writer \in [pc: {"closed", "idle", "prepared", "removeGen",
                         "createGen", "fillGen", "checkpoint"},
                    generation: {None} \cup Generations,
                    last: {None} \cup Generations,
                    points: SUBSET Generations,
                    snapshot: {None} \cup Generations,
                    doomed: SUBSET files]
    BY <1>1 DEF Closed
  <2>5. reader \in ReaderRecord /\ reader.tries < GenFileRetries
    BY <1>1, BoundsAssumption DEF Reader, ReaderRecord, None, LookaheadCount
  <2>6. atStart \in [newest: Generations, points: SUBSET Generations]
    BY <1>1, <1>2 DEF NotReading
  <2>7. quiet \in BOOLEAN /\ failed \subseteq Generations
    BY <1>1
  <2> QED
    BY <2>1, <2>2, <2>3, <2>4, <2>5, <2>6, <2>7
       DEF Types, TypeOK, NamesOf, ReaderRecord
<1>4. Listed \subseteq {1, n, n + 1} /\ \A g \in Generations : sis[g].valid = (g <= n)
  BY <1>1, <1>2, Names DEF Listed
<1>5. \A g \in Listed : g <= n + 1 /\ (sis[g].valid => g <= n)
  <2>1. \A g \in Listed : sis[g].valid => g <= n
    BY <1>4 DEF Listed
  <2> QED
    BY <1>2, <1>4, <2>1
<1>6. Directory(n)
  <2>1. IsNewest(n)
    <3>1. sis[n].valid /\ sis[n].segs = {n}
      <4>1. n <= n
        BY <1>2
      <4> QED
        BY <1>1, <1>2, <4>1
    <3>2. CommitFiles(n) = {Segments(n), Core(n)}
      BY <3>1 DEF CommitFiles
    <3>3. Whole(n)
      BY <1>1, <3>1, <3>2 DEF Whole, Closed
    <3> QED
      BY <1>2, <1>5, <3>3 DEF IsNewest
  <2>2. \A g \in Generations : sis[g].segs \subseteq 1..g
    BY <1>1, <1>2
  <2>3. segGen <= n
    BY <1>1, <1>2 DEF None, Empty
  <2>4. \A g \in Listed : g - 1 <= n \/ g - 1 \in failed
    BY <1>2, <1>4 DEF Listed
  <2> QED
    BY <1>1, <1>5, <2>1, <2>2, <2>3, <2>4 DEF Directory, Closed, Finished
<1>7. Since(n)
  BY <1>1, <1>2, <1>4 DEF Since, NotReading, Closed, Listed
<1>8. LooksAhead(n) /\ Retries(n) /\ Quiet
  <2>1. /\ reader.pc = "idle" /\ reader.genA = None
        /\ reader.retry = FALSE /\ reader.method = 0 /\ reader.ahead = 0
    BY <1>1 DEF Reader
  <2>2. Begun(n, None)
    BY <1>2 DEF Begun, None
  <2> QED
    BY <2>1, <2>2 DEF LooksAhead, Retries, Quiet, Reading
<1> QED
  BY <1>2, <1>3, <1>6, <1>7, <1>8 DEF IInv

LEMMA StepInvariant == IInv /\ [Next]_vars => IInv'
<1> SUFFICES ASSUME IInv, [Next]_vars PROVE IInv'
  OBVIOUS
<1>1. PICK n \in Generations :
        Directory(n) /\ Since(n) /\ LooksAhead(n) /\ Retries(n)
  BY DEF IInv
<1>2. Types /\ Quiet
  BY DEF IInv
<1>3. CASE WriterNext
  <2>1. PICK m \in Generations : Directory(m)' /\ Since(m)' /\ Later(n, m)
    BY <1>1, <1>2, <1>3, WriterSteps
  <2>2. LooksAhead(m)' /\ Retries(m)'
    BY <1>1, <1>2, <2>1, WriterKeepsReader
  <2>3. Types' /\ Quiet'
    BY <1>1, <1>2, <1>3, WriterTypes, WriterQuiet
  <2> QED
    BY <2>1, <2>2, <2>3 DEF IInv
<1>4. CASE Start \/ ReaderNext
  <2>1. Keeps(n)
    BY <1>1, <1>2, <1>4, ReaderSteps
  <2> QED
    BY <2>1 DEF IInv, Keeps
<1>5. CASE UNCHANGED vars
  <2>1. UNCHANGED <<files, sis, segGen, writer, reader, atStart, quiet, failed>>
    BY <1>5 DEF vars
  <2>2. Listed' = Listed
    BY <2>1 DEF Listed
  <2>3. Types'
    BY <1>2, <2>1 DEF Types, TypeOK
  <2>4. Directory(n)' /\ Since(n)'
    BY <1>1, <2>1, <2>2
       DEF Directory, IsNewest, Whole, CommitFiles, Skipped, Since
  <2>5. LooksAhead(n)' /\ Retries(n)'
    BY <1>1, <2>1 DEF LooksAhead, Retries, Begun, Reached, Passed
  <2>6. Quiet'
    BY <1>2, <2>1, <2>2 DEF Quiet, Reading, Largest, Nothing
  <2> QED
    BY <2>3, <2>4, <2>5, <2>6 DEF IInv
<1> QED
  BY <1>3, <1>4, <1>5 DEF Next

\* What holds of a reader in doRun and of the directory that the writer
\* changes under it, at every step of both.
THEOREM Invariant == Spec => []IInv
<1> QED
  BY InitInvariant, StepInvariant, PTL DEF Spec

\* The variables of doRun, and the directory, keep their types.
THEOREM Typed == Spec => []TypeOK
<1>1. IInv => TypeOK
  BY DEF IInv, Types
<1> QED
  BY <1>1, Invariant, PTL

\* doRun throws only after a failed commit, or when as many commits as
\* its look-ahead tries came and went; and it sees no segments_N at all only
\* when the names were listed while a commit was finished.
THEOREM GivesUpRarely == Spec => []KeepsLooking
<1>1. ASSUME IInv PROVE KeepsLooking
  <2>1. PICK n \in Generations :
          Directory(n) /\ Since(n) /\ LooksAhead(n) /\ Retries(n)
    BY <1>1 DEF IInv
  <2>2. Types
    BY <1>1 DEF IInv
  <2>3. Newest = n
    BY <2>1, NewestIs DEF Directory
  <2>4. /\ n \in Int /\ atStart.newest \in Int /\ atStart.newest <= n
        /\ reader.gen \in Int
    BY <2>1, <2>2, Kinds, ReaderKinds DEF Since
  <2>5. reader.pc = "threw" =>
          \/ reader.gen - reader.ahead - 1 \in failed
          \/ reader.ahead = LookaheadCount /\ n > reader.gen
    BY <2>1, <2>4 DEF Retries
  <2>6. reader.pc = "noFile" => ~AtomicListing /\ n > atStart.newest
    BY <2>1, <2>4 DEF LooksAhead
  <2> QED
    BY <2>3, <2>5, <2>6 DEF KeepsLooking
<1> QED
  BY <1>1, Invariant, PTL

-----------------------------------------------------------------------------
(***************************************************************************)
(* How a search comes to its end.                                          *)
(***************************************************************************)
\* With the commit that was read, the segments it needs all open
Answered(n) ==
    /\ reader.pc \in {"read", "segments"}
    /\ reader'.pc = "idle" /\ reader'.opened = reader.at
    /\ reader.at \in Generations /\ reader.at <= n /\ sis[reader.at].valid
    /\ reader.at >= atStart.newest \/ reader.at \in atStart.points
    /\ quiet => reader.at \in Listed

LEMMA FoundEnds ==
    ASSUME ReaderStep(Found(reader)), ~Reading'
    PROVE  reader'.pc = "idle" /\ reader'.opened = reader.at
<1>1. reader' = Found(reader)
  BY DEF ReaderStep
<1>2. Reader("list", "open", reader.opened).pc = "list"
  BY DEF Reader
<1>3. reader' = Reader("idle", reader.call, reader.at)
  BY <1>1, <1>2 DEF Found, Reading
<1> QED
  BY <1>3 DEF Reader

LEMMA FailedGoesOn ==
    ASSUME NEW r \in ReaderRecord, ReaderStep(Failed(r))
    PROVE  Reading'
<1>1. reader' = Failed(r)
  BY DEF ReaderStep
<1>2. reader'.pc \in {"prior", "choose", "list"}
  BY <1>1 DEF Failed, ReaderRecord
<1> QED
  BY <1>2 DEF Reading

LEMMA ReadEnds ==
    ASSUME Types, NEW n \in Generations, Directory(n), Since(n), LooksAhead(n),
           ReadSegmentsFile, ~Reading'
    PROVE  Answered(n)
<1>1. reader.pc = "read" /\ reader \in ReaderRecord /\ reader.at \in Int
  BY ReaderKinds DEF ReadSegmentsFile
<1>2. PICK new :
        ReaderStep(IF reader.at \notin Commits THEN Failed(reader)
                   ELSE IF new = {} THEN Found(reader)
                   ELSE [reader EXCEPT !.pc = "segments", !.toOpen = new])
  BY Zenon DEF ReadSegmentsFile
<1>3. reader.at \in Commits
  BY <1>1, <1>2, FailedGoesOn
<1>4. new = {}
  <2>1. SUFFICES ASSUME new # {} PROVE FALSE
    OBVIOUS
  <2>2. reader' = [reader EXCEPT !.pc = "segments", !.toOpen = new]
    BY <1>2, <1>3, <2>1 DEF ReaderStep
  <2>3. reader'.pc = "segments"
    BY <1>1, <2>2 DEF ReaderRecord
  <2> QED
    BY <2>3 DEF Reading
<1>5. reader'.pc = "idle" /\ reader'.opened = reader.at
  BY <1>2, <1>3, <1>4, FoundEnds
<1>6. /\ reader.at \in Generations /\ reader.at <= n /\ sis[reader.at].valid
      /\ reader.at \in Listed
  BY <1>3, NewestIs DEF Directory, Listed
<1>7. reader.at >= atStart.newest \/ reader.at \in atStart.points
  <2>1. /\ atStart.newest <= n /\ atStart.newest \in Int /\ n \in Int
        /\ n > atStart.newest =>
             \A g \in Listed : g < atStart.newest => g \in atStart.points
    BY Kinds DEF Since
  <2>2. n = atStart.newest => reader.at >= n
    BY <1>1 DEF LooksAhead
  <2> QED
    BY <1>1, <1>6, <2>1, <2>2
<1> QED
  BY <1>1, <1>5, <1>6, <1>7 DEF Answered

LEMMA OpenEnds ==
    ASSUME Types, NEW n \in Generations, LooksAhead(n), Quiet,
           OpenSegment, ~Reading'
    PROVE  Answered(n)
<1>1. reader.pc = "segments" /\ reader \in ReaderRecord
  BY ReaderKinds DEF OpenSegment
<1>2. PICK k :
        ReaderStep(IF Core(k) \notin files THEN Failed([reader EXCEPT !.toOpen = {}])
                   ELSE IF reader.toOpen = {k} THEN Found(reader)
                   ELSE [reader EXCEPT !.toOpen = reader.toOpen \ {k}])
  BY Zenon DEF OpenSegment
<1>3. [reader EXCEPT !.toOpen = {}] \in ReaderRecord
  BY <1>1 DEF ReaderRecord
<1>4. Core(k) \in files
  BY <1>2, <1>3, FailedGoesOn
<1>5. reader.toOpen = {k}
  <2>1. SUFFICES ASSUME reader.toOpen # {k} PROVE FALSE
    OBVIOUS
  <2>2. reader' = [reader EXCEPT !.toOpen = reader.toOpen \ {k}]
    BY <1>2, <1>4, <2>1 DEF ReaderStep
  <2>3. reader'.pc = "segments"
    BY <1>1, <2>2 DEF ReaderRecord
  <2> QED
    BY <2>3 DEF Reading
<1>6. reader'.pc = "idle" /\ reader'.opened = reader.at
  BY <1>2, <1>4, <1>5, FoundEnds
<1>7. quiet => reader.at \in Listed
  BY <1>1 DEF Quiet, Reading
<1> QED
  BY <1>1, <1>6, <1>7 DEF Answered, LooksAhead

LEMMA Ending ==
    ASSUME Types, NEW n \in Generations, Directory(n), Since(n),
           LooksAhead(n), Retries(n), Quiet, [Next]_vars, Reading, ~Reading'
    PROVE  \/ Answered(n)
           \/ reader'.pc = "noFile" /\ ~quiet
           \/ reader'.pc = "threw" /\ reader.method = 1
<1>1. reader' # reader
  BY DEF Reading
<1>2. reader \in ReaderRecord
  BY ReaderKinds
<1>3. ~WriterNext
  BY <1>1 DEF WriterNext, Open, Unlink, Prepare, RollbackCommit, FinishSegmentsFile,
     RemoveGen, CreateGen, CreateFails, FillGen, SegmentsGen, Checkpoint,
     Snapshot, Changes, histVars
<1>4. ReaderNext
  BY <1>1, <1>3 DEF Next, vars, Start
<1>5. ~ListEntry
  <2>1. ASSUME ListEntry PROVE Reading'
    <3>1. CASE AtomicListing
      <4>1. reader' = [reader EXCEPT
                         !.genA = CurrentSegmentGeneration(files, sis), !.pc = "gen"]
        BY <2>1, <3>1 DEF ListEntry, ReaderStep
      <4>2. reader'.pc = "gen"
        BY <1>2, <4>1 DEF ReaderRecord
      <4> QED
        BY <4>2 DEF Reading
    <3>2. CASE ~AtomicListing
      <4>1. PICK g \in reader.unseen :
              reader' = [reader EXCEPT
                           !.unseen = @ \ {g},
                           !.genA = IF Segments(g) \in files THEN Larger(@, g) ELSE @,
                           !.pc = IF reader.unseen = {g} THEN "gen" ELSE "list"]
        BY <2>1, <3>2 DEF ListEntry, ReaderStep
      <4>2. reader'.pc = IF reader.unseen = {g} THEN "gen" ELSE "list"
        BY <1>2, <4>1 DEF ReaderRecord
      <4> QED
        BY <4>2 DEF Reading
    <3> QED
      BY <3>1, <3>2
  <2> QED
    BY <2>1
<1>6. ASSUME ReadSegmentsGen PROVE reader'.pc = "noFile" /\ ~quiet
  <2>1. reader.pc = "gen"
    BY <1>6 DEF ReadSegmentsGen
  <2>2. PICK genB \in {segGen, None} : reader' = Chosen(reader, genB)
    <3>1. SUFFICES ASSUME reader' = [reader EXCEPT !.tries = reader.tries + 1]
                   PROVE  FALSE
      BY <1>6 DEF ReadSegmentsGen, ReaderStep
    <3>2. reader'.pc = "gen"
      BY <1>2, <2>1, <3>1 DEF ReaderRecord
    <3> QED
      BY <3>2 DEF Reading
  <2>3. reader'.pc = IF Larger(reader.genA, genB) = None THEN "noFile" ELSE "choose"
    BY <1>2, <2>2 DEF Chosen, ReaderRecord
  <2>4. Larger(reader.genA, genB) = None /\ reader'.pc = "noFile"
    BY <2>3 DEF Reading
  <2>5. ASSUME quiet PROVE FALSE
    <3>1. Largest(reader.genA)
      BY <2>1, <2>5 DEF Quiet, Reading
    <3>2. reader.genA \in Nat \ {0} /\ genB \in Int
      BY <2>2, <3>1, Kinds DEF Largest, Listed, None
    <3> QED
      BY <2>4, <3>2 DEF Larger, None
  <2> QED
    BY <2>4, <2>5
<1>7. ASSUME Choose PROVE reader'.pc = "threw" /\ reader.method = 1
  <2>1. reader.pc = "choose"
    BY <1>7 DEF Choose
  <2> DEFINE m == IF reader.method = 1
                       \/ (reader.lastGen = reader.gen /\ reader.retry)
                  THEN 1 ELSE 0
             step == IF m = 1 /\ reader.ahead < LookaheadCount THEN 1 ELSE 0
             g == reader.gen + step
  <2>2. reader' = IF reader.lastGen = g /\ reader.retry
                  THEN [reader EXCEPT !.pc = "threw"]
                  ELSE [reader EXCEPT
                          !.method = m, !.ahead = reader.ahead + step,
                          !.gen = g, !.lastGen = g, !.at = g, !.pc = "read",
                          !.retry = reader.lastGen = g
                                       \/ (m = 1 /\ reader.retry)]
    BY <1>7 DEF Choose, ReaderStep
  <2>3. reader.method = 0 => reader.ahead = 0
    BY DEF Retries
  <2>4. /\ reader.method \in {0, 1} /\ reader.gen \in Int /\ reader.lastGen \in Int
        /\ LookaheadCount = 10
    BY ReaderKinds DEF LookaheadCount
  <2>5. reader.method = 0 => ~(reader.lastGen = g /\ reader.retry)
    BY <2>3, <2>4
  <2> HIDE DEF m, step, g
  <2>6. reader.lastGen = g /\ reader.retry
    <3>1. SUFFICES ASSUME ~(reader.lastGen = g /\ reader.retry) PROVE FALSE
      OBVIOUS
    <3>2. PICK t : reader' = [reader EXCEPT
                          !.method = m, !.ahead = reader.ahead + step,
                          !.gen = g, !.lastGen = g, !.at = g, !.pc = "read",
                          !.retry = t]
      BY <2>2, <3>1, Zenon
    <3>3. reader'.pc = "read"
      BY <1>2, <3>2 DEF ReaderRecord
    <3> QED
      BY <3>3 DEF Reading
  <2>7. reader'.pc = "threw"
    BY <1>2, <2>2, <2>6 DEF ReaderRecord
  <2> QED
    BY <2>4, <2>5, <2>6, <2>7
<1>8. ~CheckPrior
  <2>1. SUFFICES ASSUME CheckPrior PROVE FALSE
    OBVIOUS
  <2>2. PICK r : r = [reader EXCEPT !.at = reader.gen - 1]
    OBVIOUS
  <2>3. r \in ReaderRecord
    BY <1>2, <2>2 DEF ReaderRecord
  <2>4. \/ ReaderStep(Failed(r))
        \/ reader' = [r EXCEPT !.pc = "read"]
    BY <2>1, <2>2, Zenon DEF CheckPrior, ReaderStep
  <2>5. reader' = [r EXCEPT !.pc = "read"]
    BY <2>3, <2>4, FailedGoesOn
  <2>6. reader'.pc = "read"
    BY <2>3, <2>5 DEF ReaderRecord
  <2> QED
    BY <2>6 DEF Reading
<1> QED
  BY <1>4, <1>5, <1>6, <1>7, <1>8, ReadEnds, OpenEnds DEF ReaderNext

\* What doRun opens was the newest commit when it began, or is newer, or
\* was kept for a snapshot, although it falls back to older generations.
THEOREM ReadersAreNotStale == Spec => NeverStale
<1>1. ASSUME IInv, [Next]_vars, Finds
      PROVE  \/ reader'.opened \in atStart.newest..Newest
             \/ reader'.opened \in atStart.points
  <2>1. PICK n \in Generations :
          Directory(n) /\ Since(n) /\ LooksAhead(n) /\ Retries(n)
    BY <1>1 DEF IInv
  <2>2. Types /\ Quiet
    BY <1>1 DEF IInv
  <2>3. Newest = n
    BY <2>1, <2>2, NewestIs DEF Directory
  <2>4. Reading /\ ~Reading' /\ reader'.pc = "idle"
    BY <1>1 DEF Finds, Reading
  <2>5. Answered(n)
    BY <1>1, <2>1, <2>2, <2>4, Ending
  <2>6. n \in Int /\ atStart.newest \in Int /\ reader.at \in Int
    BY <2>2, Kinds, ReaderKinds
  <2> QED
    BY <2>3, <2>5, <2>6 DEF Answered
<1>2. IInv /\ [Next]_vars =>
        [Finds => \/ reader'.opened \in atStart.newest..Newest
                  \/ reader'.opened \in atStart.points]_vars
  BY <1>1
<1> QED
  BY <1>2, Invariant, PTL DEF Spec, NeverStale

\* In a directory nobody changes doRun, with all its retries, returns
\* the commit FindSegments names, and throws when it names none.
THEOREM SearchIsFindSegments == Spec => QuietFinds
<1>1. ASSUME IInv, [Next]_vars, Reading, ~Reading', quiet,
             NEW f, f = FindSegments(files, sis, segGen)
      PROVE  IF f = None THEN reader'.pc # "idle"
             ELSE reader'.pc = "idle" /\ reader'.opened = f
  <2>1. PICK n \in Generations :
          Directory(n) /\ Since(n) /\ LooksAhead(n) /\ Retries(n)
    BY <1>1 DEF IInv
  <2>2. Types /\ Quiet
    BY <1>1 DEF IInv
  <2>3. IsNewest(n) /\ segGen <= n
    BY <2>1 DEF Directory
  <2>4. \A g : Largest(g) =>
          f = IF sis[g].valid THEN g
              ELSE IF g - 1 \in Listed /\ sis[g - 1].valid THEN g - 1
              ELSE None
    BY <1>1, <2>2, <2>3, FindsIs
  <2>5. reader.method \in {0, 1} /\ reader.at \in Int /\ reader.gen \in Int
        /\ reader.ahead \in Int /\ reader.ahead >= 0
    BY <2>2, ReaderKinds DEF ReaderRecord
  <2>6. \A g \in Generations : g # None
    BY <2>2, Kinds DEF None
  <2>7. CASE Answered(n)
    <3>1. /\ reader.pc \in {"read", "segments"} /\ reader'.pc = "idle"
          /\ reader'.opened = reader.at
          /\ reader.at \in Generations /\ sis[reader.at].valid /\ reader.at \in Listed
      BY <1>1, <2>7 DEF Answered
    <3>2. CASE reader.method = 0
      <4>1. Largest(reader.gen)
        BY <1>1, <2>2, <3>1, <3>2 DEF Quiet
      <4>2. CASE reader.at = reader.gen
        BY <2>4, <2>6, <3>1, <4>1, <4>2
      <4>3. CASE reader.at # reader.gen
        <5>1. ~sis[reader.gen].valid
          BY <1>1, <2>2, <3>1, <3>2, <4>3 DEF Quiet
        <5>2. reader.at = reader.gen - 1
          BY <2>1, <3>1, <4>3 DEF Retries
        <5> QED
          BY <2>4, <2>6, <3>1, <4>1, <5>1, <5>2
      <4> QED
        BY <4>2, <4>3
    <3>3. CASE reader.method = 1
      <4>1. PICK b : b = reader.gen - reader.ahead
        OBVIOUS
      <4>2. Largest(b) /\ Nothing(b)
        BY <1>1, <2>2, <3>3, <4>1 DEF Quiet
      <4>3. reader.at = reader.gen
        BY <2>1, <3>1, <3>3 DEF Retries
      <4>4. reader.gen <= b
        BY <3>1, <4>2, <4>3 DEF Largest
      <4>5. reader.gen = b
        BY <2>5, <4>1, <4>4
      <4> QED
        BY <3>1, <4>2, <4>3, <4>5 DEF Nothing
    <3> QED
      BY <2>5, <3>2, <3>3
  <2>8. CASE reader'.pc = "noFile" /\ ~quiet
    BY <1>1, <2>8
  <2>9. CASE reader'.pc = "threw" /\ reader.method = 1
    <3>1. Largest(reader.gen - reader.ahead) /\ Nothing(reader.gen - reader.ahead)
      BY <1>1, <2>2, <2>9 DEF Quiet
    <3>2. f = None
      BY <2>4, <3>1 DEF Nothing
    <3> QED
      BY <2>9, <3>2
  <2> QED
    BY <1>1, <2>1, <2>2, <2>7, <2>8, <2>9, Ending
<1>2. IInv /\ [Next]_vars =>
        [Reading /\ ~Reading' /\ quiet =>
           LET g == FindSegments(files, sis, segGen)
           IN  IF g = None THEN reader'.pc # "idle"
               ELSE reader'.pc = "idle" /\ reader'.opened = g]_vars
  BY <1>1
<1> QED
  BY <1>2, Invariant, PTL DEF Spec, QuietFinds
=============================================================================
