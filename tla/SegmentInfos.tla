---------------------------- MODULE SegmentInfos ----------------------------
(***************************************************************************)
(* The list of segments of an index, the files a list refers to, and how   *)
(* the newest readable list is found in a directory.                       *)
(*                                                                         *)
(* A file name is abstracted to what tells two files apart: its kind, the  *)
(* segment (or commit generation) it belongs to and, for deletions, its    *)
(* own generation.  All the non-store files of a segment (_x.frq, _x.tis   *)
(* ...) are written, synced and deleted together and are one file here, as *)
(* are the store files (_x.fdt, _x.fdx, _x.tvx ...).                       *)
(***************************************************************************)
EXTENDS Integers, Sequences

None == -1

Core(n)     == <<"core", n, 0>>        \* the non-store files of segment n
Store(n)    == <<"store", n, 0>>       \* stored fields and vectors of n
Cfs(n)      == <<"cfs", n, 0>>         \* n.cfs, the compound file
Cfx(n)      == <<"cfx", n, 0>>         \* n.cfx, the compound doc store
Del(n, g)   == <<"del", n, g>>         \* n_g.del, deleted documents
Segments(g) == <<"segments", g, 0>>    \* segments_g, a commit point

FileName == {"core", "store", "cfs", "cfx", "del", "segments"} \X Int \X Nat

(***************************************************************************)
(* A SegmentInfo.  ds is docStoreSegment, None when the segment has its    *)
(* doc store to itself (docStoreOffset = -1); dsc is docStoreIsCompound-   *)
(* File; delGen 0 stands for NO.                                           *)
(***************************************************************************)
SegmentInfo == [name: Nat, ds: Nat \cup {None}, dsc: BOOLEAN,
                cfs: BOOLEAN, delGen: Nat]

\* SegmentInfo::files
SegmentFiles(s) ==
    {IF s.cfs THEN Cfs(s.name) ELSE Core(s.name)}
    \cup (IF s.ds # None
          THEN {IF s.dsc THEN Cfx(s.ds) ELSE Store(s.ds)}
          ELSE IF s.cfs THEN {} ELSE {Store(s.name)})
    \cup (IF s.delGen > 0 THEN {Del(s.name, s.delGen)} ELSE {})

\* SegmentInfos::files(dir, false); files(dir, true) adds Segments(lastGeneration)
InfosFiles(segs) == UNION {SegmentFiles(segs[i]) : i \in DOMAIN segs}

\* A SegmentInfos object
InfosRecord == [segs: Seq(SegmentInfo), generation: Int, lastGeneration: Int,
                counter: Nat]

\* No SegmentInfos: pendingCommit is null
NoInfos == [segs |-> <<>>, generation |-> None, lastGeneration |-> None,
            counter |-> 0]

\* SegmentInfos::updateGeneration
UpdateGeneration(si, other) ==
    [si EXCEPT !.generation = other.generation,
               !.lastGeneration = other.lastGeneration]

\* Mutant: the generation of the last commit is used again
SameGeneration(si) == IF si.generation = None THEN 1 ELSE si.generation

\* The generation SegmentInfos::write gives the file it creates
NextGeneration(si) == IF si.generation = None THEN 1 ELSE si.generation + 1

(***************************************************************************)
(* Finding the current commit.  files is the directory listing, sis[g] the *)
(* contents of segments_g and segGen what segments.gen holds (None when    *)
(* it is missing or its two copies differ).                                *)
(***************************************************************************)

\* SegmentInfos::read of segments_g succeeds: the file is there and its
\* trailing checksum matches.
Readable(files, sis, g) == Segments(g) \in files /\ sis[g].valid

CommitGenerations(files, sis) == {g \in DOMAIN sis : Segments(g) \in files}

\* SegmentInfos::getCurrentSegmentGeneration
CurrentSegmentGeneration(files, sis) ==
    LET gens == CommitGenerations(files, sis)
    IN  IF gens = {} THEN None
        ELSE CHOOSE g \in gens : \A h \in gens : h <= g

LookaheadCount == 10   \* defaultGenLookaheadCount

(***************************************************************************)
(* FindSegmentsFile::doRun in a directory that nobody changes meanwhile:   *)
(* the generation it reads, None when it throws.  The larger of the two    *)
(* generations is tried first, then its predecessor, then the generation   *)
(* again, and at last the look-ahead.                                      *)
(***************************************************************************)
FindSegments(files, sis, segGen) ==
    LET genA == CurrentSegmentGeneration(files, sis)
        gen  == IF segGen > genA THEN segGen ELSE genA
        ok(g) == g \in DOMAIN sis /\ Readable(files, sis, g)
        ahead == {g \in (gen + 1)..(gen + LookaheadCount) : ok(g)}
    IN  IF gen = None THEN None
        ELSE IF ok(gen) THEN gen
        ELSE IF gen > 1 /\ ok(gen - 1) THEN gen - 1
        ELSE IF ahead # {} THEN CHOOSE g \in ahead : \A h \in ahead : g <= h
        ELSE None
=============================================================================
