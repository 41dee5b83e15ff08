-------------------------- MODULE IndexFileDeleter --------------------------
(***************************************************************************)
(* IndexFileDeleter: reference counts of index files.                      *)
(*                                                                         *)
(* The deleter is a record d that IndexWriter's handlers transform:        *)
(*   refCounts  the map from file name to count; the files in its domain   *)
(*              are the ones refCounts.contains() answers for              *)
(*   lastFiles  the files of the last checkpoint: those of the             *)
(*              segmentInfos and those the DocumentsWriter had open        *)
(*   commits    the commit points, [generation, files]                     *)
(*   deletable  files whose deletion failed and is tried again later       *)
(*   doomed     files the running handler has still to unlink; the handler *)
(*              holds IndexWriter's lock until there are none              *)
(*   synced     IndexWriter's set of synced file names, which the deleter  *)
(*              shares and prunes                                          *)
(***************************************************************************)
EXTENDS Integers, FiniteSets

IsDeleter(d, File) ==
    /\ DOMAIN d = {"refCounts", "lastFiles", "commits", "deletable", "doomed",
                   "synced"}
    /\ DOMAIN d.refCounts \subseteq File
    /\ \A f \in DOMAIN d.refCounts : d.refCounts[f] \in Nat
    /\ d.lastFiles \in (SUBSET File) \X (SUBSET File)
    /\ \A c \in d.commits : c \in [generation: Nat, files: SUBSET File]
    /\ d.deletable \subseteq File
    /\ d.doomed \subseteq File
    /\ d.synced \subseteq File

NoDeleter == [refCounts |-> <<>>, lastFiles |-> <<{}, {}>>, commits |-> {},
              deletable |-> {}, doomed |-> {}, synced |-> {}]

\* RefCount::count, 0 for a file that is not in the map
Count(refCounts, f) == IF f \in DOMAIN refCounts THEN refCounts[f] ELSE 0

\* incRef(HashSet<String> files)
IncRef(d, F) ==
    [d EXCEPT !.refCounts =
        [f \in DOMAIN d.refCounts \cup F |->
            Count(d.refCounts, f) + (IF f \in F THEN 1 ELSE 0)]]

(***************************************************************************)
(* decRef of several sets of files one after the other: times[f] is how    *)
(* many of them hold f.  A file that loses its last reference leaves the   *)
(* map and the synced set and is unlinked.                                 *)
(***************************************************************************)
DecRefBy(d, times) ==
    LET F == DOMAIN times
        zero == {f \in F : Count(d.refCounts, f) = times[f]}
    IN  [d EXCEPT !.refCounts =
                      [f \in (DOMAIN d.refCounts \cup F) \ zero |->
                          Count(d.refCounts, f)
                            - (IF f \in F THEN times[f] ELSE 0)],
                  !.doomed = d.doomed \cup zero,
                  !.synced = d.synced \ zero]

\* Mutant: a deleted file stays in the synced set
DecRefKeepsSynced(d, F) ==
    [DecRefBy(d, [f \in F |-> 1]) EXCEPT !.synced = d.synced]

\* decRef(HashSet<String> files)
DecRef(d, F) == DecRefBy(d, [f \in F |-> 1])

\* Mutant: the list of pending files is cleared before it is gone through
DropPendingFiles(d) == [d EXCEPT !.deletable = {}]

\* deletePendingFiles
DeletePendingFiles(d) ==
    [d EXCEPT !.doomed = d.doomed \cup d.deletable, !.deletable = {}]

\* How many commit points of C hold f
Holders(C, f) == Cardinality({c \in C : f \in c.files})

\* deleteCommits, for the commit points the policy has marked
DeleteCommits(d, victims) ==
    LET held == UNION {c.files : c \in victims}
    IN  [DecRefBy(d, [f \in held |-> Holders(victims, f)]) EXCEPT
            !.commits = d.commits \ victims]

\* Mutant: the old references are dropped before the new ones are taken
CheckpointDropsFirst(d, infosFiles, openFiles) ==
    LET d1 == DecRef(DecRef(DeletePendingFiles(d), d.lastFiles[1]),
                     d.lastFiles[2])
        d2 == IncRef(IncRef(d1, infosFiles), openFiles)
    IN  [d2 EXCEPT !.lastFiles = <<infosFiles, openFiles>>]

\* Mutant: the DocumentsWriter's open files are not released
CheckpointKeepsOpen(d, infosFiles, openFiles) ==
    LET d1 == IncRef(IncRef(DeletePendingFiles(d), infosFiles), openFiles)
    IN  [DecRef(d1, d.lastFiles[1]) EXCEPT
            !.lastFiles = <<infosFiles, openFiles>>]

(***************************************************************************)
(* checkpoint(segmentInfos, false): infosFiles are the files of the        *)
(* segmentInfos, openFiles what the DocumentsWriter has open.  The new     *)
(* references are taken before the old ones are dropped.                   *)
(***************************************************************************)
Checkpoint(d, infosFiles, openFiles) ==
    LET d1 == IncRef(IncRef(DeletePendingFiles(d), infosFiles), openFiles)
        d2 == DecRef(DecRef(d1, d.lastFiles[1]), d.lastFiles[2])
    IN  [d2 EXCEPT !.lastFiles = <<infosFiles, openFiles>>]

\* Mutant: the snapshot is not looked at
PolicyIgnoresSnapshot(commits, snapshot) ==
    {c \in commits : \E l \in commits : l.generation > c.generation}

\* Mutant: the loop over the commit points does not stop before the last
PolicyDeletesLast(commits, snapshot) ==
    {c \in commits : /\ \E l \in commits : l.generation >= c.generation
                     /\ c.generation # snapshot}

(***************************************************************************)
(* KeepOnlyLastCommitDeletionPolicy inside a SnapshotDeletionPolicy: every *)
(* commit point but the last is deleted, the snapshotted one excepted.     *)
(* With no snapshot this is KeepOnlyLastCommitDeletionPolicy itself.       *)
(***************************************************************************)
PolicyVictims(commits, snapshot) ==
    {c \in commits : /\ \E l \in commits : l.generation > c.generation
                     /\ c.generation # snapshot}

\* checkpoint(segmentInfos, true)
CommitCheckpoint(d, generation, commitFiles, snapshot) ==
    LET point == [generation |-> generation, files |-> commitFiles]
        d1 == IncRef(DeletePendingFiles(d), commitFiles)
        d2 == [d1 EXCEPT !.commits = d.commits \cup {point}]
    IN  DeleteCommits(d2, PolicyVictims(d2.commits, snapshot))

\* Mutant: what nobody references is left in the directory
RefreshNothing(d, S) == d

\* refresh(segmentName): S are the files of the directory with that prefix.
\* deleteNewFiles(S) is the same.
Refresh(d, S) == [d EXCEPT !.doomed = d.doomed \cup (S \ DOMAIN d.refCounts)]

\* close
CloseDeleter(d) ==
    LET d1 == DecRef(DecRef(d, d.lastFiles[1]), d.lastFiles[2])
    IN  DeletePendingFiles([d1 EXCEPT !.lastFiles = <<{}, {}>>])

(***************************************************************************)
(* The constructor: every index file of the directory enters the map, each *)
(* commit point that can be read takes its references, what has none is    *)
(* unlinked (its entry stays, with count 0), the policy removes commit     *)
(* points, and the incoming segmentInfos are protected before these are    *)
(* deleted.                                                                *)
(***************************************************************************)
InitDeleter(files, commits, infosFiles, snapshot, synced) ==
    LET held == UNION {c.files : c \in commits}
        d0 == [NoDeleter EXCEPT
                 !.refCounts = [f \in files \cup held |-> Holders(commits, f)],
                 !.commits = commits,
                 !.doomed = files \ held,
                 !.synced = synced]
    IN  DeleteCommits(Checkpoint(d0, infosFiles, {}),
                      PolicyVictims(commits, snapshot))
=============================================================================
