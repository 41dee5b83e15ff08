--------------------------- MODULE MCCommitThreads ---------------------------
(***************************************************************************)
(* CommitThreads for TLC.  The threads are alike, so the safety runs use   *)
(* their symmetry; the liveness runs do not.                               *)
(***************************************************************************)
EXTENDS CommitThreads, TLC

Symmetry == Permutations(Thread)
=============================================================================
