---------------------------- MODULE MCMergeThreads ----------------------------
(***************************************************************************)
(* MergeThreads for TLC: the callers are alike, and so are the threads     *)
(* that merge.                                                             *)
(***************************************************************************)
EXTENDS MergeThreads, TLC

ThreadsAlike == Permutations(Thread)

OneOfOne == <<1>>
OneAndOne == <<1, 1>>

=============================================================================
