-------------------------- MODULE MCDocumentsThreads --------------------------
(***************************************************************************)
(* DocumentsThreads for TLC.  The threads are alike; the run that checks   *)
(* liveness does not use their symmetry.                                   *)
(***************************************************************************)
EXTENDS DocumentsThreads, TLC

Symmetry == Permutations(Thread)
=============================================================================
