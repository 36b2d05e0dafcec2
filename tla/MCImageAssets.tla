---------------------------- MODULE MCImageAssets ----------------------------
(***************************************************************************)
(* Three assets and three jobs: a scene can wait for one image with two    *)
(* speculative jobs before it in the queue.                                *)
(***************************************************************************)
EXTENDS ImageAssets, TLC

\* Assets and jobs are told apart by equality only.
Symmetry == Permutations(Key) \cup Permutations(Job)
=============================================================================
