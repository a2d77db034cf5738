----------------------------- MODULE MCHandles -----------------------------
(***************************************************************************)
(* Threads and blocks are interchangeable.                                 *)
(***************************************************************************)
EXTENDS GoHandles, TLC

Symmetry == Permutations(Thread) \cup Permutations(Block)
============================================================================
