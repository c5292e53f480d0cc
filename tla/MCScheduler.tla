----------------------------- MODULE MCScheduler -----------------------------
(***************************************************************************)
(* Instances of FiberScheduler for TLC.  Workers are interchangeable, and  *)
(* so are the blocks of memory for stacks; the main thread and the main    *)
(* fiber are not.                                                          *)
(***************************************************************************)
EXTENDS FiberScheduler, TLC

Interchangeable == Permutations(Workers) \cup Permutations(Blocks)
=============================================================================
