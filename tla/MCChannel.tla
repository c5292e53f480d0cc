------------------------------ MODULE MCChannel ------------------------------
(***************************************************************************)
(* Instances of FiberChannel for TLC; the symmetry is that of MCScheduler. *)
(***************************************************************************)
EXTENDS FiberChannel, TLC

Interchangeable == Permutations(Workers) \cup Permutations(Blocks)
=============================================================================
