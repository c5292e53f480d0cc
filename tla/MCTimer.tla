------------------------------ MODULE MCTimer ------------------------------
(***************************************************************************)
(* Instances of FiberTimer for TLC; symmetry as in MCScheduler.            *)
(***************************************************************************)
EXTENDS FiberTimer, TLC

Interchangeable == Permutations(Workers) \cup Permutations(Blocks)
=============================================================================
