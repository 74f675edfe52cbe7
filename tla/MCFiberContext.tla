--------------------------- MODULE MCFiberContext ---------------------------
(* The instance of FiberContext for TLC: the owner of a scheduler with        *)
(* use_caller, a thread of the pool, the root fiber and two others.           *)
EXTENDS FiberContext, TLC

Symmetry == Permutations(Fibers)
=============================================================================
