---------------------------- MODULE MCConfigVar ----------------------------
(* An instance of ConfigVar for TLC. *)
EXTENDS ConfigVar, TLC

Symmetry == Permutations(Threads) \cup Permutations(Values \ {Default})
=============================================================================
