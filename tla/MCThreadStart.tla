---------------------------- MODULE MCThreadStart ----------------------------
(* The instance of ThreadStart for TLC: an owner, two threads that it joins,  *)
(* and one that it need not. Liveness is checked, so there is no symmetry.       *)
EXTENDS ThreadStart
=============================================================================
