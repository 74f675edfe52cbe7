----------------------------- MODULE MCScheduler -----------------------------
(* Instances of Scheduler for TLC. *)
EXTENDS Scheduler, TLC

\* Threads of the pool, and tasks, are interchangeable; so the runs that check
\* no liveness explore one state of each orbit.
Symmetry == Permutations(Workers) \cup Permutations(Tasks)
=============================================================================
