------------------------------ MODULE TaskPool ------------------------------
(***************************************************************************)
(* What the scheduler promises to the code that hands it tasks, with no    *)
(* threads, queue or fibers in it: a task that is submitted is begun once, *)
(* it is ended at most once, and stop() returns only when no task is       *)
(* waiting or running.  A task that suspends itself without asking to be   *)
(* resumed is parked, and stop() does not wait for it: YieldToHold leaves  *)
(* it to the program to resume such a fiber.                               *)
(***************************************************************************)
CONSTANT Tasks

VARIABLES
  progress,   \* what has become of each task
  stopped     \* stop() has returned and start() has not been called again

vars == <<progress, stopped>>

Progress == {"fresh", "queued", "started", "parked", "ended"}

\* The tasks that stop() has to wait for.
Unfinished == {c \in Tasks : progress[c] \in {"queued", "started"}}

TypeOK ==
  /\ progress \in [Tasks -> Progress]
  /\ stopped \in BOOLEAN

Init ==
  /\ progress = [c \in Tasks |-> "fresh"]
  /\ stopped = FALSE

Advance(c, from, to) ==
  /\ ~stopped
  /\ progress[c] \in from
  /\ progress' = [progress EXCEPT ![c] = to]
  /\ UNCHANGED stopped

Submit(c) == Advance(c, {"fresh"}, "queued")
Begin(c)  == Advance(c, {"queued"}, "started")
Park(c)   == Advance(c, {"started"}, "parked")
Resume(c) == Advance(c, {"parked"}, "started")
End(c)    == Advance(c, {"started"}, "ended")

Stop ==
  /\ ~stopped
  /\ Unfinished = {}
  /\ stopped' = TRUE
  /\ UNCHANGED progress

Restart ==
  /\ stopped
  /\ stopped' = FALSE
  /\ UNCHANGED progress

Next ==
  \/ \E c \in Tasks : Submit(c) \/ Begin(c) \/ Park(c) \/ Resume(c) \/ End(c)
  \/ Stop
  \/ Restart

Spec == Init /\ [][Next]_vars
=============================================================================
