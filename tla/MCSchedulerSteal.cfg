SPECIFICATION Spec
CONSTANTS
  w1 = w1
  w2 = w2
  Caller = Caller
  c1 = c1
  c2 = c2
  Workers = {w1, w2}
  UseCaller = FALSE
  Tasks = {c1, c2}
  AnyThread = AnyThread
  Null = Null
  Pinning = "none"
  Suspends = {"again"}
  TasksResume = FALSE
  HomePinned = FALSE
  MaxSuspends = 1
  MaxResubmits = 0
  Restarts = FALSE
SYMMETRY Symmetry
INVARIANTS
  ExclusiveStack
CHECK_DEADLOCK FALSE
