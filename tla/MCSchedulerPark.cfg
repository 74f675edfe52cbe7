SPECIFICATION Spec
CONSTANTS
  w1 = w1
  w2 = w2
  Caller = Caller
  c1 = c1
  c2 = c2
  Workers = {w1, w2}
  UseCaller = TRUE
  Tasks = {c1, c2}
  AnyThread = AnyThread
  Null = Null
  Pinning = "any"
  Suspends = {"again", "park"}
  TasksResume = TRUE
  HomePinned = TRUE
  MaxSuspends = 2
  MaxResubmits = 0
  Restarts = FALSE
SYMMETRY Symmetry
INVARIANTS
  CountersExact
  TasksSafe
  NotStranded
  AssignedThreadOnly
PROPERTIES
  PoolSpec
CHECK_DEADLOCK FALSE
