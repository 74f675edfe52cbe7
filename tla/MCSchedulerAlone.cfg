SPECIFICATION Spec
CONSTANTS
  Caller = Caller
  c1 = c1
  c2 = c2
  Workers = {}
  UseCaller = TRUE
  Tasks = {c1, c2}
  AnyThread = AnyThread
  Null = Null
  Pinning = "any"
  Suspends = {"ready"}
  TasksResume = FALSE
  HomePinned = TRUE
  MaxSuspends = 1
  MaxResubmits = 1
  Restarts = FALSE
SYMMETRY Symmetry
PROPERTIES
  PoolSpec
CHECK_DEADLOCK FALSE
