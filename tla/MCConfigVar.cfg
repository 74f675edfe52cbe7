SPECIFICATION Spec
CONSTANTS
  Threads = {t1, t2}
  Values = {v0, v1, v2}
  Default = v0
  MaxListeners = 3
SYMMETRY Symmetry
INVARIANTS
  RemovedNotCalled
  Informed
