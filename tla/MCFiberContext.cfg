SPECIFICATION Spec
CONSTANTS
  owner = owner
  w1 = w1
  f1 = f1
  f2 = f2
  Root = Root
  Null = Null
  Threads = {owner, w1}
  RootThread = owner
  Fibers = {f1, f2}
SYMMETRY Symmetry
INVARIANTS
  TypeOK
  NothingFails
  ThisIsRunning
  Reclaimed
PROPERTIES
  ReturnsToResumer
