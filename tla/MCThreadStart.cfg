SPECIFICATION StartSpec
CONSTANTS
  owner = owner
  t1 = t1
  t2 = t2
  detached = detached
  Null = Null
  Threads = {owner, t1, t2, detached}
  Owner = owner
  Detached = {detached}
  Names = {"given", "other"}
  MaxTwice = 2
INVARIANTS
  MutualExclusion
  ObjectAlive
  Identified
  ReapedOnce
PROPERTIES
  ConstructorReturns
