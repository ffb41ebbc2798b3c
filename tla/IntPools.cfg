\* Two goroutines, room for two pools, runs nested three deep.
SPECIFICATION FairSpec
CONSTANTS
  Vms = {v1, v2}
  Pools = {p1, p2, p3, p4}
  Nil = Nil
  PoolDefaultCap = 2
  MaxDepth = 3
INVARIANTS
  TypeOK
  Exclusive
  PoolWhileRunning
PROPERTY
  GetReturns
