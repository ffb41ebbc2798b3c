\* One goroutine whose contract delegates.
SPECIFICATION Spec
CONSTANTS
  Vms = {v1, v2}
  Pools = {p1, p2, p3, p4}
  Nil = Nil
  PoolDefaultCap = 2
  MaxDepth = 2
INVARIANT
  OnlyPoolsArePut
