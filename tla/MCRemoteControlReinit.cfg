CONSTANTS
  k1 = k1  k2 = k2  k3 = k3  c1 = c1  c2 = c2
  Key = {k1}  Client = {c1}  ClientOf <- MCClientOf
  Parts = 2  MaxAssembly = 1  Capacity = 1
  MaxWork = 4
  NoAssembly = NoAssembly
SPECIFICATION Spec
INVARIANT ReapedWasCancelled
CHECK_DEADLOCK FALSE
