CONSTANTS
  k1 = k1  k2 = k2  k3 = k3  c1 = c1  c2 = c2
  Key = {k1, k2, k3}  Client = {c1, c2}  ClientOf <- MCClientOf
  Parts = 2  MaxAssembly = 1  Capacity = 1
  MaxWork = 5
  NoAssembly = NoAssembly
SPECIFICATION FairSpec
INVARIANT DeliveredInOrder
INVARIANT AssembledIsSent
INVARIANT AssembliesBounded
INVARIANT OpenIsTracked
PROPERTY ImplementsStreamConnections
PROPERTY EveryMessageArrives
PROPERTY GivenUpIsClosed
CHECK_DEADLOCK FALSE
