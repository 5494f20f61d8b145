SPECIFICATION Spec
CONSTANTS
  Client = {k1, k2, k3}
  Conn = {c1, c2, c3, c4, c5}
  NoConn = NoConn
  MinConns = 2
  MaxConns = 2
SYMMETRY Symmetry
INVARIANTS
  PoolPartition
  LeaseExclusive
  WaiterQueueSound
  MetricsExact
  NoIdleWhileQueued
PROPERTIES
  ShrinksForAReason
  ShutdownIsFinal
  LeaseProtocol
