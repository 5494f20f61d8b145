SPECIFICATION Spec
CONSTANTS
  Client = {k1, k2}
  Conn = {c1, c2, c3, c4}
  NoConn = NoConn
  MinConns = 1
  MaxConns = 1
PROPERTIES
  DrainFailsWaiters
