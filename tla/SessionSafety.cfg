SPECIFICATION Spec
CONSTANTS
  Client = {k1, k2}
  Conn = {c1, c2}
  NoConn = NoConn
  MaxUnread = 1
  RowError = TRUE
SYMMETRY Symmetry
INVARIANTS
  OwnAnswer
  CleanHandOver
  NoLeak
