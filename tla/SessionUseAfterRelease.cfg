SPECIFICATION Spec
CONSTANTS
  Client = {k1, k2}
  Conn = {c1}
  NoConn = NoConn
  MaxUnread = 1
  RowError = FALSE
INVARIANTS
  ReleaseIsLastUse
