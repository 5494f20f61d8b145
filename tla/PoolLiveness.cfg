SPECIFICATION StrandSpec
CONSTANTS
  Client = {k1, k2, k3}
  Conn = {c1, c2}
  NoConn = NoConn
  MinConns = 2
  MaxConns = 1
INVARIANTS
  CapacityBound
PROPERTIES
  WaitersReturn
  ReaperStopsAfterDrain
  NoOvertaking
