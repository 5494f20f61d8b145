SPECIFICATION Spec
CONSTANTS
  Config <- Trio
  Loaded <- Trio
  SchemaConfig <- Plain
  Query <- ReadAndWrite
  Entry = {e1, e2, e3}
  NoEntry = NoEntry
  None = None
  Reported = {"HEALTHY", "DEGRADED"}
  Admin = {a}
  Monitor = {m}
  Planner = {p1}
  MaxChanges = 1
  SchemaName = {"app"}
  default_policy = "ROUND_ROBIN"
  read_write_split = TRUE
  replication_aware = TRUE
  Unsynchronised = FALSE
  Cycle = 2
  Watched = {"g"}
CHECK_DEADLOCK FALSE
INVARIANT ReadsTakeTurns
