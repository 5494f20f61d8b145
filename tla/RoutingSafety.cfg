SPECIFICATION Spec
CONSTANTS
  Config <- Pair
  Loaded <- Pair
  SchemaConfig <- Mixed
  Query <- Sessions
  Entry = {e1, e2, e3}
  NoEntry = NoEntry
  None = None
  Reported = {"HEALTHY", "DEGRADED", "FAILED"}
  Admin = {a}
  Monitor = {m}
  Planner = {p1}
  MaxChanges = 3
  SchemaName = {"app"}
  default_policy = "WEIGHTED"
  read_write_split = TRUE
  replication_aware = TRUE
  Unsynchronised = FALSE
  Cycle = 2
  Watched = {}
SYMMETRY Symmetry
CHECK_DEADLOCK FALSE
INVARIANTS
  UpdateReachesEntry
  PlanIsUsable
  NoNeedlessFailure
  ReadsPreferReplicas
