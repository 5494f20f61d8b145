--------------------------- MODULE RoutingEngine ---------------------------
(***************************************************************************)
(* Planning the route of a statement: routing/src/routing_engine.cpp,      *)
(* read_write_router.cpp, backend_selector.cpp, routing_policies.cpp and   *)
(* schema_registry.cpp, over the backend registry that health and failover *)
(* threads change meanwhile.                                               *)
(*                                                                         *)
(* plan() takes no lock: a step is one atomic load, of the schema map, of  *)
(* the backend snapshot, or of the role, the state or the lag of one       *)
(* entry.  A statement is abstracted to its class, its schema and what     *)
(* plan() is told of the session; the classifier and the extractor that    *)
(* compute the first two are the module QueryClassifier.                   *)
(***************************************************************************)
EXTENDS BackendRegistry

CONSTANTS
  Loaded,         \* the backend configurations at start
  SchemaName,
  SchemaConfig,   \* schema configurations: group, policy, split
  Query,          \* statements: type, schema, in_transaction, pinned, signal
  None,           \* an unset std::optional or std::function
  default_policy, read_write_split, replication_aware, \* RoutingConfig
  Cycle,          \* a common multiple of the possible numbers of candidates
  Unsynchronised, \* whether the schema map may be swapped while a plan uses it
  Watched         \* groups whose round-robin reads are recorded

Policy == {"ROUND_ROBIN", "WEIGHTED", "LEAST_CONNECTIONS", "LATENCY", "RANDOM", "FAILOVER",
           "CONSISTENT_HASHING"}

ASSUME RoutingAssumption ==
  /\ \A c, d \in Loaded : c \in Config /\ (c.id = d.id => c = d)
  /\ \A c \in SchemaConfig : c.policy \in Policy \union {None}
  /\ default_policy \in Policy
  /\ None \notin SchemaName
  /\ Cycle \in Nat \ {0}

VARIABLES
  schemas,  \* the current SchemaMap
  dangling, \* planners whose SchemaConfig pointer has outlived its map
  plan,     \* where each planner is in plan(), and its local variables
  counter,  \* counter_ of each policy object, modulo Cycle: it is only used
            \* modulo the number of candidates
  turns     \* consecutive reads that each watched group sent to one backend

vars == <<registry, pinning, touched, schemas, dangling, plan, counter, turns>>

\* A SchemaConfig pointer is the name it was found under; todo and out are the
\* vectors that the loops of get_group_by_role(), filter() and select() read and fill.
Idle == [step |-> "idle", query |-> None, config |-> None, role |-> "PRIMARY",
         todo |-> << >>, out |-> << >>, chosen |-> NoEntry, error |-> "OK"]

TypeOK ==
  /\ RegistryTypeOK
  /\ DOMAIN schemas \subseteq SchemaName /\ Range(schemas) \subseteq SchemaConfig
  /\ dangling \subseteq Planner
  /\ plan \in [Planner -> [
       step : {"idle", "role", "group", "roles", "state", "lag", "pick", "failover", "returned"},
       query : Query \union {None}, config : SchemaName \union {None}, role : Role,
       todo : Seq(Entry), out : Seq(Entry), chosen : Entry \union {NoEntry},
       error : {"OK", "NO_SCHEMA_CONFIG", "NO_BACKEND_AVAILABLE"}]]
  /\ \A p \in Planner : p \in DOMAIN touched <=> plan[p].step # "idle"
  /\ counter \in [Policy -> 0..Cycle - 1]
  /\ DOMAIN turns \subseteq Watched

Init ==
  /\ InitRegistry(Loaded)
  /\ schemas \in UNION {[S -> SchemaConfig] : S \in SUBSET SchemaName}
  /\ dangling = {}
  /\ plan = [p \in Planner |-> Idle]
  /\ counter = [x \in Policy |-> 0]
  /\ turns = << >>

-----------------------------------------------------------------------------
(* SchemaRegistry: lookup() returns a pointer into the map it loaded, and  *)
(* drops the map's shared_ptr.                                             *)

Holding(p) == plan[p].step \notin {"idle", "returned"}

SwapSchemas(map) ==
  /\ Unsynchronised \/ \A p \in Planner : plan[p].step = "idle"
  /\ schemas' = map
  /\ dangling' = dangling \union {p \in Planner : Holding(p)}
  /\ UNCHANGED <<registry, pinning, touched, plan, counter, turns>>

upsert == \E n \in SchemaName, c \in SchemaConfig : SwapSchemas(Over([m \in {n} |-> c], schemas))

remove_schema == \E n \in DOMAIN schemas \ {"default"} : SwapSchemas(Restrict(schemas, DOMAIN schemas \ {n}))

lookup(name) ==
  IF name \in DOMAIN schemas THEN name
  ELSE IF "default" \in DOMAIN schemas THEN "default" ELSE None

\* What reading through the pointer can give; anything once the map is freed.
Deref(p) == IF p \in dangling THEN SchemaConfig ELSE {schemas[plan[p].config]}

-----------------------------------------------------------------------------
(* RoutingEngine::plan.                                                    *)

\* Planner p goes on with the local variables x.
Continue(p, x) ==
  /\ plan' = [plan EXCEPT ![p] = x]
  /\ pinning' = [pinning EXCEPT ![p] = Range(x.todo) \union Range(x.out) \union ({x.chosen} \ {NoEntry})]
  /\ UNCHANGED <<current, version, at, held, moved, changes, schemas>>
  /\ Becomes(object)

Quietly == UNCHANGED <<dangling, touched, counter, turns>>

Return(x, e, err) ==
  [x EXCEPT !.step = "returned", !.chosen = e, !.error = err, !.todo = << >>, !.out = << >>]

\* Mutant: a read in a transaction is a read like any other.
SelectRoleByType(q) == IF q.type = "SELECT" THEN "REPLICA" ELSE "PRIMARY"

\* ReadWriteRouter::select_role, and the override when splitting is disabled.
select_role(q) == IF q.type = "SELECT" /\ ~q.in_transaction THEN "REPLICA" ELSE "PRIMARY"
Splits(c) == IF c.split = None THEN read_write_split ELSE c.split
RoleOf(q, c) == IF Splits(c) THEN select_role(q) ELSE "PRIMARY"

Start(p) ==
  /\ plan[p].step = "idle"
  /\ \E q \in Query :
       LET x == [Idle EXCEPT !.query = q, !.config = lookup(q.schema), !.step = "role"] IN
       Continue(p, IF x.config = None THEN Return(x, NoEntry, "NO_SCHEMA_CONFIG") ELSE x)
  /\ touched' = Over([q \in {p} |-> {}], touched)
  /\ UNCHANGED <<dangling, counter, turns>>

\* A pinned session's primary-bound statement goes to the pin, unexamined.
ChooseRole(p) ==
  /\ plan[p].step = "role"
  /\ \E c \in Deref(p) :
       LET r == RoleOf(plan[p].query, c)
           x == [plan[p] EXCEPT !.role = r]
       IN  Continue(p, IF plan[p].query.pinned /\ r = "PRIMARY" THEN Return(x, NoEntry, "OK")
                       ELSE [x EXCEPT !.step = "group"])
  /\ Quietly

-----------------------------------------------------------------------------
(* BackendSelector::select.                                                *)

usable_for_role(st, r) == st = "HEALTHY" \/ (r = "PRIMARY" /\ st = "DEGRADED")

\* Mutant: no healthy replica is an error for a read.
SelectedStrictly(x) ==
  IF x.todo # << >> THEN [x EXCEPT !.step = "state"]
  ELSE IF x.out # << >> THEN [x EXCEPT !.step = "pick"]
  ELSE Return(x, NoEntry, "NO_BACKEND_AVAILABLE")

\* filter() goes on, or ends: with candidates, with the fallback to the
\* primary, or with nothing.
Filtering(x) ==
  IF x.todo # << >> THEN [x EXCEPT !.step = "state"]
  ELSE IF x.out # << >> THEN [x EXCEPT !.step = "pick"]
  ELSE IF x.role = "REPLICA" THEN [x EXCEPT !.step = "group", !.role = "PRIMARY"]
  ELSE Return(x, NoEntry, "NO_BACKEND_AVAILABLE")

\* get_group_by_role() goes on, or hands its entries to filter().
Scanning(x) ==
  IF x.todo # << >> THEN [x EXCEPT !.step = "roles"]
  ELSE Filtering([x EXCEPT !.todo = x.out, !.out = << >>])

Rest(x) == [x EXCEPT !.todo = Tail(@)]
Take(x) == [x EXCEPT !.todo = Tail(@), !.out = Append(@, Head(x.todo))]

ReadGroup(p) ==
  /\ plan[p].step = "group"
  /\ \E c \in Deref(p) :
       Continue(p, Scanning([plan[p] EXCEPT
         !.todo = IF c.group \in Group THEN current[c.group] ELSE << >>]))
  /\ Quietly

ReadRole(p) ==
  /\ plan[p].step = "roles"
  /\ LET x == plan[p] IN
       Continue(p, Scanning(IF object[Head(x.todo)].role = x.role THEN Take(x) ELSE Rest(x)))
  /\ Quietly

ReadState(p) ==
  /\ plan[p].step = "state"
  /\ LET x == plan[p] IN
       Continue(p,
         IF ~usable_for_role(object[Head(x.todo)].state, x.role) THEN Filtering(Rest(x))
         ELSE IF x.role = "REPLICA" /\ replication_aware THEN [x EXCEPT !.step = "lag"]
         ELSE Filtering(Take(x)))
  /\ Quietly

\* Mutant: the comparison is the wrong way round.
ReadLagInverted(p) ==
  /\ plan[p].step = "lag"
  /\ LET x == plan[p] IN
       Continue(p, Filtering(IF object[Head(x.todo)].late THEN Take(x) ELSE Rest(x)))
  /\ Quietly

ReadLag(p) ==
  /\ plan[p].step = "lag"
  /\ LET x == plan[p] IN
       Continue(p, Filtering(IF object[Head(x.todo)].late THEN Rest(x) ELSE Take(x)))
  /\ Quietly

-----------------------------------------------------------------------------
(* The policies: indices that each may pick from the candidates out.       *)

InTurn(x, pol) == {(counter[pol] % Len(x.out)) + 1}

\* The first of the candidates with the least signal; round-robin without one.
\* (Signals are below their type's largest value.  If all were at it, the code would
\* find no best and plan() would fail; so far no caller passes signals.)
Least(x, pol) ==
  LET s == x.query.signal
      n(i) == s[object[x.out[i]].config.id]
  IN  IF s = None THEN InTurn(x, pol)
      ELSE {i \in DOMAIN x.out : \A j \in DOMAIN x.out : n(i) < n(j) \/ (n(i) = n(j) /\ i <= j)}

\* A draw below the total weight falls to the candidate whose share holds it.
Drawn(x) ==
  LET w(i) == object[x.out[i]].config.weight
      upto[i \in 0..Len(x.out)] == IF i = 0 THEN 0 ELSE upto[i - 1] + (IF w(i) < 1 THEN 1 ELSE w(i))
  IN  {i \in DOMAIN x.out : \E d \in 0..upto[Len(x.out)] - 1 : upto[i - 1] <= d /\ d < upto[i]}

Uniform(x) == DOMAIN x.out

Picks(x, pol) ==
  CASE pol \in {"ROUND_ROBIN", "CONSISTENT_HASHING"} -> InTurn(x, pol)
    [] pol \in {"LEAST_CONNECTIONS", "LATENCY"} -> Least(x, pol)
    [] pol = "RANDOM" -> Uniform(x)
    [] pol = "WEIGHTED" -> Drawn(x)

Counts(x, pol) ==
  \/ pol \in {"ROUND_ROBIN", "CONSISTENT_HASHING"}
  \/ pol \in {"LEAST_CONNECTIONS", "LATENCY"} /\ x.query.signal = None

PolicyOf(c) == IF c.policy = None THEN default_policy ELSE c.policy

Turn(x, e, g) ==
  LET old == IF g \in DOMAIN turns THEN turns[g] ELSE [out |-> << >>, entry |-> e, n |-> 0]
      again == old.out = x.out /\ old.entry = e /\ Len(x.out) > 1
  IN  [out |-> x.out, entry |-> e, n |-> IF again THEN 2 ELSE 1]

Pick(p) ==
  /\ plan[p].step = "pick"
  /\ \E c \in Deref(p) : LET x == plan[p]  pol == PolicyOf(c) IN
       /\ pol # "FAILOVER"
       /\ \E i \in Picks(x, pol) :
            /\ turns' = IF c.group \in Watched /\ pol = "ROUND_ROBIN" /\ x.role = "REPLICA"
                        THEN Over([g \in {c.group} |-> Turn(x, x.out[i], g)], turns) ELSE turns
            /\ counter' = IF Counts(x, pol) THEN [counter EXCEPT ![pol] = (@ + 1) % Cycle] ELSE counter
            /\ Continue(p, Return(x, x.out[i], "OK"))
  /\ UNCHANGED <<dangling, touched>>

\* FailoverPolicy reads the states again: the first candidate that is still up,
\* or the first of all.
PickFailover(p) ==
  /\ plan[p].step = "pick"
  /\ \E c \in Deref(p) : PolicyOf(c) = "FAILOVER"
  /\ Continue(p, [plan[p] EXCEPT !.step = "failover", !.todo = plan[p].out])
  /\ Quietly

ReadStateAgain(p) ==
  /\ plan[p].step = "failover"
  /\ LET x == plan[p] IN
       Continue(p,
         IF object[Head(x.todo)].state \notin {"FAILED", "DRAINING"} THEN Return(x, Head(x.todo), "OK")
         ELSE IF Len(x.todo) = 1 THEN Return(x, Head(x.out), "OK")
         ELSE Rest(x))
  /\ Quietly

\* The session takes the plan.
Taken(p) ==
  /\ plan[p].step = "returned"
  /\ Continue(p, Idle)
  /\ touched' = Restrict(touched, DOMAIN touched \ {p})
  /\ dangling' = dangling \ {p}
  /\ UNCHANGED <<counter, turns>>

-----------------------------------------------------------------------------
PlannerStep(p) ==
  \/ Start(p) \/ ChooseRole(p)
  \/ ReadGroup(p) \/ ReadRole(p) \/ ReadState(p) \/ ReadLag(p)
  \/ Pick(p) \/ PickFailover(p) \/ ReadStateAgain(p)
  \/ Taken(p)

Next ==
  \/ RegistryStep /\ UNCHANGED <<schemas, dangling, plan, counter, turns>>
  \/ upsert \/ remove_schema
  \/ \E p \in Planner : PlannerStep(p)

Spec == Init /\ [][Next]_vars

-----------------------------------------------------------------------------
(* What a plan promises, of the entries that nobody touched while it was   *)
(* made: those have been the same at every one of its loads.               *)

Returned(p, err) == plan[p].step = "returned" /\ plan[p].error = err
Untouched(p) == Registered \ touched[p]
Conf(p) == schemas[plan[p].config]

\* A replica will do: a SELECT outside a transaction, with splitting on.
IsRead(p) == plan[p].query.type = "SELECT" /\ ~plan[p].query.in_transaction /\ Splits(Conf(p))

\* Entry e can take work of role r for the schema of p.
Serves(e, r, p) ==
  /\ object[e].config.group = Conf(p).group /\ object[e].role = r
  /\ object[e].state = "HEALTHY" \/ (r = "PRIMARY" /\ object[e].state = "DEGRADED")
  /\ (r = "REPLICA" /\ replication_aware) => ~object[e].late

\* The backend that plan() returns can do the work: it is registered, in the
\* schema's group, up and not lagging, and it is a primary for a write, for a
\* statement in a transaction and when splitting is off -- unless it changed
\* while plan() looked at it.  This is not said of a pin, which plan() returns
\* without looking at its entry (chosen is NoEntry then).
PlanIsUsable ==
  \A p \in Planner : Returned(p, "OK") /\ plan[p].chosen \in Alive \ touched[p] =>
    /\ plan[p].chosen \in Registered
    /\ Serves(plan[p].chosen, "PRIMARY", p) \/ (Serves(plan[p].chosen, "REPLICA", p) /\ IsRead(p))

\* plan() fails with NO_BACKEND_AVAILABLE only if no primary could have done
\* the work all along: a read, too, is content with a primary.
NoNeedlessFailure ==
  \A p \in Planner : Returned(p, "NO_BACKEND_AVAILABLE") =>
    \A e \in Untouched(p) : ~Serves(e, "PRIMARY", p)

\* A read burdens a primary, or fails, only if no replica could have served it
\* all along.
ReadsPreferReplicas ==
  \A p \in Planner : plan[p].step = "returned" /\ plan[p].config # None /\ IsRead(p) =>
    \/ plan[p].chosen \in touched[p]
    \/ plan[p].chosen # NoEntry /\ Serves(plan[p].chosen, "REPLICA", p)
    \/ \A e \in Untouched(p) : ~Serves(e, "REPLICA", p)

\* "SELECT -> replica pool (round-robin across healthy replicas)": two reads in
\* a row of one group, with the same several candidates, go to different ones.
ReadsTakeTurns == \A g \in DOMAIN turns : turns[g].n <= 1

\* "Concurrent readers during writes must never crash or read torn data": the
\* SchemaConfig that a plan reads belongs to a map that still exists.
ConfigAlive == dangling = {}
=============================================================================
