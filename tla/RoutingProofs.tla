-------------------------- MODULE RoutingProofs -----------------------------
(***************************************************************************)
(* What the backend registry and plan() promise, for every set of          *)
(* backends, schemas, statements and threads: the steps of the registries  *)
(* and of plan() keep the invariant of the module RoutingInvariant, and    *)
(* the theorems follow.                                                    *)
(***************************************************************************)
EXTENDS RoutingInvariant

-----------------------------------------------------------------------------
(* The registries' steps.                                                  *)

\* Every step of the registry keeps the invariant, and touches what it changes.
LEMMA RegistrySteps ==
  ASSUME IInv, RegistryStep, UNCHANGED <<schemas, dangling, plan, counter, turns>>
  PROVE  IInv' /\ Steady
<1>2. ASSUME NEW w \in Admin, load(w) PROVE IInv' /\ Steady
  <2>1. Locking(w) /\ w \in Writer
    BY <1>2 DEF load, Writer
  <2>2. PICK S \in Configs : Swap({}, S)
    BY <1>2 DEF load
  <2>3. S \in SUBSET Config /\ \A c, d \in S : c.id = d.id => c = d
    BY <2>2 DEF Configs
  <2>4. \A c \in S : c.id \notin Ids({})
    BY DEF Ids
  <2>5. QED  BY <2>1, <2>2, <2>3, <2>4, SwapSteps
<1>3. ASSUME NEW w \in Admin, add(w) PROVE IInv' /\ Steady
  <2>1. Locking(w) /\ w \in Writer
    BY <1>3 DEF add, Writer
  <2>2. PICK c \in Config : Swap({e \in Registered : Id(e) # c.id}, {c})
    BY Zenon, <1>3 DEF add
  <2> DEFINE keep == {e \in Registered : Id(e) # c.id}
  <2>3. keep \in SUBSET Registered /\ {c} \in SUBSET Config /\ \A a, d \in {c} : a.id = d.id => a = d
    OBVIOUS
  <2>4. \A a \in {c} : a.id \notin Ids(keep)
    BY DEF Ids
  <2>5. Swap(keep, {c})
    BY <2>2
  <2> HIDE DEF keep
  <2>6. QED  BY <2>1, <2>3, <2>4, <2>5, SwapSteps
<1>4. ASSUME NEW w \in Admin, remove(w) PROVE IInv' /\ Steady
  <2>1. Locking(w) /\ w \in Writer
    BY <1>4 DEF remove, Writer
  <2>2. PICK e \in Registered : Swap(Registered \ {e}, {})
    BY <1>4 DEF remove
  <2> DEFINE keep == Registered \ {e}
  <2>3. keep \in SUBSET Registered /\ {} \in SUBSET Config /\ Swap(keep, {})
    BY <2>2
  <2> HIDE DEF keep
  <2>4. \A c, d \in {} : c.id = d.id => c = d
    OBVIOUS
  <2>5. \A c \in {} : c.id \notin Ids(keep)
    OBVIOUS
  <2>6. QED  BY Zenon, <2>1, <2>3, <2>4, <2>5, SwapSteps
<1>5. ASSUME NEW w \in Monitor, at[w] = "found" PROVE w \in Writer /\ object[held[w]] \in Object
  <2>1. w \in Writer /\ RegistryInv
    BY DEF Writer, IInv
  <2>2. held[w] \in Alive
    BY <1>5, <2>1, AliveFacts DEF RegistryInv
  <2>3. QED  BY <2>1, <2>2 DEF RegistryInv
<1>6. ASSUME NEW w \in Monitor, update_state(w) PROVE IInv' /\ Steady
  <2>1. PICK s \in Reported : Store(w, [object[held[w]] EXCEPT !.state = s])
    BY <1>6 DEF update_state
  <2>2. at[w] = "found" /\ at' = [at EXCEPT ![w] = "stored"]
    BY <1>6, <2>1 DEF update_state, Counted, Store
  <2>3. s \in State
    BY RegistryAssumption
  <2> DEFINE x == [object[held[w]] EXCEPT !.state = s]
  <2>4. x \in Object /\ x.config = object[held[w]].config
    BY <2>2, <2>3, <1>5 DEF Object
  <2>5. Store(w, x)
    BY <2>1
  <2> HIDE DEF x
  <2>6. QED  BY Zenon, <2>2, <2>4, <2>5, <1>5, StoreSteps
<1>7. ASSUME NEW w \in Monitor, update_role(w) PROVE IInv' /\ Steady
  <2>1. PICK r \in Role : Store(w, [object[held[w]] EXCEPT !.role = r])
    BY <1>7 DEF update_role
  <2>2. at[w] = "found" /\ at' = [at EXCEPT ![w] = "stored"]
    BY <1>7, <2>1 DEF update_role, Counted, Store
  <2> DEFINE x == [object[held[w]] EXCEPT !.role = r]
  <2>3. x \in Object /\ x.config = object[held[w]].config
    BY <2>2, <1>5 DEF Object
  <2>4. Store(w, x)
    BY <2>1
  <2> HIDE DEF x
  <2>5. QED  BY Zenon, <2>2, <2>3, <2>4, <1>5, StoreSteps
<1>8. ASSUME NEW w \in Monitor, update_lag(w) PROVE IInv' /\ Steady
  <2>1. PICK l \in BOOLEAN : Store(w, [object[held[w]] EXCEPT !.late = l])
    BY <1>8 DEF update_lag
  <2>2. at[w] = "found" /\ at' = [at EXCEPT ![w] = "idle"]
    BY <1>8, <2>1 DEF update_lag, Store
  <2> DEFINE x == [object[held[w]] EXCEPT !.late = l]
  <2>3. x \in Object /\ x.config = object[held[w]].config
    BY <2>2, <1>5 DEF Object
  <2>4. Store(w, x)
    BY <2>1
  <2> HIDE DEF x
  <2>5. QED  BY Zenon, <2>2, <2>3, <2>4, <1>5, StoreSteps
<1>9. ASSUME NEW w \in Monitor, get(w) PROVE IInv' /\ Steady
  BY <1>9, GetSteps DEF Writer
<1>10. ASSUME NEW w \in Writer, Announce(w) PROVE IInv' /\ Steady
  BY <1>10, AnnounceSteps, ZenonT(20)
<1>11. QED  BY <1>2, <1>3, <1>4, <1>6, <1>7, <1>8, <1>9, <1>10 DEF RegistryStep

\* A step of the registry leaves every plan what it knows.
LEMMA PlansCarried ==
  ASSUME IInv, PlansOK, Steady, UNCHANGED <<schemas, dangling, plan>>
  PROVE  PlansOK'
<1> SUFFICES ASSUME NEW p \in Planner, plan[p].step # "idle", plan[p].config # None
             PROVE  PlanOK(plan[p], Conf(p), object', Registered', touched'[p])
  BY DEF PlansOK, Conf, Returned
<1>1. plan[p] \in Local /\ Shaped(plan[p]) /\ p \in DOMAIN touched
  BY ZenonT(20) DEF IInv, PlannerInv
<1>2. PlanOK(plan[p], Conf(p), object, Registered, touched[p])
  BY ZenonT(60) DEF PlansOK
<1>3. /\ touched[p] \subseteq touched'[p]
      /\ \A e \in (Registered \union Registered' \union Pins(plan[p])) \ touched'[p] :
           (e \in Registered <=> e \in Registered') /\ object'[e] = object[e]
  BY <1>1 DEF Steady
<1>4. QED  BY <1>1, <1>2, <1>3, Carried, SMTT(30)

-----------------------------------------------------------------------------
(* The schema registry's steps.                                            *)

LEMMA SchemaSteps ==
  ASSUME IInv, upsert \/ remove_schema
  PROVE  IInv' /\ (~Unsynchronised /\ PlansOK => PlansOK')
<1>1. PICK map : SwapSchemas(map) /\ map \in [DOMAIN map -> SchemaConfig] /\ DOMAIN map \subseteq SchemaName
  <2>1. schemas \in [DOMAIN schemas -> SchemaConfig] /\ DOMAIN schemas \subseteq SchemaName
    BY DEF IInv, PlannerInv
  <2>2. CASE upsert
    <3>1. PICK n \in SchemaName, c \in SchemaConfig : SwapSchemas(Over([m \in {n} |-> c], schemas))
      BY Zenon, <2>2 DEF upsert
    <3> DEFINE map == Over([m \in {n} |-> c], schemas)
    <3>2. map \in [DOMAIN map -> SchemaConfig] /\ DOMAIN map \subseteq SchemaName
      BY <2>1 DEF Over
    <3>3. QED  BY <3>1, <3>2, Zenon
  <2>3. CASE remove_schema
    <3>1. PICK n \in DOMAIN schemas : SwapSchemas(Restrict(schemas, DOMAIN schemas \ {n}))
      BY <2>3 DEF remove_schema
    <3> DEFINE map == Restrict(schemas, DOMAIN schemas \ {n})
    <3>2. map \in [DOMAIN map -> SchemaConfig] /\ DOMAIN map \subseteq SchemaName
      BY <2>1 DEF Restrict
    <3>3. QED  BY <3>1, <3>2, Zenon
  <2>4. QED  BY <2>2, <2>3
<1>2. /\ Unsynchronised \/ \A p \in Planner : plan[p].step = "idle"
      /\ schemas' = map /\ dangling' = dangling \union {p \in Planner : Holding(p)}
      /\ UNCHANGED <<registry, pinning, touched, plan, counter>>
  BY <1>1 DEF SwapSchemas
<1>3. UNCHANGED <<object, current, at, held, moved>>
  BY <1>2 DEF registry
<1>4. Registered' = Registered /\ Alive' = Alive /\ \A e : Id(e)' = Id(e)
  BY <1>2, <1>3 DEF Registered, Alive, Id
<1>5. RegistryInv'
  BY <1>2, <1>3, <1>4, Zenon DEF IInv, RegistryInv, UpdateReachesEntry
<1>6. PlannerInv'
  BY <1>1, <1>2, ZenonT(20) DEF IInv, PlannerInv, Holding
<1>7. ASSUME ~Unsynchronised, PlansOK PROVE PlansOK'
  <2>1. \A p \in Planner : plan[p].step = "idle"
    BY <1>2, <1>7
  <2>2. {p \in Planner : Holding(p)} = {}
    BY <2>1 DEF Holding
  <2>3. QED  BY <1>2, <1>7, <2>1, <2>2 DEF PlansOK
<1>8. QED  BY <1>5, <1>6, <1>7 DEF IInv

-----------------------------------------------------------------------------
(* plan() goes on with the local variables y.                              *)

LEMMA ContinueSteps ==
  ASSUME IInv, NEW p \in Planner, NEW y \in Local, Continue(p, y), Shaped(y), Pins(y) \subseteq Alive,
         DOMAIN touched' = {q \in Planner : plan'[q].step # "idle"}, counter' \in [Policy -> Nat],
         dangling \ {p} \subseteq dangling',
         y.step \notin {"idle", "returned"} => p \in dangling' \/ y.config \in DOMAIN schemas
  PROVE  /\ IInv' /\ Registered' = Registered
         /\ \A e \in Registered \union Pins(y) : object'[e] = object[e]
         /\ \A q \in Planner : \A e \in Pins(plan'[q]) : object'[e] = object[e]
<1>1. RegistryInv /\ PlannerInv
  BY DEF IInv
<1>2. /\ object \in [Alive -> Object] /\ current \in [Group -> Seq(Entry)]
      /\ held \in [Writer -> Entry \union {NoEntry}] /\ pinning \in [Planner -> SUBSET Entry]
      /\ plan \in [Planner -> Local]
      /\ \A g \in Group : \A e \in Range(current[g]) : object[e].config.group = g
      /\ \A d, e \in Registered : Id(d) = Id(e) => d = e
      /\ \A q \in Planner : pinning[q] = Pins(plan[q])
  BY <1>1 DEF RegistryInv, PlannerInv
<1>3. /\ plan' = [plan EXCEPT ![p] = y] /\ pinning' = [pinning EXCEPT ![p] = Pins(y)]
      /\ UNCHANGED <<current, at, held, moved, schemas>>
      /\ object' = [e \in Alive' |-> object[e]]
  BY DEF Continue, Becomes, Pins
<1>4. Registered \subseteq Alive /\ Alive \subseteq Entry /\ \A q \in Planner : pinning[q] \subseteq Alive
      /\ \A g \in Group : Range(current[g]) \subseteq Registered
  BY <1>2, AliveFacts
<1>5. pinning' \in [Planner -> SUBSET Entry]
  BY <1>2, <1>3, <1>4
<1>6. \A q \in Planner : pinning'[q] = Pins(plan'[q]) /\ pinning'[q] \subseteq Alive
  BY <1>2, <1>3, <1>4
<1>7. Registered' = Registered
  BY <1>3 DEF Registered
<1>8. Registered \subseteq Alive' /\ Alive' \subseteq Alive /\ \A q \in Planner : pinning'[q] \subseteq Alive'
  <2>1. UNION Range(pinning') \subseteq Alive /\ \A q \in Planner : pinning'[q] \subseteq UNION Range(pinning')
    BY <1>5, <1>6 DEF Range
  <2>2. Alive' = Registered \union (Range(held) \ {NoEntry}) \union UNION Range(pinning')
    BY <1>3, <1>7 DEF Alive
  <2>3. Range(held) \ {NoEntry} \subseteq Alive
    BY DEF Alive
  <2>4. QED  BY <2>1, <2>2, <2>3, <1>4
<1>9. \A e \in Alive' : object'[e] = object[e] /\ object'[e] \in Object
  BY <1>2, <1>3, <1>8
<1>10. object' \in [Alive' -> Object]
  BY <1>3, <1>9
<1>11. \A g \in Group : \A e \in Range(current'[g]) : object'[e].config.group = g
  BY <1>2, <1>3, <1>4, <1>8, <1>9
<1>12. \A d, e \in Registered' : Id(d)' = Id(e)' => d = e
  BY <1>2, <1>7, <1>8, <1>9 DEF Id
<1>13. RegistryInv'
  BY <1>1, <1>3, <1>5, <1>7, <1>10, <1>11, <1>12, Zenon DEF RegistryInv, UpdateReachesEntry
<1>14. plan' \in [Planner -> Local]
  BY <1>2, <1>3
<1>15. \A q \in Planner : Shaped(plan'[q])
  BY <1>1, <1>2, <1>3 DEF PlannerInv
<1>16. \A q \in Planner : Holding(q)' => q \in dangling' \/ plan'[q].config \in DOMAIN schemas'
  <2> SUFFICES ASSUME NEW q \in Planner, plan'[q].step \notin {"idle", "returned"}
               PROVE  q \in dangling' \/ plan'[q].config \in DOMAIN schemas'
    BY DEF Holding
  <2>1. CASE q = p
    BY <2>1, <1>2, <1>3
  <2>2. CASE q # p
    <3>1. plan'[q] = plan[q]
      BY <2>2, <1>2, <1>3
    <3>2. QED  BY ZenonT(40), <3>1, <2>2, <1>1, <1>3 DEF PlannerInv, Holding
  <2>3. QED  BY <2>1, <2>2
<1>17. PlannerInv'
  BY ZenonT(40), <1>1, <1>3, <1>6, <1>14, <1>15, <1>16 DEF PlannerInv
<1>18. plan'[p] = y
  BY ZenonT(40), <1>2, <1>3
<1>19. QED  BY <1>6, <1>7, <1>8, <1>9, <1>13, <1>17, <1>18 DEF IInv

\* What y must be for the plan to stay OK, of what p's thread sees.
Known(p, y) ==
  y.step # "idle" =>
    IF y.config = None THEN y.step = "returned" /\ y.error = "NO_SCHEMA_CONFIG"
    ELSE /\ y.query \in Query /\ y.config \in DOMAIN schemas
         /\ PlanOK(y, schemas[y.config], object, Registered, touched'[p])

LEMMA PlansContinue ==
  ASSUME IInv, IInv', PlansOK, NEW p \in Planner, NEW y \in Local, Continue(p, y), Shaped(y),
         Registered' = Registered, dangling' = {},
         \A e \in Registered \union Pins(y) : object'[e] = object[e],
         \A q \in Planner : \A e \in Pins(plan'[q]) : object'[e] = object[e],
         \A q \in Planner \ {p} : plan[q].step # "idle" => touched'[q] = touched[q],
         Known(p, y)
  PROVE  PlansOK'
<1>1. schemas' = schemas /\ plan' = [plan EXCEPT ![p] = y] /\ plan \in [Planner -> Local]
  BY DEF Continue, IInv, PlannerInv
<1>2. plan'[p] = y /\ \A q \in Planner \ {p} : plan'[q] = plan[q]
  BY <1>1
<1> SUFFICES ASSUME NEW q \in Planner, plan'[q].step # "idle"
             PROVE  IF plan'[q].config = None THEN plan'[q].step = "returned" /\ plan'[q].error = "NO_SCHEMA_CONFIG"
                    ELSE /\ plan'[q].query \in Query /\ plan'[q].config \in DOMAIN schemas
                         /\ PlanOK(plan'[q], schemas[plan'[q].config], object', Registered', touched'[q])
  BY <1>1 DEF PlansOK, Returned, Conf
<1>3. CASE q = p
  <2>1. SUFFICES ASSUME y.config # None
                 PROVE  PlanOK(y, schemas[y.config], object', Registered', touched'[p])
    BY <1>2, <1>3 DEF Known
  <2>2. PlanOK(y, schemas[y.config], object, Registered, touched'[p])
    BY ZenonT(40), <1>2, <1>3, <2>1 DEF Known
  <2>3. QED  BY <2>2, Carried
<1>4. CASE q # p
  <2>1. plan'[q] = plan[q] /\ touched'[q] = touched[q] /\ plan[q] \in Local /\ Shaped(plan[q])
    BY <1>1, <1>2, <1>4, ZenonT(40) DEF IInv, PlannerInv
  <2>2. SUFFICES ASSUME plan[q].config # None
                 PROVE  PlanOK(plan[q], schemas[plan[q].config], object', Registered', touched'[q])
    BY <2>1, <1>4 DEF PlansOK, Returned, Conf
  <2>3. PlanOK(plan[q], schemas[plan[q].config], object, Registered, touched[q])
    BY <2>1, <2>2 DEF PlansOK, Conf
  <2>4. \A e \in Registered \union Pins(plan[q]) : object'[e] = object[e]
    BY <2>1
  <2>5. QED  BY <2>1, <2>3, <2>4, Carried
<1>5. QED  BY <1>3, <1>4

\* A load of a plan under way: it goes on with y, knowing what it knew or more.
LEMMA StepOn ==
  ASSUME IInv, NEW p \in Planner, Holding(p), NEW y \in Local, Continue(p, y), Shaped(y),
         Pins(y) \subseteq Pins(plan[p]) \union Registered,
         y.step # "idle", y.query = plan[p].query, y.config = plan[p].config,
         dangling' = dangling, touched' = touched, counter' \in [Policy -> Nat],
         PlansOK /\ PlanOK(plan[p], Conf(p), object, Registered, touched[p])
           => PlanOK(y, Conf(p), object, Registered, touched[p])
  PROVE  IInv' /\ (PlansOK => PlansOK')
<1>1. RegistryInv /\ PlannerInv
  BY DEF IInv
<1>2. plan \in [Planner -> Local] /\ pinning[p] = Pins(plan[p]) /\ plan[p].step \notin {"idle", "returned"}
      /\ DOMAIN touched = {q \in Planner : plan[q].step # "idle"}
      /\ (p \in dangling \/ plan[p].config \in DOMAIN schemas)
  BY <1>1 DEF PlannerInv, Holding
<1>3. plan' = [plan EXCEPT ![p] = y]
  BY ZenonT(40) DEF Continue
<1>4. Pins(y) \subseteq Alive
  BY ZenonT(40), <1>1, <1>2, AliveFacts DEF RegistryInv
<1>5. \A q \in Planner : plan'[q].step # "idle" <=> plan[q].step # "idle"
  BY <1>2, <1>3
<1>6. DOMAIN touched' = {q \in Planner : plan'[q].step # "idle"}
  BY <1>2, <1>5, ZenonT(40)
<1>7. /\ IInv' /\ Registered' = Registered
      /\ \A e \in Registered \union Pins(y) : object'[e] = object[e]
      /\ \A q \in Planner : \A e \in Pins(plan'[q]) : object'[e] = object[e]
  BY ZenonT(40), <1>2, <1>4, <1>6, ContinueSteps
<1>8. ASSUME PlansOK PROVE PlansOK'
  <2>1. dangling' = {}
    BY <1>8, ZenonT(40) DEF PlansOK
  <2>2. plan[p].config # None
    BY <1>2, <1>8, ZenonT(40) DEF PlansOK, Returned
  <2>3. plan[p].query \in Query /\ plan[p].config \in DOMAIN schemas
        /\ PlanOK(plan[p], Conf(p), object, Registered, touched[p])
    BY <1>2, <1>8, <2>2 DEF PlansOK
  <2>4. PlanOK(y, schemas[y.config], object, Registered, touched'[p])
    BY ZenonT(40), <1>8, <2>3 DEF Conf
  <2>5. Known(p, y)
    BY <2>2, <2>3, <2>4 DEF Known
  <2>6. QED  BY <1>7, <1>8, <2>1, <2>5, PlansContinue
<1>9. QED  BY <1>7, <1>8

\* What the pointer to the schema configuration gives.
LEMMA DerefFacts ==
  ASSUME IInv, NEW p \in Planner, Holding(p), NEW c \in Deref(p)
  PROVE  c \in SchemaConfig /\ (PlansOK => c = Conf(p))
  BY DEF IInv, PlannerInv, Deref, PlansOK, Conf

LEMMA QuietFacts ==
  ASSUME IInv, Quietly
  PROVE  dangling' = dangling /\ touched' = touched /\ counter' \in [Policy -> Nat]
  BY DEF IInv, PlannerInv, Quietly

LEMMA HereFacts ==
  ASSUME IInv, NEW p \in Planner
  PROVE  plan[p] \in Local /\ Shaped(plan[p])
  BY DEF IInv, PlannerInv

-----------------------------------------------------------------------------
(* The steps of plan(), each a load.                                       *)

LEMMA StartSteps ==
  ASSUME IInv, NEW p \in Planner, Start(p)
  PROVE  IInv' /\ (PlansOK => PlansOK')
<1>1. PICK q \in Query :
        LET x == [Idle EXCEPT !.query = q, !.config = lookup(q.schema), !.step = "role"] IN
        Continue(p, IF x.config = None THEN Return(x, NoEntry, "NO_SCHEMA_CONFIG") ELSE x)
  BY Zenon DEF Start
<1> DEFINE n == lookup(q.schema)
           x == [Idle EXCEPT !.query = q, !.config = n, !.step = "role"]
           y == IF x.config = None THEN Return(x, NoEntry, "NO_SCHEMA_CONFIG") ELSE x
<1>2. Continue(p, y)
  BY <1>1
<1>3. /\ plan[p].step = "idle" /\ touched' = Over([r \in {p} |-> {}], touched)
      /\ dangling' = dangling /\ counter' = counter
  BY DEF Start
<1>4. n \in DOMAIN schemas \union {None} /\ DOMAIN schemas \subseteq SchemaName /\ plan \in [Planner -> Local]
      /\ counter \in [Policy -> Nat] /\ DOMAIN touched = {r \in Planner : plan[r].step # "idle"}
  BY DEF IInv, PlannerInv, lookup
<1> HIDE DEF n
<1>5. x \in Local /\ x.query = q /\ x.config = n /\ x.step = "role" /\ x.todo = << >> /\ x.out = << >> /\ x.chosen = NoEntry
  <2>1. << >> \in Seq(Entry)
    OBVIOUS
  <2>2. n \in SchemaName \union {None}
    BY <1>4
  <2>3. Idle \in Local /\ Idle.todo = << >> /\ Idle.out = << >> /\ Idle.chosen = NoEntry
    BY <2>1 DEF Idle, Local, Role
  <2>4. x \in Local
    BY Zenon, <2>2, <2>3 DEF Local
  <2>5. x.query = q /\ x.config = n /\ x.step = "role" /\ x.todo = Idle.todo /\ x.out = Idle.out /\ x.chosen = Idle.chosen
    BY ZenonT(40), <2>3 DEF Local
  <2>6. QED  BY <2>3, <2>4, <2>5
<1> HIDE DEF x
<1>6. y \in Local /\ y.query = q /\ y.config = n /\ y.todo = << >> /\ y.out = << >> /\ y.chosen = NoEntry
      /\ IF n = None THEN y.step = "returned" /\ y.error = "NO_SCHEMA_CONFIG" ELSE y.step = "role"
  <2>1. CASE n = None
    <3>1. y = Return(x, NoEntry, "NO_SCHEMA_CONFIG")
      BY <1>5, <2>1
    <3>2. y \in Local
      <4>1. \A e \in Entry \union {NoEntry} : Return(x, e, "NO_SCHEMA_CONFIG") \in Local
        BY <1>5, LocalFacts, Zenon
      <4>2. NoEntry \in Entry \union {NoEntry}
        OBVIOUS
      <4>3. QED  BY <3>1, <4>1, <4>2, Zenon
    <3>3. QED  BY <3>1, <3>2, <1>5, <2>1 DEF Return, Local
  <2>2. CASE n # None
    BY <1>5, <2>2
  <2>3. QED  BY <2>1, <2>2
<1> HIDE DEF y
<1>7. Shaped(y) /\ Pins(y) = {} /\ y.step # "idle"
  BY <1>6, RangeFacts DEF Shaped, Pins
<1>8. plan' = [plan EXCEPT ![p] = y]
  BY <1>2 DEF Continue
<1>9. DOMAIN touched' = DOMAIN touched \union {p} /\ touched'[p] = {} /\ \A r \in DOMAIN touched \ {p} : touched'[r] = touched[r]
  BY <1>3 DEF Over
<1>10. DOMAIN touched' = {r \in Planner : plan'[r].step # "idle"}
  BY <1>4, <1>7, <1>8, <1>9
<1>11. y.step \notin {"idle", "returned"} => y.config \in DOMAIN schemas
  BY <1>4, <1>6
<1>12. /\ IInv' /\ Registered' = Registered
       /\ \A e \in Registered \union Pins(y) : object'[e] = object[e]
       /\ \A r \in Planner : \A e \in Pins(plan'[r]) : object'[e] = object[e]
  BY Zenon, <1>2, <1>3, <1>4, <1>6, <1>7, <1>10, <1>11, ContinueSteps
<1>13. ASSUME PlansOK PROVE PlansOK'
  <2>1. dangling' = {}
    BY <1>3, <1>13 DEF PlansOK
  <2>2. \A r \in Planner \ {p} : plan[r].step # "idle" => touched'[r] = touched[r]
    BY <1>4, <1>9, ZenonT(40)
  <2>3. n # None => PlanOK(y, schemas[y.config], object, Registered, touched'[p])
    BY <1>6 DEF PlanOK
  <2>4. Known(p, y)
    BY <1>4, <1>6, <2>3 DEF Known
  <2>5. QED  BY <1>2, <1>6, <1>7, <1>12, <1>13, <2>1, <2>2, <2>4, PlansContinue, ZenonT(40)
<1>14. QED  BY Zenon, <1>12, <1>13

LEMMA ChooseRoleSteps ==
  ASSUME IInv, NEW p \in Planner, ChooseRole(p)
  PROVE  IInv' /\ (PlansOK => PlansOK')
<1> DEFINE x == plan[p]
<1>1. x.step = "role" /\ Quietly
  BY ZenonT(20) DEF ChooseRole
<1>2. PICK c \in Deref(p) :
        LET r == RoleOf(x.query, c)
            z == [x EXCEPT !.role = r]
        IN  Continue(p, IF x.query.pinned /\ r = "PRIMARY" THEN Return(z, NoEntry, "OK") ELSE [z EXCEPT !.step = "group"])
  BY Zenon DEF ChooseRole
<1> DEFINE r == RoleOf(x.query, c)
           z == [x EXCEPT !.role = r]
           y == IF x.query.pinned /\ r = "PRIMARY" THEN Return(z, NoEntry, "OK") ELSE [z EXCEPT !.step = "group"]
<1>3. Continue(p, y)
  BY <1>2
<1>4. Holding(p)
  BY <1>1 DEF Holding
<1>5. r \in Role /\ (r = "REPLICA" <=> Reads(x.query, c))
  BY DEF RoleOf, select_role, Reads, Role
<1>6. x \in Local /\ x.todo = << >> /\ x.out = << >>
  BY <1>1, HereFacts DEF Shaped
<1> HIDE DEF r
<1>7. z \in Local /\ z.role = r /\ z.query = x.query /\ z.config = x.config /\ z.todo = << >> /\ z.out = << >> /\ z.chosen = x.chosen
  BY <1>5, <1>6, ZenonT(40) DEF Local
<1> HIDE DEF z
<1>8. CASE x.query.pinned /\ r = "PRIMARY"
  <2>1. y = Return(z, NoEntry, "OK")
    BY <1>8
  <2>2. y \in Local /\ Shaped(y) /\ Pins(y) = {} /\ y.query = x.query /\ y.config = x.config
        /\ y.role = "PRIMARY" /\ y.step = "returned" /\ y.chosen = NoEntry /\ y.error = "OK"
    BY <2>1, <1>7, <1>8, ReturnFacts
  <2> HIDE DEF y
  <2>3. ASSUME PlansOK PROVE PlanOK(y, Conf(p), object, Registered, touched[p])
    <3>1. ~Reads(y.query, Conf(p))
      BY <1>4, <1>5, <1>8, <2>2, <2>3, DerefFacts, ZenonT(40)
    <3>2. QED  BY <2>2, <3>1, ZenonT(40) DEF PlanOK, RoleOK, ReturnOK
  <2>4. QED  BY <1>1, <1>3, <1>4, <2>2, <2>3, StepOn, QuietFacts
<1>9. CASE ~(x.query.pinned /\ r = "PRIMARY")
  <2>1. y = [z EXCEPT !.step = "group"]
    BY ZenonT(20), <1>9
  <2>2. y \in Local
    BY Zenon, <2>1, <1>7, LocalFacts
  <2>3. y.query = x.query /\ y.config = x.config /\ y.role = r /\ y.step = "group"
        /\ y.todo = << >> /\ y.out = << >> /\ y.chosen = x.chosen
    BY <2>1, <1>7 DEF Local
  <2> HIDE DEF y
  <2>4. Shaped(y) /\ Pins(y) \subseteq Pins(x)
    BY <2>3, RangeFacts, ZenonT(40) DEF Shaped, Pins
  <2>5. ASSUME PlansOK PROVE PlanOK(y, Conf(p), object, Registered, touched[p])
    <3>1. r = "REPLICA" <=> Reads(y.query, Conf(p))
      BY <1>4, <1>5, <2>3, <2>5, DerefFacts, ZenonT(40)
    <3>2. QED  BY <2>3, <3>1 DEF PlanOK, RoleOK
  <2>6. QED  BY <1>1, <1>3, <1>4, <2>2, <2>3, <2>4, <2>5, StepOn, QuietFacts
<1>10. QED  BY <1>8, <1>9

LEMMA ReadGroupSteps ==
  ASSUME IInv, NEW p \in Planner, ReadGroup(p)
  PROVE  IInv' /\ (PlansOK => PlansOK')
<1> DEFINE x == plan[p]
<1>1. x.step = "group" /\ Quietly
  BY DEF ReadGroup
<1>2. PICK c \in Deref(p) :
        Continue(p, Scanning([x EXCEPT !.todo = IF c.group \in Group THEN current[c.group] ELSE << >>]))
  BY DEF ReadGroup
<1> DEFINE t == IF c.group \in Group THEN current[c.group] ELSE << >>
           z == [x EXCEPT !.todo = t]
           y == Scanning(z)
<1>3. Continue(p, y)
  BY <1>2
<1>4. Holding(p)
  BY <1>1 DEF Holding
<1>5. x \in Local /\ x.out = << >>
  BY <1>1, HereFacts DEF Shaped
<1>6. /\ current \in [Group -> Seq(Entry)] /\ object \in [Alive -> Object] /\ Registered \subseteq Alive
      /\ \A g \in Group : Range(current[g]) \subseteq Registered
      /\ \A g \in Group : \A e \in Range(current[g]) : object[e].config.group = g
  BY AliveFacts DEF IInv, RegistryInv
<1>7. << >> \in Seq(Entry)
  OBVIOUS
<1>8. t \in Seq(Entry)
  BY <1>6, <1>7
<1>9. \A e : e \in Range(t) <=> e \in Registered /\ object[e].config.group = c.group
  <2>1. \A e \in Registered : \E g \in Group : e \in Range(current[g])
    BY DEF Registered
  <2>2. CASE c.group \in Group
    BY <2>1, <2>2, <1>6
  <2>3. CASE c.group \notin Group
    BY SMTT(20), <2>1, <2>3, <1>6, RangeFacts
  <2>4. QED  BY <2>2, <2>3
<1> HIDE DEF t
<1>10. z \in Local
  BY Zenon, <1>5, <1>8, LocalFacts
<1>11. z.todo = t /\ z.out = << >> /\ z.query = x.query /\ z.config = x.config /\ z.chosen = x.chosen /\ z.role = x.role
  BY <1>5 DEF Local
<1> HIDE DEF z
<1>12. Pins(z) \subseteq Pins(x) \union Registered
  BY <1>9, <1>11, RangeFacts DEF Pins
<1>13. /\ y \in Local /\ Shaped(y) /\ Pins(y) \subseteq Pins(x) \union Registered
       /\ y.query = x.query /\ y.config = x.config /\ y.step # "idle"
  BY <1>10, <1>11, <1>12, ScanningType
<1>14. ASSUME PlansOK, PlanOK(x, Conf(p), object, Registered, touched[p])
       PROVE  PlanOK(y, Conf(p), object, Registered, touched[p])
  <2>1. c = Conf(p)
    BY Zenon, <1>4, <1>14, DerefFacts
  <2>2. RoleOK(z, c, object, Registered, touched[p])
    BY <1>1, <1>11, <1>14, <2>1, ZenonT(40) DEF PlanOK, RoleOK
  <2>3. ScanOK(z, c, object, Registered, touched[p])
    BY <1>9, <1>11, RangeFacts, ZenonT(40) DEF ScanOK
  <2>4. QED  BY <1>10, <2>1, <2>2, <2>3, ScanningOK
<1> HIDE DEF y
<1>15. QED  BY <1>1, <1>3, <1>4, <1>13, <1>14, StepOn, QuietFacts

\* A load that reads the objects as they are, and goes on as it may.
LEMMA FollowSteps ==
  ASSUME IInv, NEW p \in Planner, Holding(p), NEW y, Continue(p, y), Follows(plan[p], y, object),
         dangling' = dangling, touched' = touched, counter' \in [Policy -> Nat]
  PROVE  IInv' /\ (PlansOK => PlansOK')
  BY StepOn DEF Follows

LEMMA ReadRoleSteps ==
  ASSUME IInv, NEW p \in Planner, ReadRole(p)
  PROVE  IInv' /\ (PlansOK => PlansOK')
<1>1. plan[p].step = "roles" /\ plan[p] \in Local /\ plan[p].todo # << >>
  BY HereFacts DEF ReadRole, Shaped
<1>2. PICK y : Continue(p, y) /\ Follows(plan[p], y, object)
  BY Zenon, <1>1, RoleFollows DEF ReadRole
<1>3. Holding(p) /\ Quietly
  BY <1>1 DEF Holding, ReadRole
<1>4. QED  BY <1>2, <1>3, FollowSteps, QuietFacts

LEMMA ReadStateSteps ==
  ASSUME IInv, NEW p \in Planner, ReadState(p)
  PROVE  IInv' /\ (PlansOK => PlansOK')
<1>1. plan[p].step = "state" /\ plan[p] \in Local /\ plan[p].todo # << >>
  BY HereFacts DEF ReadState, Shaped
<1>2. PICK y : Continue(p, y) /\ Follows(plan[p], y, object)
  BY <1>1, StateFollows, ZenonT(40) DEF ReadState
<1>3. Holding(p) /\ Quietly
  BY ZenonT(40), <1>1 DEF Holding, ReadState
<1>4. QED  BY <1>2, <1>3, FollowSteps, QuietFacts

LEMMA ReadLagSteps ==
  ASSUME IInv, NEW p \in Planner, ReadLag(p)
  PROVE  IInv' /\ (PlansOK => PlansOK')
<1>1. plan[p].step = "lag" /\ plan[p] \in Local /\ plan[p].todo # << >>
  BY HereFacts DEF ReadLag, Shaped
<1>2. PICK y : Continue(p, y) /\ Follows(plan[p], y, object)
  BY Zenon, <1>1, LagFollows DEF ReadLag
<1>3. Holding(p) /\ Quietly
  BY <1>1 DEF Holding, ReadLag
<1>4. QED  BY <1>2, <1>3, FollowSteps, QuietFacts

\* Every policy picks one of the candidates.
LEMMA PicksFacts ==
  ASSUME IInv, NEW x \in Local, x.out # << >>, NEW pol \in Policy, pol # "FAILOVER", NEW i \in Picks(x, pol)
  PROVE  i \in DOMAIN x.out
<1>1. x.out \in Seq(Entry)
  BY DEF Local
<1>2. Len(x.out) \in Nat \ {0} /\ DOMAIN x.out = 1..Len(x.out)
  BY <1>1
<1>3. counter[pol] \in Nat
  BY DEF IInv, PlannerInv
<1>4. InTurn(x, pol) \subseteq DOMAIN x.out
  <2>1. counter[pol] % Len(x.out) \in 0..Len(x.out) - 1
    BY <1>2, <1>3
  <2>2. (counter[pol] % Len(x.out)) + 1 \in 1..Len(x.out)
    BY <1>2, <2>1
  <2>3. QED  BY <1>2, <2>2 DEF InTurn
<1>5. Least(x, pol) \subseteq DOMAIN x.out
  BY <1>4, Zenon DEF Least
<1>6. Drawn(x) \subseteq DOMAIN x.out
  BY Zenon DEF Drawn
<1>7. QED  BY <1>4, <1>5, <1>6 DEF Picks, Uniform, Policy

LEMMA PickSteps ==
  ASSUME IInv, NEW p \in Planner, Pick(p)
  PROVE  IInv' /\ (PlansOK => PlansOK')
<1> DEFINE x == plan[p]
<1>1. x.step = "pick" /\ dangling' = dangling /\ touched' = touched
  BY ZenonT(40) DEF Pick
<1>2. PICK c \in Deref(p) : PolicyOf(c) # "FAILOVER" /\ \E i \in Picks(x, PolicyOf(c)) :
        /\ counter' = IF Counts(x, PolicyOf(c)) THEN [counter EXCEPT ![PolicyOf(c)] = (@ + 1) % Cycle] ELSE counter
        /\ Continue(p, Return(x, x.out[i], "OK"))
  BY DEF Pick
<1>3. PICK i \in Picks(x, PolicyOf(c)) :
        /\ counter' = IF Counts(x, PolicyOf(c)) THEN [counter EXCEPT ![PolicyOf(c)] = (@ + 1) % Cycle] ELSE counter
        /\ Continue(p, Return(x, x.out[i], "OK"))
  BY <1>2, ZenonT(40)
<1>4. Holding(p)
  BY <1>1 DEF Holding
<1>5. x \in Local /\ x.out # << >>
  BY <1>1, HereFacts DEF Shaped
<1>6. PolicyOf(c) \in Policy
  BY <1>4, DerefFacts, RoutingAssumption, ZenonT(40) DEF PolicyOf
<1>7. i \in DOMAIN x.out
  BY <1>2, <1>3, <1>5, <1>6, PicksFacts, ZenonT(40)
<1>8. x.out[i] \in Range(x.out)
  <2>1. x.out \in Seq(Entry)
    BY <1>5 DEF Local
  <2>2. QED  BY <1>7, <2>1, RangeFacts, ZenonT(40)
<1>9. counter' \in [Policy -> Nat]
  <2>1. counter \in [Policy -> Nat]
    BY DEF IInv, PlannerInv
  <2>2. \A k \in Nat : (k + 1) % Cycle \in Nat
    BY SMTT(30), RoutingAssumption
  <2>3. QED  BY <1>3, <1>6, <2>1, <2>2
<1>10. Follows(x, Return(x, x.out[i], "OK"), object)
  BY <1>1, <1>5, <1>8, PickFollows
<1>11. QED  BY <1>1, <1>3, <1>4, <1>9, <1>10, FollowSteps, ZenonT(40)

LEMMA PickFailoverSteps ==
  ASSUME IInv, NEW p \in Planner, PickFailover(p)
  PROVE  IInv' /\ (PlansOK => PlansOK')
<1>1. plan[p].step = "pick" /\ plan[p] \in Local /\ plan[p].out # << >>
  BY ZenonT(20), HereFacts DEF PickFailover, Shaped
<1>2. PICK y : Continue(p, y) /\ Follows(plan[p], y, object)
  BY Zenon, <1>1, FailoverFollows DEF PickFailover
<1>3. Holding(p) /\ Quietly
  BY <1>1, ZenonT(40) DEF Holding, PickFailover
<1>4. QED  BY <1>2, <1>3, FollowSteps, QuietFacts

LEMMA ReadStateAgainSteps ==
  ASSUME IInv, NEW p \in Planner, ReadStateAgain(p)
  PROVE  IInv' /\ (PlansOK => PlansOK')
<1>1. plan[p].step = "failover" /\ plan[p] \in Local /\ plan[p].todo # << >> /\ plan[p].out # << >>
  BY HereFacts, ZenonT(40) DEF ReadStateAgain, Shaped
<1>2. PICK y : Continue(p, y) /\ Follows(plan[p], y, object)
  BY <1>1, AgainFollows, ZenonT(40) DEF ReadStateAgain
<1>3. Holding(p) /\ Quietly
  BY <1>1 DEF Holding, ReadStateAgain
<1>4. QED  BY <1>2, <1>3, FollowSteps, QuietFacts

LEMMA TakenSteps ==
  ASSUME IInv, NEW p \in Planner, Taken(p)
  PROVE  IInv' /\ (PlansOK => PlansOK')
<1>1. /\ plan[p].step = "returned" /\ Continue(p, Idle) /\ touched' = Restrict(touched, DOMAIN touched \ {p})
      /\ dangling' = dangling \ {p} /\ counter' = counter
  BY DEF Taken
<1>2. plan \in [Planner -> Local] /\ counter \in [Policy -> Nat]
      /\ DOMAIN touched = {q \in Planner : plan[q].step # "idle"}
  BY ZenonT(40) DEF IInv, PlannerInv
<1>3. Idle \in Local /\ Idle.step = "idle" /\ Pins(Idle) = {} /\ Shaped(Idle)
  BY SMTT(30), RangeFacts DEF Idle, Local, Pins, Role, Shaped
<1>4. plan' = [plan EXCEPT ![p] = Idle]
  BY <1>1 DEF Continue
<1>5. DOMAIN touched' = DOMAIN touched \ {p} /\ \A q \in DOMAIN touched \ {p} : touched'[q] = touched[q]
  BY <1>1 DEF Restrict
<1>6. DOMAIN touched' = {q \in Planner : plan'[q].step # "idle"}
  BY <1>2, <1>3, <1>4, <1>5, ZenonT(40)
<1>7. /\ IInv' /\ Registered' = Registered
      /\ \A e \in Registered \union Pins(Idle) : object'[e] = object[e]
      /\ \A q \in Planner : \A e \in Pins(plan'[q]) : object'[e] = object[e]
  BY <1>1, <1>2, <1>3, <1>6, ContinueSteps
<1>8. ASSUME PlansOK PROVE PlansOK'
  <2>1. dangling' = {}
    BY <1>1, <1>8 DEF PlansOK
  <2>2. \A q \in Planner \ {p} : plan[q].step # "idle" => touched'[q] = touched[q]
    BY ZenonT(40), <1>2, <1>5
  <2>3. Known(p, Idle)
    BY <1>3 DEF Known
  <2>4. QED  BY ZenonT(40), <1>1, <1>3, <1>7, <1>8, <2>1, <2>2, <2>3, PlansContinue
<1>9. QED  BY <1>7, <1>8

-----------------------------------------------------------------------------
(* The theorems.                                                           *)

LEMMA NextIInv ==
  ASSUME IInv, [Next]_vars
  PROVE  IInv' /\ (~Unsynchronised /\ PlansOK => PlansOK')
<1>1. CASE RegistryStep /\ UNCHANGED <<schemas, dangling, plan, counter, turns>>
  <2>1. IInv' /\ Steady
    BY <1>1, RegistrySteps
  <2>2. QED  BY <1>1, <2>1, PlansCarried
<1>2. CASE upsert \/ remove_schema
  BY ZenonT(40), <1>2, SchemaSteps
<1>3. ASSUME NEW p \in Planner, PlannerStep(p) PROVE IInv' /\ (PlansOK => PlansOK')
  BY ZenonT(40), <1>3, StartSteps, ChooseRoleSteps, ReadGroupSteps, ReadRoleSteps, ReadStateSteps, ReadLagSteps,
     PickSteps, PickFailoverSteps, ReadStateAgainSteps, TakenSteps DEF PlannerStep
<1>4. CASE UNCHANGED vars
  <2>1. UNCHANGED <<object, current, at, held, moved, pinning, touched, schemas, dangling, plan, counter>>
    BY <1>4 DEF vars, registry
  <2>2. Registered' = Registered /\ Alive' = Alive /\ \A e : Id(e)' = Id(e)
    BY <2>1 DEF Registered, Alive, Id
  <2>3. RegistryInv'
    BY <2>1, <2>2, Zenon DEF IInv, RegistryInv, UpdateReachesEntry
  <2>4. PlannerInv'
    BY <2>1, ZenonT(40) DEF IInv, PlannerInv, Holding
  <2>5. PlansOK => PlansOK'
    BY <2>1, <2>2 DEF PlansOK, Returned, Conf
  <2>6. QED  BY <2>3, <2>4, <2>5 DEF IInv
<1>5. QED  BY <1>1, <1>2, <1>3, <1>4 DEF Next

LEMMA Invariance == Spec => []IInv
<1>1. Init => IInv
  BY InitIInv
<1>2. IInv /\ [Next]_vars => IInv'
  BY NextIInv
<1>3. QED  BY <1>1, <1>2, PTL DEF Spec

LEMMA PlansInvariance == ASSUME ~Unsynchronised PROVE Spec => [](IInv /\ PlansOK)
<1>1. Init => IInv /\ PlansOK
  BY InitIInv
<1>2. IInv /\ PlansOK /\ [Next]_vars => (IInv /\ PlansOK)'
  BY NextIInv
<1>3. QED  BY <1>1, <1>2, PTL DEF Spec

\* An update in place that has found its entry, of update_state(), update_role()
\* or update_lag(), is never lost to the swap of another backend: it stores into
\* the entry of the current snapshot, unless its own backend was replaced.
THEOREM UpdatesReachEntries == Spec => []UpdateReachesEntry
<1>1. IInv => UpdateReachesEntry
  BY ZenonT(40) DEF IInv, RegistryInv
<1>2. QED  BY <1>1, Invariance, PTL

\* Serves and IsRead are what the plans' invariant says with Fit and Reads.
LEMMA ServesFacts ==
  ASSUME NEW p \in Planner
  PROVE  /\ \A e, r : Serves(e, r, p) <=> Fit(object[e], r, Conf(p))
         /\ IsRead(p) <=> Reads(plan[p].query, Conf(p))
  BY ZenonT(40) DEF Serves, Fit, IsRead, Reads

LEMMA ReturnedFacts ==
  ASSUME PlansOK, NEW p \in Planner, plan[p].step = "returned", plan[p].config # None
  PROVE  /\ RoleOK(plan[p], Conf(p), object, Registered, touched[p])
         /\ ReturnOK(plan[p], Conf(p), object, Registered, touched[p])
<1>1. PlanOK(plan[p], Conf(p), object, Registered, touched[p])
  BY DEF PlansOK
<1>2. QED  BY ZenonT(40), <1>1 DEF PlanOK

\* The backend that RoutingEngine::plan() returns is registered, of the schema's
\* group, up, not lagging and of the role the statement needs, whatever other
\* threads did to the backends meanwhile, unless they touched that very one.
THEOREM PlansAreUsable == ASSUME ~Unsynchronised PROVE Spec => []PlanIsUsable
<1>1. ASSUME IInv, PlansOK PROVE PlanIsUsable
  <2> SUFFICES ASSUME NEW p \in Planner, Returned(p, "OK"), plan[p].chosen \in Alive \ touched[p]
               PROVE  /\ plan[p].chosen \in Registered
                      /\ Serves(plan[p].chosen, "PRIMARY", p) \/ (Serves(plan[p].chosen, "REPLICA", p) /\ IsRead(p))
    BY DEF PlanIsUsable
  <2>1. plan[p].config # None /\ plan[p].step = "returned" /\ plan[p].error = "OK"
    BY <1>1, ZenonT(40) DEF PlansOK, Returned
  <2>2. RoleOK(plan[p], Conf(p), object, Registered, touched[p]) /\ ReturnOK(plan[p], Conf(p), object, Registered, touched[p])
    BY <1>1, <2>1, ReturnedFacts
  <2>3. plan[p].chosen # NoEntry /\ plan[p].role \in Role
    BY <1>1, AliveFacts, RegistryAssumption, ZenonT(40) DEF IInv, RegistryInv, PlannerInv, Local
  <2>4. plan[p].chosen \in Registered /\ Fit(object[plan[p].chosen], plan[p].role, Conf(p))
    BY <2>1, <2>2, <2>3, ZenonT(40) DEF ReturnOK
  <2>5. QED  BY <2>2, <2>3, <2>4, ServesFacts, ZenonT(40) DEF RoleOK, Role
<1>2. QED  BY <1>1, PlansInvariance, PTL

\* plan() fails with NO_BACKEND_AVAILABLE only when no primary of the group that
\* was left alone could take the statement: neither a read nor a write fails
\* because of a change to another backend.
THEOREM FailuresAreNeeded == ASSUME ~Unsynchronised PROVE Spec => []NoNeedlessFailure
<1>1. ASSUME IInv, PlansOK PROVE NoNeedlessFailure
  <2> SUFFICES ASSUME NEW p \in Planner, Returned(p, "NO_BACKEND_AVAILABLE"), NEW e \in Untouched(p)
               PROVE  ~Serves(e, "PRIMARY", p)
    BY DEF NoNeedlessFailure
  <2>1. plan[p].config # None /\ plan[p].step = "returned" /\ plan[p].error = "NO_BACKEND_AVAILABLE"
    BY <1>1, ZenonT(40) DEF PlansOK, Returned
  <2>2. ReturnOK(plan[p], Conf(p), object, Registered, touched[p])
    BY <1>1, <2>1, ReturnedFacts, ZenonT(40)
  <2>3. QED  BY <2>1, <2>2, ServesFacts DEF ReturnOK, Untouched
<1>2. QED  BY <1>1, PlansInvariance, PTL

\* A SELECT outside a transaction is sent to a primary, or fails, only when no
\* replica that was left alone could serve it.
THEOREM ReplicasComeFirst == ASSUME ~Unsynchronised PROVE Spec => []ReadsPreferReplicas
<1>1. ASSUME IInv, PlansOK PROVE ReadsPreferReplicas
  <2> SUFFICES ASSUME NEW p \in Planner, plan[p].step = "returned", plan[p].config # None, IsRead(p)
               PROVE  \/ plan[p].chosen \in touched[p]
                      \/ plan[p].chosen # NoEntry /\ Serves(plan[p].chosen, "REPLICA", p)
                      \/ \A e \in Untouched(p) : ~Serves(e, "REPLICA", p)
    BY ZenonT(40) DEF ReadsPreferReplicas
  <2>1. RoleOK(plan[p], Conf(p), object, Registered, touched[p]) /\ ReturnOK(plan[p], Conf(p), object, Registered, touched[p])
    BY <1>1, ReturnedFacts
  <2>2. plan[p].role \in Role
    BY ZenonT(40), <1>1 DEF IInv, PlannerInv, Local
  <2>3. CASE plan[p].role = "PRIMARY"
    BY ZenonT(40), <2>1, <2>3, ServesFacts DEF RoleOK, Untouched
  <2>4. CASE plan[p].role = "REPLICA"
    BY <2>1, <2>4, ServesFacts DEF ReturnOK
  <2>5. QED  BY <2>2, <2>3, <2>4 DEF Role
<1>2. QED  BY <1>1, PlansInvariance, PTL
=============================================================================
