------------------------- MODULE RoutingInvariant ---------------------------
(***************************************************************************)
(* What the backend registry and plan() promise, for every set of          *)
(* backends, schemas, statements and threads.                              *)
(*                                                                         *)
(* A plan is made of many loads while other threads swap the snapshot and  *)
(* store into its entries.  What it knows at each of them is therefore     *)
(* stated of the entries that nobody has touched since it started: PlanOK, *)
(* a fact about the local variables of plan() and the values it read from, *)
(* which another thread's step carries over (Carried) because it touches   *)
(* every entry it changes.                                                 *)
(*                                                                         *)
(* Here: the invariant, that it holds at first, what plan() does to its    *)
(* local variables, and that the backend registry's steps keep it.         *)
(***************************************************************************)
EXTENDS RoutingEngine, TLAPS

Object == [config : Config, role : Role, state : State, late : BOOLEAN]

Local == [
  step : {"idle", "role", "group", "roles", "state", "lag", "pick", "failover", "returned"},
  query : Query \union {None}, config : SchemaName \union {None}, role : Role,
  todo : Seq(Entry), out : Seq(Entry), chosen : Entry \union {NoEntry},
  error : {"OK", "NO_SCHEMA_CONFIG", "NO_BACKEND_AVAILABLE"}]

\* Which of the vectors are empty.
Shaped(x) ==
  /\ x.step \in {"role", "group"} => x.todo = << >> /\ x.out = << >>
  /\ x.step \in {"roles", "state", "lag", "failover"} => x.todo # << >>
  /\ x.step \in {"pick", "failover"} => x.out # << >>

\* The objects that a plan's vectors keep alive.
Pins(x) == Range(x.todo) \union Range(x.out) \union ({x.chosen} \ {NoEntry})

-----------------------------------------------------------------------------
(* What a plan knows, with the local variables x and the schema            *)
(* configuration c: of the objects obj, of which reg are registered, except *)
(* for those in old, which have been touched.                              *)

\* The object o can take work of role r.
Fit(o, r, c) ==
  /\ o.config.group = c.group /\ o.role = r
  /\ o.state = "HEALTHY" \/ (r = "PRIMARY" /\ o.state = "DEGRADED")
  /\ (r = "REPLICA" /\ replication_aware) => ~o.late

Reads(q, c) == q.type = "SELECT" /\ ~q.in_transaction /\ Splits(c)

\* A replica is looked for on behalf of a read only, and a read has turned to
\* the primaries only if no replica would do.
RoleOK(x, c, obj, reg, old) ==
  /\ x.role = "REPLICA" => Reads(x.query, c)
  /\ Reads(x.query, c) /\ x.role = "PRIMARY" => \A e \in reg \ old : ~Fit(obj[e], "REPLICA", c)

\* get_group_by_role() has found all but what it still has to read.
ScanOK(x, c, obj, reg, old) ==
  /\ \A e \in Range(x.todo) \ old : e \in reg /\ obj[e].config.group = c.group
  /\ \A e \in Range(x.out) \ old :
       e \in reg /\ obj[e].config.group = c.group /\ obj[e].role = x.role
  /\ \A e \in reg \ old :
       obj[e].config.group = c.group /\ obj[e].role = x.role => e \in Range(x.todo) \union Range(x.out)

PickOK(x, c, obj, reg, old) == \A e \in Range(x.out) \ old : e \in reg /\ Fit(obj[e], x.role, c)

\* filter() has kept those that will do, of what it has read.
FilterOK(x, c, obj, reg, old) ==
  /\ \A e \in Range(x.todo) \ old :
       e \in reg /\ obj[e].config.group = c.group /\ obj[e].role = x.role
  /\ PickOK(x, c, obj, reg, old)
  /\ \A e \in reg \ old : Fit(obj[e], x.role, c) => e \in Range(x.todo) \union Range(x.out)

ReturnOK(x, c, obj, reg, old) ==
  /\ x.error # "NO_SCHEMA_CONFIG"
  /\ x.error = "OK" =>
       x.chosen \in {NoEntry} \union old \/ (x.chosen \in reg /\ Fit(obj[x.chosen], x.role, c))
  /\ x.error = "NO_BACKEND_AVAILABLE" => \A e \in reg \ old : ~Fit(obj[e], "PRIMARY", c)
  /\ x.role = "REPLICA" => x.error = "OK" /\ x.chosen # NoEntry

PlanOK(x, c, obj, reg, old) ==
  /\ x.step # "role" => RoleOK(x, c, obj, reg, old)
  /\ x.step = "roles" => ScanOK(x, c, obj, reg, old)
  /\ x.step \in {"state", "lag"} => FilterOK(x, c, obj, reg, old)
  /\ x.step = "lag" =>
       x.role = "REPLICA" /\ replication_aware /\ (Head(x.todo) \in old \/ obj[Head(x.todo)].state = "HEALTHY")
  /\ x.step \in {"pick", "failover"} => PickOK(x, c, obj, reg, old)
  /\ x.step = "failover" => Range(x.todo) \subseteq Range(x.out)
  /\ x.step = "returned" => ReturnOK(x, c, obj, reg, old)

-----------------------------------------------------------------------------
(* The inductive invariant.                                                *)

RegistryInv ==
  /\ object \in [Alive -> Object]
  /\ current \in [Group -> Seq(Entry)]
  /\ \A g \in Group : \A e \in Range(current[g]) : object[e].config.group = g
  /\ \A d, e \in Registered : Id(d) = Id(e) => d = e
  /\ at \in [Writer -> {"idle", "swapped", "found", "stored"}]
  /\ held \in [Writer -> Entry \union {NoEntry}]
  /\ moved \in [Writer -> BOOLEAN]
  /\ \A w \in Writer : at[w] = "found" <=> held[w] # NoEntry
  /\ pinning \in [Planner -> SUBSET Entry]
  /\ UpdateReachesEntry

PlannerInv ==
  /\ schemas \in [DOMAIN schemas -> SchemaConfig] /\ DOMAIN schemas \subseteq SchemaName
  /\ plan \in [Planner -> Local]
  /\ DOMAIN touched = {p \in Planner : plan[p].step # "idle"}
  /\ counter \in [Policy -> Nat]
  /\ \A p \in Planner :
       /\ pinning[p] = Pins(plan[p]) /\ Shaped(plan[p])
       /\ Holding(p) => p \in dangling \/ plan[p].config \in DOMAIN schemas

\* Without a schema configuration plan() has returned; with one, it is PlanOK.
PlansOK ==
  /\ dangling = {}
  /\ \A p \in Planner : plan[p].step # "idle" =>
       IF plan[p].config = None THEN Returned(p, "NO_SCHEMA_CONFIG")
       ELSE /\ plan[p].query \in Query /\ plan[p].config \in DOMAIN schemas
            /\ PlanOK(plan[p], Conf(p), object, Registered, touched[p])

IInv == RegistryInv /\ PlannerInv

-----------------------------------------------------------------------------
(* Sequences, functions and the operators that make new objects.           *)

LEMMA RangeFacts ==
  /\ Range(<< >>) = {}
  /\ \A s \in Seq(Entry) : Range(s) \subseteq Entry
  /\ \A s \in Seq(Entry) : s # << >> => Head(s) \in Range(s)
  /\ \A s \in Seq(Entry) : \A i \in DOMAIN s : s[i] \in Range(s)
  BY DEF Range

LEMMA TailFacts ==
  ASSUME NEW s \in Seq(Entry), s # << >>
  PROVE  Tail(s) \in Seq(Entry) /\ Range(s) = {Head(s)} \union Range(Tail(s)) /\ (Len(s) # 1 => Tail(s) # << >>)
<1>1. Tail(s) \in Seq(Entry) /\ DOMAIN Tail(s) = 1..Len(s) - 1 /\ DOMAIN s = 1..Len(s) /\ Len(s) \in Nat \ {0}
  OBVIOUS
<1>2. \A i \in 1..Len(s) - 1 : Tail(s)[i] = s[i + 1]
  OBVIOUS
<1>3. ASSUME NEW e \in Range(s) PROVE e = Head(s) \/ e \in Range(Tail(s))
  <2>1. PICK i \in 1..Len(s) : e = s[i]
    BY <1>1, <1>3 DEF Range
  <2>2. CASE i = 1
    BY <2>1, <2>2
  <2>3. CASE i # 1
    <3>1. i - 1 \in 1..Len(s) - 1 /\ Tail(s)[i - 1] = s[i]
      BY <2>3, <1>1, <1>2
    <3>2. QED  BY Zenon, <3>1, <2>1, <1>1 DEF Range
  <2>4. QED  BY <2>2, <2>3
<1>4. ASSUME NEW e \in Range(Tail(s)) PROVE e \in Range(s)
  <2>1. PICK i \in 1..Len(s) - 1 : e = Tail(s)[i]
    BY <1>1, <1>4 DEF Range
  <2>2. i + 1 \in 1..Len(s) /\ e = s[i + 1]
    BY <2>1, <1>1, <1>2
  <2>3. QED  BY <2>2, <1>1 DEF Range
<1>5. Head(s) \in Range(s)
  BY RangeFacts
<1>6. ASSUME Len(s) # 1 PROVE Tail(s) # << >>
  <2>1. 1 \in DOMAIN Tail(s)
    BY <1>1, <1>6
  <2>2. \A t : 1 \in DOMAIN t => t # << >>
    OBVIOUS
  <2>3. QED  BY <2>1, <2>2, Zenon
<1>7. QED  BY <1>1, <1>3, <1>4, <1>5, <1>6

LEMMA AppendFacts ==
  ASSUME NEW s \in Seq(Entry), NEW e \in Entry
  PROVE  Append(s, e) \in Seq(Entry) /\ Append(s, e) # << >> /\ Range(Append(s, e)) = Range(s) \union {e}
<1> DEFINE t == Append(s, e)
<1>1. t \in Seq(Entry) /\ DOMAIN t = 1..Len(s) + 1 /\ DOMAIN s = 1..Len(s) /\ Len(s) \in Nat
  OBVIOUS
<1>2. t[Len(s) + 1] = e /\ \A i \in 1..Len(s) : t[i] = s[i]
  OBVIOUS
<1>3. \A i \in 1..Len(s) + 1 : i \in 1..Len(s) \/ i = Len(s) + 1
  BY <1>1
<1>4. 1..Len(s) \subseteq 1..Len(s) + 1 /\ Len(s) + 1 \in 1..Len(s) + 1
  BY <1>1
<1>5. Len(t) = Len(s) + 1 /\ t # << >>
  BY <1>1
<1> HIDE DEF t
<1>6. QED  BY <1>1, <1>2, <1>3, <1>4, <1>5 DEF Range, t

\* A list of the entries S holds each of them, and is a sequence.
LEMMA ListFacts ==
  ASSUME NEW S \in SUBSET Entry, NEW s \in Lists(S)
  PROVE  s \in Seq(Entry) /\ Range(s) = S
<1>1. PICK n \in 0..Cardinality(S) : s \in Bijection(1..n, S)
  BY Zenon DEF Lists
<1>2. n \in Nat
  OBVIOUS
<1>3. s \in [1..n -> S] /\ \A e \in S : \E i \in 1..n : s[i] = e
  BY <1>1, Zenon DEF Bijection, Injection, Surjection
<1>4. Range(s) = S
  BY <1>3, Zenon DEF Range
<1>5. s \in [1..n -> Entry]
  BY <1>3
<1>6. s \in Seq(Entry)
  BY <1>2, <1>5
<1>7. QED  BY <1>4, <1>6

\* New objects are at free addresses, one for each configuration.
LEMMA MadeFacts ==
  ASSUME NEW S \in SUBSET Config, NEW free, NEW new \in Made(S, free)
  PROVE  /\ DOMAIN new \subseteq free
         /\ \A e \in DOMAIN new : new[e] \in Object /\ new[e].config \in S
         /\ \A d, e \in DOMAIN new : new[d].config = new[e].config => d = e
<1>1. PICK place \in Injection(S, free) :
        new = [e \in Range(place) |-> BackendEntry(AntiFunction(place)[e])]
  BY Zenon DEF Made
<1>2. place \in [S -> free]
  BY <1>1, Zenon DEF Injection
<1> DEFINE from(e) == AntiFunction(place)[e]
<1>3. ASSUME NEW e \in Range(place) PROVE from(e) \in S /\ place[from(e)] = e
  <2>1. from(e) = CHOOSE s \in S : e \in Range(place) => place[s] = e
    BY <1>2, <1>3 DEF AntiFunction, Inverse
  <2>2. \E s \in S : e \in Range(place) => place[s] = e
    BY <1>2, <1>3 DEF Range
  <2>3. QED  BY <2>1, <2>2, <1>3, Zenon
<1>4. ASSUME NEW c \in Config PROVE BackendEntry(c) \in Object /\ BackendEntry(c).config = c
  BY RegistryAssumption DEF BackendEntry, Object, State
<1>5. DOMAIN new = Range(place) /\ \A e \in Range(place) : new[e] = BackendEntry(from(e))
  BY <1>1
<1>6. Range(place) \subseteq free
  BY <1>2 DEF Range
<1> HIDE DEF from
<1>7. QED  BY <1>3, <1>4, <1>5, <1>6

\* build() lists the entries of each group.
LEMMA BuildFacts ==
  ASSUME NEW S \in SUBSET Entry, NEW f, NEW b \in build(S, f),
         \A e \in S : f[e].config \in Config
  PROVE  /\ b \in [Group -> Seq(Entry)]
         /\ \A e : e \in S <=> \E g \in Group : e \in Range(b[g])
         /\ \A g \in Group : \A e \in Range(b[g]) : f[e].config.group = g
<1> DEFINE In(g) == {e \in S : f[e].config.group = g}
<1>1. b \in [Group -> UNION {Lists(T) : T \in SUBSET S}] /\ \A g \in Group : b[g] \in Lists(In(g))
  BY Zenon DEF build
<1>2. \A g \in Group : b[g] \in Seq(Entry) /\ Range(b[g]) = In(g)
  BY Zenon, <1>1, ListFacts
<1>3. \A e \in S : f[e].config.group \in Group
  BY DEF Group
<1>4. b \in [Group -> Seq(Entry)]
  BY <1>1, <1>2
<1>5. QED  BY <1>2, <1>3, <1>4

-----------------------------------------------------------------------------
(* What a plan knows is carried over a step that touches what it changes,  *)
(* and from one of its own loads to the next.                              *)

LEMMA Carried ==
  ASSUME NEW x \in Local, NEW c, NEW obj, NEW reg, NEW old, NEW obj2, NEW reg2, NEW old2,
         old \subseteq old2,
         \A e \in (reg \union reg2 \union Pins(x)) \ old2 : (e \in reg <=> e \in reg2) /\ obj2[e] = obj[e],
         Shaped(x), PlanOK(x, c, obj, reg, old)
  PROVE  PlanOK(x, c, obj2, reg2, old2)
<1>1. Range(x.todo) \subseteq Pins(x) /\ Range(x.out) \subseteq Pins(x)
      /\ (x.chosen # NoEntry => x.chosen \in Pins(x))
  BY DEF Pins
<1>2. x.todo \in Seq(Entry)
  BY DEF Local
<1>3. x.todo # << >> => Head(x.todo) \in Pins(x)
  BY <1>1, <1>2, RangeFacts
<1>4. RoleOK(x, c, obj, reg, old) => RoleOK(x, c, obj2, reg2, old2)
  BY DEF RoleOK
<1>5. ScanOK(x, c, obj, reg, old) => ScanOK(x, c, obj2, reg2, old2)
  BY <1>1 DEF ScanOK
<1>6. PickOK(x, c, obj, reg, old) => PickOK(x, c, obj2, reg2, old2)
  BY <1>1 DEF PickOK
<1>7. FilterOK(x, c, obj, reg, old) => FilterOK(x, c, obj2, reg2, old2)
  BY <1>1, <1>6 DEF FilterOK
<1>8. ReturnOK(x, c, obj, reg, old) => ReturnOK(x, c, obj2, reg2, old2)
  BY <1>1 DEF ReturnOK
<1>9. x.todo # << >> /\ (Head(x.todo) \in old \/ obj[Head(x.todo)].state = "HEALTHY")
      => (Head(x.todo) \in old2 \/ obj2[Head(x.todo)].state = "HEALTHY")
  BY ZenonT(20), <1>3
<1>10. QED  BY <1>4, <1>5, <1>6, <1>7, <1>8, <1>9 DEF PlanOK, Shaped

\* The part of Local that the vectors of plan() do not change.
LEMMA LocalFacts ==
  ASSUME NEW x \in Local
  PROVE  /\ x.todo \in Seq(Entry) /\ x.out \in Seq(Entry) /\ x.role \in Role
         /\ \A s \in {"group", "roles", "state", "lag", "pick", "failover", "returned"} : [x EXCEPT !.step = s] \in Local
         /\ \A t \in Seq(Entry) : [x EXCEPT !.todo = t] \in Local
         /\ [x EXCEPT !.step = "group", !.role = "PRIMARY"] \in Local
         /\ \A t \in Seq(Entry), o \in Seq(Entry) : [x EXCEPT !.todo = t, !.out = o] \in Local
         /\ \A e \in Entry \union {NoEntry}, r \in {"OK", "NO_SCHEMA_CONFIG", "NO_BACKEND_AVAILABLE"} :
              Return(x, e, r) \in Local
<1>1. x.todo \in Seq(Entry) /\ x.out \in Seq(Entry) /\ x.role \in Role
  BY DEF Local
<1>2. \A s \in {"group", "roles", "state", "lag", "pick", "failover", "returned"} : [x EXCEPT !.step = s] \in Local
  BY ZenonT(40) DEF Local
<1>3. \A t \in Seq(Entry) : [x EXCEPT !.todo = t] \in Local
  BY Zenon DEF Local
<1>4. [x EXCEPT !.step = "group", !.role = "PRIMARY"] \in Local
  BY Zenon DEF Local, Role
<1>5. \A t \in Seq(Entry), o \in Seq(Entry) : [x EXCEPT !.todo = t, !.out = o] \in Local
  BY Zenon DEF Local
<1>6. << >> \in Seq(Entry)
  OBVIOUS
<1>7. \A e \in Entry \union {NoEntry}, r \in {"OK", "NO_SCHEMA_CONFIG", "NO_BACKEND_AVAILABLE"} :
        Return(x, e, r) \in Local
  BY Zenon, <1>6 DEF Local, Return
<1>8. QED  BY Zenon, <1>1, <1>2, <1>3, <1>4, <1>5, <1>7

\* The vectors that filter() and get_group_by_role() go on with.
LEMMA FilteringType ==
  ASSUME NEW x \in Local
  PROVE  /\ Filtering(x) \in Local /\ Shaped(Filtering(x)) /\ Pins(Filtering(x)) \subseteq Pins(x)
         /\ Filtering(x).query = x.query /\ Filtering(x).config = x.config /\ Filtering(x).step # "idle"
<1> DEFINE y == Filtering(x)
<1>1. << >> \in Seq(Entry) /\ NoEntry \in Entry \union {NoEntry}
  OBVIOUS
<1>2. CASE x.todo # << >>
  <2>1. y = [x EXCEPT !.step = "state"]
    BY <1>2 DEF Filtering
  <2>2. y \in Local
    BY Zenon, <2>1, LocalFacts
  <2>3. y.step = "state" /\ y.todo = x.todo /\ y.out = x.out /\ y.chosen = x.chosen
        /\ y.query = x.query /\ y.config = x.config
    BY <2>1 DEF Local
  <2>4. QED  BY <2>2, <2>3, <1>2 DEF Shaped, Pins
<1>3. CASE x.todo = << >> /\ x.out # << >>
  <2>1. y = [x EXCEPT !.step = "pick"]
    BY <1>3 DEF Filtering
  <2>2. y \in Local
    BY Zenon, <2>1, LocalFacts
  <2>3. y.step = "pick" /\ y.todo = x.todo /\ y.out = x.out /\ y.chosen = x.chosen
        /\ y.query = x.query /\ y.config = x.config
    BY <2>1 DEF Local
  <2>4. QED  BY <2>2, <2>3, <1>3 DEF Shaped, Pins
<1>4. CASE x.todo = << >> /\ x.out = << >> /\ x.role = "REPLICA"
  <2>1. y = [x EXCEPT !.step = "group", !.role = "PRIMARY"]
    BY <1>4 DEF Filtering
  <2>2. y \in Local
    BY ZenonT(60), <2>1, LocalFacts
  <2>3. y.step = "group" /\ y.todo = x.todo /\ y.out = x.out /\ y.chosen = x.chosen
        /\ y.query = x.query /\ y.config = x.config
    BY <2>1 DEF Local
  <2>4. QED  BY <2>2, <2>3, <1>4 DEF Shaped, Pins
<1>5. CASE x.todo = << >> /\ x.out = << >> /\ x.role # "REPLICA"
  <2>1. y = Return(x, NoEntry, "NO_BACKEND_AVAILABLE")
    BY <1>5 DEF Filtering
  <2>2. y \in Local
    BY Zenon, <2>1, <1>1, LocalFacts
  <2>3. y.step = "returned" /\ y.todo = << >> /\ y.out = << >> /\ y.chosen = NoEntry
        /\ y.query = x.query /\ y.config = x.config
    BY <2>1 DEF Local, Return
  <2>4. QED  BY <2>2, <2>3, RangeFacts DEF Shaped, Pins
<1>6. QED  BY <1>2, <1>3, <1>4, <1>5

LEMMA ScanningType ==
  ASSUME NEW x \in Local
  PROVE  /\ Scanning(x) \in Local /\ Shaped(Scanning(x)) /\ Pins(Scanning(x)) \subseteq Pins(x)
         /\ Scanning(x).query = x.query /\ Scanning(x).config = x.config /\ Scanning(x).step # "idle"
<1> DEFINE y == Scanning(x)
<1>1. CASE x.todo # << >>
  <2>1. y = [x EXCEPT !.step = "roles"]
    BY <1>1 DEF Scanning
  <2>2. y \in Local
    BY Zenon, <2>1, LocalFacts
  <2>3. y.step = "roles" /\ y.todo = x.todo /\ y.out = x.out /\ y.chosen = x.chosen
        /\ y.query = x.query /\ y.config = x.config
    BY <2>1 DEF Local
  <2>4. QED  BY <2>2, <2>3, <1>1 DEF Shaped, Pins
<1>2. CASE x.todo = << >>
  <2> DEFINE z == [x EXCEPT !.todo = x.out, !.out = << >>]
  <2>1. y = Filtering(z)
    BY <1>2 DEF Scanning
  <2>2. << >> \in Seq(Entry)
    OBVIOUS
  <2>3. z \in Local
    BY Zenon, <2>2, LocalFacts
  <2>4. z.todo = x.out /\ z.out = << >> /\ z.chosen = x.chosen /\ z.query = x.query /\ z.config = x.config
    BY DEF Local
  <2> HIDE DEF z
  <2>5. Pins(z) \subseteq Pins(x)
    BY <2>4, RangeFacts DEF Pins
  <2>6. QED  BY <2>1, <2>3, <2>4, <2>5, FilteringType
<1>3. QED  BY <1>1, <1>2

\* filter() goes on from what it has established to what the next step needs.
LEMMA FilteringOK ==
  ASSUME NEW x \in Local, NEW c, NEW obj, NEW reg, NEW old,
         RoleOK(x, c, obj, reg, old), FilterOK(x, c, obj, reg, old)
  PROVE  PlanOK(Filtering(x), c, obj, reg, old)
<1> DEFINE y == Filtering(x)
<1>1. x.todo \in Seq(Entry) /\ x.out \in Seq(Entry) /\ x.role \in Role
  BY Zenon, LocalFacts
<1>2. CASE x.todo # << >>
  <2>1. y = [x EXCEPT !.step = "state"]
    BY <1>2 DEF Filtering
  <2>3. y.step = "state" /\ y.role = x.role /\ y.todo = x.todo /\ y.out = x.out /\ y.query = x.query
    BY <2>1 DEF Local
  <2>4. RoleOK(y, c, obj, reg, old) /\ FilterOK(y, c, obj, reg, old)
    BY <2>3 DEF RoleOK, FilterOK, PickOK
  <2>5. QED  BY <2>3, <2>4, <1>2 DEF PlanOK
<1>3. CASE x.todo = << >> /\ x.out # << >>
  <2>1. y = [x EXCEPT !.step = "pick"]
    BY <1>3 DEF Filtering
  <2>3. y.step = "pick" /\ y.role = x.role /\ y.todo = x.todo /\ y.out = x.out /\ y.query = x.query
    BY <2>1 DEF Local
  <2>4. RoleOK(y, c, obj, reg, old) /\ PickOK(y, c, obj, reg, old)
    BY SMTT(30), <2>3 DEF RoleOK, FilterOK, PickOK
  <2>5. QED  BY <2>3, <2>4, <1>3 DEF PlanOK
<1>4. CASE x.todo = << >> /\ x.out = << >> /\ x.role = "REPLICA"
  <2>1. y = [x EXCEPT !.step = "group", !.role = "PRIMARY"]
    BY <1>4 DEF Filtering
  <2>3. y.step = "group" /\ y.role = "PRIMARY" /\ y.todo = x.todo /\ y.out = x.out /\ y.query = x.query
    BY <2>1 DEF Local
  <2>4. \A e \in reg \ old : ~Fit(obj[e], "REPLICA", c)
    BY <1>4, RangeFacts DEF FilterOK
  <2>5. RoleOK(y, c, obj, reg, old)
    BY <2>3, <2>4 DEF RoleOK
  <2>6. QED  BY <2>3, <2>5, <1>4 DEF PlanOK
<1>5. CASE x.todo = << >> /\ x.out = << >> /\ x.role = "PRIMARY"
  <2>1. y = Return(x, NoEntry, "NO_BACKEND_AVAILABLE")
    BY <1>5 DEF Filtering
  <2>3. y.step = "returned" /\ y.role = "PRIMARY" /\ y.error = "NO_BACKEND_AVAILABLE" /\ y.query = x.query
    BY <2>1, <1>5 DEF Local, Return
  <2>4. \A e \in reg \ old : ~Fit(obj[e], "PRIMARY", c)
    BY <1>5, RangeFacts DEF FilterOK
  <2>5. RoleOK(y, c, obj, reg, old) /\ ReturnOK(y, c, obj, reg, old)
    BY <2>3, <2>4, <1>5 DEF RoleOK, ReturnOK
  <2>6. QED  BY <2>3, <2>5 DEF PlanOK
<1>6. QED  BY <1>1, <1>2, <1>3, <1>4, <1>5 DEF Role

\* get_group_by_role() goes on, or hands over to filter() what filter() needs.
LEMMA ScanningOK ==
  ASSUME NEW x \in Local, NEW c, NEW obj, NEW reg, NEW old,
         RoleOK(x, c, obj, reg, old), ScanOK(x, c, obj, reg, old)
  PROVE  PlanOK(Scanning(x), c, obj, reg, old)
<1> DEFINE y == Scanning(x)
<1>1. x.todo \in Seq(Entry) /\ x.out \in Seq(Entry)
  BY Zenon, LocalFacts
<1>2. CASE x.todo # << >>
  <2>1. y = [x EXCEPT !.step = "roles"]
    BY <1>2 DEF Scanning
  <2>3. y.step = "roles" /\ y.role = x.role /\ y.todo = x.todo /\ y.out = x.out /\ y.query = x.query
    BY <2>1 DEF Local
  <2>4. RoleOK(y, c, obj, reg, old) /\ ScanOK(y, c, obj, reg, old)
    BY <2>3 DEF RoleOK, ScanOK
  <2>5. QED  BY <2>3, <2>4, <1>2 DEF PlanOK
<1>3. CASE x.todo = << >>
  <2> DEFINE z == [x EXCEPT !.todo = x.out, !.out = << >>]
  <2>1. y = Filtering(z)
    BY <1>3 DEF Scanning
  <2>2. << >> \in Seq(Entry)
    OBVIOUS
  <2>3. z \in Local
    BY Zenon, <1>1, <2>2, LocalFacts
  <2>4. z.role = x.role /\ z.todo = x.out /\ z.out = << >> /\ z.query = x.query
    BY DEF Local
  <2> HIDE DEF z
  <2>5. RoleOK(z, c, obj, reg, old)
    BY <2>4 DEF RoleOK
  <2>6. FilterOK(z, c, obj, reg, old)
    BY <2>4, <1>3, RangeFacts DEF FilterOK, PickOK, ScanOK, Fit
  <2>7. QED  BY <2>1, <2>3, <2>4, <2>5, <2>6, FilteringOK
<1>4. QED  BY <1>2, <1>3

-----------------------------------------------------------------------------
(* What the loops of plan() do to its local variables.                     *)

\* What Take and Rest do to the vectors.
LEMMA TakeFacts ==
  ASSUME NEW x \in Local, x.todo # << >>
  PROVE  /\ Take(x) \in Local /\ Take(x).query = x.query /\ Take(x).config = x.config /\ Take(x).role = x.role
         /\ Range(x.todo) = {Head(x.todo)} \union Range(Take(x).todo)
         /\ Range(Take(x).out) = Range(x.out) \union {Head(x.todo)}
         /\ Pins(Take(x)) \subseteq Pins(x)
<1>1. x.todo \in Seq(Entry) /\ x.out \in Seq(Entry)
  BY DEF Local
<1>2. Head(x.todo) \in Entry
  BY <1>1, RangeFacts
<1>3. Tail(x.todo) \in Seq(Entry) /\ Append(x.out, Head(x.todo)) \in Seq(Entry)
  BY <1>1, <1>2, TailFacts, AppendFacts
<1>4. Take(x) \in Local
  BY Zenon, <1>3, LocalFacts DEF Take
<1>5. /\ Take(x).query = x.query /\ Take(x).config = x.config /\ Take(x).role = x.role
      /\ Take(x).chosen = x.chosen /\ Take(x).todo = Tail(x.todo) /\ Take(x).out = Append(x.out, Head(x.todo))
  BY DEF Take, Local
<1>6. /\ Range(x.todo) = {Head(x.todo)} \union Range(Take(x).todo)
      /\ Range(Take(x).out) = Range(x.out) \union {Head(x.todo)}
  BY <1>1, <1>2, <1>5, TailFacts, AppendFacts
<1>7. QED  BY <1>4, <1>5, <1>6 DEF Pins

LEMMA RestFacts ==
  ASSUME NEW x \in Local, x.todo # << >>
  PROVE  /\ Rest(x) \in Local /\ Rest(x).query = x.query /\ Rest(x).config = x.config /\ Rest(x).role = x.role
         /\ Rest(x).step = x.step /\ Rest(x).out = x.out /\ Rest(x).todo = Tail(x.todo)
         /\ Range(x.todo) = {Head(x.todo)} \union Range(Rest(x).todo)
         /\ Pins(Rest(x)) \subseteq Pins(x)
<1>1. x.todo \in Seq(Entry)
  BY DEF Local
<1>2. Tail(x.todo) \in Seq(Entry) /\ Range(x.todo) = {Head(x.todo)} \union Range(Tail(x.todo))
  BY <1>1, TailFacts
<1>3. Rest(x) \in Local
  BY Zenon, <1>2, LocalFacts DEF Rest
<1>4. /\ Rest(x).query = x.query /\ Rest(x).config = x.config /\ Rest(x).role = x.role
      /\ Rest(x).step = x.step /\ Rest(x).out = x.out /\ Rest(x).todo = Tail(x.todo) /\ Rest(x).chosen = x.chosen
  BY DEF Rest, Local
<1>5. QED  BY <1>2, <1>3, <1>4 DEF Pins

\* Returning the entry e.
LEMMA ReturnFacts ==
  ASSUME NEW x \in Local, NEW e \in Entry \union {NoEntry}
  PROVE  /\ Return(x, e, "OK") \in Local /\ Shaped(Return(x, e, "OK"))
         /\ Pins(Return(x, e, "OK")) = {e} \ {NoEntry}
         /\ Return(x, e, "OK").query = x.query /\ Return(x, e, "OK").config = x.config
         /\ Return(x, e, "OK").role = x.role /\ Return(x, e, "OK").step = "returned"
         /\ Return(x, e, "OK").chosen = e /\ Return(x, e, "OK").error = "OK"
<1> DEFINE y == Return(x, e, "OK")
<1>1. y \in Local
  BY Zenon, LocalFacts
<1>2. y.query = x.query /\ y.config = x.config /\ y.role = x.role /\ y.step = "returned"
      /\ y.chosen = e /\ y.error = "OK" /\ y.todo = << >> /\ y.out = << >>
  BY DEF Return, Local
<1> HIDE DEF y
<1>3. Shaped(y) /\ Pins(y) = {e} \ {NoEntry}
  BY ZenonT(40), <1>2, RangeFacts DEF Shaped, Pins
<1>4. QED  BY <1>1, <1>2, <1>3 DEF y

\* A candidate is a good answer.
LEMMA ReturnedOK ==
  ASSUME NEW x \in Local, NEW c, NEW obj, NEW reg, NEW old, NEW e \in Range(x.out),
         RoleOK(x, c, obj, reg, old), PickOK(x, c, obj, reg, old)
  PROVE  PlanOK(Return(x, e, "OK"), c, obj, reg, old)
<1> DEFINE y == Return(x, e, "OK")
<1>1. x.out \in Seq(Entry)
  BY DEF Local
<1>2. e \in Entry /\ e # NoEntry
  BY <1>1, RangeFacts, RegistryAssumption
<1>3. y.query = x.query /\ y.role = x.role /\ y.step = "returned" /\ y.chosen = e /\ y.error = "OK"
  BY <1>2, ReturnFacts
<1> HIDE DEF y
<1>4. RoleOK(y, c, obj, reg, old)
  BY <1>3 DEF RoleOK
<1>5. ReturnOK(y, c, obj, reg, old)
  BY <1>2, <1>3 DEF ReturnOK, PickOK
<1>6. QED  BY <1>3, <1>4, <1>5 DEF PlanOK, y

-----------------------------------------------------------------------------
(* How plan() goes on.                                                     *)

\* A plan that has read the objects obj may go on from x with y: it keeps no
\* further object alive, and knows of the others what y has to know.
Follows(x, y, obj) ==
  /\ y \in Local /\ Shaped(y) /\ Pins(y) \subseteq Pins(x) /\ y.step # "idle"
  /\ y.query = x.query /\ y.config = x.config
  /\ \A c, reg, old : PlanOK(x, c, obj, reg, old) => PlanOK(y, c, obj, reg, old)

LEMMA RoleFollows ==
  ASSUME NEW obj, NEW x \in Local, x.step = "roles", x.todo # << >>
  PROVE  Follows(x, Scanning(IF obj[Head(x.todo)].role = x.role THEN Take(x) ELSE Rest(x)), obj)
<1> DEFINE h == Head(x.todo)
           z == IF obj[h].role = x.role THEN Take(x) ELSE Rest(x)
           y == Scanning(z)
<1>1. /\ z \in Local /\ z.query = x.query /\ z.config = x.config /\ z.role = x.role /\ Pins(z) \subseteq Pins(x)
      /\ Range(x.todo) = {h} \union Range(z.todo)
      /\ IF obj[h].role = x.role THEN Range(z.out) = Range(x.out) \union {h} ELSE z.out = x.out
  BY Zenon, TakeFacts, RestFacts
<1> HIDE DEF z, h
<1>2. /\ y \in Local /\ Shaped(y) /\ Pins(y) \subseteq Pins(x)
      /\ y.query = x.query /\ y.config = x.config /\ y.step # "idle"
  BY <1>1, ScanningType
<1>3. ASSUME NEW c, NEW reg, NEW old, PlanOK(x, c, obj, reg, old)
      PROVE  PlanOK(y, c, obj, reg, old)
  <2>1. RoleOK(x, c, obj, reg, old) /\ ScanOK(x, c, obj, reg, old)
    BY <1>3 DEF PlanOK
  <2>2. RoleOK(z, c, obj, reg, old)
    BY <1>1, <2>1 DEF RoleOK
  <2>3. ScanOK(z, c, obj, reg, old)
    <3>1. CASE obj[h].role = x.role
      BY <1>1, <2>1, <3>1 DEF ScanOK
    <3>2. CASE obj[h].role # x.role
      BY <1>1, <2>1, <3>2 DEF ScanOK
    <3>3. QED  BY <3>1, <3>2
  <2>4. QED  BY <1>1, <2>2, <2>3, ScanningOK
<1>4. Follows(x, y, obj)
  <2> HIDE DEF y
  <2>1. QED  BY <1>2, <1>3 DEF Follows
<1>5. QED  BY <1>4 DEF h, z

\* filter() leaves out an entry that will not do.
LEMMA RestFollows ==
  ASSUME NEW obj, NEW x \in Local, x.step \in {"state", "lag"}, x.todo # << >>,
         \A c, reg, old : PlanOK(x, c, obj, reg, old) => ~Fit(obj[Head(x.todo)], x.role, c)
  PROVE  Follows(x, Filtering(Rest(x)), obj)
<1> DEFINE h == Head(x.todo)
           z == Rest(x)
           y == Filtering(z)
<1>1. /\ z \in Local /\ z.query = x.query /\ z.config = x.config /\ z.role = x.role /\ Pins(z) \subseteq Pins(x)
      /\ Range(x.todo) = {h} \union Range(z.todo) /\ z.out = x.out
  BY ZenonT(60), RestFacts
<1> HIDE DEF z
<1>2. /\ y \in Local /\ Shaped(y) /\ Pins(y) \subseteq Pins(x)
      /\ y.query = x.query /\ y.config = x.config /\ y.step # "idle"
  BY <1>1, FilteringType
<1>3. ASSUME NEW c, NEW reg, NEW old, PlanOK(x, c, obj, reg, old)
      PROVE  PlanOK(y, c, obj, reg, old)
  <2>1. RoleOK(x, c, obj, reg, old) /\ FilterOK(x, c, obj, reg, old) /\ ~Fit(obj[h], x.role, c)
    BY ZenonT(40), <1>3 DEF PlanOK
  <2> HIDE DEF h
  <2>2. RoleOK(z, c, obj, reg, old)
    BY ZenonT(40), <1>1, <2>1 DEF RoleOK
  <2>3. FilterOK(z, c, obj, reg, old)
    BY ZenonT(40), <1>1, <2>1 DEF FilterOK, PickOK
  <2>4. QED  BY <1>1, <2>2, <2>3, FilteringOK, ZenonT(60)
<1>4. Follows(x, y, obj)
  <2> HIDE DEF y
  <2>1. QED  BY <1>2, <1>3 DEF Follows
<1>5. QED  BY <1>4 DEF z

\* filter() keeps one that will.
LEMMA TakeFollows ==
  ASSUME NEW obj, NEW x \in Local, x.step \in {"state", "lag"}, x.todo # << >>,
         \A c, reg, old : PlanOK(x, c, obj, reg, old) =>
           Head(x.todo) \in old \/ (Head(x.todo) \in reg /\ Fit(obj[Head(x.todo)], x.role, c))
  PROVE  Follows(x, Filtering(Take(x)), obj)
<1> DEFINE h == Head(x.todo)
           z == Take(x)
           y == Filtering(z)
<1>1. /\ z \in Local /\ z.query = x.query /\ z.config = x.config /\ z.role = x.role /\ Pins(z) \subseteq Pins(x)
      /\ Range(x.todo) = {h} \union Range(z.todo) /\ Range(z.out) = Range(x.out) \union {h}
  BY Zenon, TakeFacts
<1> HIDE DEF z
<1>2. /\ y \in Local /\ Shaped(y) /\ Pins(y) \subseteq Pins(x)
      /\ y.query = x.query /\ y.config = x.config /\ y.step # "idle"
  BY <1>1, FilteringType
<1>3. ASSUME NEW c, NEW reg, NEW old, PlanOK(x, c, obj, reg, old)
      PROVE  PlanOK(y, c, obj, reg, old)
  <2>1. RoleOK(x, c, obj, reg, old) /\ FilterOK(x, c, obj, reg, old)
        /\ (h \in old \/ (h \in reg /\ Fit(obj[h], x.role, c)))
    BY <1>3, ZenonT(60) DEF PlanOK
  <2> HIDE DEF h
  <2>2. RoleOK(z, c, obj, reg, old)
    BY <1>1, <2>1, ZenonT(60) DEF RoleOK
  <2>3. FilterOK(z, c, obj, reg, old)
    BY <1>1, <2>1, ZenonT(60) DEF FilterOK, PickOK
  <2>4. QED  BY <1>1, <2>2, <2>3, FilteringOK, ZenonT(60)
<1>4. Follows(x, y, obj)
  <2> HIDE DEF y
  <2>1. QED  BY <1>2, <1>3 DEF Follows
<1>5. QED  BY <1>4 DEF z

\* usable_for_role() decides, unless the lag has to be read first.
LEMMA StateFollows ==
  ASSUME NEW obj, NEW x \in Local, x.step = "state", x.todo # << >>
  PROVE  Follows(x, IF ~usable_for_role(obj[Head(x.todo)].state, x.role) THEN Filtering(Rest(x))
                    ELSE IF x.role = "REPLICA" /\ replication_aware THEN [x EXCEPT !.step = "lag"]
                    ELSE Filtering(Take(x)), obj)
<1> DEFINE h == Head(x.todo)
<1>1. CASE ~usable_for_role(obj[h].state, x.role)
  <2>1. \A c : ~Fit(obj[h], x.role, c)
    BY ZenonT(40), <1>1 DEF Fit, usable_for_role
  <2>2. Follows(x, Filtering(Rest(x)), obj)
    BY <2>1, RestFollows
  <2>3. QED  BY <1>1, <2>2
<1>2. CASE usable_for_role(obj[h].state, x.role) /\ x.role = "REPLICA" /\ replication_aware
  <2> DEFINE y == [x EXCEPT !.step = "lag"]
  <2>1. y \in Local
    BY Zenon, LocalFacts
  <2>2. y.query = x.query /\ y.config = x.config /\ y.role = x.role /\ y.step = "lag"
        /\ y.todo = x.todo /\ y.out = x.out /\ y.chosen = x.chosen
    BY DEF Local
  <2>3. obj[h].state = "HEALTHY"
    BY <1>2 DEF usable_for_role
  <2> HIDE DEF y
  <2>4. Shaped(y) /\ Pins(y) = Pins(x)
    BY ZenonT(40), <2>2 DEF Shaped, Pins
  <2>5. ASSUME NEW c, NEW reg, NEW old, PlanOK(x, c, obj, reg, old)
        PROVE  PlanOK(y, c, obj, reg, old)
    <3>1. RoleOK(x, c, obj, reg, old) /\ FilterOK(x, c, obj, reg, old)
      BY <2>5 DEF PlanOK
    <3>2. RoleOK(y, c, obj, reg, old) /\ FilterOK(y, c, obj, reg, old)
      BY ZenonT(40), <2>2, <3>1 DEF RoleOK, FilterOK, PickOK
    <3>3. QED  BY <1>2, <2>2, <2>3, <3>2 DEF PlanOK
  <2>6. Follows(x, y, obj)
    BY <2>1, <2>2, <2>4, <2>5 DEF Follows
  <2>7. QED  BY <1>2, <2>6 DEF y
<1>3. CASE usable_for_role(obj[h].state, x.role) /\ ~(x.role = "REPLICA" /\ replication_aware)
  <2>1. ASSUME NEW c, NEW reg, NEW old, PlanOK(x, c, obj, reg, old)
        PROVE  h \in old \/ (h \in reg /\ Fit(obj[h], x.role, c))
    <3>1. FilterOK(x, c, obj, reg, old) /\ h \in Range(x.todo)
      BY ZenonT(40), <2>1, RangeFacts DEF PlanOK, Local
    <3> HIDE DEF h
    <3>2. QED  BY ZenonT(40), <1>3, <3>1 DEF Fit, usable_for_role, FilterOK
  <2>2. Follows(x, Filtering(Take(x)), obj)
    BY <2>1, TakeFollows
  <2>3. QED  BY <1>3, <2>2
<1>4. QED  BY <1>1, <1>2, <1>3

LEMMA LagFollows ==
  ASSUME NEW obj, NEW x \in Local, x.step = "lag", x.todo # << >>
  PROVE  Follows(x, Filtering(IF obj[Head(x.todo)].late THEN Rest(x) ELSE Take(x)), obj)
<1> DEFINE h == Head(x.todo)
<1>1. h \in Range(x.todo)
  BY ZenonT(40), RangeFacts DEF Local
<1>2. ASSUME NEW c, NEW reg, NEW old, PlanOK(x, c, obj, reg, old)
      PROVE  /\ FilterOK(x, c, obj, reg, old) /\ x.role = "REPLICA" /\ replication_aware
             /\ h \in old \/ obj[h].state = "HEALTHY"
  BY <1>2 DEF PlanOK
<1>3. CASE obj[h].late
  <2>1. ASSUME NEW c, NEW reg, NEW old, PlanOK(x, c, obj, reg, old) PROVE ~Fit(obj[h], x.role, c)
    BY ZenonT(40), <1>2, <1>3, <2>1 DEF Fit
  <2>2. Follows(x, Filtering(Rest(x)), obj)
    BY <2>1, RestFollows
  <2>3. QED  BY ZenonT(40), <1>3, <2>2
<1>4. CASE ~obj[h].late
  <2>1. ASSUME NEW c, NEW reg, NEW old, PlanOK(x, c, obj, reg, old)
        PROVE  h \in old \/ (h \in reg /\ Fit(obj[h], x.role, c))
    <3>1. /\ FilterOK(x, c, obj, reg, old) /\ x.role = "REPLICA" /\ replication_aware
          /\ h \in old \/ obj[h].state = "HEALTHY"
      BY ZenonT(40), <1>2, <2>1
    <3> HIDE DEF h
    <3>2. QED  BY <1>1, <1>4, <3>1 DEF Fit, FilterOK
  <2>2. Follows(x, Filtering(Take(x)), obj)
    BY <2>1, TakeFollows
  <2>3. QED  BY ZenonT(40), <1>4, <2>2
<1>5. QED  BY <1>3, <1>4

\* A policy returns one of the candidates.
LEMMA PickFollows ==
  ASSUME NEW obj, NEW x \in Local, x.step \in {"pick", "failover"}, NEW e \in Range(x.out)
  PROVE  Follows(x, Return(x, e, "OK"), obj)
<1> DEFINE y == Return(x, e, "OK")
<1>1. e \in Entry
  BY RangeFacts DEF Local
<1>2. y \in Local /\ Shaped(y) /\ y.query = x.query /\ y.config = x.config /\ y.step = "returned" /\ Pins(y) = {e} \ {NoEntry}
  BY <1>1, ReturnFacts
<1>3. ASSUME NEW c, NEW reg, NEW old, PlanOK(x, c, obj, reg, old) PROVE PlanOK(y, c, obj, reg, old)
  <2>1. RoleOK(x, c, obj, reg, old) /\ PickOK(x, c, obj, reg, old)
    BY <1>3 DEF PlanOK
  <2>2. QED  BY ZenonT(40), <2>1, ReturnedOK
<1> HIDE DEF y
<1>4. Pins(y) \subseteq Pins(x)
  BY <1>2 DEF Pins
<1>5. Follows(x, y, obj)
  BY <1>2, <1>3, <1>4 DEF Follows
<1>6. QED  BY <1>5 DEF y

LEMMA FailoverFollows ==
  ASSUME NEW obj, NEW x \in Local, x.step = "pick", x.out # << >>
  PROVE  Follows(x, [x EXCEPT !.step = "failover", !.todo = x.out], obj)
<1> DEFINE y == [x EXCEPT !.step = "failover", !.todo = x.out]
<1>1. y \in Local /\ y.query = x.query /\ y.config = x.config /\ y.role = x.role /\ y.step = "failover"
      /\ y.todo = x.out /\ y.out = x.out /\ y.chosen = x.chosen
  BY Zenon DEF Local
<1> HIDE DEF y
<1>2. Shaped(y) /\ Pins(y) \subseteq Pins(x)
  BY ZenonT(40), <1>1 DEF Shaped, Pins
<1>3. ASSUME NEW c, NEW reg, NEW old, PlanOK(x, c, obj, reg, old) PROVE PlanOK(y, c, obj, reg, old)
  <2>1. RoleOK(x, c, obj, reg, old) /\ PickOK(x, c, obj, reg, old)
    BY ZenonT(40), <1>3 DEF PlanOK
  <2>2. RoleOK(y, c, obj, reg, old) /\ PickOK(y, c, obj, reg, old)
    BY ZenonT(40), <1>1, <2>1 DEF RoleOK, PickOK
  <2>3. QED  BY ZenonT(40), <1>1, <2>2 DEF PlanOK
<1>4. Follows(x, y, obj)
  BY <1>1, <1>2, <1>3 DEF Follows
<1>5. QED  BY <1>4 DEF y

\* FailoverPolicy passes over a candidate, and one more is left.
LEMMA NextFollows ==
  ASSUME NEW obj, NEW x \in Local, x.step = "failover", x.todo # << >>, x.out # << >>, Len(x.todo) # 1
  PROVE  Follows(x, Rest(x), obj)
<1> DEFINE y == Rest(x)
<1>1. /\ y \in Local /\ y.query = x.query /\ y.config = x.config /\ y.role = x.role /\ y.step = x.step
      /\ y.out = x.out /\ y.todo = Tail(x.todo) /\ Range(x.todo) = {Head(x.todo)} \union Range(y.todo)
      /\ Pins(y) \subseteq Pins(x)
  BY Zenon, RestFacts
<1> HIDE DEF y
<1>2. x.todo \in Seq(Entry)
  BY DEF Local
<1>3. Tail(x.todo) # << >>
  BY <1>2, TailFacts
<1>4. Shaped(y)
  BY <1>1, <1>3, ZenonT(60) DEF Shaped
<1>5. ASSUME NEW c, NEW reg, NEW old, PlanOK(x, c, obj, reg, old) PROVE PlanOK(y, c, obj, reg, old)
  <2>1. RoleOK(x, c, obj, reg, old) /\ PickOK(x, c, obj, reg, old) /\ Range(x.todo) \subseteq Range(x.out)
    BY <1>5 DEF PlanOK
  <2>2. RoleOK(y, c, obj, reg, old) /\ PickOK(y, c, obj, reg, old)
    BY ZenonT(40), <1>1, <2>1 DEF RoleOK, PickOK
  <2>3. QED  BY <1>1, <2>1, <2>2, ZenonT(60) DEF PlanOK
<1>6. Follows(x, y, obj)
  BY ZenonT(40), <1>1, <1>4, <1>5 DEF Follows
<1>7. QED  BY <1>6 DEF y

\* FailoverPolicy returns a candidate that is up, or the first of all, or goes on.
LEMMA AgainFollows ==
  ASSUME NEW obj, NEW x \in Local, x.step = "failover", x.todo # << >>, x.out # << >>
  PROVE  Follows(x, IF obj[Head(x.todo)].state \notin {"FAILED", "DRAINING"} THEN Return(x, Head(x.todo), "OK")
                    ELSE IF Len(x.todo) = 1 THEN Return(x, Head(x.out), "OK")
                    ELSE Rest(x), obj)
<1> DEFINE h == Head(x.todo)
<1>1. x.todo \in Seq(Entry) /\ x.out \in Seq(Entry)
  BY DEF Local
<1>2. h \in Range(x.todo) /\ h \in Entry /\ Head(x.out) \in Range(x.out)
  BY <1>1, RangeFacts
<1>3. Follows(x, Return(x, h, "OK"), obj)
  <2> DEFINE y == Return(x, h, "OK")
  <2>1. y \in Local /\ Shaped(y) /\ y.query = x.query /\ y.config = x.config /\ y.step = "returned" /\ Pins(y) = {h} \ {NoEntry}
    BY SMTT(30), <1>2, ReturnFacts
  <2>2. ASSUME NEW c, NEW reg, NEW old, PlanOK(x, c, obj, reg, old) PROVE PlanOK(y, c, obj, reg, old)
    <3>1. RoleOK(x, c, obj, reg, old) /\ PickOK(x, c, obj, reg, old) /\ h \in Range(x.out)
      BY <1>2, <2>2 DEF PlanOK
    <3>2. QED  BY ZenonT(40), <3>1, ReturnedOK
  <2> HIDE DEF y
  <2>3. Pins(y) \subseteq Pins(x)
    BY Zenon, <1>2, <2>1 DEF Pins
  <2>4. Follows(x, y, obj)
    BY <2>1, <2>2, <2>3 DEF Follows
  <2>5. QED  BY ZenonT(40), <2>4 DEF y
<1>4. Follows(x, Return(x, Head(x.out), "OK"), obj)
  BY <1>2, PickFollows
<1>5. Len(x.todo) # 1 => Follows(x, Rest(x), obj)
  BY NextFollows
<1>6. QED  BY <1>3, <1>4, <1>5

-----------------------------------------------------------------------------
(* The objects that are alive.                                             *)

LEMMA AliveFacts ==
  ASSUME current \in [Group -> Seq(Entry)], held \in [Writer -> Entry \union {NoEntry}],
         pinning \in [Planner -> SUBSET Entry]
  PROVE  /\ Registered \subseteq Alive /\ Alive \subseteq Entry
         /\ \A w \in Writer : held[w] # NoEntry => held[w] \in Alive
         /\ \A p \in Planner : pinning[p] \subseteq Alive
         /\ \A g \in Group : Range(current[g]) \subseteq Registered
<1>1. Registered \subseteq Entry
  BY RangeFacts DEF Registered
<1>2. Range(held) \ {NoEntry} \subseteq Entry /\ UNION Range(pinning) \subseteq Entry
  BY DEF Range
<1>3. \A w \in Writer : held[w] \in Range(held)
  BY DEF Range
<1>4. \A p \in Planner : pinning[p] \in Range(pinning)
  BY DEF Range
<1>5. \A g \in Group : Range(current[g]) \subseteq Registered
  BY DEF Registered
<1>6. QED  BY <1>1, <1>2, <1>3, <1>4, <1>5 DEF Alive

-----------------------------------------------------------------------------
(* The initial state has the invariant, and what the steps of the backend  *)
(* registry do keeps it.                                                   *)

LEMMA InitIInv ==
  ASSUME Init
  PROVE  IInv /\ PlansOK
<1>1. /\ object \in Made(Loaded, Entry) /\ current \in build(DOMAIN object, object)
      /\ at = [w \in Writer |-> "idle"] /\ held = [w \in Writer |-> NoEntry]
      /\ moved = [w \in Writer |-> FALSE] /\ pinning = [p \in Planner |-> {}] /\ touched = << >>
      /\ schemas \in UNION {[S -> SchemaConfig] : S \in SUBSET SchemaName}
      /\ dangling = {} /\ plan = [p \in Planner |-> Idle] /\ counter = [x \in Policy |-> 0]
  BY DEF Init, InitRegistry
<1>2. Loaded \in SUBSET Config /\ \A c, d \in Loaded : c.id = d.id => c = d
  BY RoutingAssumption
<1>3. /\ DOMAIN object \subseteq Entry
      /\ \A e \in DOMAIN object : object[e] \in Object /\ object[e].config \in Loaded
      /\ \A d, e \in DOMAIN object : object[d].config = object[e].config => d = e
  BY Zenon, <1>1, <1>2, MadeFacts
<1>4. \A e \in DOMAIN object : object[e].config \in Config
  BY <1>2, <1>3
<1>5. /\ current \in [Group -> Seq(Entry)] /\ Registered = DOMAIN object
      /\ \A g \in Group : \A e \in Range(current[g]) : object[e].config.group = g
  <2>1. DOMAIN object \in SUBSET Entry
    BY <1>3
  <2>2. /\ current \in [Group -> Seq(Entry)]
        /\ \A e : e \in DOMAIN object <=> \E g \in Group : e \in Range(current[g])
        /\ \A g \in Group : \A e \in Range(current[g]) : object[e].config.group = g
    BY <2>1, <1>1, <1>4, BuildFacts, ZenonT(40)
  <2>3. \A e : e \in Registered <=> \E g \in Group : e \in Range(current[g])
    BY SMT DEF Registered
  <2>4. \A e : e \in Registered <=> e \in DOMAIN object
    BY <2>2, <2>3, Zenon
  <2>5. Registered = DOMAIN object
    BY <2>4, Zenon
  <2>6. QED  BY <2>2, <2>5
<1>6. Range(held) \ {NoEntry} = {} /\ UNION Range(pinning) = {}
  BY <1>1 DEF Range
<1>7. Alive = DOMAIN object
  BY Zenon, <1>5, <1>6 DEF Alive
<1>8. \E new \in Made(Loaded, Entry) : object = new
  BY <1>1
<1>9. object = [e \in DOMAIN object |-> object[e]]
  BY <1>1, Zenon DEF Made
<1>10. object \in [Alive -> Object]
  BY <1>3, <1>7, <1>9
<1>11. \A d, e \in Registered : Id(d) = Id(e) => d = e
  BY <1>2, <1>3, <1>5 DEF Id
<1>12. RegistryInv
  <2>1. at \in [Writer -> {"idle", "swapped", "found", "stored"}] /\ held \in [Writer -> Entry \union {NoEntry}]
        /\ moved \in [Writer -> BOOLEAN] /\ pinning \in [Planner -> SUBSET Entry]
    BY <1>1
  <2>2. \A w \in Writer : at[w] # "found" /\ held[w] = NoEntry
    BY <1>1
  <2>3. QED  BY <1>5, <1>10, <1>11, <2>1, <2>2, ZenonT(60) DEF RegistryInv, UpdateReachesEntry
<1>13. PlannerInv
  <2>1. Idle \in Local /\ Idle.step = "idle" /\ Pins(Idle) = {} /\ Shaped(Idle)
    BY RangeFacts DEF Idle, Local, Pins, Role, Shaped
  <2>2. \A p \in Planner : plan[p] = Idle /\ pinning[p] = {}
    BY <1>1
  <2>3. PICK S \in SUBSET SchemaName : schemas \in [S -> SchemaConfig]
    BY <1>1, Zenon
  <2>4. DOMAIN touched = {}
    BY <1>1
  <2>5. counter \in [Policy -> Nat]
    BY <1>1
  <2>6. plan \in [Planner -> Local]
    BY <1>1, <2>1, ZenonT(60)
  <2>7. QED  BY Zenon, <2>1, <2>2, <2>3, <2>4, <2>5, <2>6 DEF PlannerInv, Holding
<1>14. PlansOK
  BY <1>1 DEF PlansOK, Idle
<1>15. QED  BY <1>12, <1>13, <1>14 DEF IInv

\* A step of another thread as a plan sees it: what it has not touched is as it was.
Steady ==
  /\ DOMAIN touched' = DOMAIN touched
  /\ \A p \in DOMAIN touched :
       /\ touched[p] \subseteq touched'[p]
       /\ \A e \in (Registered \union Registered' \union Pins(plan[p])) \ touched'[p] :
            (e \in Registered <=> e \in Registered') /\ object'[e] = object[e]

LEMMA SwapSteps ==
  ASSUME IInv, NEW w \in Writer, Locking(w), NEW keep \in SUBSET Registered, NEW S \in SUBSET Config,
         \A c, d \in S : c.id = d.id => c = d, \A c \in S : c.id \notin Ids(keep),
         Swap(keep, S), UNCHANGED <<schemas, dangling, plan, counter, turns>>
  PROVE  IInv' /\ Steady
<1>1. PICK new \in Made(S, Free) :
        /\ current' \in build(keep \union DOMAIN new, Over(new, object))
        /\ Becomes(Over(new, object))
        /\ moved' = [v \in Writer |-> moved[v] \/ (held[v] # NoEntry /\ Id(held[v]) \notin Ids(keep))]
        /\ touched' = [p \in DOMAIN touched |-> touched[p] \union DOMAIN new \union (Registered \ keep)]
  BY Zenon DEF Swap
<1> DEFINE f == Over(new, object)
<1>2. RegistryInv /\ PlannerInv
  BY DEF IInv
<1>3. /\ object \in [Alive -> Object] /\ current \in [Group -> Seq(Entry)]
      /\ held \in [Writer -> Entry \union {NoEntry}] /\ pinning \in [Planner -> SUBSET Entry]
      /\ moved \in [Writer -> BOOLEAN] /\ at \in [Writer -> {"idle", "swapped", "found", "stored"}]
      /\ \A d, e \in Registered : Id(d) = Id(e) => d = e
  BY <1>2 DEF RegistryInv
<1>4. /\ Registered \subseteq Alive /\ Alive \subseteq Entry
      /\ \A v \in Writer : held[v] # NoEntry => held[v] \in Alive
      /\ \A p \in Planner : pinning[p] \subseteq Alive
  BY <1>3, AliveFacts
<1>5. /\ DOMAIN new \subseteq Free
      /\ \A e \in DOMAIN new : new[e] \in Object /\ new[e].config \in S
      /\ \A d, e \in DOMAIN new : new[d].config = new[e].config => d = e
  BY Zenon, MadeFacts
<1>6. /\ DOMAIN new \subseteq Entry
      /\ \A e \in Alive : e \notin DOMAIN new /\ f[e] = object[e] /\ f[e] \in Object
      /\ \A e \in DOMAIN new : f[e] = new[e] /\ f[e] \in Object
  BY <1>3, <1>5 DEF Free, Over
<1> HIDE DEF f
<1>7. \A o \in Object : o.config \in Config
  BY DEF Object
<1>8. /\ current' \in [Group -> Seq(Entry)] /\ Registered' = keep \union DOMAIN new
      /\ \A g \in Group : \A e \in Range(current'[g]) : f[e].config.group = g
  <2>1. keep \union DOMAIN new \in SUBSET Entry
    BY <1>4, <1>6
  <2>2. \A e \in keep \union DOMAIN new : f[e].config \in Config
    BY <1>4, <1>6, <1>7, ZenonT(60)
  <2>3. current' \in build(keep \union DOMAIN new, f)
    BY <1>1 DEF f
  <2>4. /\ current' \in [Group -> Seq(Entry)]
        /\ \A e : e \in keep \union DOMAIN new <=> \E g \in Group : e \in Range(current'[g])
        /\ \A g \in Group : \A e \in Range(current'[g]) : f[e].config.group = g
    BY <2>1, <2>2, <2>3, BuildFacts, ZenonT(60)
  <2>5. Registered' = keep \union DOMAIN new
    <3>1. \A e : e \in Registered' <=> \E g \in Group : e \in Range(current'[g])
      BY Zenon DEF Registered
    <3>2. \A e : e \in Registered' <=> e \in keep \union DOMAIN new
      BY <2>4, <3>1, Zenon
    <3>3. QED  BY <3>2, Zenon
  <2>6. QED  BY <2>4, <2>5, Zenon
<1>9. held' = held /\ pinning' = pinning /\ at' = [at EXCEPT ![w] = "swapped"] /\ at[w] = "idle"
  BY DEF Locking
<1>10. Registered' \subseteq Alive' /\ Alive' \subseteq Alive \union DOMAIN new
  BY <1>4, <1>8, <1>9, ZenonT(20) DEF Alive
<1>11. object' = [e \in Alive' |-> f[e]]
  BY <1>1, ZenonT(60) DEF Becomes, f
<1>12. \A e \in Alive' : object'[e] = f[e] /\ object'[e] \in Object
  BY <1>6, <1>10, <1>11, ZenonT(60)
<1>13. object' \in [Alive' -> Object]
  BY <1>11, <1>12, ZenonT(60)
<1>14. \A g \in Group : \A e \in Range(current'[g]) : object'[e].config.group = g
  <2>1. \A g \in Group : Range(current'[g]) \subseteq Registered'
    BY DEF Registered
  <2>2. QED  BY <2>1, <1>8, <1>10, <1>12, ZenonT(60)
<1>15. ASSUME NEW d \in Registered', NEW e \in Registered', Id(d)' = Id(e)' PROVE d = e
  <2>1. f[d].config.id = f[e].config.id
    BY <1>15, <1>10, <1>12, ZenonT(60) DEF Id
  <2>2. \A k \in keep : f[k].config.id \in Ids(keep) /\ f[k].config.id = Id(k)
    BY <1>4, <1>6, ZenonT(60) DEF Id, Ids
  <2>3. \A k \in DOMAIN new : f[k].config \in S
    BY <1>5, <1>6, ZenonT(60)
  <2>4. CASE d \in keep /\ e \in keep
    <3>1. Id(d) = Id(e) /\ d \in Registered /\ e \in Registered
      BY <2>4, <2>1, <2>2, Zenon
    <3>2. QED  BY <3>1, <1>3, Zenon
  <2>5. CASE d \in DOMAIN new /\ e \in DOMAIN new
    BY <2>5, <2>1, <2>3, <1>5, <1>6, SMTT(30)
  <2>6. ~(d \in keep /\ e \in DOMAIN new) /\ ~(d \in DOMAIN new /\ e \in keep)
    BY <2>1, <2>2, <2>3
  <2>7. QED  BY <2>4, <2>5, <2>6, <1>8, ZenonT(60)
<1>16. ASSUME NEW v \in Writer, at'[v] = "found" PROVE held'[v] \in Registered' \/ moved'[v]
  <2>1. v # w /\ at[v] = "found"
    BY <1>3, <1>9, <1>16
  <2>2. held[v] # NoEntry /\ (held[v] \in Registered \/ moved[v])
    BY <2>1, <1>2 DEF RegistryInv, UpdateReachesEntry
  <2>3. moved'[v] = (moved[v] \/ (held[v] # NoEntry /\ Id(held[v]) \notin Ids(keep)))
    BY <1>1, ZenonT(60)
  <2>4. CASE Id(held[v]) \in Ids(keep) /\ held[v] \in Registered
    <3>1. PICK k \in keep : Id(k) = Id(held[v])
      BY <2>4, Zenon DEF Ids
    <3>2. held[v] = k
      BY <3>1, <2>4, <1>3
    <3>3. QED  BY <3>2, <2>2, <1>8, <1>9, ZenonT(60)
  <2>5. QED  BY <2>2, <2>3, <2>4, <1>9, Zenon
<1>17. at' \in [Writer -> {"idle", "swapped", "found", "stored"}]
       /\ \A v \in Writer : at'[v] = "found" <=> held'[v] # NoEntry
  BY <1>2, <1>3, <1>9 DEF RegistryInv
<1>18. moved' \in [Writer -> BOOLEAN]
  BY <1>1, Zenon
<1>19. RegistryInv'
  BY <1>3, <1>8, <1>9, <1>13, <1>14, <1>15, <1>16, <1>17, <1>18, ZenonT(60) DEF RegistryInv, UpdateReachesEntry
<1>20. DOMAIN touched' = DOMAIN touched
  BY <1>1
<1>21. PlannerInv'
  BY <1>2, <1>9, <1>20, ZenonT(60) DEF PlannerInv, Holding
<1>22. Steady
  <2> SUFFICES ASSUME NEW p \in DOMAIN touched
               PROVE  /\ touched[p] \subseteq touched'[p]
                      /\ \A e \in (Registered \union Registered' \union Pins(plan[p])) \ touched'[p] :
                           (e \in Registered <=> e \in Registered') /\ object'[e] = object[e]
    BY <1>20, ZenonT(60) DEF Steady
  <2>1. touched'[p] = touched[p] \union DOMAIN new \union (Registered \ keep)
    BY <1>1, ZenonT(60)
  <2>2. p \in Planner /\ pinning[p] = Pins(plan[p])
    BY <1>2 DEF PlannerInv
  <2>3. Pins(plan[p]) \subseteq Alive /\ Pins(plan[p]) \subseteq Alive'
    <3>1. p \in DOMAIN pinning' /\ pinning'[p] = Pins(plan[p])
      BY <2>2, <1>3, <1>9, ZenonT(60)
    <3>2. pinning'[p] \subseteq UNION Range(pinning')
      BY <3>1 DEF Range
    <3>3. UNION Range(pinning') \subseteq Alive'
      BY Zenon DEF Alive
    <3>4. QED  BY <2>2, <1>4, <3>1, <3>2, <3>3, Zenon
  <2>4. \A e \in Alive : e \in Alive' => object'[e] = object[e]
    BY <1>6, <1>12
  <2>5. touched[p] \subseteq touched'[p]
    BY <2>1, Zenon
  <2>6. ASSUME NEW e \in (Registered \union Registered' \union Pins(plan[p])) \ touched'[p]
        PROVE  (e \in Registered <=> e \in Registered') /\ object'[e] = object[e]
    <3>1. e \notin DOMAIN new /\ (e \in Registered => e \in keep)
      BY <2>1, <2>6, Zenon
    <3>2. e \in Registered <=> e \in Registered'
      BY <3>1, <1>8, Zenon
    <3>3. e \in Alive /\ e \in Alive'
      BY <2>6, <3>2, <2>3, <1>4, <1>10, Zenon
    <3>4. QED  BY <3>2, <3>3, <2>4, Zenon
  <2>7. QED  BY <2>5, <2>6, Zenon
<1>23. QED  BY <1>19, <1>21, <1>22 DEF IInv

LEMMA StoreSteps ==
  ASSUME IInv, NEW w \in Writer, NEW x \in Object, x.config = object[held[w]].config, Store(w, x),
         NEW t \in {"stored", "idle"}, at' = [at EXCEPT ![w] = t],
         UNCHANGED <<schemas, dangling, plan, counter, turns>>
  PROVE  IInv' /\ Steady
<1> DEFINE h == held[w]
<1>1. RegistryInv /\ PlannerInv
  BY DEF IInv
<1>2. /\ object \in [Alive -> Object] /\ current \in [Group -> Seq(Entry)]
      /\ held \in [Writer -> Entry \union {NoEntry}] /\ pinning \in [Planner -> SUBSET Entry]
      /\ moved \in [Writer -> BOOLEAN] /\ at \in [Writer -> {"idle", "swapped", "found", "stored"}]
      /\ \A d, e \in Registered : Id(d) = Id(e) => d = e
      /\ \A g \in Group : \A e \in Range(current[g]) : object[e].config.group = g
      /\ \A v \in Writer : at[v] = "found" <=> held[v] # NoEntry
  BY <1>1 DEF RegistryInv
<1>3. /\ Registered \subseteq Alive
      /\ \A v \in Writer : held[v] # NoEntry => held[v] \in Alive
      /\ \A p \in Planner : pinning[p] \subseteq Alive
      /\ \A g \in Group : Range(current[g]) \subseteq Registered
  BY <1>2, AliveFacts, ZenonT(60)
<1>4. /\ at[w] = "found" /\ held' = [held EXCEPT ![w] = NoEntry] /\ moved' = [moved EXCEPT ![w] = FALSE]
      /\ current' = current /\ pinning' = pinning
      /\ object' = [e \in Alive' |-> [object EXCEPT ![h] = x][e]]
      /\ touched' = [p \in DOMAIN touched |-> touched[p] \union {h}]
  BY ZenonT(60) DEF Store, Becomes
<1>5. h \in Alive
  BY <1>2, <1>3, <1>4, ZenonT(60)
<1>6. Registered' = Registered
  BY <1>4, ZenonT(60) DEF Registered
<1>7. Range(held') \ {NoEntry} \subseteq Range(held) \ {NoEntry}
  BY <1>2, <1>4 DEF Range
<1>8. Registered \subseteq Alive' /\ Alive' \subseteq Alive /\ \A p \in Planner : pinning[p] \subseteq Alive'
  <2>1. \A p \in Planner : pinning[p] \subseteq UNION Range(pinning)
    BY <1>2, ZenonT(60) DEF Range
  <2>2. QED  BY Zenon, <2>1, <1>4, <1>6, <1>7 DEF Alive
<1>9. \A e \in Alive' : /\ object'[e] = IF e = h THEN x ELSE object[e]
                        /\ object'[e] \in Object /\ object'[e].config = object[e].config
  BY <1>2, <1>4, <1>5, <1>8, ZenonT(60)
<1>10. object' \in [Alive' -> Object]
  BY <1>4, <1>9, ZenonT(60)
<1>11. \A g \in Group : \A e \in Range(current'[g]) : object'[e].config.group = g
  <2> SUFFICES ASSUME NEW g \in Group, NEW e \in Range(current[g]) PROVE object'[e].config.group = g
    BY <1>4, Zenon
  <2>1. e \in Alive' /\ object[e].config.group = g
    BY <1>2, <1>3, <1>8, Zenon
  <2>2. object'[e].config = object[e].config
    BY <2>1, <1>9, Zenon
  <2>3. QED  BY <2>1, <2>2, Zenon
<1>12. \A e \in Registered : Id(e)' = Id(e)
  BY <1>8, <1>9 DEF Id
<1>13. \A d, e \in Registered' : Id(d)' = Id(e)' => d = e
  <2> SUFFICES ASSUME NEW d \in Registered', NEW e \in Registered', Id(d)' = Id(e)' PROVE d = e
    BY Zenon
  <2>1. d \in Registered /\ e \in Registered
    BY <1>6, Zenon
  <2>2. Id(d) = Id(e)
    BY <2>1, <1>12, Zenon
  <2>3. QED  BY <2>1, <2>2, <1>2, Zenon
<1>14. at' \in [Writer -> {"idle", "swapped", "found", "stored"}] /\ held' \in [Writer -> Entry \union {NoEntry}]
       /\ moved' \in [Writer -> BOOLEAN]
  BY <1>2, <1>4, ZenonT(60)
<1>15. \A v \in Writer : at'[v] = "found" <=> held'[v] # NoEntry
  BY <1>2, <1>4, ZenonT(60)
<1>16. \A v \in Writer : at'[v] = "found" => held'[v] \in Registered' \/ moved'[v]
  <2> SUFFICES ASSUME NEW v \in Writer, at'[v] = "found" PROVE held'[v] \in Registered' \/ moved'[v]
    OBVIOUS
  <2>1. v # w
    BY <1>2
  <2>2. at[v] = "found" /\ held'[v] = held[v] /\ moved'[v] = moved[v]
    BY <2>1, <1>2, <1>4, Zenon
  <2>3. QED  BY <2>2, <1>1, <1>6, ZenonT(60) DEF RegistryInv, UpdateReachesEntry
<1>17. RegistryInv'
  BY <1>2, <1>4, <1>10, <1>11, <1>13, <1>14, <1>15, <1>16, ZenonT(60) DEF RegistryInv, UpdateReachesEntry
<1>18. DOMAIN touched' = DOMAIN touched
  BY <1>4
<1>19. PlannerInv'
  BY <1>1, <1>4, <1>18, ZenonT(60) DEF PlannerInv, Holding
<1>20. Steady
  <2> SUFFICES ASSUME NEW p \in DOMAIN touched
               PROVE  /\ touched[p] \subseteq touched'[p]
                      /\ \A e \in (Registered \union Registered' \union Pins(plan[p])) \ touched'[p] :
                           (e \in Registered <=> e \in Registered') /\ object'[e] = object[e]
    BY <1>18, ZenonT(60) DEF Steady
  <2>1. touched'[p] = touched[p] \union {h}
    BY <1>4
  <2>2. p \in Planner /\ pinning[p] = Pins(plan[p])
    BY <1>1 DEF PlannerInv
  <2>3. QED  BY <2>1, <2>2, <1>6, <1>8, <1>9, ZenonT(20)
<1>21. QED  BY <1>17, <1>19, <1>20 DEF IInv

LEMMA GetSteps ==
  ASSUME IInv, NEW w \in Writer, get(w), UNCHANGED <<schemas, dangling, plan, counter, turns>>
  PROVE  IInv' /\ Steady
<1>1. RegistryInv /\ PlannerInv
  BY DEF IInv
<1>2. /\ held \in [Writer -> Entry \union {NoEntry}] /\ current \in [Group -> Seq(Entry)]
      /\ pinning \in [Planner -> SUBSET Entry] /\ at \in [Writer -> {"idle", "swapped", "found", "stored"}]
      /\ \A v \in Writer : at[v] = "found" <=> held[v] # NoEntry
  BY <1>1 DEF RegistryInv
<1>3. PICK e \in Registered : held' = [held EXCEPT ![w] = e]
  BY Zenon DEF get
<1>4. /\ at[w] = "idle" /\ at' = [at EXCEPT ![w] = "found"]
      /\ UNCHANGED <<object, current, moved, pinning, touched>>
  BY DEF get
<1>5. Registered' = Registered /\ e \in Entry /\ e # NoEntry
  BY <1>2, <1>4, AliveFacts, RegistryAssumption DEF Registered
<1>6. held[w] = NoEntry
  BY ZenonT(40), <1>2, <1>4
<1>7. Range(held') \ {NoEntry} = (Range(held) \ {NoEntry}) \union {e}
  <2>1. \A v \in Writer : held'[v] = IF v = w THEN e ELSE held[v]
    BY <1>2, <1>3
  <2>2. DOMAIN held = Writer /\ DOMAIN held' = Writer
    BY <1>2, <1>3
  <2>3. QED  BY <2>1, <2>2, <1>5, <1>6 DEF Range
<1>8. Alive' = Alive
  BY <1>4, <1>5, <1>7 DEF Alive
<1>9. held' \in [Writer -> Entry \union {NoEntry}] /\ at' \in [Writer -> {"idle", "swapped", "found", "stored"}]
  BY ZenonT(40), <1>2, <1>3, <1>4, <1>5
<1>10. \A v \in Writer : at'[v] = "found" <=> held'[v] # NoEntry
  BY ZenonT(40), <1>2, <1>3, <1>4, <1>5
<1>11. \A v \in Writer : at'[v] = "found" => held'[v] \in Registered' \/ moved'[v]
  BY <1>1, <1>2, <1>3, <1>4, <1>5 DEF RegistryInv, UpdateReachesEntry
<1>12. \A d : Id(d)' = Id(d)
  BY <1>4 DEF Id
<1>13. RegistryInv'
  BY <1>1, <1>4, <1>5, <1>8, <1>9, <1>10, <1>11, <1>12, Zenon DEF RegistryInv, UpdateReachesEntry
<1>14. PlannerInv' /\ Steady
  BY <1>1, <1>4, <1>5 DEF PlannerInv, Holding, Steady
<1>15. QED  BY <1>13, <1>14 DEF IInv

LEMMA AnnounceSteps ==
  ASSUME IInv, NEW w \in Writer, Announce(w), UNCHANGED <<schemas, dangling, plan, counter, turns>>
  PROVE  IInv' /\ Steady
<1>1. RegistryInv /\ PlannerInv
  BY DEF IInv
<1>2. /\ at[w] \in {"swapped", "stored"} /\ at' = [at EXCEPT ![w] = "idle"]
      /\ UNCHANGED <<object, current, held, moved, pinning, touched>>
  BY DEF Announce
<1>3. Registered' = Registered /\ Alive' = Alive /\ \A d : Id(d)' = Id(d)
  BY <1>2 DEF Registered, Alive, Id
<1>4. at \in [Writer -> {"idle", "swapped", "found", "stored"}]
  BY <1>1 DEF RegistryInv
<1>5. at' \in [Writer -> {"idle", "swapped", "found", "stored"}] /\ \A v \in Writer : at'[v] = "found" <=> at[v] = "found"
  BY <1>2, <1>4
<1>6. RegistryInv'
  BY <1>1, <1>2, <1>3, <1>5, Zenon DEF RegistryInv, UpdateReachesEntry
<1>7. PlannerInv' /\ Steady
  BY <1>1, <1>2, <1>3 DEF PlannerInv, Holding, Steady
<1>8. QED  BY <1>6, <1>7 DEF IInv

=============================================================================
