-------------------------- MODULE BackendRegistry --------------------------
(***************************************************************************)
(* The backend registry: routing/src/backend_registry.cpp and              *)
(* backend_entry.h.                                                        *)
(*                                                                         *)
(* A snapshot is immutable: a writer copies it under the write lock,       *)
(* changes the copy and swaps the pointer.  The entries it points to are   *)
(* shared, and update_state(), update_role() and update_lag() change them  *)
(* in place without the lock.  A step is what one atomic access makes      *)
(* visible: the swap and the version increment are two, and so are finding *)
(* an entry and storing into it.                                           *)
(*                                                                         *)
(* A snapshot is modelled by its by_group, which lists each group in the   *)
(* iteration order of the unordered map by_id: unspecified.  The           *)
(* replication lag is abstracted to whether it exceeds max_replica_lag_ms. *)
(***************************************************************************)
EXTENDS Integers, FiniteSets, Sequences, Functions

CONSTANTS
  Config,     \* backend configurations: id, group, role, weight
  Entry,      \* addresses of BackendEntry objects
  NoEntry,
  Reported,   \* the states that health checks report
  Admin,      \* threads that load, add or remove backends
  Monitor,    \* health and failover threads, which update entries
  Planner,    \* threads that plan routes
  MaxChanges  \* bound on the changes made

Writer == Admin \union Monitor
Group == {c.group : c \in Config}
Role == {"PRIMARY", "REPLICA"}
State == {"HEALTHY", "DEGRADED", "FAILED", "RECOVERING", "DRAINING"}

ASSUME RegistryAssumption ==
  /\ \A c \in Config : {"id", "group", "role", "weight"} \subseteq DOMAIN c /\ c.role \in Role
  /\ NoEntry \notin Entry
  /\ Reported \subseteq State
  /\ MaxChanges \in Nat

VARIABLES
  object,   \* the BackendEntry objects that exist
  current,  \* by_group of the current snapshot
  version,
  at, held, \* where each writer is in its call, and the entry it has found
  moved,    \* whether that entry's backend was added, removed or loaded since
  changes,  \* number of changes that readers can see
  pinning,  \* entries the planners' snapshots keep alive
  touched   \* entries changed or swapped since each plan() under way started

registry == <<object, current, version, at, held, moved, changes>>

Id(e) == object[e].config.id
Ids(S) == {Id(e) : e \in S}

\* The function g, but f where f is defined.
Over(f, g) == [x \in DOMAIN f \union DOMAIN g |-> IF x \in DOMAIN f THEN f[x] ELSE g[x]]

\* The entries of the current snapshot; the entries that a shared_ptr keeps
\* alive, and what a step leaves of them.
Registered == UNION {Range(current[g]) : g \in Group}
Alive == Registered \union (Range(held) \ {NoEntry}) \union UNION Range(pinning)
Free == Entry \ Alive
Becomes(f) == object' = [e \in Alive' |-> f[e]]

RegistryTypeOK ==
  /\ DOMAIN object = Alive
  /\ Range(object) \subseteq [config : Config, role : Role, state : State, late : BOOLEAN]
  /\ current \in [Group -> Seq(Entry)]
  /\ \A g \in Group : \A e \in Range(current[g]) : object[e].config.group = g
  /\ \A d, e \in Registered : Id(d) = Id(e) => d = e
  /\ version \in 0..MaxChanges
  /\ at \in [Writer -> {"idle", "swapped", "found", "stored"}]
  /\ held \in [Writer -> Entry \union {NoEntry}]
  /\ moved \in [Writer -> BOOLEAN]
  /\ changes \in 0..MaxChanges
  /\ pinning \in [Planner -> SUBSET Entry]
  /\ DOMAIN touched \subseteq Planner /\ UNION Range(touched) \subseteq Entry

BackendEntry(c) == [config |-> c, role |-> c.role, state |-> "HEALTHY", late |-> FALSE]

\* New objects for the configurations S, at addresses that are free.
Made(S, free) ==
  {[e \in Range(place) |-> BackendEntry(AntiFunction(place)[e])] : place \in Injection(S, free)}

\* The lists that hold each entry of S once; build(): the snapshots of the
\* entries S of the objects f.
Lists(S) == UNION {Bijection(1..n, S) : n \in 0..Cardinality(S)}
build(S, f) ==
  {by_group \in [Group -> UNION {Lists(T) : T \in SUBSET S}] :
     \A g \in Group : by_group[g] \in Lists({e \in S : f[e].config.group = g})}

\* The registry once load() has run on the configuration S.
InitRegistry(S) ==
  /\ object \in Made(S, Entry)
  /\ current \in build(DOMAIN object, object)
  /\ version = 1
  /\ at = [w \in Writer |-> "idle"]
  /\ held = [w \in Writer |-> NoEntry]
  /\ moved = [w \in Writer |-> FALSE]
  /\ changes = 1
  /\ pinning = [p \in Planner |-> {}]
  /\ touched = << >>

-----------------------------------------------------------------------------
(* load(), add(), remove(): swap the snapshot under the write lock.        *)

Locked == \E w \in Writer : at[w] = "swapped"

Locking(w) ==
  /\ at[w] = "idle" /\ ~Locked /\ changes < MaxChanges
  /\ at' = [at EXCEPT ![w] = "swapped"]
  /\ changes' = changes + 1
  /\ UNCHANGED <<version, held, pinning>>

\* The configurations a validated file can hold: ids are unique.
Configs == {S \in SUBSET Config : \A c, d \in S : c.id = d.id => c = d}

\* Mutant: the copy holds copies of the entries it keeps instead of sharing them.
SwapDeep(keep, S) ==
  \E new \in Made(S \union {object[e].config : e \in keep}, Free) :
    /\ current' \in build(DOMAIN new, new)
    /\ Becomes(Over(new, object))
    /\ moved' = [w \in Writer |-> moved[w] \/ (held[w] # NoEntry /\ Id(held[w]) \notin Ids(keep))]
    /\ touched' = [p \in DOMAIN touched |-> Entry]

\* build() and the swap: the entries keep are shared with the new snapshot, the
\* configurations S get entries of their own.
Swap(keep, S) ==
  \E new \in Made(S, Free) :
    /\ current' \in build(keep \union DOMAIN new, Over(new, object))
    /\ Becomes(Over(new, object))
    /\ moved' = [w \in Writer |-> moved[w] \/ (held[w] # NoEntry /\ Id(held[w]) \notin Ids(keep))]
    /\ touched' = [p \in DOMAIN touched |-> touched[p] \union DOMAIN new \union (Registered \ keep)]

load(w) == Locking(w) /\ \E S \in Configs : Swap({}, S)

add(w) == Locking(w) /\ \E c \in Config : Swap({e \in Registered : Id(e) # c.id}, {c})

remove(w) == Locking(w) /\ \E e \in Registered : Swap(Registered \ {e}, {})

-----------------------------------------------------------------------------
(* update_state(), update_role(), update_lag(): get() the entry, then      *)
(* store into it; a call for an unknown id does nothing.                   *)

get(w) ==
  /\ at[w] = "idle" /\ changes < MaxChanges
  /\ \E e \in Registered : held' = [held EXCEPT ![w] = e]
  /\ at' = [at EXCEPT ![w] = "found"]
  /\ UNCHANGED <<object, current, version, moved, changes, pinning, touched>>

Store(w, x) ==
  /\ at[w] = "found"
  /\ held' = [held EXCEPT ![w] = NoEntry]
  /\ moved' = [moved EXCEPT ![w] = FALSE]
  /\ UNCHANGED <<current, version, pinning>>
  /\ Becomes([object EXCEPT ![held[w]] = x])
  /\ touched' = [p \in DOMAIN touched |-> touched[p] \union {held[w]}]

Counted(w) ==
  /\ changes < MaxChanges
  /\ changes' = changes + 1
  /\ at' = [at EXCEPT ![w] = "stored"]

update_state(w) == Counted(w) /\ \E s \in Reported : Store(w, [object[held[w]] EXCEPT !.state = s])

update_role(w) == Counted(w) /\ \E r \in Role : Store(w, [object[held[w]] EXCEPT !.role = r])

update_lag(w) ==
  /\ \E l \in BOOLEAN : Store(w, [object[held[w]] EXCEPT !.late = l])
  /\ at' = [at EXCEPT ![w] = "idle"]
  /\ UNCHANGED changes

\* version_.fetch_add(1), the last step of every operation but update_lag().
Announce(w) ==
  /\ at[w] \in {"swapped", "stored"}
  /\ version' = version + 1
  /\ at' = [at EXCEPT ![w] = "idle"]
  /\ UNCHANGED <<object, current, held, moved, changes, pinning, touched>>

RegistryStep ==
  \/ \E w \in Admin : load(w) \/ add(w) \/ remove(w)
  \/ \E w \in Monitor : get(w) \/ update_state(w) \/ update_role(w) \/ update_lag(w)
  \/ \E w \in Writer : Announce(w)

-----------------------------------------------------------------------------
(* What the registry promises.                                             *)

\* "In-place atomic updates are visible to all snapshot holders": an update
\* that has found its entry stores into the entry of the current snapshot,
\* unless that backend itself was added again, removed or loaded meanwhile.
\* Adding or removing another backend never makes it lost.
UpdateReachesEntry ==
  \A w \in Writer : at[w] = "found" => held[w] \in Registered \/ moved[w]

=============================================================================
