# DBMesh in TLA+

DBMesh is a database proxy: MySQL clients connect to it, it plans a backend for
each query and forwards the query over a pooled backend connection. This directory
models the parts of it whose correctness depends on the order of events or on how
bytes and texts are read, and checks small instances with TLC. The safety properties of
every part but the scanners of query texts are proved with TLAPS for instances of any
size.

## The system

| Part | State | Operations | Talks to |
|---|---|---|---|
| Connection pool (`pool/src/connection_pool.cpp`) | `all_`, `free_list_`, `active_`, `waiters_`, `shutting_down_`, metrics | acquire, release, warm, drain, idle reaper | sessions, connector |
| Client session (`protocol/mysql/src/mysql_connection.cpp`) | coroutine position, `seq_`, session variables | login, command loop, route and forward, proxy the result | client, routing engine, pool, framer |
| Frontend (`mysql_frontend.cpp`) | acceptor, `active_conns_` | start, accept, reject, stop | sessions |
| Packet framer (`packet_framer.cpp`) | offset, sequence number | read and write a packet | sockets |
| Backend connector, handshake | one handshake | connect, encode, decode | pool (as its factory) |
| Pool manager (`pool_manager.cpp`) | map of pools | create, get, warm all, shut down | application, sessions |
| Application (`core/src/application.cpp`) | run state, subsystems | run, signals, reload, stop | everything |
| Registries (`routing/src/*_registry.cpp`) | copy-on-write snapshots, atomics in entries | load, add, remove, update | routing engine |
| Routing engine, selector, policies, classifier, extractor | round-robin counters | plan | registries, sessions |
| Logger (`core/src/logger.cpp`) | queue, writer thread, rotating file | push, run, stop, rotate | everything |
| Configuration (`core/src/config.cpp`) | none | load, validate, reload | application |

The session manager, failover engine, health monitor, cluster manager, storage,
security, metrics, management API and PostgreSQL protocol that the repository's
documentation names have no implementation yet.

What is hard here: a pool coroutine tests a limit or a flag, suspends, and acts on
what it saw; a waiter's timer races the release that serves it and the drain that
fails it; a session must give its connection back on every path, and clean; a
client or a backend may vanish between any two packets; a plan puts together loads of
atomics that other threads change; the log is rotated by a thread that may be killed;
shutdown destroys what suspended coroutines still refer to; a scanner must keep track
of literals and comments.

## Modules

**ConnectionPool** is the pool. Everything in it runs on one strand, so an action is
the stretch of a coroutine between two `co_await`s. `pc[k]` is where client `k`'s
call is: `connecting` (in the factory), `waiting` (timer armed), `woken` (the timer's
handler is queued, after expiry or cancellation), `holding`, `releasing` or
`discarding` (a `release` on its way to the strand), or the result of the last call.
`conn[k]` is `Waiter::result`, then what `acquire` returned. `Conn` is a set of
addresses: a freed one may be used again. `last_used` is abstracted to the order of
the free list, and `total_acquired_` is left out.

**ConnectionLease** is what the pool promises: a connection is idle or lent to one
client and comes back from its borrower. It has no queue, timer or limit. The pool
implements it up to `drain()`, under the mapping that ends ConnectionPool.

**QuerySession** puts the sessions on top of ConnectionLease, so what it shows holds
for every pool that implements it. `at[k]` is the session's position; `returning[k]`
is a `release` the strand has not run yet. Backends (`wire`, `jobs`, `dead`) and
clients (`view`, `gone`) are external. A packet is its kind and the query it answers.
A client follows its response packet by packet, and ERR ends it at any point. It sends its
next command when the response to the last one has ended; a packet that comes after the end
it takes for part of the next response, and from then on it is `garbled`.

**PacketFramer** has `write_packet` at one end of a connection and `read_packet` at
the other. A payload is its size; sequence numbers are 8 bits wide.

**BackendRegistry** is the registry of backends. A step is what one atomic access makes
visible, so the swap of a snapshot and the increment of the version are two steps, and
finding an entry and storing into it are two. `object` holds the entries that some
`shared_ptr` keeps alive; addresses are used again. A snapshot (`current`) is its
`by_group`: for each group the list of its entries, in the unspecified order of the
unordered map that `build()` goes through.

**RoutingEngine** plans a route over that registry and the schema registry, load by
load: lookup, role, pin, group, filter, fallback to the primary, and the seven policies.
`touched[p]` records which entries changed since plan `p` started; what a plan promises
is said of the others. The replication lag is whether it exceeds the limit. A
round-robin counter is kept modulo a common multiple of the numbers of candidates.

**Logger** is the dispatcher and its rotating file. A step is a critical section, a
notification or one file operation; the process may be killed at each, and the next one
finds the files. A record has size 1.

**Application** is the life of the process: construction, startup, signals, reload,
sessions, the end of the event loop, shutdown. `Work` says when `io_context.run()` has
nothing left to do. Pools are open or drained. A handler that resumes in a destroyed
object may crash the process or go on (`Resumed`).

**Handshake** has the two dialogues a connection starts with, byte by byte: the
connector with a backend, and the session with a client. The peers' packets are laid
out by operators of their own (`Greeting`, `Response`), so that an encoder and a decoder
of the code cannot agree on the same mistake. SHA-1 is an injective function `Token` that
never gives zeros (`TokenAssumption`); plugin names are abbreviated. `PeerAssumption` says what the protocol
guarantees of a peer: 32 bits of flags, texts without null bytes, a server with
`SECURE_CONNECTION`, a length before the client's token, and user names of at most 16
characters in the form of the response before 4.1.

**QueryClassifier** has the scanners that routing reads a query with, as operators on
sequences of lexemes; **SessionState** is the session that uses them and tracks `SET`,
`USE`, `BEGIN`, `COMMIT` and `ROLLBACK`. Queries are put together from units whose
meaning is known (`Means`), and the scanners are checked against it. Of a transaction
`truth` knows what these statements say; that MySQL also commits before a DDL statement
and when autocommit is switched on is left out of it. A unit with `--` has a blank after
it, and none is a comment of the form `/*! */`: there the code and MySQL differ (below).

**MC...** modules instantiate these for TLC.
**ConnectionPoolProofs, ConnectionPoolTheorems, QuerySessionProofs, PacketFramerProofs,
RoutingInvariant, RoutingProofs, HandshakeProofs** and **ProcessProofs** (the logger and the
application) hold the proofs. Operators whose comment starts with
"Mutant" are plausible bugs: each property is known to fail when one replaces the
definition that follows it.

## Runs that pass

| Run | Instance | Shows |
|---|---|---|
| PoolSafety | 3 clients, 5 addresses, min = max = 2 | the pool implements ConnectionLease; connections are never lost, duplicated or lent twice; queue, metrics, closing rules and shutdown are right |
| PoolLiveness | 3 clients, 2 addresses, min 2, max 1 | queued clients are served in order and each returns; drain stops the reaper; `max` limits warming even when `min` exceeds it, which the configuration allows |
| SessionSafety | 2 clients, 2 addresses | no foreign packets, no dirty or leaked connection |
| SessionLiveness | 2 clients, 1 address, results end with EOF | every command is answered or its session ends; each response is complete, with no packet more, before the next command |
| FramerSafety | 3 packets of 0, 1, 3 or 5 bytes, frames of at most 2 | packets arrive whole and numbered consecutively past 255 |
| RoutingSafety | 2 backends of one group, 3 entries, 1 planner, 1 monitor, 1 administrator, 3 changes | updates reach the entry in use, a plan is wrong only about what changed under it, reads prefer replicas and fall back |
| LoggerRotation | 2 producers, 6 records, 3 backups, 1 crash | records are kept, in order, through queue, batch, file and backups; no lost wake-up; shutdown flushes and returns |
| ApplicationLifecycle | 2 backends, 2 clients, 2 signals, 3 files, one of them invalid | runs until asked, whatever is reloaded; SIGTERM ends the process |
| HandshakeDialogue | 60 backends, 192 clients, challenges with null bytes | connecting succeeds exactly when it should; client fields are understood; numbering has no gap; the dialogue ends |
| SessionTexts | queries of up to 4 of 13 units, 9 session statements | a batch is routed as a write exactly when it holds one, and by the schema it means, unless it is one SchemaExtractor misreads (`Misread`); session state is tracked |

`TypeOK` of each module documents its variables. It holds in these instances but is not
among the properties of the configurations; for the pool, the session, the framer and the
logger it is a theorem.

Bounds. In PoolSafety three clients share two connections: one is queued behind a full
pool, or several connect at once; the five addresses leave room for the connections
above `max` and for late ones after drain. It never has two clients queued while a
third releases, so the order of service is the subject of PoolLiveness, where `max` is
1. There symmetry would be unsound, and two addresses keep it small: while two of the three
clients are queued there is at most one lent connection and one from warming; a third
connect at the same time stays unanswered. The theorems have no such bounds. Two
sessions are enough for one to receive what the other left behind. One packet under way per backend
(`MaxUnread`) already separates what a backend has sent from what it has still to
send. Payloads of 3 and 5 need two and three frames; the first sequence numbers 253
and 255 wrap within a packet and between packets. FramerSafety leaves out exact
multiples of the frame size, which are the subject of FramerExactMultiple, and it may
stop, since only a bounded number of packets is written.

In RoutingSafety one plan meets up to two changes after the first load, which is enough
to remove and add a backend, or to change an entry twice, between any two of its loads;
the three entries leave room for a new one while the plan holds the old. Three schema
configurations mix policies and splitting; round-robin is the subject of
RoutingReadsTakeTurns. In LoggerRotation each record fills the file, so
six records rotate more often than there are backups. In ApplicationLifecycle two
signals are a reload before, during or after a shutdown, or two of either. In
HandshakeDialogue backends range over flags, passwords and plugins, and clients over their
optional fields and passwords; one challenge has null bytes in both parts. In SessionTexts four units hold
a batch of two statements with a literal or comment, or a CTE in brackets; queries of three and
four units are sent in new sessions only (`LongOnesInNewSessions`), since neither scanner
reads the transaction or autocommit. Its statements are spelled plainly, with blanks where
they do no harm; what other spellings do is the subject of SessionAutocommit and
SessionSpellings. These runs may
stop, except SessionTexts: a bounded number of changes, records, signals or packets is
used up.

Fairness. Handlers queued on a strand and expired timers run, because the io_context
threads keep running (`StrandFairness`). That the factory answers (`FactoryFairness`)
is an assumption about the network, which only `FairSpec`, for MinRestored, makes. SessionLiveness
assumes that `acquire` returns and that a backend goes on sending and ends its result;
the first is itself only true if connects are answered (see AcquireIsBounded). Logger
assumes that the writer, a producer about to signal and the caller of `shutdown()` are
scheduled; nobody need log or shut down, and no spurious wake-up is counted on.
Application assumes that threads in `run()` take the handlers that are ready and that
connecting while warming ends; clients need not do anything, so TermEndsProcess excepts
clients that keep a session open for ever. Handshake assumes that the peer goes on or
that the connection breaks: `connect()` and `do_run()` have no timeout.

## Runs that find a disagreement

| Run | What the code does | What is said of it |
|---|---|---|
| ApplicationInFlight | shutdown destroys a pool while a session holds one of its connections, and `release()` then runs in it | `mysql_frontend.h:29` |
| SessionAutocommit | `SET AUTOCOMMIT = 0` is not recognised: 16 characters end before the value | `mysql_connection.cpp:245,250` |

More of the same kind have a configuration to reproduce them with TLC, each of which
ends in a counterexample:

| Configuration, module | Property | What the code does | What is said of it |
|---|---|---|---|
| PoolAboveMax, MCConnectionPool | NeverAboveMax | connects in flight together exceed `max` | `dbmesh.yaml:117` |
| PoolDrainLeavesConnection, MCConnectionPool | DrainClosesEverything | a connect that ends after drain is kept open | `connection_pool.h:58` |
| PoolDrainOkAfterwards, MCConnectionPool | DrainFailsWaiters | a served waiter that resumes after drain gets a destroyed connection | `connection_pool.h:58` |
| PoolTimeoutWithRoom, MCConnectionPool | TimedOutOnlyWhenExhausted | a waiter times out although the pool has room | `connection_pool.h:47` |
| SessionRowError, MCQuerySession | CommandsComplete | ERR after some rows leaves the session waiting | `mysql_connection.h:67` |
| SessionSurplusError, MCQuerySession | ResponseComplete | ERR after some rows ends the client's response; when the backend then dies the session sends another ERR | `mysql_connection.cpp:337` |
| SessionUseAfterRelease, MCQuerySession | ReleaseIsLastUse | `queries_served++` after `release` | `connection_pool.h:51` |
| SessionSpellings, MCSessionState | SessionTracked | a blank before `USE`, a newline after it, a quoted or terminated name give another database; `SET SESSION AUTOCOMMIT=0` is not recognised | `mysql_connection.cpp:245` |
| SchemaMisread, MCSessionState | SchemaAlwaysFound | keywords in comments, double-quoted literals and quoted names count, and a single quote in them hides what follows | `schema_extractor.h:13-14` |
| FramerExactMultiple, MCPacketFramer | WriteEnds | empty frames for ever after an exact multiple | `packet_framer.cpp:110` |
| RoutingReadsTakeTurns, MCRoutingEngine | ReadsTakeTurns | a write takes a turn of the same round-robin counter, so that reads alternating with writes all go to one of two replicas | `README.md:123,157` |

Three more are definitions without a configuration, since reading the code settles them
(TLC finds each counterexample in instances like the ones above, with `min <= max`).
AcquireIsBounded (`dbmesh.yaml:119-120`) fails under `StrandSpec`: no timer runs while
an acquire waits for its connect. MinRestored (`connection_pool.cpp:163`,
`dbmesh.yaml:116`) fails under `FairSpec`: after a failed warm-up nothing opens
connections ahead of time. ConfigAlive (a test of the schema registry asks that
concurrent readers never read torn data) fails when `Unsynchronised` is TRUE: `lookup()`
returns a pointer into a map that a later `upsert()` frees.

Smaller ones met while modelling: a batch that starts with `SET`, `USE`, `BEGIN` or
`COMMIT` is answered locally and its other statements are dropped; `ROLLBACK TO
SAVEPOINT` ends the transaction as tracked; a comment before `BEGIN` hides it; `USE` without
a name throws `std::out_of_range` and ends the session; the classifier takes `--` without a
blank after it for a comment, and what is in `/*! */` too; `verify_native_password`, which
only tests call so far, refuses a client without a password, since that sends no token
where twenty zeros are asked for (ChallengeHolds says so); the policies by least
connections and latency find no backend if every signal is at its type's largest value,
though no caller passes signals yet; FailoverPolicy assumes candidates in the order
of the configuration, which an unordered map does not keep; a pin is honoured without
asking whether its backend serves the schema's group; `RoutePlan.role` says REPLICA
after the fallback to the primary; `do_run` numbers its "Protocol error" like the
client's own packet; a rotation that a crash cuts short leaves a gap, and the next one
deletes the oldest backup all the same (Retention allows for it).

## What is proved

Each theorem is about every value of the constants that the named assumption of its
module allows. The invariants that TLC checks are seldom inductive, so each proof module
defines a stronger `IInv`, shows with one lemma per action that a step keeps it, and
derives the properties from it.

| Module | Theorems (property) |
|---|---|
| ConnectionPoolProofs | TypeCorrect (TypeOK), Partition (PoolPartition), Exclusion (LeaseExclusive), QueueSoundness (WaiterQueueSound) |
| ConnectionPoolTheorems | MetricsAreExact (MetricsExact), NoClientWaitsForAnIdleConnection (NoIdleWhileQueued), CapacityIsBounded (CapacityBound), ShutdownFinality (ShutdownIsFinal), FirstComeFirstServed (NoOvertaking), ClosesForAReason (ShrinksForAReason), ImplementsLease (LeaseProtocol) |
| QuerySessionProofs | SessionTypeCorrect (TypeOK), AnswersAreOwn (OwnAnswer), HandOverIsClean (CleanHandOver), NothingLeaks (NoLeak), ResponsesAreComplete (ResponseComplete), ResponsesEnd (ResponseEnds) |
| PacketFramerProofs | FramerTypeCorrect (TypeOK), PacketsAreFaithful (Faithful), NumbersAreConsecutive (ConsecutiveNumbers) |
| RoutingProofs | UpdatesReachEntries (UpdateReachesEntry), PlansAreUsable (PlanIsUsable), FailuresAreNeeded (NoNeedlessFailure), ReplicasComeFirst (ReadsPreferReplicas) |
| HandshakeProofs | DialogueKeepsToScript (IInv), ConnectionsAreAccepted (ConnectedIsAccepted), RefusalsAreNeeded (NoNeedlessRefusal), ClientsAreUnderstood (ClientUnderstood), ChallengesHold (ChallengeHolds), PacketsAreInOrder (PacketsInOrder) |
| ProcessProofs | LoggerTypeCorrect (TypeOK), RecordsInOrder (InOrder), RotationKeeps (DiskKeeps), BackupsRetained (Retention), ShutdownHasFlushed (ShutdownFlushes), ProcessRunsUntilAsked (RunsUntilAsked) |

**Pool.** For every finite set of clients, every set of addresses and every `min` and
`max`, with no assumption that `min <= max`. That a release leaves the leases exclusive
needs to know which calls hold a connection (`CallsSound`), and the types need to know how
far warming is (`WarmSound`). The lemmas that ConnectionPoolProofs starts with are about the head,
tail and removal of a queue without duplicates. ImplementsLease shows that every action is
a step of the lease under the mapping, or leaves it unchanged.

**Session.** For any clients, connections and `MaxUnread`, and also with `RowError`, when
backends may end a result with an error; only ResponsesAreComplete assumes `~RowError`, and
fails otherwise (SessionSurplusError). What is left of it then is ResponsesEnd: a client may get
a packet too many, but no session goes on to the next command in the middle of a
response. Both rest on where the client is for each position of the session (`Responded`,
`InStep`). OwnAnswer alone does not survive a step: a
session's connection must hold a response without a gap, which the backend continues where
its last packet leaves off (`Answering`, `OwnPlace`), all other connections must be clean,
and who holds which one must be known at every position of the session (`Holding`).

**Framer.** For every frame size, list of payloads and buffer, under `NoExactMultiple`:
no payload is a multiple of the frame size. That is where `write_packet` fails (see
FramerExactMultiple), so the assumption cannot be dropped. The invariant says that the
frames under way lead the reader from where it is to where the writer is (`Leads`, a path
through the payloads), or short of it when the connection is broken.

**Registry and routing.** For every set of backends, schemas, statements, planners and
writers. A plan is made of many loads, so what it knows at each is stated of the entries
that nobody has touched since it started (`PlanOK`); a step of another thread keeps that,
because it touches each entry that it changes (`Carried`), and an entry that a plan refers to
is not freed under it. The three theorems about plans assume `~Unsynchronised`, that
`upsert()` frees no configuration a plan still points to; without it they are about freed
memory (see ConfigAlive). UpdatesReachEntries needs no such assumption.

**Handshake.** For every set of backends, clients, passwords and challenges that
TokenAssumption, PeerAssumption and NoneAssumption allow; packets have any length. (That
tokens differ and are never zero is true of SHA-1 as far as anybody knows, not for certain.)
`IInv` says for each place of
DBMesh where the peer is, which packet is under way, or lost, and its number. The work is
in the codecs: for each packet a lemma shows that decoding what the other side laid out
gives back what it meant, field by field, along the offset each reader has reached
(GreetingDecoded, ChallengeFound, ResponseDecoded, AnswerDecoded, OurResponse,
SwitchParsed). Numbers are read back from their bytes by arithmetic on `write_u16_le` and
its relatives.

**Logger.** For any number of threads, records and crashes, any `max_bytes` and any
`max_backups` of at least 1. `Kept` says how the records are stacked over the files while a rotation
moves them, and `Gaps` that a rotation leaves at most one gap below a backup, so there are
at most as many as rotations that were cut short. That `InFiles`, a recursive
function, computes this stack is an induction over the backups, done with a least
counterexample (FilesAre, LeastElement).

**Application** (instantiated in ProcessProofs as `App`). For any clients, configurations and signals: before a shutdown is
requested the wait for signals is outstanding, so the event loop has work (`Asked`).
`None # 0` separates "no exit code" from the exit code 0.

Only model-checked:

- the liveness properties (WaitersReturn, ReaperStopsAfterDrain, CommandsComplete,
  RecordsReachFile, ShutdownReturns, TermEndsProcess, DialogueEnds): fairness and ENABLED are
  beyond the prover;
- WritesAreFound, SchemaFound and SessionTracked: QueryClassifier scans with RECURSIVE
  operators, which the prover does not handle, and what a scanner computes for every text
  is an induction over data.

## Not modelled

- YAML parsing (`config.cpp:1-470`): a table of field names, types and defaults, without
  state. The files of Application are what `validate()` tells apart.
- Formatting and levels of log records, the wording of errors, SHA-1 itself, the command
  line of `main.cpp` and the CLI.
- `reject_connection`: `active_conns_` is back at 0 before the next accept, so that it
  runs only with `max_connections = 0`.
- Code that nothing calls: `MySqlBackendConnection::validate`, `PacketFramer::encode` and
  `decode`, the builders of column and row packets with their lenenc strings, `snapshot()`
  of the schema registry; `size()` of the registries only fills a log line.
- Case folding and keywords of more than 16 letters in the classifier.
- The parts without an implementation, listed above.

Worth doing next: the pool is drained and destroyed by Application in the abstract;
composing it with ConnectionPool itself would show what each suspended `acquire()` does
after `pools_.clear()`.
