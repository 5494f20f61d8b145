---------------------------- MODULE Application ----------------------------
(***************************************************************************)
(* The life of the process: core/src/application.cpp with main.cpp, the    *)
(* configuration's load, validate and reload in config.cpp, and what       *)
(* pool_manager.cpp and mysql_frontend.cpp do at startup and shutdown.     *)
(*                                                                         *)
(* Handlers run while some thread is in io_context.run(): the io threads   *)
(* until stop(), and the main thread once more while the pools drain.      *)
(* run() returns when it is stopped or when no operation is outstanding.   *)
(* Pools are abstracted to whether they are open or drained; an open one   *)
(* has its idle reaper outstanding, a timer that drain() cancels.          *)
(*                                                                         *)
(* A handler that resumes in an object that was destroyed meanwhile may    *)
(* bring the process down or happen to go on: both are possible here.      *)
(***************************************************************************)
EXTENDS Integers, Sequences, SequencesExt, Functions

CONSTANTS
  Client,
  Files,      \* possible contents of the configuration file
  None,
  MaxSignals  \* bound on the signals sent

VARIABLES
  file,        \* what the configuration file holds
  config,      \* config_
  main, code,  \* where the main thread is, and the exit code
  armed,       \* signals_.async_wait is outstanding
  signals,     \* signals sent and not yet delivered to a handler
  sent,
  shutting_down,
  posted, stopped,  \* io_context_.stop() is posted; has run
  pid_file_path, pid_file, \* the path written to, and where a file exists
  registry,    \* ids in the backend registry, as routing knows them
  pools,       \* PoolManager::pools_
  warming,     \* pools that warm_all() has yet to warm
  draining,    \* pools that shutdown() has yet to drain, None before and after
  listening,   \* the frontend exists
  session, lease \* what each client's session does, and the pool it uses

disk == <<file, pid_file_path, pid_file>>
loop == <<armed, signals, sent, shutting_down, posted, stopped>>
pooling == <<registry, pools, warming, draining>>
serving == <<listening, session, lease>>
vars == <<disk, config, main, code, loop, pooling, serving>>

-----------------------------------------------------------------------------
(* ConfigLoader.  A file is None when it is missing or does not parse.     *)

\* Ids or names that are given, with their required fields, once each.
Listed(s) == (\A i \in DOMAIN s : s[i].complete) /\ IsInjective([i \in DOMAIN s |-> s[i].name])

validate(c) ==
  /\ c.node_id /\ c.ports
  /\ Listed(c.backends) /\ Listed(c.schemas)
  /\ c.mysql => c.backends # << >> /\ c.schemas # << >>

load(f) == IF f = None THEN None ELSE IF validate(f) THEN f ELSE None

Ids(c) == {c.backends[i].name : i \in DOMAIN c.backends}

TypeOK ==
  /\ {file, config} \subseteq Files \union {None}
  /\ main \in {"new", "loaded", "running", "stopping", "draining", "exited", "crashed"}
  /\ code \in {None, 0, 1}
  /\ {armed, shutting_down, posted, stopped, listening} \subseteq BOOLEAN
  /\ ToSet(signals) \subseteq {"TERM", "HUP"} /\ sent \in 0..MaxSignals
  /\ Range(pools) \subseteq {"open", "drained"}
  /\ session \in [Client -> {"away", "arrived", "idle", "query"}]
  /\ \A c \in Client : lease[c] # None <=> session[c] = "query"

Init ==
  /\ file \in Files \union {None} /\ pid_file_path = None /\ pid_file = None
  /\ config = None
  /\ main = "new" /\ code = None
  /\ armed = FALSE /\ signals = << >> /\ sent = 0
  /\ shutting_down = FALSE /\ posted = FALSE /\ stopped = FALSE
  /\ registry = {} /\ pools = << >> /\ warming = << >> /\ draining = None
  /\ listening = FALSE
  /\ session = [c \in Client |-> "away"] /\ lease = [c \in Client |-> None]

-----------------------------------------------------------------------------
(* Application::Application and run() up to the event loop.                *)

Exit(n) == main' = "exited" /\ code' = n

Construct ==
  /\ main = "new"
  /\ config' = load(file)
  /\ IF config' = None THEN Exit(1) ELSE main' = "loaded" /\ UNCHANGED code
  /\ UNCHANGED <<disk, loop, pooling, serving>>

\* Startup fails when the listener cannot be bound; the destructor then removes
\* the pid file.
StartupFails ==
  /\ main = "loaded" /\ config.mysql
  /\ Exit(1)
  /\ UNCHANGED <<disk, config, loop, pooling, serving>>

\* There is no path if data_dir cannot be created, and the file may not be writable.
write_pid_file == pid_file_path' \in {config.data_dir, None} /\ pid_file' \in {pid_file_path', None}

create_pools == pools' = [b \in Ids(config) |-> "open"]

\* Routing and the pools know the same backends; warming starts in the background.
start_subsystems ==
  /\ registry' = Ids(config)
  /\ create_pools
  /\ warming' \in SetToSeqs(Ids(config))
  /\ listening' = config.mysql

Startup ==
  /\ main = "loaded" /\ main' = "running"
  /\ write_pid_file /\ armed' = TRUE /\ start_subsystems
  /\ UNCHANGED <<file, config, code, signals, sent, shutting_down, posted, stopped, draining,
                 session, lease>>

-----------------------------------------------------------------------------
(* Signals: one wait is outstanding at a time, and signals that arrive     *)
(* meanwhile are queued for the next.                                      *)

Handling == main \in {"running", "draining"} /\ ~stopped

SignalWaits(s) == Handling /\ armed /\ signals # << >> /\ Head(signals) = s /\ signals' = Tail(signals)

RequestShutdown(rearm) ==
  /\ SignalWaits("TERM") /\ armed' = rearm
  /\ shutting_down' = TRUE
  /\ posted' = (posted \/ ~shutting_down)
  /\ UNCHANGED <<sent, stopped, disk, config, main, code, pooling, serving>>

\* Mutant: the wait is renewed, as after SIGHUP.
OnTermRearms == RequestShutdown(TRUE)

OnTerm == RequestShutdown(FALSE)

Reload(rearm, ids) ==
  /\ SignalWaits("HUP") /\ armed' = rearm
  /\ config' = IF load(file) = None THEN config ELSE load(file)
  /\ registry' = ids
  /\ UNCHANGED <<sent, shutting_down, posted, stopped, disk, main, code, pools, warming, draining, serving>>

\* Mutant: the wait is not renewed after a reload.
OnHupOnce == Reload(FALSE, registry)

\* ConfigReloader::reload keeps the old configuration on an error; the
\* subsystems keep the one they were started with in any case.
OnHup == Reload(~shutting_down, registry)

Stop ==
  /\ Handling /\ posted /\ posted' = FALSE /\ stopped' = TRUE
  /\ UNCHANGED <<armed, signals, sent, shutting_down, disk, config, main, code, pooling, serving>>

-----------------------------------------------------------------------------
(* Sessions, warm_all() and PoolManager::shutdown().                       *)

\* Resuming in an object that has been destroyed.
Resumed(alive) == \/ UNCHANGED main
                  \/ ~alive /\ main' = "crashed"

\* The accept loop starts a session; active_conns_ is back at 0 before the next
\* accept.  The acceptance may have been queued when the frontend was destroyed.
Accept(c) ==
  /\ Handling /\ session[c] = "arrived" /\ session' = [session EXCEPT ![c] = "idle"]
  /\ Resumed(listening)
  /\ UNCHANGED <<disk, config, code, loop, pooling, listening, lease>>

\* A query is routed to some registered backend; without an open pool for it the
\* client gets an error and the session goes on.
Query(c, b) ==
  /\ Handling /\ session[c] = "idle" /\ b \in DOMAIN pools /\ pools[b] = "open"
  /\ session' = [session EXCEPT ![c] = "query"] /\ lease' = [lease EXCEPT ![c] = b]
  /\ UNCHANGED <<disk, config, main, code, loop, pooling, listening>>

\* release() on the pool, which may be gone.
Answered(c) ==
  /\ Handling /\ session[c] = "query"
  /\ session' = [session EXCEPT ![c] = "idle"] /\ lease' = [lease EXCEPT ![c] = None]
  /\ Resumed(lease[c] \in DOMAIN pools)
  /\ UNCHANGED <<disk, config, code, loop, pooling, listening>>

Leave(c) ==
  /\ Handling /\ session[c] = "idle" /\ session' = [session EXCEPT ![c] = "away"]
  /\ UNCHANGED <<disk, config, main, code, loop, pooling, listening, lease>>

\* warm() of the next pool ends, and the loop goes on to the one after it.
warm_all ==
  /\ Handling /\ warming # << >> /\ warming' = Tail(warming)
  /\ Resumed(Head(warming) \in DOMAIN pools)
  /\ UNCHANGED <<disk, config, code, loop, registry, pools, draining, serving>>

DrainNext ==
  /\ Handling /\ draining \notin {None, << >>} /\ draining' = Tail(draining)
  /\ pools' = [pools EXCEPT ![Head(draining)] = "drained"]
  /\ UNCHANGED <<disk, config, main, code, loop, registry, warming, serving>>

ClearPools ==
  /\ Handling /\ draining = << >>
  /\ draining' = None /\ pools' = << >>
  /\ UNCHANGED <<disk, config, main, code, loop, registry, warming, serving>>

-----------------------------------------------------------------------------
(* The event loop ends; stop_subsystems().                                 *)

\* What keeps io_context.run() from returning.
Work ==
  \/ armed \/ posted
  \/ listening \/ \E c \in Client : session[c] # "away"
  \/ warming # << >> \/ draining # None \/ "open" \in Range(pools)

LoopEnds ==
  /\ main = "running" /\ (stopped \/ ~Work) /\ main' = "stopping"
  /\ UNCHANGED <<disk, config, code, loop, pooling, serving>>

StopSubsystems ==
  /\ main = "stopping" /\ main' = "draining"
  /\ listening' = FALSE
  /\ draining' \in SetToSeqs(DOMAIN pools)
  /\ stopped' = FALSE
  /\ UNCHANGED <<disk, config, code, armed, signals, sent, shutting_down, posted, registry, pools, warming,
                 session, lease>>

Finish(path) ==
  /\ main = "draining" /\ ~Work /\ Exit(0)
  /\ pid_file' = IF path = pid_file THEN None ELSE pid_file
  /\ UNCHANGED <<file, pid_file_path, config, loop, pooling, serving>>

\* The pools have drained; the destructor removes the file that was written.
FinishRun == Finish(pid_file_path)

-----------------------------------------------------------------------------
(* The outside world.                                                      *)

EditFile ==
  /\ file' \in Files \union {None}
  /\ UNCHANGED <<pid_file_path, pid_file, config, main, code, loop, pooling, serving>>

SendSignal ==
  /\ main \in {"running", "stopping", "draining"} /\ sent < MaxSignals /\ sent' = sent + 1
  /\ \E s \in {"TERM", "HUP"} : signals' = Append(signals, s)
  /\ UNCHANGED <<armed, shutting_down, posted, stopped, disk, config, main, code, pooling, serving>>

\* The one outstanding async_accept completes; its handler is ready to run.
Connect(c) ==
  /\ Handling /\ listening /\ "arrived" \notin Range(session)
  /\ session[c] = "away" /\ session' = [session EXCEPT ![c] = "arrived"]
  /\ UNCHANGED <<disk, config, main, code, loop, pooling, listening, lease>>

MainThread == Construct \/ Startup \/ LoopEnds \/ StopSubsystems \/ FinishRun

Serve(c) == Accept(c) \/ (\E b \in registry : Query(c, b)) \/ Answered(c) \/ Leave(c)

Next ==
  \/ MainThread \/ StartupFails
  \/ OnTerm \/ OnHup \/ Stop
  \/ warm_all \/ DrainNext \/ ClearPools
  \/ \E c \in Client : Serve(c) \/ Connect(c)
  \/ EditFile \/ SendSignal

\* A thread in io_context.run() takes every handler that is ready: a strand or a
\* queue starves nobody.  A connection attempt ends; clients need not do anything.
Fairness ==
  /\ WF_vars(MainThread)
  /\ WF_vars(OnTerm) /\ WF_vars(OnHup) /\ WF_vars(Stop)
  /\ WF_vars(warm_all) /\ WF_vars(DrainNext) /\ WF_vars(ClearPools)

Spec == Init /\ [][Next]_vars /\ Fairness

-----------------------------------------------------------------------------
\* "run() blocks until SIGTERM or SIGINT": it does not run out of work.
RunsUntilAsked == main \in {"stopping", "draining"} \/ code = 0 => shutting_down

\* stop() of the frontend: "in-flight connections finish naturally".  The pool that
\* a query uses exists until its session has given the connection back.
InFlightFinish == \A c \in Client : lease[c] # None => lease[c] \in DOMAIN pools

\* "... then shuts down cleanly": once SIGTERM is sent, and it is not preceded
\* by the end of the process, the process ends, unless clients keep sessions open
\* for ever.
TermEndsProcess ==
  "TERM" \in ToSet(signals) /\ main = "running"
    ~> (main \in {"exited", "crashed"} \/ []<>(\E c \in Client : session[c] # "away"))
=============================================================================
