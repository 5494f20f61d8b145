--------------------------- MODULE ConnectionPool ---------------------------
(***************************************************************************)
(* One backend's connection pool: pool/src/connection_pool.cpp.            *)
(*                                                                         *)
(* All pool state is touched only on one Boost.Asio strand, so a stretch   *)
(* of a coroutine between two co_awaits is one action, and other handlers  *)
(* run only while a coroutine is suspended: in the connection factory      *)
(* ("connecting"), on its waiter timer ("waiting", then "woken" once the   *)
(* timer's completion handler is queued) or on the idle timer.             *)
(*                                                                         *)
(* Conn stands for the addresses a PooledConnection can have.  A freed     *)
(* address may be used again for the next connection, as the heap does.    *)
(* An address in `all` is a live, open connection: every close() of the    *)
(* code is followed by the destruction of the object in the same handler.  *)
(* last_used is abstracted to the order of free_list (see IdleSweep), and  *)
(* the counter total_acquired_, which the pool never reads, is left out.   *)
(***************************************************************************)
EXTENDS Integers, Sequences, Functions, FiniteSets

CONSTANTS
  Client,   \* callers of acquire()/release(): one outstanding call each
  Conn,     \* addresses of PooledConnection objects
  NoConn,   \* nullptr
  MinConns, \* config_.min
  MaxConns  \* config_.max

ASSUME ConstAssumption ==
  /\ MinConns \in Nat
  /\ MaxConns \in Nat
  /\ IsFiniteSet(Client)
  /\ NoConn \notin Conn

VARIABLES
  all,           \* all_: the live connections
  free_list,     \* free_list_: idle connections, least recently used first
  active,        \* active_: connections out on loan
  waiters,       \* waiters_: clients queued for a release, oldest first
  shutting_down, \* shutting_down_
  metrics,       \* free_count_, active_count_, waiter_count_, total_count_
  pc,            \* where each client's acquire()/release() call is
  conn,          \* Waiter::result while queued, then what acquire() returned
  warm,          \* where warm_impl() is
  warm_i,        \* its loop counter
  reaper         \* where idle_reaper_impl() is

lists == <<all, free_list, active, waiters, metrics>>
calls == <<pc, conn>>
tasks == <<warm, warm_i, reaper>>
vars == <<lists, shutting_down, calls, tasks>>

PoolError == {"POOL_SHUTDOWN", "CONNECT_FAILED", "TIMED_OUT"}

\* A client with no call in progress: it never called, or its last call is over.
Returned == {"idle"} \union PoolError

\* "releasing" and "discarding": release(c, true) and release(c, false) is on its
\* way to the strand.
Releasing == {"releasing", "discarding"}

Calling == {"connecting", "waiting", "woken", "holding"} \union Releasing

Sizes(f, a, w, s) ==
  [free |-> Len(f), active |-> Cardinality(a),
   waiters |-> Len(w), total |-> Cardinality(s)]

TypeOK ==
  /\ all \in SUBSET Conn
  /\ free_list \in Seq(Conn)
  /\ active \in SUBSET Conn
  /\ waiters \in Seq(Client)
  /\ shutting_down \in BOOLEAN
  /\ metrics \in [free : Nat, active : Nat, waiters : Nat, total : Nat]
  /\ pc \in [Client -> Returned \union Calling]
  /\ conn \in [Client -> Conn \union {NoConn}]
  /\ warm \in {"off", "connecting", "done"}
  /\ warm_i \in 0..MinConns
  /\ reaper \in {"off", "sleeping", "woken", "done"}

Init ==
  /\ all = {}
  /\ free_list = <<>>
  /\ active = {}
  /\ waiters = <<>>
  /\ shutting_down = FALSE
  /\ metrics = Sizes(<<>>, {}, <<>>, {})
  /\ pc = [k \in Client |-> "idle"]
  /\ conn = [k \in Client |-> NoConn]
  /\ warm = "off"
  /\ warm_i = 0
  /\ reaper = "off"

-----------------------------------------------------------------------------
\* track / untrack / sync_metrics

track(c) ==
  /\ c \in Conn \ all
  /\ all' = all \union {c}

untrack(c) == all' = all \ {c}

\* Stored last in every handler that changes a list.
sync_metrics == metrics' = Sizes(free_list', active', waiters', all')

Return(k, status, c) ==
  /\ pc' = [pc EXCEPT ![k] = status]
  /\ conn' = [conn EXCEPT ![k] = c]

-----------------------------------------------------------------------------
\* acquire_impl, up to its first co_await: the four ways it can go.

AcquireShutdown(k) ==
  /\ pc[k] \in Returned
  /\ shutting_down
  /\ Return(k, "POOL_SHUTDOWN", NoConn)
  /\ UNCHANGED <<lists, shutting_down, tasks>>

AcquireFree(k) ==
  /\ pc[k] \in Returned
  /\ ~shutting_down
  /\ free_list # <<>>
  /\ free_list' = Tail(free_list)
  /\ active' = active \union {Head(free_list)}
  /\ Return(k, "holding", Head(free_list))
  /\ UNCHANGED <<all, waiters, shutting_down, tasks>>
  /\ sync_metrics

\* Mutant: shutting_down_ is not tested.
AcquireConnectAfterDrain(k) ==
  /\ pc[k] \in Returned
  /\ free_list = <<>>
  /\ Cardinality(all) < MaxConns
  /\ Return(k, "connecting", NoConn)
  /\ UNCHANGED <<lists, shutting_down, tasks>>

AcquireConnect(k) ==
  /\ pc[k] \in Returned
  /\ ~shutting_down
  /\ free_list = <<>>
  /\ Cardinality(all) < MaxConns
  /\ Return(k, "connecting", NoConn)
  /\ UNCHANGED <<lists, shutting_down, tasks>>

AcquireWait(k) ==
  /\ pc[k] \in Returned
  /\ ~shutting_down
  /\ free_list = <<>>
  /\ Cardinality(all) >= MaxConns
  /\ waiters' = Append(waiters, k)
  /\ Return(k, "waiting", NoConn)
  /\ UNCHANGED <<all, free_list, active, shutting_down, tasks>>
  /\ sync_metrics

\* The factory's answer.  Nothing is checked again: neither the limit nor
\* shutting_down_ is read after the co_await.
ConnectOk(k) ==
  /\ pc[k] = "connecting"
  /\ \E c \in Conn : /\ track(c)
                     /\ active' = active \union {c}
                     /\ Return(k, "holding", c)
  /\ UNCHANGED <<free_list, waiters, shutting_down, tasks>>
  /\ sync_metrics

ConnectErr(k) ==
  /\ pc[k] = "connecting"
  /\ Return(k, "CONNECT_FAILED", NoConn)
  /\ UNCHANGED <<lists, shutting_down, tasks>>

\* acquire_timeout_ms elapses: the timer's completion handler is queued.  From
\* here on cancelling the timer has no effect.
TimerExpires(k) ==
  /\ pc[k] = "waiting"
  /\ pc' = [pc EXCEPT ![k] = "woken"]
  /\ UNCHANGED <<lists, shutting_down, conn, tasks>>

\* acquire_impl after its timer wait: a result set by release() wins over
\* whatever the timer reports.
WaiterOk(k) ==
  /\ pc[k] = "woken"
  /\ conn[k] # NoConn
  /\ Return(k, "holding", conn[k])
  /\ UNCHANGED <<lists, shutting_down, tasks>>

\* waiters_.erase(it)
Erased(s, i) == SubSeq(s, 1, i - 1) \o SubSeq(s, i + 1, Len(s))

\* Mutant: the timer's error code decides, not the result.
WaiterTimedOutWithResult(k) ==
  /\ pc[k] = "woken"
  /\ \/ \E i \in DOMAIN waiters : /\ waiters[i] = k
                                  /\ waiters' = Erased(waiters, i)
     \/ k \notin Range(waiters) /\ waiters' = waiters
  /\ Return(k, "TIMED_OUT", NoConn)
  /\ UNCHANGED <<all, free_list, active, shutting_down, tasks>>
  /\ sync_metrics

\* Mutant: the waiter stays in the queue.
WaiterTimedOutStaysQueued(k) ==
  /\ pc[k] = "woken"
  /\ conn[k] = NoConn
  /\ Return(k, "TIMED_OUT", NoConn)
  /\ UNCHANGED <<all, free_list, active, waiters, shutting_down, tasks>>
  /\ sync_metrics

\* Mutant: a waiter that drain() removed from the queue waits again.
WaiterTimedOutIfQueued(k) ==
  /\ pc[k] = "woken"
  /\ conn[k] = NoConn
  /\ \E i \in DOMAIN waiters : /\ waiters[i] = k
                               /\ waiters' = Erased(waiters, i)
  /\ Return(k, "TIMED_OUT", NoConn)
  /\ UNCHANGED <<all, free_list, active, shutting_down, tasks>>
  /\ sync_metrics

WaiterTimedOut(k) ==
  /\ pc[k] = "woken"
  /\ conn[k] = NoConn
  /\ \/ \E i \in DOMAIN waiters : /\ waiters[i] = k
                                  /\ waiters' = Erased(waiters, i)
     \/ k \notin Range(waiters) /\ waiters' = waiters
  /\ Return(k, "TIMED_OUT", NoConn)
  /\ UNCHANGED <<all, free_list, active, shutting_down, tasks>>
  /\ sync_metrics

-----------------------------------------------------------------------------
\* release: the caller hands the pointer over and goes on; the handler runs on
\* the strand later.  `how` is the caller's verdict together with is_open().

CallRelease(k, how) ==
  /\ pc[k] = "holding"
  /\ pc' = [pc EXCEPT ![k] = how]
  /\ UNCHANGED <<lists, shutting_down, conn, tasks>>

ReleaseUnknown(k) ==
  /\ pc[k] \in Releasing
  /\ conn[k] \notin active
  /\ Return(k, "idle", NoConn)
  /\ UNCHANGED <<lists, shutting_down, tasks>>

\* Mutant: the early return comes before sync_metrics().
ReleaseCloseUnsynced(k) ==
  /\ pc[k] \in Releasing
  /\ conn[k] \in active
  /\ pc[k] = "discarding" \/ shutting_down
  /\ active' = active \ {conn[k]}
  /\ untrack(conn[k])
  /\ Return(k, "idle", NoConn)
  /\ UNCHANGED <<free_list, waiters, metrics, shutting_down, tasks>>

ReleaseClose(k) ==
  /\ pc[k] \in Releasing
  /\ conn[k] \in active
  /\ pc[k] = "discarding" \/ shutting_down
  /\ active' = active \ {conn[k]}
  /\ untrack(conn[k])
  /\ Return(k, "idle", NoConn)
  /\ UNCHANGED <<free_list, waiters, shutting_down, tasks>>
  /\ sync_metrics

\* Mutant: the most recent waiter is served.
ReleaseHandOverLIFO(k) ==
  LET w == waiters[Len(waiters)]
  IN  /\ pc[k] = "releasing"
      /\ conn[k] \in active
      /\ ~shutting_down
      /\ waiters # <<>>
      /\ waiters' = Erased(waiters, Len(waiters))
      /\ pc' = [pc EXCEPT ![k] = "idle", ![w] = "woken"]
      /\ conn' = [conn EXCEPT ![k] = NoConn, ![w] = conn[k]]
      /\ UNCHANGED <<all, free_list, active, shutting_down, tasks>>
      /\ sync_metrics

\* Mutant: pop_front() is forgotten, so the next release finds the same waiter.
ReleaseHandOverNoPop(k) ==
  LET w == Head(waiters)
  IN  /\ pc[k] = "releasing"
      /\ conn[k] \in active
      /\ ~shutting_down
      /\ waiters # <<>>
      /\ pc' = [pc EXCEPT ![k] = "idle", ![w] = "woken"]
      /\ conn' = [conn EXCEPT ![k] = NoConn, ![w] = conn[k]]
      /\ UNCHANGED <<all, free_list, active, waiters, shutting_down, tasks>>
      /\ sync_metrics

\* The connection stays in active_; only its borrower changes.  The cancelled
\* timer's handler is queued, unless the timer had fired already.
ReleaseHandOver(k) ==
  LET w == Head(waiters)
  IN  /\ pc[k] = "releasing"
      /\ conn[k] \in active
      /\ ~shutting_down
      /\ waiters # <<>>
      /\ waiters' = Tail(waiters)
      /\ pc' = [pc EXCEPT ![k] = "idle", ![w] = "woken"]
      /\ conn' = [conn EXCEPT ![k] = NoConn, ![w] = conn[k]]
      /\ UNCHANGED <<all, free_list, active, shutting_down, tasks>>
      /\ sync_metrics

\* Mutant: the connection is not erased from active_.
ReleaseIdleStaysActive(k) ==
  /\ pc[k] = "releasing"
  /\ conn[k] \in active
  /\ ~shutting_down
  /\ waiters = <<>>
  /\ free_list' = Append(free_list, conn[k])
  /\ Return(k, "idle", NoConn)
  /\ UNCHANGED <<all, active, waiters, shutting_down, tasks>>
  /\ sync_metrics

\* Mutant: release() does not look for waiters first.
ReleaseIdleIgnoresWaiters(k) ==
  /\ pc[k] = "releasing"
  /\ conn[k] \in active
  /\ ~shutting_down
  /\ active' = active \ {conn[k]}
  /\ free_list' = Append(free_list, conn[k])
  /\ Return(k, "idle", NoConn)
  /\ UNCHANGED <<all, waiters, shutting_down, tasks>>
  /\ sync_metrics

ReleaseIdle(k) ==
  /\ pc[k] = "releasing"
  /\ conn[k] \in active
  /\ ~shutting_down
  /\ waiters = <<>>
  /\ active' = active \ {conn[k]}
  /\ free_list' = Append(free_list, conn[k])
  /\ Return(k, "idle", NoConn)
  /\ UNCHANGED <<all, waiters, shutting_down, tasks>>
  /\ sync_metrics

-----------------------------------------------------------------------------
\* warm_impl: the loop head decides between another connect and the end.

\* Mutant: warming ignores max.
WarmLoopIgnoresMax(i, size) ==
  /\ warm_i' = i
  /\ warm' = IF i < MinConns /\ ~shutting_down THEN "connecting" ELSE "done"

WarmLoop(i, size) ==
  /\ warm_i' = i
  /\ warm' = IF i < MinConns /\ ~shutting_down /\ size < MaxConns
               THEN "connecting" ELSE "done"

WarmStart ==
  /\ warm = "off"
  /\ WarmLoop(0, Cardinality(all))
  /\ UNCHANGED <<lists, shutting_down, calls, reaper>>

\* The new connection goes to the free list, also when clients are queued or
\* the pool was drained during the co_await.
WarmOk ==
  /\ warm = "connecting"
  /\ \E c \in Conn : /\ track(c)
                     /\ free_list' = Append(free_list, c)
  /\ WarmLoop(warm_i + 1, Cardinality(all) + 1)
  /\ UNCHANGED <<active, waiters, shutting_down, calls, reaper>>
  /\ sync_metrics

WarmErr ==
  /\ warm = "connecting"
  /\ warm' = "done"
  /\ UNCHANGED <<lists, shutting_down, calls, warm_i, reaper>>

-----------------------------------------------------------------------------
\* drain_impl: one handler without a co_await.  PoolManager::shutdown calls it
\* once.  A waiter that was handed a connection but has not resumed is no
\* longer in waiters_ and keeps its result.

\* Mutant: the idle timer is not cancelled.
drain_implKeepsTimer ==
  /\ ~shutting_down
  /\ shutting_down' = TRUE
  /\ pc' = [k \in Client |-> IF k \in Range(waiters) THEN "woken" ELSE pc[k]]
  /\ conn' = [k \in Client |-> IF k \in Range(waiters) THEN NoConn ELSE conn[k]]
  /\ waiters' = <<>>
  /\ free_list' = <<>>
  /\ active' = {}
  /\ all' = {}
  /\ UNCHANGED tasks
  /\ sync_metrics

drain_impl ==
  /\ ~shutting_down
  /\ shutting_down' = TRUE
  /\ pc' = [k \in Client |-> IF k \in Range(waiters) THEN "woken" ELSE pc[k]]
  /\ conn' = [k \in Client |-> IF k \in Range(waiters) THEN NoConn ELSE conn[k]]
  /\ waiters' = <<>>
  /\ free_list' = <<>>
  /\ active' = {}
  /\ all' = {}
  /\ reaper' = IF reaper = "sleeping" THEN "woken" ELSE reaper
  /\ UNCHANGED <<warm, warm_i>>
  /\ sync_metrics

-----------------------------------------------------------------------------
\* idle_reaper_impl

ReaperStart ==
  /\ reaper = "off"
  /\ reaper' = IF shutting_down THEN "done" ELSE "sleeping"
  /\ UNCHANGED <<lists, shutting_down, calls, warm, warm_i>>

IdleTimerExpires ==
  /\ reaper = "sleeping"
  /\ reaper' = "woken"
  /\ UNCHANGED <<lists, shutting_down, calls, warm, warm_i>>

ReaperStops ==
  /\ reaper = "woken"
  /\ shutting_down
  /\ reaper' = "done"
  /\ UNCHANGED <<lists, shutting_down, calls, warm, warm_i>>

\* Mutant: the reaper ignores min.
EvictableAll(n) == n

\* How many of n too old connections the loop closes before all_ is down to min.
Evictable(n) ==
  LET surplus == Cardinality(all) - MinConns
  IN  IF surplus <= 0 THEN 0 ELSE IF n < surplus THEN n ELSE surplus

\* Connections join free_list at the back with last_used = now, so the ones idle
\* for too long are its first n; the loop visits them from the front.
IdleSweep ==
  /\ reaper = "woken"
  /\ ~shutting_down
  /\ \E n \in 0..Len(free_list) :
       LET m == Evictable(n)
       IN  /\ all' = all \ Range(SubSeq(free_list, 1, m))
           /\ free_list' = SubSeq(free_list, m + 1, Len(free_list))
  /\ reaper' = "sleeping"
  /\ UNCHANGED <<active, waiters, shutting_down, calls, warm, warm_i>>
  /\ sync_metrics

-----------------------------------------------------------------------------

acquire_impl(k) ==
  \/ AcquireShutdown(k) \/ AcquireFree(k) \/ AcquireConnect(k) \/ AcquireWait(k)

FactoryAnswers(k) == ConnectOk(k) \/ ConnectErr(k)

WaiterResumes(k) == WaiterOk(k) \/ WaiterTimedOut(k)

release(k) ==
  \/ ReleaseUnknown(k) \/ ReleaseClose(k) \/ ReleaseHandOver(k) \/ ReleaseIdle(k)

WarmAnswered == WarmOk \/ WarmErr

idle_reaper_impl == ReaperStart \/ ReaperStops \/ IdleSweep

Next ==
  \/ \E k \in Client :
       \/ acquire_impl(k)
       \/ FactoryAnswers(k)
       \/ TimerExpires(k)
       \/ WaiterResumes(k)
       \/ \E how \in Releasing : CallRelease(k, how)
       \/ release(k)
  \/ WarmStart
  \/ WarmAnswered
  \/ drain_impl
  \/ idle_reaper_impl
  \/ IdleTimerExpires

Spec == Init /\ [][Next]_vars

\* The io_context threads keep running queued strand handlers and expired timers.
StrandFairness ==
  /\ \A k \in Client : /\ WF_vars(TimerExpires(k))
                       /\ WF_vars(WaiterResumes(k))
                       /\ WF_vars(release(k))
  /\ WF_vars(idle_reaper_impl)

\* The factory has no timeout of its own; this is an assumption about the
\* backend and the TCP stack, used only where a property names it.
FactoryFairness ==
  /\ \A k \in Client : WF_vars(FactoryAnswers(k))
  /\ WF_vars(WarmAnswered)

StrandSpec == Spec /\ StrandFairness

\* Everything that can go on goes on: the factory answers and the reaper keeps
\* sweeping.
FairSpec == Spec /\ StrandFairness /\ FactoryFairness /\ WF_vars(IdleTimerExpires)

-----------------------------------------------------------------------------
\* Safety

Connecting == {k \in Client : pc[k] = "connecting"}

\* Every connection the pool owns is in exactly one of free_list_ and active_,
\* and once: a handler that moves a connection between the lists (release,
\* acquire, warm, the reaper, drain) never drops or duplicates it.
PoolPartition ==
  /\ all = active \union Range(free_list)
  /\ active \intersect Range(free_list) = {}
  /\ IsInjective(free_list)

\* Until drain(), the clients that were given a connection and the connections in
\* active_ correspond one to one: no connection is lent to two clients, none is
\* destroyed under its borrower, and none stays lent to nobody.
LeaseExclusive ==
  ~shutting_down =>
    /\ \A k \in Client : conn[k] # NoConn => conn[k] \in active
    /\ \A j, k \in Client : conn[j] = conn[k] /\ conn[j] # NoConn => j = k
    /\ \A c \in active : \E k \in Client : conn[k] = c

\* The waiter queue and the suspended acquire() calls agree, whatever the order of
\* the timer, release() and drain(): only suspended calls without a result are
\* queued, each once; a call whose timer is still armed is queued; and a call that
\* left the queue before drain() has a result.
WaiterQueueSound ==
  /\ IsInjective(waiters)
  /\ \A k \in Range(waiters) : pc[k] \in {"waiting", "woken"} /\ conn[k] = NoConn
  /\ \A k \in Client :
       /\ pc[k] = "waiting" => k \in Range(waiters)
       /\ pc[k] = "woken" /\ ~shutting_down => (k \in Range(waiters) <=> conn[k] = NoConn)
  /\ shutting_down => waiters = <<>>

\* A client has a connection exactly while it holds or releases one; a call that
\* is suspended may have been given one already.
CallsSound ==
  \A k \in Client :
    /\ pc[k] \in Returned \union {"connecting", "waiting"} => conn[k] = NoConn
    /\ pc[k] \in {"holding"} \union Releasing => conn[k] # NoConn

\* warm_impl is in the factory only inside its loop.
WarmSound == warm = "connecting" => warm_i < MinConns

\* The inductive invariant behind the safety properties.
IInv ==
  /\ TypeOK
  /\ IsFiniteSet(all)
  /\ PoolPartition
  /\ LeaseExclusive
  /\ WaiterQueueSound
  /\ CallsSound
  /\ WarmSound

\* The atomics that other threads read are the sizes of the lists after every
\* handler: no path that changes a list forgets sync_metrics().
MetricsExact == metrics = Sizes(free_list, active, waiters, all)

\* Connects in flight when the limit is checked can carry the pool over max, but
\* not further than one connection for each other client and one for warm().
CapacityBound ==
  LET inflight == Cardinality(Connecting) + (IF warm = "connecting" THEN 1 ELSE 0)
  IN  Cardinality(all) + inflight <= MaxConns + Cardinality(Client)

\* In a pool that is not warmed, no client is queued while a connection is idle.
NoIdleWhileQueued == warm = "off" /\ waiters # <<>> => free_list = <<>>

InOrder ==
  \A i, j \in DOMAIN waiters : i < j =>
    /\ conn'[waiters[j]] = NoConn
    /\ \A m, n \in DOMAIN waiters' :
         waiters'[m] = waiters[i] /\ waiters'[n] = waiters[j] => m < n

\* A queued client is served, or leaves the queue, before any client behind it is
\* served; and clients that stay queued keep their order.
NoOvertaking == [][InOrder]_vars

Shrink ==
  \A c \in all \ all' :
    \/ shutting_down'
    \/ \E k \in Client : pc[k] = "discarding" /\ conn[k] = c
    \/ c \in Range(free_list) /\ Cardinality(all') >= MinConns

\* A connection leaves the pool only by drain(), by a release that discards it, or
\* idle and with at least min connections left behind.
ShrinksForAReason == [][Shrink]_vars

Final ==
  shutting_down =>
    /\ shutting_down'
    /\ \A k \in Client : pc[k] \in Returned => pc'[k] \in Returned /\ conn'[k] = NoConn
    /\ reaper' # reaper => all' = all

\* Once drain() ran, only calls that were already suspended can still return a
\* connection, and the reaper closes nothing.
ShutdownIsFinal == [][Final]_vars

-----------------------------------------------------------------------------
\* Liveness

\* A queued client gets its answer, a connection or TIMED_OUT, whatever the other
\* clients, the factory and drain() do: the timer is armed before the call suspends,
\* and the handler that finds a result or none always ends the call.
WaitersReturn ==
  \A k \in Client : pc[k] \in {"waiting", "woken"} ~> pc[k] \in Returned \union {"holding"}

\* drain() stops the idle reaper at whichever point of its loop it is, without
\* waiting for the idle timer to run out.
ReaperStopsAfterDrain == shutting_down ~> reaper = "done"

-----------------------------------------------------------------------------
\* What the pool implements, up to drain().

Lease == INSTANCE ConnectionLease WITH
  idle  <- IF shutting_down THEN {} ELSE Range(free_list),
  lease <- IF shutting_down THEN [k \in Client |-> NoConn] ELSE conn,
  open  <- ~shutting_down

\* Every handler of the pool is one step of the leasing protocol or leaves idle and
\* lent connections as they are, from the first acquire() to drain(): a connection
\* goes to a client only from the free list, fresh from the factory or straight from
\* the client that releases it.
LeaseProtocol == Lease!Spec

-----------------------------------------------------------------------------
\* What the comments and the configuration file say of the pool.

\* dbmesh.yaml: `max` is the "maximum pool connections".
NeverAboveMax == Cardinality(all) <= MaxConns

\* connection_pool.h: drain() "Closes every connection".
DrainClosesEverything == shutting_down => all = {}

\* connection_pool.h: drain() "fails all waiters".
DrainFailsWaiters ==
  [][\A k \in Client : shutting_down /\ pc[k] = "woken" => pc'[k] # "holding"]_vars

\* connection_pool.h: acquire() waits "On exhaustion [...] then returns TIMED_OUT":
\* at that moment there is no idle connection and no room for another one.
TimedOutOnlyWhenExhausted ==
  [][\A k \in Client :
       pc[k] = "woken" /\ pc'[k] = "TIMED_OUT" /\ ~shutting_down =>
         free_list = <<>> /\ Cardinality(all) >= MaxConns]_vars

\* dbmesh.yaml: acquire_timeout_ms is the "max wait for a pool connection".
AcquireIsBounded ==
  \A k \in Client :
    pc[k] \in {"connecting", "waiting", "woken"} ~> pc[k] \in Returned \union {"holding"}

\* connection_pool.cpp on a connect that fails while warming: "idle reaper retries
\* later"; dbmesh.yaml on `min`: "maintained always".
MinRestored == warm = "done" ~> Cardinality(all) >= MinConns \/ shutting_down

=============================================================================
