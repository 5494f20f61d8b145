---------------------------- MODULE QuerySession ----------------------------
(***************************************************************************)
(* Client sessions that forward their queries over pooled connections:     *)
(* protocol/mysql/src/mysql_connection.cpp, with the accept loop of        *)
(* mysql_frontend.cpp.                                                     *)
(*                                                                         *)
(* The pool is ConnectionLease, which ConnectionPool implements up to      *)
(* drain(): acquire() borrows, opens or is handed a connection, release()  *)
(* gives it back, hands it over or discards it.  The backend server and    *)
(* the client are external; packets are abstracted to their kind and, from *)
(* the backend, to the query they answer.  The phase of a response is      *)
(* where its reader is in it: before the first packet, in the column       *)
(* definitions, in the rows, or done.  A client that has had a packet too  *)
(* many takes it for the answer to its next command, and stays ahead of    *)
(* its session from then on: its response is "garbled".                    *)
(***************************************************************************)
EXTENDS Integers, Sequences, Functions

CONSTANTS
  Client,    \* clients, and the sessions that serve them
  Conn,      \* addresses of pooled connections
  NoConn,
  MaxUnread, \* bound on the packets under way from a backend
  RowError   \* whether backends may end a result with ERR instead of EOF

ASSUME SessionAssumption ==
  /\ NoConn \notin Conn
  /\ MaxUnread \in Nat \ {0}
  /\ RowError \in BOOLEAN

VARIABLES
  idle, lease, \* the pool
  wire,        \* packets from each backend not yet read
  jobs,        \* queries each backend has to answer, and how far it is
  dead,        \* connections whose backend has gone away
  at,          \* where each session's coroutine is
  returning,   \* a release() on its way to the pool's strand, and its verdict
  turn,        \* tells a client's current query from its previous one
  view,        \* the phase of the response each client is receiving
  gone         \* clients that have disconnected

pool == <<idle, lease>>
backends == <<wire, jobs, dead>>
clients == <<view, gone>>
vars == <<pool, backends, at, returning, turn, clients>>

Pool == INSTANCE ConnectionLease WITH open <- TRUE

Phase == {"first", "cols", "rows", "done"}
Reading == {"first", "cols", "rows"}
Kind == {"OK", "ERR", "COUNT", "COL", "EOF", "ROW"}
Tag == Client \X {0, 1}

TypeOK ==
  /\ idle \in SUBSET Conn
  /\ lease \in [Client -> Conn \union {NoConn}]
  /\ wire \in [Conn -> Seq([for : Tag, kind : Kind])]
  /\ jobs \in [Conn -> Seq([for : Tag, phase : Reading])]
  /\ dead \in [Conn -> BOOLEAN]
  /\ at \in [Client -> {"closed", "login", "command", "reply", "acquiring", "writing",
                        "served", "failed"} \union Reading]
  /\ returning \in [Client -> {"no", "healthy", "broken"}]
  /\ turn \in [Client -> {0, 1}]
  /\ view \in [Client -> Phase \union {"garbled"}]
  /\ gone \in [Client -> BOOLEAN]

Init ==
  /\ Pool!Init
  /\ wire = [c \in Conn |-> <<>>]
  /\ jobs = [c \in Conn |-> <<>>]
  /\ dead = [c \in Conn |-> FALSE]
  /\ at = [k \in Client |-> "closed"]
  /\ returning = [k \in Client |-> "no"]
  /\ turn = [k \in Client |-> 0]
  /\ view = [k \in Client |-> "done"]
  /\ gone = [k \in Client |-> FALSE]

\* The phase after a packet.  ERR ends a response anywhere in it; a packet that does
\* not belong there, or comes after the end, garbles it.
After(phase, kind) ==
  CASE phase \in Reading /\ kind = "ERR" -> "done"
    [] phase = "first" /\ kind = "OK" -> "done"
    [] phase = "first" /\ kind = "COUNT" -> "cols"
    [] phase = "cols" /\ kind = "COL" -> "cols"
    [] phase = "cols" /\ kind = "EOF" -> "rows"
    [] phase = "rows" /\ kind = "ROW" -> "rows"
    [] phase = "rows" /\ kind = "EOF" -> "done"
    [] OTHER -> "garbled"

GoTo(k, pc) == at' = [at EXCEPT ![k] = pc]

\* The sockets of a set of connections are closed.
Close(S) ==
  /\ wire' = [c \in Conn |-> IF c \in S THEN <<>> ELSE wire[c]]
  /\ jobs' = [c \in Conn |-> IF c \in S THEN <<>> ELSE jobs[c]]
  /\ dead' = [c \in Conn |-> dead[c] /\ c \notin S]

-----------------------------------------------------------------------------
\* accept_loop, do_run and command_loop

Accept(k) ==
  /\ at[k] = "closed"
  /\ GoTo(k, "login")
  /\ gone' = [gone EXCEPT ![k] = FALSE]
  /\ view' = [view EXCEPT ![k] = "done"]
  /\ UNCHANGED <<pool, backends, returning, turn>>

\* Greeting, HandshakeResponse41 and OK.  Every user is accepted; a response that
\* cannot be read or decoded ends the session.
LoginOk(k) ==
  /\ at[k] = "login"
  /\ ~gone[k]
  /\ GoTo(k, "command")
  /\ UNCHANGED <<pool, backends, returning, turn, clients>>

LoginFails(k) ==
  /\ at[k] = "login"
  /\ GoTo(k, "closed")
  /\ UNCHANGED <<pool, backends, returning, turn, clients>>

\* A client sends a command when it has seen the end of a response.
Ask(k) ==
  /\ view[k] \notin Reading
  /\ ~gone[k]
  /\ view' = [view EXCEPT ![k] = IF @ = "done" THEN "first" ELSE @]

\* COM_QUIT, an empty packet, or a read error: the loop ends.
Quit(k) ==
  /\ at[k] = "command"
  /\ view[k] \notin Reading \/ gone[k]
  /\ GoTo(k, "closed")
  /\ UNCHANGED <<pool, backends, returning, turn, clients>>

\* A command that is answered with one packet without a backend: COM_PING,
\* COM_INIT_DB, SET, USE, BEGIN, COMMIT, an unsupported command, or a query that
\* RoutingEngine::plan rejects or whose backend has no pool.
LocalCommand(k) ==
  /\ at[k] = "command"
  /\ Ask(k)
  /\ GoTo(k, "reply")
  /\ UNCHANGED <<pool, backends, returning, turn, gone>>

\* A COM_QUERY that is planned and calls acquire().
Query(k) ==
  /\ at[k] = "command"
  /\ Ask(k)
  /\ turn' = [turn EXCEPT ![k] = 1 - turn[k]]
  /\ GoTo(k, "acquiring")
  /\ UNCHANGED <<pool, backends, returning, gone>>

\* send_ok, send_err: one packet.  (OK, which only answers a command that was not
\* forwarded, ends the response just as ERR does.)  send() throws when the client is
\* gone, and run() ends the session.
Reply(k) ==
  /\ at[k] = "reply"
  /\ GoTo(k, IF gone[k] THEN "closed" ELSE "command")
  /\ view' = [view EXCEPT ![k] = IF gone[k] THEN @ ELSE After(@, "ERR")]
  /\ UNCHANGED <<pool, backends, returning, turn, gone>>

-----------------------------------------------------------------------------
\* route_and_forward

\* acquire() queues on the strand behind the session's own release().
AcquireErr(k) ==
  /\ at[k] = "acquiring"
  /\ returning[k] = "no"
  /\ GoTo(k, "reply")
  /\ UNCHANGED <<pool, backends, returning, turn, clients>>

AcquireIdle(k) ==
  /\ at[k] = "acquiring"
  /\ returning[k] = "no"
  /\ \E c \in Conn : Pool!Borrow(k, c)
  /\ GoTo(k, "writing")
  /\ UNCHANGED <<backends, returning, turn, clients>>

AcquireNew(k) ==
  /\ at[k] = "acquiring"
  /\ returning[k] = "no"
  /\ \E c \in Conn : Pool!OpenFor(k, c)
  /\ GoTo(k, "writing")
  /\ UNCHANGED <<backends, returning, turn, clients>>

\* pool->release(pooled, ok), on the way out of the try block.
Release(k, ok) ==
  /\ returning' = [returning EXCEPT ![k] = IF ok THEN "healthy" ELSE "broken"]
  /\ GoTo(k, IF ok THEN "served" ELSE "failed")

\* Writing to a backend that has gone away may still succeed.
WriteQuery(k) ==
  LET c == lease[k]
  IN  /\ at[k] = "writing"
      /\ jobs' = [jobs EXCEPT ![c] = IF dead[c] THEN @ ELSE
                    Append(@, [for |-> <<k, turn[k]>>, phase |-> "first"])]
      /\ GoTo(k, "first")
      /\ UNCHANGED <<pool, wire, dead, returning, turn, clients>>

WriteFails(k) ==
  /\ at[k] = "writing"
  /\ dead[lease[k]]
  /\ Release(k, FALSE)
  /\ UNCHANGED <<pool, backends, turn, clients>>

\* Mutant: ERR is not recognised as a complete response.
ProxiedOnlyOK(phase, kind) ==
  CASE phase = "first" /\ kind = "OK" -> "done"
    [] phase = "first" /\ kind # "OK" -> "cols"
    [] phase = "cols" /\ kind = "EOF" -> "rows"
    [] phase = "rows" /\ kind = "EOF" -> "done"
    [] OTHER -> phase

\* What proxy_result does after a packet: OK, ERR and LOCAL INFILE are complete in
\* the first packet, a result set at the second EOF.
Proxied(phase, kind) ==
  CASE phase = "first" /\ kind \in {"OK", "ERR"} -> "done"
    [] phase = "first" /\ kind \notin {"OK", "ERR"} -> "cols"
    [] phase = "cols" /\ kind = "EOF" -> "rows"
    [] phase = "rows" /\ kind = "EOF" -> "done"
    [] OTHER -> phase

\* One packet of proxy_result: read it, send it on, look at it.
Forward(k) ==
  LET c == lease[k]
      kind == Head(wire[c]).kind
      next == Proxied(at[k], kind)
  IN  /\ at[k] \in Reading
      /\ wire[c] # <<>>
      /\ ~gone[k]
      /\ wire' = [wire EXCEPT ![c] = Tail(@)]
      /\ view' = [view EXCEPT ![k] = After(@, kind)]
      /\ IF next = "done" THEN Release(k, TRUE)
                          ELSE GoTo(k, next) /\ UNCHANGED returning
      /\ UNCHANGED <<pool, jobs, dead, turn, gone>>

\* Mutant: the handler of the exception forgets ok = false.
ForwardToNobodyHealthy(k) ==
  LET c == lease[k]
  IN  /\ at[k] \in Reading
      /\ wire[c] # <<>>
      /\ gone[k]
      /\ wire' = [wire EXCEPT ![c] = Tail(@)]
      /\ Release(k, TRUE)
      /\ UNCHANGED <<pool, jobs, dead, turn, clients>>

\* Mutant: the exception is not caught before run().
ForwardToNobodyThrows(k) ==
  LET c == lease[k]
  IN  /\ at[k] \in Reading
      /\ wire[c] # <<>>
      /\ gone[k]
      /\ wire' = [wire EXCEPT ![c] = Tail(@)]
      /\ GoTo(k, "closed")
      /\ UNCHANGED <<pool, jobs, dead, returning, turn, clients>>

\* send() throws inside the try block.
ForwardToNobody(k) ==
  LET c == lease[k]
  IN  /\ at[k] \in Reading
      /\ wire[c] # <<>>
      /\ gone[k]
      /\ wire' = [wire EXCEPT ![c] = Tail(@)]
      /\ Release(k, FALSE)
      /\ UNCHANGED <<pool, jobs, dead, turn, clients>>

ReadFails(k) ==
  /\ at[k] \in Reading
  /\ dead[lease[k]]
  /\ Release(k, FALSE)
  /\ UNCHANGED <<pool, backends, turn, clients>>

\* Mutant: no error is sent after a failed query.
CountSilently(k) ==
  /\ at[k] \in {"served", "failed"}
  /\ GoTo(k, "command")
  /\ UNCHANGED <<pool, backends, returning, turn, clients>>

\* pooled->queries_served++, after release(); then the next command, or the error.
Count(k) ==
  /\ at[k] \in {"served", "failed"}
  /\ GoTo(k, IF at[k] = "served" THEN "command" ELSE "reply")
  /\ UNCHANGED <<pool, backends, returning, turn, clients>>

-----------------------------------------------------------------------------
\* The pool's side

ReleaseBack(k) ==
  /\ returning[k] = "healthy"
  /\ Pool!GiveBack(k)
  /\ returning' = [returning EXCEPT ![k] = "no"]
  /\ UNCHANGED <<backends, at, turn, clients>>

ReleaseTo(k, j) ==
  /\ returning[k] = "healthy"
  /\ at[j] = "acquiring"
  /\ Pool!HandOver(k, j)
  /\ returning' = [returning EXCEPT ![k] = "no"]
  /\ GoTo(j, "writing")
  /\ UNCHANGED <<backends, turn, clients>>

\* Mutant: the caller's verdict is ignored.
ReleaseBrokenBack(k) ==
  /\ returning[k] = "broken"
  /\ Pool!GiveBack(k)
  /\ returning' = [returning EXCEPT ![k] = "no"]
  /\ UNCHANGED <<backends, at, turn, clients>>

ReleaseBroken(k) ==
  /\ returning[k] = "broken"
  /\ Pool!Discard(k)
  /\ Close({lease[k]})
  /\ returning' = [returning EXCEPT ![k] = "no"]
  /\ UNCHANGED <<at, turn, clients>>

\* warm() and the idle reaper
WarmOne ==
  /\ \E c \in Conn : Pool!OpenIdle(c)
  /\ UNCHANGED <<backends, at, returning, turn, clients>>

Reap ==
  /\ \E S \in SUBSET idle : Pool!Evict(S) /\ Close(S)
  /\ UNCHANGED <<at, returning, turn, clients>>

-----------------------------------------------------------------------------
\* Backends and clients (external)

Answers(phase) ==
  CASE phase = "first" -> {"OK", "ERR", "COUNT"}
    [] phase = "cols" -> {"COL", "EOF"}
    [] phase = "rows" -> {"ROW", "EOF"} \union (IF RowError THEN {"ERR"} ELSE {})

BackendSends(c, kind) ==
  /\ jobs[c] # <<>>
  /\ Len(wire[c]) < MaxUnread
  /\ LET job == Head(jobs[c])
         next == After(job.phase, kind)
     IN  /\ kind \in Answers(job.phase)
         /\ wire' = [wire EXCEPT ![c] = Append(@, [for |-> job.for, kind |-> kind])]
         /\ jobs' = [jobs EXCEPT ![c] = IF next = "done" THEN Tail(@)
                                                         ELSE [@ EXCEPT ![1].phase = next]]
  /\ UNCHANGED <<pool, dead, at, returning, turn, clients>>

BackendDies(c) ==
  /\ ~dead[c]
  /\ c \in idle \union Pool!Lent
  /\ dead' = [dead EXCEPT ![c] = TRUE]
  /\ jobs' = [jobs EXCEPT ![c] = <<>>]
  /\ UNCHANGED <<pool, wire, at, returning, turn, clients>>

ClientLeaves(k) ==
  /\ at[k] # "closed"
  /\ ~gone[k]
  /\ gone' = [gone EXCEPT ![k] = TRUE]
  /\ UNCHANGED <<pool, backends, at, returning, turn, view>>

-----------------------------------------------------------------------------

acquire(k) == AcquireErr(k) \/ AcquireIdle(k) \/ AcquireNew(k)

route_and_forward(k) ==
  \/ WriteQuery(k) \/ WriteFails(k) \/ Forward(k) \/ ForwardToNobody(k) \/ ReadFails(k)
  \/ Count(k)

command_loop(k) == Quit(k) \/ LocalCommand(k) \/ Query(k)

Returned(k) == ReleaseBack(k) \/ ReleaseBroken(k) \/ \E j \in Client : ReleaseTo(k, j)

Next ==
  \/ \E k \in Client :
       \/ Accept(k) \/ LoginOk(k) \/ LoginFails(k)
       \/ command_loop(k)
       \/ Reply(k)
       \/ acquire(k)
       \/ route_and_forward(k)
       \/ Returned(k)
       \/ ClientLeaves(k)
  \/ WarmOne
  \/ Reap
  \/ \E c \in Conn : BackendDies(c) \/ \E kind \in Kind : BackendSends(c, kind)

Spec == Init /\ [][Next]_vars

\* Coroutines whose operation has completed run on; acquire() returns; a backend
\* goes on sending and its results are finite.
Fairness ==
  /\ \A k \in Client :
       WF_vars(Reply(k)) /\ WF_vars(acquire(k)) /\ WF_vars(route_and_forward(k))
       /\ WF_vars(Returned(k))
  /\ \A c \in Conn :
       /\ WF_vars(\E kind \in Kind : BackendSends(c, kind))
       /\ SF_vars(BackendSends(c, "EOF"))

FairSpec == Spec /\ Fairness

-----------------------------------------------------------------------------
\* Safety

\* Nobody's query is answered with another query's packets: whatever a session can
\* still read from its connection, or its backend has still to answer, belongs to
\* the query it forwarded last.
OwnAnswer ==
  \A k \in Client :
    at[k] \in Reading =>
      /\ \A p \in Range(wire[lease[k]]) : p.for = <<k, turn[k]>>
      /\ \A job \in Range(jobs[lease[k]]) : job.for = <<k, turn[k]>>

\* A connection that is put aside, or handed on, is clean: the previous answer was
\* read to its end.
CleanHandOver ==
  \A c \in Conn :
    c \in idle \/ (\E k \in Client : lease[k] = c /\ at[k] = "writing") =>
      wire[c] = <<>> /\ jobs[c] = <<>>

\* A session has a connection exactly from acquire() to release(), also when it
\* ends in the middle of a result: no error path leaks a connection.
NoLeak ==
  \A k \in Client :
    (lease[k] # NoConn) <=> (at[k] \in {"writing"} \union Reading \/ returning[k] # "no")

\* When a session reads the next command its client has had a complete response to
\* the previous one, and not a packet more, also when the backend died in the middle
\* of it.  That is so as long as results end with EOF (~RowError): route_and_forward
\* sends an ERR of its own after an ERR that proxy_result took for a row.
ResponseComplete == \A k \in Client : at[k] \in {"command", "served"} => view[k] = "done"

\* Whatever a result ends with, no client is left in the middle of a response when its
\* session reads the next command.
ResponseEnds == \A k \in Client : at[k] \in {"command", "served"} => view[k] \notin Reading

\* Every command is answered or its session ends.
CommandsComplete ==
  \A k \in Client :
    at[k] \notin {"closed", "login", "command"} ~> at[k] \in {"command", "closed"}

\* connection_pool.h: release() "Returns a connection to the pool": the session has
\* finished with it when the pool takes it back.
ReleaseIsLastUse == \A k \in Client : at[k] \in {"served", "failed"} => lease[k] # NoConn

=============================================================================
