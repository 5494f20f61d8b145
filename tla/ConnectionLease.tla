--------------------------- MODULE ConnectionLease --------------------------
(***************************************************************************)
(* What a connection pool promises its clients, without queues, timers or  *)
(* limits: a connection is idle or lent to one client, a client has at     *)
(* most one, a lent connection comes back only from its borrower, and      *)
(* after Shutdown there are no connections at all.                         *)
(***************************************************************************)
CONSTANTS Client, Conn, NoConn

VARIABLES
  idle,  \* connections ready to be lent
  lease, \* the connection each client has, or NoConn
  open   \* FALSE after Shutdown

vars == <<idle, lease, open>>

Lent == {lease[k] : k \in Client} \ {NoConn}

Init ==
  /\ idle = {}
  /\ lease = [k \in Client |-> NoConn]
  /\ open = TRUE

\* A new connection is opened ahead of time, or for a client.
OpenIdle(c) ==
  /\ c \notin idle \union Lent
  /\ idle' = idle \union {c}
  /\ UNCHANGED lease

OpenFor(k, c) ==
  /\ c \notin idle \union Lent
  /\ lease[k] = NoConn
  /\ lease' = [lease EXCEPT ![k] = c]
  /\ UNCHANGED idle

Borrow(k, c) ==
  /\ c \in idle
  /\ lease[k] = NoConn
  /\ idle' = idle \ {c}
  /\ lease' = [lease EXCEPT ![k] = c]

GiveBack(k) ==
  /\ lease[k] # NoConn
  /\ idle' = idle \union {lease[k]}
  /\ lease' = [lease EXCEPT ![k] = NoConn]

Discard(k) ==
  /\ lease[k] # NoConn
  /\ lease' = [lease EXCEPT ![k] = NoConn]
  /\ UNCHANGED idle

\* The borrower's connection goes straight to another client.
HandOver(j, k) ==
  /\ lease[j] # NoConn
  /\ lease[k] = NoConn
  /\ j # k
  /\ lease' = [lease EXCEPT ![j] = NoConn, ![k] = lease[j]]
  /\ UNCHANGED idle

Evict(S) ==
  /\ idle' = idle \ S
  /\ UNCHANGED lease

Serve ==
  \/ \E c \in Conn : OpenIdle(c)
  \/ \E k \in Client, c \in Conn : OpenFor(k, c) \/ Borrow(k, c)
  \/ \E k \in Client : GiveBack(k) \/ Discard(k)
  \/ \E j, k \in Client : HandOver(j, k)
  \/ \E S \in SUBSET idle : Evict(S)

Shutdown ==
  /\ open' = FALSE
  /\ idle' = {}
  /\ lease' = [k \in Client |-> NoConn]

Next ==
  /\ open
  /\ \/ Serve /\ UNCHANGED open
     \/ Shutdown

Spec == Init /\ [][Next]_vars

=============================================================================
