----------------------- MODULE ConnectionPoolTheorems -----------------------
(***************************************************************************)
(* What follows from the inductive invariant of ConnectionPoolProofs:      *)
(* metrics, limits, the order of service, shutdown, and the leasing        *)
(* protocol.                                                               *)
(***************************************************************************)
EXTENDS ConnectionPoolProofs

-----------------------------------------------------------------------------
\* Metrics

\* A handler stores the sizes of the lists or leaves the lists alone.
LEMMA ListsSynced == [Next]_vars => sync_metrics \/ UNCHANGED lists
<1> SUFFICES ASSUME [Next]_vars PROVE sync_metrics \/ UNCHANGED lists
  OBVIOUS
<1> USE DEF lists
<1>1. ASSUME NEW k \in Client, acquire_impl(k) \/ FactoryAnswers(k)
      PROVE  sync_metrics \/ UNCHANGED lists
  BY <1>1 DEF acquire_impl, FactoryAnswers, AcquireShutdown, AcquireFree, AcquireConnect,
              AcquireWait, ConnectOk, ConnectErr
<1>2. ASSUME NEW k \in Client, TimerExpires(k) \/ WaiterResumes(k)
      PROVE  sync_metrics \/ UNCHANGED lists
  BY <1>2 DEF TimerExpires, WaiterResumes, WaiterOk, WaiterTimedOut
<1>3. ASSUME NEW k \in Client, NEW how \in Releasing, CallRelease(k, how) \/ release(k)
      PROVE  sync_metrics \/ UNCHANGED lists
  BY <1>3 DEF CallRelease, release, ReleaseUnknown, ReleaseClose, ReleaseHandOver, ReleaseIdle
<1>4. ASSUME WarmStart \/ WarmAnswered \/ drain_impl
      PROVE  sync_metrics \/ UNCHANGED lists
  BY <1>4 DEF WarmStart, WarmAnswered, WarmOk, WarmErr, drain_impl
<1>5. ASSUME idle_reaper_impl \/ IdleTimerExpires
      PROVE  sync_metrics \/ UNCHANGED lists
  BY <1>5 DEF idle_reaper_impl, IdleTimerExpires, ReaperStart, ReaperStops, IdleSweep
<1>6. CASE UNCHANGED vars BY <1>6 DEF vars
<1>7. Releasing # {} BY DEF Releasing
<1>8. QED BY <1>1, <1>2, <1>3, <1>4, <1>5, <1>6, <1>7 DEF Next

\* What other threads read from the atomics is what the lists are.
THEOREM MetricsAreExact == Spec => []MetricsExact
<1>1. Init => MetricsExact BY DEF Init, MetricsExact
<1>2. MetricsExact /\ [Next]_vars => MetricsExact'
  BY ListsSynced DEF MetricsExact, sync_metrics, lists
<1>3. QED BY <1>1, <1>2, PTL DEF Spec

-----------------------------------------------------------------------------
\* Queued clients and idle connections

\* A client is queued, and a connection put aside, only when the other list is empty.
LEMMA NextNoIdle == IInv /\ NoIdleWhileQueued /\ [Next]_vars => NoIdleWhileQueued'
<1> SUFFICES ASSUME IInv, NoIdleWhileQueued, [Next]_vars, warm' = "off", waiters' # <<>>
             PROVE  free_list' = <<>>
  BY DEF NoIdleWhileQueued
<1> USE DEF lists, tasks
<1>1. ASSUME NEW k \in Client, acquire_impl(k) \/ FactoryAnswers(k)
      PROVE  free_list' = <<>>
  BY <1>1 DEF acquire_impl, FactoryAnswers, AcquireShutdown, AcquireFree, AcquireConnect,
              AcquireWait, ConnectOk, ConnectErr, NoIdleWhileQueued
<1>2. ASSUME NEW k \in Client, TimerExpires(k) \/ WaiterOk(k)
      PROVE  free_list' = <<>>
  BY <1>2 DEF TimerExpires, WaiterOk, NoIdleWhileQueued
<1>3. ASSUME NEW k \in Client, WaiterTimedOut(k)
      PROVE  free_list' = <<>>
  <2>1. waiters # <<>>
    <3>1. waiters = <<>> => DOMAIN waiters = {} OBVIOUS
    <3>2. QED BY <3>1, <1>3 DEF WaiterTimedOut
  <2>2. QED BY <2>1, <1>3 DEF WaiterTimedOut, NoIdleWhileQueued
<1>4. ASSUME NEW k \in Client, NEW how \in Releasing, CallRelease(k, how) \/ release(k)
      PROVE  free_list' = <<>>
  BY <1>4 DEF CallRelease, release, ReleaseUnknown, ReleaseClose, ReleaseHandOver, ReleaseIdle,
              NoIdleWhileQueued
<1>5. ASSUME WarmStart \/ WarmAnswered PROVE FALSE
  BY <1>5 DEF WarmStart, WarmAnswered, WarmLoop, WarmOk, WarmErr
<1>6. ASSUME IdleSweep PROVE free_list' = <<>>
  <2>1. free_list = <<>> BY <1>6 DEF IdleSweep, NoIdleWhileQueued
  <2>2. PICK n \in 0..Len(free_list) :
          free_list' = SubSeq(free_list, Evictable(n) + 1, Len(free_list))
    BY Zenon, <1>6 DEF IdleSweep
  <2>3. Evictable(n) \in 0..n
    <3>1. Len(free_list) \in Nat BY DEF IInv, TypeOK
    <3>2. QED BY <3>1, EvictableFacts DEF IInv
  <2>4. Evictable(n) + 1 \in Int /\ 0 \in Int /\ 0 < Evictable(n) + 1 /\ Len(<<>>) = 0
    BY <2>1, <2>3
  <2>5. SubSeq(<<>>, Evictable(n) + 1, 0) = <<>> BY <2>4
  <2>6. QED BY <2>1, <2>2, <2>4, <2>5
<1>7. ASSUME ReaperStart \/ ReaperStops \/ IdleTimerExpires PROVE free_list' = <<>>
  BY <1>7 DEF ReaperStart, ReaperStops, IdleTimerExpires, NoIdleWhileQueued
<1>8. CASE drain_impl BY <1>8 DEF drain_impl
<1>9. CASE UNCHANGED vars BY <1>9 DEF vars, NoIdleWhileQueued
<1>10. Releasing # {} BY DEF Releasing
<1>11. QED
  BY <1>1, <1>2, <1>3, <1>4, <1>5, <1>6, <1>7, <1>8, <1>9, <1>10
  DEF Next, WaiterResumes, idle_reaper_impl

\* A pool that is not warmed never keeps a client queued next to an idle connection.
THEOREM NoClientWaitsForAnIdleConnection == Spec => []NoIdleWhileQueued
<1>1. Init => NoIdleWhileQueued BY DEF Init, NoIdleWhileQueued
<1>2. QED BY <1>1, NextNoIdle, Invariance, PTL DEF Spec

-----------------------------------------------------------------------------
\* The limit

\* Clients at the same point of a call are finitely many, at most all of them.
LEMMA ClientSubset ==
  ASSUME NEW S, S \subseteq Client
  PROVE  /\ IsFiniteSet(S) /\ Cardinality(S) \in Nat
         /\ Cardinality(Client) \in Nat /\ Cardinality(S) <= Cardinality(Client)
<1>1. IsFiniteSet(Client) BY ConstAssumption
<1>2. IsFiniteSet(S) /\ Cardinality(S) <= Cardinality(Client) BY <1>1, FS_Subset
<1>3. QED BY <1>1, <1>2, FS_CardinalityType

\* A check that found room bounds the pool whatever else is in flight.
LEMMA RoomBounds ==
  ASSUME Cardinality(all') \in Nat, Cardinality(all') < MaxConns
  PROVE  CapacityBound'
<1>1. Connecting' \subseteq Client BY DEF Connecting
<1>2. /\ Cardinality(Connecting') \in Nat /\ Cardinality(Client) \in Nat
      /\ Cardinality(Connecting') <= Cardinality(Client)
  BY <1>1, ClientSubset
<1>3. QED BY <1>2, ConstAssumption DEF CapacityBound

\* A step that opens nothing and starts no connect.
LEMMA NoGrowthBounds ==
  ASSUME IInv, CapacityBound, all' \subseteq all, Connecting' \subseteq Connecting,
         warm' = "connecting" => warm = "connecting"
  PROVE  CapacityBound'
<1>1. Cardinality(all) \in Nat /\ Cardinality(all') \in Nat /\ Cardinality(all') <= Cardinality(all)
  <2>1. IsFiniteSet(all) BY DEF IInv
  <2>2. IsFiniteSet(all') /\ Cardinality(all') <= Cardinality(all) BY <2>1, FS_Subset
  <2>3. QED BY <2>1, <2>2, FS_CardinalityType
<1>2. /\ Cardinality(Connecting) \in Nat /\ Cardinality(Connecting') \in Nat
      /\ Cardinality(Connecting') <= Cardinality(Connecting)
  <2>1. Connecting \subseteq Client BY DEF Connecting
  <2>2. IsFiniteSet(Connecting) /\ Cardinality(Connecting) \in Nat BY <2>1, ClientSubset
  <2>3. IsFiniteSet(Connecting') /\ Cardinality(Connecting') <= Cardinality(Connecting)
    BY <2>2, FS_Subset
  <2>4. QED BY <2>2, <2>3, FS_CardinalityType
<1>3. Cardinality(Client) \in Nat BY ClientSubset
<1>4. QED BY <1>1, <1>2, <1>3, ConstAssumption DEF CapacityBound

\* Every check for room, connect and close keeps the bound.
LEMMA NextCapacity == IInv /\ CapacityBound /\ [Next]_vars => CapacityBound'
<1> SUFFICES ASSUME IInv, CapacityBound, [Next]_vars PROVE CapacityBound'
  OBVIOUS
<1> USE DEF lists, tasks, calls
<1>1. Cardinality(all) \in Nat BY FS_CardinalityType DEF IInv
<1>2. ASSUME NEW k \in Client, AcquireConnect(k) PROVE CapacityBound'
  BY <1>1, <1>2, RoomBounds DEF AcquireConnect
<1>3. ASSUME NEW k \in Client, ConnectOk(k) PROVE CapacityBound'
  <2>1. PICK c \in Conn : track(c) /\ Return(k, "holding", c) BY <1>3 DEF ConnectOk
  <2>2. Cardinality(all') = Cardinality(all) + 1 BY <2>1, FS_AddElement DEF IInv, track
  <2>3. Connecting \subseteq Client /\ k \in Connecting /\ Connecting' = Connecting \ {k}
    BY <2>1, <1>3 DEF Connecting, ConnectOk, Return, IInv, TypeOK
  <2>4. IsFiniteSet(Connecting) /\ Cardinality(Connecting) \in Nat BY <2>3, ClientSubset
  <2>5. Cardinality(Connecting') = Cardinality(Connecting) - 1
    BY Zenon, <2>3, <2>4, FS_RemoveElement
  <2>6. warm' = warm BY <1>3 DEF ConnectOk
  <2>7. Cardinality(Client) \in Nat BY ClientSubset
  <2>8. QED BY <1>1, <2>2, <2>4, <2>5, <2>6, <2>7, ConstAssumption DEF CapacityBound
<1>4. CASE WarmStart
  <2>1. CASE Cardinality(all) < MaxConns BY <1>1, <1>4, <2>1, RoomBounds DEF WarmStart
  <2>2. CASE ~(Cardinality(all) < MaxConns)
    <3>1. warm' = "done" /\ UNCHANGED <<all, pc>> BY <1>4, <2>2 DEF WarmStart, WarmLoop
    <3>2. QED BY <3>1, NoGrowthBounds DEF Connecting
  <2>3. QED BY <2>1, <2>2
<1>5. CASE WarmOk
  <2>1. PICK c \in Conn : track(c) BY <1>5 DEF WarmOk
  <2>2. Cardinality(all') = Cardinality(all) + 1 BY ZenonT(40), <2>1, FS_AddElement DEF IInv, track
  <2>3. CASE Cardinality(all') < MaxConns BY <1>1, <2>2, <2>3, RoomBounds
  <2>4. CASE ~(Cardinality(all') < MaxConns)
    <3>1. warm = "connecting" /\ warm' = "done" /\ pc' = pc
      BY <1>5, <2>2, <2>4 DEF WarmOk, WarmLoop
    <3>2. Connecting \subseteq Client /\ Connecting' = Connecting BY <3>1 DEF Connecting
    <3>3. Cardinality(Connecting) \in Nat /\ Cardinality(Client) \in Nat BY <3>2, ClientSubset
    <3>4. QED BY <1>1, <2>2, <3>1, <3>2, <3>3, ConstAssumption DEF CapacityBound
  <2>5. QED BY <2>3, <2>4
<1>6. ASSUME NEW k \in Client,
             \/ AcquireShutdown(k) \/ AcquireFree(k) \/ AcquireWait(k) \/ ConnectErr(k)
             \/ TimerExpires(k) \/ WaiterResumes(k)
      PROVE  CapacityBound'
  <2>1. all' = all /\ warm' = warm
    BY ZenonT(40), <1>6 DEF AcquireShutdown, AcquireFree, AcquireWait, ConnectErr, TimerExpires,
                WaiterResumes, WaiterOk, WaiterTimedOut
  <2>2. \A j \in Client : pc'[j] = "connecting" => pc[j] = "connecting"
    BY <1>6 DEF AcquireShutdown, AcquireFree, AcquireWait, ConnectErr, TimerExpires,
                WaiterResumes, WaiterOk, WaiterTimedOut, Return, IInv, TypeOK
  <2>3. QED BY <2>1, <2>2, NoGrowthBounds DEF Connecting
<1>7. ASSUME NEW k \in Client, NEW how \in Releasing, CallRelease(k, how) \/ release(k)
      PROVE  CapacityBound'
  <2>1. all' \subseteq all /\ warm' = warm
    BY <1>7 DEF CallRelease, release, ReleaseUnknown, ReleaseClose, ReleaseHandOver,
                ReleaseIdle, untrack
  <2>2. \A j \in Client : pc'[j] = "connecting" => pc[j] = "connecting"
    BY ZenonT(40), <1>7 DEF CallRelease, release, ReleaseUnknown, ReleaseClose, ReleaseHandOver,
                ReleaseIdle, Return, Releasing, IInv, TypeOK
  <2>3. QED BY <2>1, <2>2, NoGrowthBounds DEF Connecting
<1>8. CASE WarmErr \/ idle_reaper_impl \/ IdleTimerExpires
  <2>1. all' \subseteq all /\ pc' = pc /\ (warm' = "connecting" => warm = "connecting")
    BY <1>8 DEF WarmErr, idle_reaper_impl, IdleTimerExpires, ReaperStart, ReaperStops, IdleSweep
  <2>2. QED BY <2>1, NoGrowthBounds DEF Connecting
<1>9. CASE drain_impl
  <2>1. all' = {} /\ warm' = warm /\ \A j \in Client : pc'[j] = "connecting" => pc[j] = "connecting"
    BY <1>9 DEF drain_impl
  <2>2. QED BY <2>1, NoGrowthBounds DEF Connecting
<1>10. CASE UNCHANGED vars BY <1>10, NoGrowthBounds DEF vars, Connecting
<1>11. Releasing # {} BY DEF Releasing
<1>12. QED
  BY <1>2, <1>3, <1>4, <1>5, <1>6, <1>7, <1>8, <1>9, <1>10, <1>11
  DEF Next, acquire_impl, FactoryAnswers, WarmAnswered

\* Whatever the number of clients, connects in flight exceed max by at most one
\* connection per client.
THEOREM CapacityIsBounded == Spec => []CapacityBound
<1>1. Init => CapacityBound
  <2> SUFFICES ASSUME Init PROVE CapacityBound OBVIOUS
  <2>1. Connecting = {} BY DEF Init, Connecting
  <2>2. Cardinality(Connecting) = 0 /\ Cardinality(all) = 0 BY <2>1, FS_EmptySet DEF Init
  <2>3. Cardinality(Client) \in Nat BY ClientSubset
  <2>4. QED BY <2>2, <2>3, ConstAssumption DEF CapacityBound, Init
<1>2. QED BY <1>1, NextCapacity, Invariance, PTL DEF Spec

-----------------------------------------------------------------------------
\* Shutdown

\* The step property behind ShutdownIsFinal, one case per handler.
LEMMA NextFinal == IInv /\ [Next]_vars => Final
<1> SUFFICES ASSUME IInv, [Next]_vars, shutting_down PROVE Final
  BY DEF Final
<1> USE DEF Final, lists, tasks, calls
<1>1. \A j \in Client : pc[j] \in Returned => conn[j] = NoConn BY DEF IInv, CallsSound
<1>2. ASSUME NEW k \in Client, acquire_impl(k) \/ FactoryAnswers(k) PROVE Final
  BY Zenon, <1>1, <1>2 DEF acquire_impl, FactoryAnswers, AcquireShutdown, AcquireFree, AcquireConnect,
     AcquireWait, ConnectOk, ConnectErr, Return, Returned, PoolError, IInv, TypeOK
<1>3. ASSUME NEW k \in Client, TimerExpires(k) \/ WaiterResumes(k) PROVE Final
  BY Zenon, <1>1, <1>3 DEF TimerExpires, WaiterResumes, WaiterOk, WaiterTimedOut, Return, Returned,
     PoolError, IInv, TypeOK
<1>4. ASSUME NEW k \in Client, NEW how \in Releasing, CallRelease(k, how) \/ release(k)
      PROVE  Final
  BY Zenon, <1>1, <1>4 DEF CallRelease, release, ReleaseUnknown, ReleaseClose, ReleaseHandOver,
     ReleaseIdle, Return, Returned, PoolError, Releasing, IInv, TypeOK
<1>5. CASE WarmStart \/ WarmAnswered \/ drain_impl
  BY Zenon, <1>1, <1>5 DEF WarmStart, WarmAnswered, WarmOk, WarmErr, drain_impl
<1>6. CASE idle_reaper_impl \/ IdleTimerExpires
  BY Zenon, <1>1, <1>6 DEF idle_reaper_impl, IdleTimerExpires, ReaperStart, ReaperStops, IdleSweep
<1>7. CASE UNCHANGED vars BY <1>1, <1>7 DEF vars
<1>8. Releasing # {} BY DEF Releasing
<1>9. QED BY <1>2, <1>3, <1>4, <1>5, <1>6, <1>7, <1>8 DEF Next

\* After drain() no new call gets a connection and the reaper closes nothing.
THEOREM ShutdownFinality == Spec => ShutdownIsFinal
BY NextFinal, Invariance, PTL DEF Spec, ShutdownIsFinal

-----------------------------------------------------------------------------
\* Order of service

\* The step property behind NoOvertaking: the queue only grows at its back, shrinks at
\* its front or by the withdrawal of one client.
LEMMA NextInOrder == IInv /\ [Next]_vars => InOrder
<1> SUFFICES ASSUME IInv, [Next]_vars,
                    NEW i \in DOMAIN waiters, NEW j \in DOMAIN waiters, i < j
             PROVE  /\ conn'[waiters[j]] = NoConn
                    /\ \A m, n \in DOMAIN waiters' :
                         waiters'[m] = waiters[i] /\ waiters'[n] = waiters[j] => m < n
  BY DEF InOrder
<1> DEFINE w == waiters[j]
           Kept == \A m, n \in DOMAIN waiters' :
                     waiters'[m] = waiters[i] /\ waiters'[n] = waiters[j] => m < n
<1>0. /\ waiters \in Seq(Client) /\ IsInjective(waiters)
      /\ w \in Client /\ w \in Range(waiters) /\ waiters # <<>>
      /\ Len(waiters) \in Nat /\ DOMAIN waiters = 1..Len(waiters) /\ i \in Int /\ j \in Int
  BY DEF IInv, TypeOK, WaiterQueueSound, Range
<1>1. pc[w] \in {"waiting", "woken"} /\ conn[w] = NoConn /\ ~shutting_down
  BY <1>0 DEF IInv, WaiterQueueSound
<1>2. waiters' = waiters => Kept BY <1>0 DEF IsInjective
<1> HIDE DEF w
<1> USE DEF lists, tasks, calls
<1>3. ASSUME NEW k \in Client, AcquireWait(k) PROVE conn'[w] = NoConn /\ Kept
  <2>1. conn'[w] = NoConn BY <1>0, <1>1, <1>3 DEF AcquireWait, Return, IInv, TypeOK
  <2>2. /\ waiters' = Append(waiters, k) /\ pc[k] \in Returned BY <1>3 DEF AcquireWait
  <2>3. k \notin Range(waiters)
    BY <2>2 DEF IInv, WaiterQueueSound, Returned, PoolError
  <2>4. ASSUME NEW m \in DOMAIN waiters', NEW n \in DOMAIN waiters',
               waiters'[m] = waiters[i], waiters'[n] = waiters[j]
        PROVE  m < n
    <3>1. IsInjective(waiters') /\ waiters'[i] = waiters[i] /\ waiters'[j] = waiters[j]
          /\ i \in DOMAIN waiters' /\ j \in DOMAIN waiters'
      BY <1>0, <2>2, <2>3, AppendFacts
    <3>2. m = i /\ n = j BY <2>4, <3>1 DEF IsInjective
    <3>3. QED BY <3>2
  <2>5. QED BY <2>1, <2>4
<1>4. ASSUME NEW k \in Client, WaiterTimedOut(k) PROVE conn'[w] = NoConn /\ Kept
  <2>1. conn'[w] = NoConn BY <1>0, <1>1, <1>4 DEF WaiterTimedOut, Return, IInv, TypeOK
  <2>2. ASSUME NEW x \in DOMAIN waiters, waiters' = Erased(waiters, x),
               NEW m \in DOMAIN waiters', NEW n \in DOMAIN waiters',
               waiters'[m] = waiters[i], waiters'[n] = waiters[j]
        PROVE  m < n
    <3> DEFINE at(y) == IF y < x THEN y ELSE y + 1
    <3>1. /\ DOMAIN waiters' = 1..Len(waiters) - 1
          /\ \A y \in 1..Len(waiters) - 1 : waiters'[y] = waiters[at(y)]
      <4>1. /\ waiters' \in Seq(Client) /\ Len(waiters') = Len(waiters) - 1
            /\ \A y \in 1..Len(waiters) - 1 :
                 waiters'[y] = IF y < x THEN waiters[y] ELSE waiters[y + 1]
        <5>1. waiters \in Seq(Client) /\ x \in DOMAIN waiters /\ IsInjective(waiters)
          BY <1>0
        <5>2. /\ Erased(waiters, x) \in Seq(Client)
              /\ Len(Erased(waiters, x)) = Len(waiters) - 1
              /\ \A y \in 1..Len(waiters) - 1 :
                   Erased(waiters, x)[y] = IF y < x THEN waiters[y] ELSE waiters[y + 1]
          BY ZenonT(40), <5>1, RemoveFacts DEF Erased
        <5>3. QED BY <5>2, <2>2, Zenon
      <4>2. QED BY <4>1, <1>0
    <3>2. at(m) \in DOMAIN waiters /\ at(n) \in DOMAIN waiters BY <3>1, <1>0, <2>2
    <3>3. waiters[at(m)] = waiters[i] /\ waiters[at(n)] = waiters[j] BY ZenonT(40), <3>1, <2>2
    <3>4. at(m) = i /\ at(n) = j
      <4> HIDE DEF at
      <4>1. QED BY <3>2, <3>3, <1>0 DEF IsInjective
    <3>5. QED BY <3>4, <3>1, <1>0
  <2>3. Kept BY <1>4, <1>2, <2>2 DEF WaiterTimedOut
  <2>4. QED BY <2>1, <2>3
<1>5. ASSUME NEW k \in Client, ReleaseHandOver(k) PROVE conn'[w] = NoConn /\ Kept
  <2>1. waiters' = Tail(waiters) /\ pc[k] \in Releasing
        /\ conn' = [conn EXCEPT ![k] = NoConn, ![Head(waiters)] = conn[k]]
    BY <1>5 DEF ReleaseHandOver, Releasing
  <2>2. w # k BY <1>1, <2>1 DEF Releasing
  <2>3. w # Head(waiters)
    <3>1. j # 1 /\ 1 \in DOMAIN waiters /\ Head(waiters) = waiters[1] BY <1>0
    <3>2. QED BY <3>1, <1>0 DEF IsInjective, w
  <2>4. conn'[w] = NoConn BY ZenonT(40), <2>1, <2>2, <2>3, <1>0, <1>1 DEF IInv, TypeOK
  <2>5. ASSUME NEW m \in DOMAIN waiters', NEW n \in DOMAIN waiters',
               waiters'[m] = waiters[i], waiters'[n] = waiters[j]
        PROVE  m < n
    <3>1. /\ DOMAIN waiters' = 1..Len(waiters) - 1
          /\ \A y \in 1..Len(waiters) - 1 : waiters'[y] = waiters[y + 1]
      BY <2>1, <1>0
    <3>2. m + 1 \in DOMAIN waiters /\ n + 1 \in DOMAIN waiters /\ m \in Int /\ n \in Int
      BY <3>1, <1>0
    <3>3. waiters[m + 1] = waiters[i] /\ waiters[n + 1] = waiters[j] BY <2>5, <3>1
    <3>4. m + 1 = i /\ n + 1 = j BY <3>2, <3>3, <1>0 DEF IsInjective
    <3>5. QED BY <3>2, <3>4, <1>0
  <2>6. QED BY <2>4, <2>5
<1>6. ASSUME waiters' = waiters, conn'[w] = NoConn PROVE conn'[w] = NoConn /\ Kept
  BY <1>2, <1>6
<1>7. ASSUME NEW k \in Client,
             \/ AcquireShutdown(k) \/ AcquireFree(k) \/ AcquireConnect(k) \/ FactoryAnswers(k)
             \/ TimerExpires(k) \/ WaiterOk(k)
      PROVE  waiters' = waiters /\ conn'[w] = NoConn
  <2>1. waiters' = waiters
    BY ZenonT(40), <1>7 DEF AcquireShutdown, AcquireFree, AcquireConnect, FactoryAnswers, ConnectOk,
       ConnectErr, TimerExpires, WaiterOk
  <2>2. conn'[w] = NoConn
    BY ZenonT(40), <1>0, <1>1, <1>7 DEF AcquireShutdown, AcquireFree, AcquireConnect, FactoryAnswers,
       ConnectOk, ConnectErr, TimerExpires, WaiterOk, Return, Returned, PoolError, IInv, TypeOK
  <2>3. QED BY ZenonT(40), <2>1, <2>2
<1>8. ASSUME NEW k \in Client, NEW how \in Releasing,
             CallRelease(k, how) \/ ReleaseUnknown(k) \/ ReleaseClose(k) \/ ReleaseIdle(k)
      PROVE  waiters' = waiters /\ conn'[w] = NoConn
  BY <1>0, <1>1, <1>8 DEF CallRelease, ReleaseUnknown, ReleaseClose, ReleaseIdle, Return,
     IInv, TypeOK
<1>9. CASE drain_impl
  <2>1. waiters' = <<>> /\ conn'[w] = NoConn BY <1>0, <1>9 DEF drain_impl
  <2>2. DOMAIN waiters' = {} BY <2>1
  <2>3. QED BY <2>1, <2>2 DEF w
<1>10. ASSUME WarmStart \/ WarmAnswered \/ idle_reaper_impl \/ IdleTimerExpires
       PROVE  waiters' = waiters /\ conn'[w] = NoConn
  BY ZenonT(40), <1>1, <1>10 DEF WarmStart, WarmAnswered, WarmOk, WarmErr, idle_reaper_impl, ReaperStart,
     ReaperStops, IdleSweep, IdleTimerExpires
<1>11. CASE UNCHANGED vars BY <1>1, <1>6, <1>11 DEF vars, w
<1>12. Releasing # {} BY DEF Releasing
<1>13. QED
  BY ZenonT(40), <1>3, <1>4, <1>5, <1>6, <1>7, <1>8, <1>9, <1>10, <1>11, <1>12
  DEF Next, acquire_impl, WaiterResumes, release, w

\* Queued clients are served in the order in which they queued.
THEOREM FirstComeFirstServed == Spec => NoOvertaking
BY NextInOrder, Invariance, PTL DEF Spec, NoOvertaking

-----------------------------------------------------------------------------
\* Closing connections

\* A list of n elements has at most n different ones.
LEMMA RangeCardinality ==
  ASSUME NEW S, NEW s \in Seq(S)
  PROVE  IsFiniteSet(Range(s)) /\ Cardinality(Range(s)) <= Len(s)
<1>1. Len(s) \in Nat /\ DOMAIN s = 1..Len(s) /\ s \in [1..Len(s) -> Range(s)]
  BY DEF Range
<1>2. s \in Surjection(1..Len(s), Range(s)) BY <1>1 DEF Surjection, Range
<1>3. IsFiniteSet(1..Len(s)) /\ Cardinality(1..Len(s)) = Len(s)
  <2>1. IsFiniteSet(1..Len(s))
        /\ Cardinality(1..Len(s)) = IF 1 > Len(s) THEN 0 ELSE Len(s) - 1 + 1
    BY SMTT(30), <1>1, FS_Interval
  <2>2. QED BY <2>1, <1>1
<1>4. IsFiniteSet(Range(s)) /\ Cardinality(Range(s)) <= Cardinality(1..Len(s))
  BY <1>2, <1>3, FS_Surjection
<1>5. QED BY <1>3, <1>4

\* The step property behind ShrinksForAReason: the reaper stops at min.
LEMMA NextShrink == IInv /\ [Next]_vars => Shrink
<1> SUFFICES ASSUME IInv, [Next]_vars, NEW c \in all \ all'
             PROVE  \/ shutting_down'
                    \/ \E k \in Client : pc[k] = "discarding" /\ conn[k] = c
                    \/ c \in Range(free_list) /\ Cardinality(all') >= MinConns
  BY DEF Shrink
<1> USE DEF lists
<1>1. ASSUME all \subseteq all' PROVE FALSE BY <1>1
<1>2. ASSUME NEW k \in Client, acquire_impl(k) \/ FactoryAnswers(k) PROVE all \subseteq all'
  BY ZenonT(40), <1>2 DEF acquire_impl, FactoryAnswers, AcquireShutdown, AcquireFree, AcquireConnect,
              AcquireWait, ConnectOk, ConnectErr, track
<1>3. ASSUME NEW k \in Client, TimerExpires(k) \/ WaiterResumes(k) PROVE all \subseteq all'
  BY <1>3 DEF TimerExpires, WaiterResumes, WaiterOk, WaiterTimedOut
<1>4. ASSUME NEW k \in Client, NEW how \in Releasing,
             \/ CallRelease(k, how) \/ ReleaseUnknown(k) \/ ReleaseHandOver(k) \/ ReleaseIdle(k)
      PROVE  all \subseteq all'
  BY <1>4 DEF CallRelease, ReleaseUnknown, ReleaseHandOver, ReleaseIdle
<1>5. ASSUME \/ WarmStart \/ WarmAnswered \/ ReaperStart \/ ReaperStops \/ IdleTimerExpires
             \/ UNCHANGED vars
      PROVE  all \subseteq all'
  BY <1>5 DEF WarmStart, WarmAnswered, WarmOk, WarmErr, ReaperStart, ReaperStops,
              IdleTimerExpires, vars, track
<1>6. ASSUME NEW k \in Client, ReleaseClose(k)
      PROVE  shutting_down' \/ (pc[k] = "discarding" /\ conn[k] = c)
  BY <1>6 DEF ReleaseClose, untrack
<1>7. CASE drain_impl BY <1>7 DEF drain_impl
<1>8. CASE IdleSweep
  <2>1. PICK n \in 0..Len(free_list) :
          all' = all \ Range(SubSeq(free_list, 1, Evictable(n)))
    BY <1>8 DEF IdleSweep
  <2> DEFINE m == Evictable(n)
             gone == SubSeq(free_list, 1, m)
  <2>2. /\ free_list \in Seq(Conn) /\ IsInjective(free_list) /\ IsFiniteSet(all)
        /\ Len(free_list) \in Nat /\ n \in Nat /\ n <= Len(free_list)
    BY DEF IInv, TypeOK, PoolPartition
  <2>3. m \in 0..n /\ (m > 0 => m <= Cardinality(all) - MinConns)
    BY <2>2, EvictableFacts
  <2> HIDE DEF m
  <2>4. gone \in Seq(Conn) /\ Len(gone) = m /\ Range(gone) \subseteq Range(free_list)
    <3>1. gone \in Seq(Conn) /\ Len(gone) = m BY <2>2, <2>3
    <3>2. m \in 0..Len(free_list) BY <2>2, <2>3
    <3>3. QED BY <3>1, <3>2, <2>2, SplitFacts
  <2> HIDE DEF gone
  <2>5. all' = all \ Range(gone) BY <2>1 DEF gone, m
  <2>6. c \in Range(gone) BY <2>5
  <2>7. IsFiniteSet(Range(gone)) /\ Cardinality(Range(gone)) <= m
    BY <2>4, RangeCardinality
  <2>8. Cardinality(Range(gone)) # 0
    BY <2>6, <2>7, FS_EmptySet
  <2>9. Cardinality(all \ Range(gone)) = Cardinality(all) - Cardinality(all \cap Range(gone))
    BY Zenon, <2>2, FS_Difference
  <2>10. Cardinality(all \cap Range(gone)) <= Cardinality(Range(gone))
         /\ IsFiniteSet(all \cap Range(gone))
    <3>1. all \cap Range(gone) \in SUBSET Range(gone) OBVIOUS
    <3>2. QED BY <3>1, <2>7, FS_Subset
  <2>11. /\ Cardinality(all) \in Nat /\ Cardinality(Range(gone)) \in Nat
         /\ Cardinality(all \cap Range(gone)) \in Nat
    BY <2>2, <2>7, <2>10, FS_CardinalityType
  <2>12. Cardinality(all') >= MinConns
    BY SMTT(30), <2>3, <2>5, <2>7, <2>8, <2>9, <2>10, <2>11, ConstAssumption
  <2>13. QED BY <2>4, <2>6, <2>12
<1>9. Releasing # {} BY DEF Releasing
<1>10. QED
  BY ZenonT(40), <1>1, <1>2, <1>3, <1>4, <1>5, <1>6, <1>7, <1>8, <1>9
  DEF Next, release, idle_reaper_impl

\* A connection is closed by drain(), by its borrower, or idle and above min.
THEOREM ClosesForAReason == Spec => ShrinksForAReason
BY NextShrink, Invariance, PTL DEF Spec, ShrinksForAReason

-----------------------------------------------------------------------------
\* The pool implements the leasing protocol of ConnectionLease.

\* After drain() the mapped state no longer changes.
LEMMA DrainedStutters ==
  ASSUME shutting_down, [Next]_vars
  PROVE  UNCHANGED Lease!vars
<1> USE DEF lists, tasks, calls
<1>1. shutting_down'
  <2>1. ASSUME NEW k \in Client,
               acquire_impl(k) \/ FactoryAnswers(k) \/ TimerExpires(k) \/ WaiterResumes(k)
        PROVE  shutting_down'
    BY Zenon, <2>1 DEF acquire_impl, FactoryAnswers, AcquireShutdown, AcquireFree, AcquireConnect,
       AcquireWait, ConnectOk, ConnectErr, TimerExpires, WaiterResumes, WaiterOk, WaiterTimedOut
  <2>2. ASSUME NEW k \in Client, NEW how \in Releasing, CallRelease(k, how) \/ release(k)
        PROVE  shutting_down'
    BY Zenon, <2>2 DEF CallRelease, release, ReleaseUnknown, ReleaseClose, ReleaseHandOver, ReleaseIdle
  <2>3. ASSUME \/ WarmStart \/ WarmAnswered \/ drain_impl \/ idle_reaper_impl
               \/ IdleTimerExpires \/ UNCHANGED vars
        PROVE  shutting_down'
    BY Zenon, <2>3 DEF WarmStart, WarmAnswered, WarmOk, WarmErr, drain_impl, idle_reaper_impl,
       ReaperStart, ReaperStops, IdleSweep, IdleTimerExpires, vars
  <2>4. Releasing # {} BY DEF Releasing
  <2>5. QED BY <2>1, <2>2, <2>3, <2>4 DEF Next
<1>2. QED BY <1>1 DEF Lease!vars

\* What the mapping shows of the pool before drain().
LEMMA BeforeDrain ==
  ASSUME IInv, ~shutting_down
  PROVE  /\ Lease!Lent \subseteq active
         /\ conn \in [Client -> Conn \union {NoConn}]
         /\ \A c \in Conn \ all : c \notin Range(free_list) \union Lease!Lent
  BY DEF IInv, TypeOK, LeaseExclusive, PoolPartition, Lease!Lent

\* Steps that change neither the free list nor a result are invisible.
LEMMA SameLists ==
  ASSUME ~shutting_down, ~shutting_down', free_list' = free_list, conn' = conn
  PROVE  UNCHANGED Lease!vars
  BY DEF Lease!vars

\* Before drain(), every handler is a step of the leasing protocol or invisible.
LEMMA ServingStep ==
  ASSUME IInv, ~shutting_down, [Next]_vars
  PROVE  [Lease!Next]_Lease!vars
<1> USE DEF lists, tasks, calls
<1>0. /\ conn \in [Client -> Conn \union {NoConn}] /\ NoConn \notin Conn
      /\ free_list \in Seq(Conn) /\ waiters \in Seq(Client)
      /\ IsInjective(free_list) /\ Range(waiters) \subseteq Client
  BY WaitersAreClients, ConstAssumption DEF IInv, TypeOK, PoolPartition
<1>1. ASSUME NEW k \in Client, AcquireFree(k) PROVE Lease!Next
  <2> DEFINE c == Head(free_list)
  <2>1. /\ free_list # <<>> /\ free_list' = Tail(free_list) /\ ~shutting_down'
        /\ conn' = [conn EXCEPT ![k] = c] /\ pc[k] \in Returned
    BY <1>1 DEF AcquireFree, Return
  <2>2. /\ c \in Conn /\ Range(free_list) = {c} \union Range(free_list')
        /\ c \notin Range(free_list')
    BY <1>0, <2>1, TailFacts
  <2>3. conn[k] = NoConn BY <2>1 DEF IInv, CallsSound
  <2> HIDE DEF c
  <2>4. Lease!Borrow(k, c) BY <2>1, <2>2, <2>3 DEF Lease!Borrow
  <2>5. QED BY <2>1, <2>2, <2>4 DEF Lease!Next, Lease!Serve
<1>2. ASSUME NEW k \in Client, ConnectOk(k) PROVE Lease!Next
  <2>1. PICK c \in Conn : track(c) /\ Return(k, "holding", c)
    BY <1>2 DEF ConnectOk
  <2>2. /\ free_list' = free_list /\ ~shutting_down' /\ conn[k] = NoConn
    BY <1>2 DEF ConnectOk, IInv, CallsSound
  <2>3. c \notin Range(free_list) \union Lease!Lent BY <2>1, BeforeDrain DEF track
  <2>4. Lease!OpenFor(k, c) BY <2>1, <2>2, <2>3 DEF Lease!OpenFor, Lease!Lent, Return
  <2>5. QED BY <2>2, <2>4 DEF Lease!Next, Lease!Serve
<1>3. ASSUME NEW k \in Client, ReleaseClose(k) \/ ReleaseUnknown(k) PROVE Lease!Next
  <2>1. /\ free_list' = free_list /\ ~shutting_down' /\ conn' = [conn EXCEPT ![k] = NoConn]
        /\ conn[k] # NoConn
    BY <1>3 DEF ReleaseClose, ReleaseUnknown, Return, IInv, CallsSound
  <2>2. Lease!Discard(k) BY <2>1 DEF Lease!Discard
  <2>3. QED BY <2>1, <2>2 DEF Lease!Next, Lease!Serve
<1>4. ASSUME NEW k \in Client, ReleaseIdle(k) PROVE Lease!Next
  <2>1. /\ free_list' = Append(free_list, conn[k]) /\ ~shutting_down'
        /\ conn' = [conn EXCEPT ![k] = NoConn] /\ conn[k] # NoConn /\ conn[k] \in Conn
    BY <1>0, <1>4 DEF ReleaseIdle, Return, IInv, CallsSound, Releasing
  <2>2. Range(free_list') = Range(free_list) \union {conn[k]} BY <1>0, <2>1, AppendFacts
  <2>3. Lease!GiveBack(k) BY <2>1, <2>2 DEF Lease!GiveBack
  <2>4. QED BY <2>1, <2>3 DEF Lease!Next, Lease!Serve
<1>5. ASSUME NEW k \in Client, ReleaseHandOver(k) PROVE Lease!Next
  <2> DEFINE w == Head(waiters)
  <2>1. /\ waiters # <<>> /\ ~shutting_down' /\ free_list' = free_list
        /\ conn' = [conn EXCEPT ![k] = NoConn, ![w] = conn[k]] /\ pc[k] \in Releasing
    BY <1>5 DEF ReleaseHandOver, Releasing
  <2>2. w \in Client /\ w \in Range(waiters) BY <1>0, <2>1, TailFacts
  <2>3. conn[w] = NoConn BY <2>2 DEF IInv, WaiterQueueSound
  <2>4. conn[k] # NoConn BY <2>1 DEF IInv, CallsSound
  <2>5. w # k BY <2>3, <2>4
  <2> HIDE DEF w
  <2>6. Lease!HandOver(k, w) BY <2>1, <2>2, <2>3, <2>4, <2>5 DEF Lease!HandOver
  <2>7. QED BY <2>1, <2>2, <2>6 DEF Lease!Next, Lease!Serve
<1>6. CASE WarmOk
  <2>1. PICK c \in Conn : track(c) /\ free_list' = Append(free_list, c)
    BY <1>6 DEF WarmOk
  <2>2. ~shutting_down' /\ conn' = conn BY <1>6 DEF WarmOk
  <2>3. c \notin Range(free_list) \union Lease!Lent BY <2>1, BeforeDrain DEF track
  <2>4. Range(free_list') = Range(free_list) \union {c} BY <1>0, <2>1, AppendFacts
  <2>5. Lease!OpenIdle(c) BY <2>2, <2>3, <2>4 DEF Lease!OpenIdle, Lease!Lent
  <2>6. QED BY <2>2, <2>5 DEF Lease!Next, Lease!Serve
<1>7. CASE IdleSweep
  <2>1. PICK n \in 0..Len(free_list) :
          free_list' = SubSeq(free_list, Evictable(n) + 1, Len(free_list))
    BY Zenon, <1>7 DEF IdleSweep
  <2> DEFINE m == Evictable(n)
             gone == Range(SubSeq(free_list, 1, m))
  <2>2. ~shutting_down' /\ conn' = conn BY <1>7 DEF IdleSweep
  <2>3. n \in Nat /\ n <= Len(free_list) /\ IsFiniteSet(all) BY <1>0 DEF IInv
  <2>4. m \in 0..Len(free_list)
    <3>1. m \in 0..n BY <2>3, EvictableFacts
    <3> HIDE DEF m
    <3>2. QED BY <2>3, <3>1, <1>0
  <2> HIDE DEF m
  <2>5. free_list' = SubSeq(free_list, m + 1, Len(free_list)) BY <2>1 DEF m
  <2>6. /\ Range(free_list) = gone \union Range(free_list')
        /\ gone \intersect Range(free_list') = {}
    BY <1>0, <2>4, <2>5, SplitFacts
  <2> HIDE DEF gone
  <2>7. gone \in SUBSET Range(free_list) /\ Range(free_list') = Range(free_list) \ gone
    BY <2>6
  <2>8. Lease!Evict(gone) BY <2>2, <2>7 DEF Lease!Evict
  <2>9. QED BY <2>2, <2>7, <2>8 DEF Lease!Next, Lease!Serve
<1>8. CASE drain_impl BY <1>8 DEF drain_impl, Lease!Next, Lease!Shutdown
<1>9. ASSUME NEW k \in Client,
             \/ AcquireShutdown(k) \/ AcquireConnect(k) \/ AcquireWait(k) \/ ConnectErr(k)
             \/ TimerExpires(k) \/ WaiterOk(k) \/ WaiterTimedOut(k)
      PROVE  UNCHANGED Lease!vars
  <2>1. free_list' = free_list /\ ~shutting_down'
    BY <1>9 DEF AcquireShutdown, AcquireConnect, AcquireWait, ConnectErr, TimerExpires, WaiterOk,
       WaiterTimedOut
  <2>2. conn' = conn
    <3>1. CASE AcquireShutdown(k) \/ AcquireConnect(k) \/ AcquireWait(k) \/ ConnectErr(k)
               \/ WaiterTimedOut(k)
      <4>1. conn' = [conn EXCEPT ![k] = NoConn]
        BY ZenonT(40), <3>1 DEF AcquireShutdown, AcquireConnect, AcquireWait, ConnectErr, WaiterTimedOut, Return
      <4>2. conn[k] = NoConn
        BY <3>1 DEF AcquireShutdown, AcquireConnect, AcquireWait, ConnectErr, WaiterTimedOut,
           IInv, CallsSound
      <4>3. QED BY <4>1, <4>2, <1>0
    <3>2. CASE WaiterOk(k) BY <3>2, <1>0 DEF WaiterOk, Return
    <3>3. CASE TimerExpires(k) BY <3>3 DEF TimerExpires
    <3>4. QED BY <1>9, <3>1, <3>2, <3>3
  <2>3. QED BY ZenonT(40), <2>1, <2>2, SameLists
<1>10. ASSUME NEW k \in Client, NEW how \in Releasing, CallRelease(k, how)
       PROVE  UNCHANGED Lease!vars
  BY <1>10, SameLists DEF CallRelease
<1>11. ASSUME WarmStart \/ WarmErr \/ ReaperStart \/ ReaperStops \/ IdleTimerExpires
              \/ UNCHANGED vars
       PROVE  UNCHANGED Lease!vars
  <2>1. free_list' = free_list /\ ~shutting_down' /\ conn' = conn
    BY <1>11 DEF WarmStart, WarmErr, ReaperStart, ReaperStops, IdleTimerExpires, vars
  <2>2. QED BY <2>1, SameLists
<1>12. Releasing # {} BY DEF Releasing
<1>13. QED
  BY <1>1, <1>2, <1>3, <1>4, <1>5, <1>6, <1>7, <1>8, <1>9, <1>10, <1>11, <1>12, ZenonT(40)
  DEF Next, acquire_impl, FactoryAnswers, WaiterResumes, release, WarmAnswered, idle_reaper_impl

\* The pool implements the leasing protocol: whatever the interleaving of calls,
\* timers, connects, warm-up and reaper, a connection reaches a client only idle,
\* fresh or straight from its borrower, and drain() ends all leases.
THEOREM ImplementsLease == Spec => LeaseProtocol
<1>1. Init => Lease!Init
  <2>1. Range(<<>>) = {} BY DEF Range
  <2>2. QED BY <2>1 DEF Init, Lease!Init
<1>2. IInv /\ [Next]_vars => [Lease!Next]_Lease!vars
  <2>1. shutting_down \in BOOLEAN => shutting_down \/ ~shutting_down OBVIOUS
  <2>2. QED BY <2>1, DrainedStutters, ServingStep
<1>3. QED BY <1>1, <1>2, Invariance, PTL DEF Spec, LeaseProtocol, Lease!Spec
=============================================================================
