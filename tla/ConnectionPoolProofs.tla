------------------------ MODULE ConnectionPoolProofs ------------------------
(***************************************************************************)
(* Proofs about ConnectionPool, for any number of clients and any limits.  *)
(***************************************************************************)
EXTENDS ConnectionPool, FiniteSetTheorems, TLAPS

-----------------------------------------------------------------------------
\* What the queue operations do to the set of queued elements and to the
\* absence of repetitions.

\* Joining two queues.
LEMMA ConcatFacts ==
  ASSUME NEW S, NEW s \in Seq(S), NEW t \in Seq(S)
  PROVE  /\ s \o t \in Seq(S) /\ Len(s \o t) = Len(s) + Len(t)
         /\ \A i \in 1..Len(s) + Len(t) : (s \o t)[i] = IF i <= Len(s) THEN s[i] ELSE t[i - Len(s)]
  OBVIOUS

\* Popping the front of a queue removes exactly its first element.
LEMMA TailFacts ==
  ASSUME NEW S, NEW s \in Seq(S), s # <<>>
  PROVE  /\ Tail(s) \in Seq(S)
         /\ Head(s) \in S
         /\ Len(Tail(s)) = Len(s) - 1
         /\ \A i \in 1..Len(s) - 1 : Tail(s)[i] = s[i + 1]
         /\ Range(s) = {Head(s)} \union Range(Tail(s))
         /\ IsInjective(s) => IsInjective(Tail(s)) /\ Head(s) \notin Range(Tail(s))
<1>1. /\ Tail(s) \in Seq(S) /\ Head(s) \in S
      /\ Len(s) \in Nat /\ Len(s) > 0
      /\ Len(Tail(s)) = Len(s) - 1
      /\ \A i \in 1..Len(s) - 1 : Tail(s)[i] = s[i + 1]
      /\ DOMAIN s = 1..Len(s) /\ DOMAIN Tail(s) = 1..Len(s) - 1
      /\ Head(s) = s[1]
  OBVIOUS
<1>2. Range(s) = {Head(s)} \union Range(Tail(s))
  <2>1. ASSUME NEW i \in DOMAIN s PROVE s[i] \in {Head(s)} \union Range(Tail(s))
    <3>1. CASE i = 1 BY <3>1, <1>1
    <3>2. CASE i # 1
      <4>1. i - 1 \in DOMAIN Tail(s) /\ Tail(s)[i - 1] = s[i] BY <3>2, <1>1
      <4>2. QED BY <4>1 DEF Range
    <3>3. QED BY <3>1, <3>2
  <2>2. ASSUME NEW i \in DOMAIN Tail(s) PROVE Tail(s)[i] \in Range(s)
    BY <1>1 DEF Range
  <2>3. Head(s) \in Range(s) BY <1>1 DEF Range
  <2>4. QED BY <2>1, <2>2, <2>3 DEF Range
<1>3. ASSUME IsInjective(s) PROVE IsInjective(Tail(s)) /\ Head(s) \notin Range(Tail(s))
  BY <1>1, <1>3 DEF IsInjective, Range
<1>4. QED BY <1>1, <1>2, <1>3

\* Pushing at the back adds exactly one element.
LEMMA AppendFacts ==
  ASSUME NEW S, NEW s \in Seq(S), NEW e \in S
  PROVE  /\ Append(s, e) \in Seq(S)
         /\ Len(Append(s, e)) = Len(s) + 1
         /\ \A i \in 1..Len(s) : Append(s, e)[i] = s[i]
         /\ Append(s, e)[Len(s) + 1] = e
         /\ Range(Append(s, e)) = Range(s) \union {e}
         /\ IsInjective(s) /\ e \notin Range(s) => IsInjective(Append(s, e))
<1> DEFINE t == Append(s, e)
<1>1. /\ t \in Seq(S)
      /\ Len(s) \in Nat
      /\ Len(t) = Len(s) + 1
      /\ DOMAIN s = 1..Len(s) /\ DOMAIN t = 1..Len(s) + 1
      /\ \A i \in 1..Len(s) : t[i] = s[i]
      /\ t[Len(s) + 1] = e
  OBVIOUS
<1> HIDE DEF t
<1>2. Range(t) = Range(s) \union {e}
  <2>1. ASSUME NEW i \in DOMAIN t PROVE t[i] \in Range(s) \union {e}
    BY <1>1 DEF Range
  <2>2. ASSUME NEW i \in DOMAIN s PROVE s[i] \in Range(t)
    <3>1. i \in DOMAIN t /\ t[i] = s[i] BY <1>1
    <3>2. QED BY <3>1 DEF Range
  <2>3. e \in Range(t)
    <3>1. Len(s) + 1 \in DOMAIN t BY <1>1
    <3>2. QED BY <3>1, <1>1 DEF Range
  <2>4. QED BY <2>1, <2>2, <2>3 DEF Range
<1>3. ASSUME IsInjective(s), e \notin Range(s) PROVE IsInjective(t)
  BY SMTT(20), <1>1, <1>3 DEF IsInjective, Range
<1>4. QED BY <1>1, <1>2, <1>3 DEF t

\* Splitting a queue without repetitions after its first m elements.
LEMMA SplitFacts ==
  ASSUME NEW S, NEW s \in Seq(S), NEW m \in 0..Len(s), IsInjective(s)
  PROVE  LET front == SubSeq(s, 1, m)
             rest == SubSeq(s, m + 1, Len(s))
         IN  /\ rest \in Seq(S)
             /\ Len(rest) = Len(s) - m
             /\ IsInjective(rest)
             /\ Range(s) = Range(front) \union Range(rest)
             /\ Range(front) \intersect Range(rest) = {}
<1> DEFINE front == SubSeq(s, 1, m)
           rest == SubSeq(s, m + 1, Len(s))
<1>1. /\ Len(s) \in Nat /\ DOMAIN s = 1..Len(s)
      /\ front \in Seq(S) /\ rest \in Seq(S)
      /\ Len(rest) = Len(s) - m
      /\ DOMAIN front = 1..m
      /\ \A i \in 1..m : front[i] = s[i]
      /\ DOMAIN rest = 1..Len(s) - m
      /\ \A i \in 1..Len(s) - m : rest[i] = s[m + i]
  OBVIOUS
<1> HIDE DEF front, rest
<1>2. IsInjective(rest)
  <2>1. ASSUME NEW i \in DOMAIN rest, NEW j \in DOMAIN rest, rest[i] = rest[j] PROVE i = j
    <3>1. m + i \in DOMAIN s /\ m + j \in DOMAIN s /\ s[m + i] = s[m + j] BY <1>1, <2>1
    <3>2. m + i = m + j BY <3>1 DEF IsInjective
    <3>3. QED BY <3>2, <1>1
  <2>2. QED BY <2>1 DEF IsInjective
<1>3. ASSUME NEW i \in DOMAIN s PROVE s[i] \in Range(front) \union Range(rest)
  <2>1. CASE i <= m
    <3>1. i \in DOMAIN front /\ front[i] = s[i] BY <2>1, <1>1
    <3>2. QED BY <3>1 DEF Range
  <2>2. CASE i > m
    <3>1. i - m \in DOMAIN rest /\ rest[i - m] = s[i] BY <2>2, <1>1
    <3>2. QED BY <3>1 DEF Range
  <2>3. QED BY <2>1, <2>2, <1>1
<1>4. Range(front) \subseteq Range(s) /\ Range(rest) \subseteq Range(s)
  <2>1. ASSUME NEW i \in DOMAIN front PROVE front[i] \in Range(s)
    <3>1. i \in DOMAIN s /\ front[i] = s[i] BY <1>1
    <3>2. QED BY <3>1 DEF Range
  <2>2. ASSUME NEW i \in DOMAIN rest PROVE rest[i] \in Range(s)
    <3>1. m + i \in DOMAIN s
      <4>1. i \in 1..Len(s) - m BY <1>1
      <4>2. QED BY <4>1, <1>1
    <3>2. rest[i] = s[m + i] BY <1>1
    <3>3. QED BY <3>1, <3>2 DEF Range
  <2>3. QED BY <2>1, <2>2 DEF Range
<1>5. Range(front) \intersect Range(rest) = {}
  <2>1. ASSUME NEW i \in DOMAIN front, NEW j \in DOMAIN rest PROVE front[i] # rest[j]
    <3>1. i \in DOMAIN s /\ m + j \in DOMAIN s /\ i # m + j BY <1>1
    <3>2. s[i] # s[m + j] BY <3>1 DEF IsInjective
    <3>3. QED BY <3>2, <1>1
  <2>2. QED BY <2>1 DEF Range
<1>6. Range(s) = Range(front) \union Range(rest) BY Zenon, <1>3, <1>4 DEF Range
<1>7. QED BY Zenon, <1>1, <1>2, <1>5, <1>6 DEF front, rest

\* Erasing one element of a queue without repetitions.
LEMMA RemoveFacts ==
  ASSUME NEW S, NEW s \in Seq(S), NEW i \in DOMAIN s, IsInjective(s)
  PROVE  LET t == SubSeq(s, 1, i - 1) \o SubSeq(s, i + 1, Len(s))
         IN  /\ t \in Seq(S)
             /\ Len(t) = Len(s) - 1
             /\ \A j \in 1..Len(s) - 1 : t[j] = IF j < i THEN s[j] ELSE s[j + 1]
             /\ IsInjective(t)
             /\ Range(t) = Range(s) \ {s[i]}
<1> DEFINE t == SubSeq(s, 1, i - 1) \o SubSeq(s, i + 1, Len(s))
<1>1. /\ Len(s) \in Nat /\ DOMAIN s = 1..Len(s)
      /\ t \in Seq(S)
      /\ Len(t) = Len(s) - 1
      /\ DOMAIN t = 1..Len(s) - 1
      /\ \A j \in 1..Len(s) - 1 : t[j] = IF j < i THEN s[j] ELSE s[j + 1]
  <2> DEFINE a == SubSeq(s, 1, i - 1)
             b == SubSeq(s, i + 1, Len(s))
  <2>1. /\ Len(s) \in Nat /\ DOMAIN s = 1..Len(s) /\ i \in 1..Len(s)
    OBVIOUS
  <2>2. /\ a \in Seq(S) /\ Len(a) = i - 1
        /\ \A j \in 1..i - 1 : a[j] = s[j]
    BY <2>1
  <2>3. /\ b \in Seq(S) /\ Len(b) = Len(s) - i
        /\ \A j \in 1..Len(s) - i : b[j] = s[i + j]
    BY SMTT(30), <2>1
  <2>4. t = a \o b BY DEF a, b, t
  <2> HIDE DEF a, b, t
  <2>5. t \in Seq(S) /\ Len(t) = Len(s) - 1
    <3>1. a \o b \in Seq(S) /\ Len(a \o b) = Len(a) + Len(b) BY SMTT(30), <2>2, <2>3, ConcatFacts
    <3>2. Len(a) + Len(b) = Len(s) - 1 BY <2>1, <2>2, <2>3
    <3>3. QED BY <3>1, <3>2, <2>4
  <2>6. DOMAIN t = 1..Len(s) - 1 BY <2>5
  <2>7. ASSUME NEW j \in 1..Len(s) - 1
        PROVE  t[j] = IF j < i THEN s[j] ELSE s[j + 1]
    <3>1. t[j] = IF j <= Len(a) THEN a[j] ELSE b[j - Len(a)]
      <4>1. j \in 1..Len(a) + Len(b) BY SMTT(30), <2>1, <2>2, <2>3
      <4>2. QED BY Zenon, <4>1, <2>2, <2>3, <2>4, ConcatFacts
    <3>2. CASE j < i BY <3>1, <3>2, <2>1, <2>2
    <3>3. CASE ~(j < i)
      <4>1. j - Len(a) \in 1..Len(s) - i /\ i + (j - Len(a)) = j + 1 BY <3>3, <2>1, <2>2
      <4>2. b[j - Len(a)] = s[j + 1] BY <4>1, <2>3
      <4>3. ~(j <= Len(a)) BY <3>3, <2>1, <2>2
      <4>4. QED BY <4>2, <4>3, <3>1, <3>3
    <3>4. QED BY <3>2, <3>3
  <2>8. QED BY <2>1, <2>5, <2>6, <2>7
<1> HIDE DEF t
<1> DEFINE at(j) == IF j < i THEN j ELSE j + 1
<1>0. ASSUME NEW j \in DOMAIN t
      PROVE  at(j) \in DOMAIN s /\ at(j) # i /\ t[j] = s[at(j)]
  BY <1>1
<1>2. IsInjective(t)
  <2>1. ASSUME NEW j \in DOMAIN t, NEW k \in DOMAIN t, t[j] = t[k] PROVE j = k
    <3>1. at(j) = at(k)
      <4> HIDE DEF at
      <4>1. s[at(j)] = s[at(k)] BY <1>0, <2>1
      <4>2. QED BY <4>1, <1>0 DEF IsInjective
    <3>2. QED BY <3>1, <1>1
  <2>2. QED BY <2>1 DEF IsInjective
<1>3. ASSUME NEW j \in DOMAIN t PROVE t[j] \in Range(s) \ {s[i]}
  <2> HIDE DEF at
  <2>1. s[at(j)] # s[i] BY <1>0 DEF IsInjective
  <2>2. QED BY <2>1, <1>0 DEF Range
<1>4. ASSUME NEW j \in DOMAIN s, j # i PROVE s[j] \in Range(t)
  <2>1. CASE j < i
    <3>1. j \in DOMAIN t /\ t[j] = s[j] BY <2>1, <1>1
    <3>2. QED BY <3>1 DEF Range
  <2>2. CASE j > i
    <3>1. j - 1 \in DOMAIN t /\ t[j - 1] = s[j] BY <2>2, <1>1
    <3>2. QED BY <3>1 DEF Range
  <2>3. QED BY <2>1, <2>2, <1>1, <1>4
<1>5. QED BY ZenonT(40), <1>1, <1>2, <1>3, <1>4 DEF t, Range

-----------------------------------------------------------------------------
\* The lists

\* The sizes stored by sync_metrics are natural numbers.
LEMMA SizesType ==
  ASSUME NEW f \in Seq(Conn), NEW a, NEW w \in Seq(Client), NEW s,
         IsFiniteSet(s), a \subseteq s
  PROVE  Sizes(f, a, w, s) \in [free : Nat, active : Nat, waiters : Nat, total : Nat]
<1>1. Cardinality(s) \in Nat BY FS_CardinalityType
<1>2. IsFiniteSet(a) BY FS_Subset
<1>3. Cardinality(a) \in Nat BY <1>2, FS_CardinalityType
<1>4. QED BY <1>1, <1>3 DEF Sizes

\* The pool starts empty.
LEMMA InitIInv == Init => IInv
<1> SUFFICES ASSUME Init PROVE IInv OBVIOUS
<1> USE DEF Init
<1>1. IsFiniteSet({}) BY FS_EmptySet
<1>2. Range(free_list) = {} /\ Range(waiters) = {} BY DEF Range
<1>3. TypeOK
  <2>1. <<>> \in Seq(Conn) /\ <<>> \in Seq(Client) /\ {} \subseteq {} OBVIOUS
  <2>2. metrics \in [free : Nat, active : Nat, waiters : Nat, total : Nat]
    BY Zenon, <1>1, <2>1, SizesType
  <2>3. pc \in [Client -> Returned \union Calling] BY DEF Returned
  <2>4. warm_i \in 0..MinConns BY ConstAssumption
  <2>5. QED BY Zenon, <2>1, <2>2, <2>3, <2>4 DEF TypeOK
<1>4. PoolPartition BY <1>2 DEF PoolPartition, IsInjective
<1>5. LeaseExclusive BY DEF LeaseExclusive
<1>6. WaiterQueueSound BY <1>2 DEF WaiterQueueSound, IsInjective
<1>7. CallsSound BY DEF CallsSound, Releasing
<1>8. WarmSound BY DEF WarmSound
<1>9. QED BY <1>1, <1>3, <1>4, <1>5, <1>6, <1>7, <1>8 DEF IInv

\* Only clients are queued.
LEMMA WaitersAreClients == TypeOK => Range(waiters) \subseteq Client
BY DEF TypeOK, Range

\* Steps that leave the four lists alone: calls that return at once, calls that
\* suspend, timers, and the starts and ends of the background tasks.
LEMMA ListsUnchangedIInv ==
  ASSUME IInv, UNCHANGED <<lists, shutting_down>>,
         \/ \E k \in Client : \/ AcquireShutdown(k) \/ AcquireConnect(k) \/ ConnectErr(k)
                              \/ TimerExpires(k) \/ WaiterOk(k) \/ ReleaseUnknown(k)
                              \/ \E how \in Releasing : CallRelease(k, how)
         \/ WarmStart \/ WarmErr \/ ReaperStart \/ ReaperStops \/ IdleTimerExpires
         \/ UNCHANGED vars
  PROVE  IInv'
<1> USE DEF IInv, lists, tasks, calls
<1>1. /\ UNCHANGED <<all, free_list, active, waiters, metrics, shutting_down>>
      /\ PoolPartition' /\ IsFiniteSet(all')
  BY DEF PoolPartition
<1>2. ASSUME NEW k \in Client, UNCHANGED tasks,
             \/ AcquireShutdown(k) \/ AcquireConnect(k) \/ ConnectErr(k)
             \/ TimerExpires(k) \/ WaiterOk(k)
             \/ \E how \in Releasing : CallRelease(k, how)
      PROVE  IInv'
  <2>3. WaiterQueueSound'
    \* Only a suspended call without a result is queued, so k is not, unless its
    \* timer has just expired.
    <3>1. CASE TimerExpires(k)
      <4>1. /\ k \in Range(waiters) /\ conn' = conn
            /\ pc[k] = "waiting" /\ pc' = [pc EXCEPT ![k] = "woken"]
        BY ZenonT(40), <3>1 DEF TimerExpires, WaiterQueueSound
      <4>2. conn[k] = NoConn BY <4>1 DEF WaiterQueueSound
      <4>3. QED BY SMTT(30), <4>1, <4>2, <1>1, WaitersAreClients DEF WaiterQueueSound, TypeOK
    <3>2. CASE ~TimerExpires(k)
      <4>1. /\ k \notin Range(waiters)
            /\ pc'[k] \notin {"waiting", "woken"}
        BY <1>2, <3>2
        DEF AcquireShutdown, AcquireConnect, ConnectErr, WaiterOk, CallRelease, Return,
            Returned, Releasing, PoolError, WaiterQueueSound, TypeOK
      <4>2. \A j \in Client \ {k} : pc'[j] = pc[j] /\ conn'[j] = conn[j]
        BY <1>2, <3>2, ZenonT(40)
        DEF AcquireShutdown, AcquireConnect, ConnectErr, WaiterOk, CallRelease, Return, TypeOK
      <4>3. QED BY SMTT(30), <4>1, <4>2, <1>1, WaitersAreClients DEF WaiterQueueSound
    <3>3. QED BY <3>1, <3>2
  <2> USE <1>1, ConstAssumption
      DEF AcquireShutdown, AcquireConnect, ConnectErr, TimerExpires, WaiterOk,
          CallRelease, Return, Returned, Calling, Releasing, PoolError
  <2>1. TypeOK' BY <1>2, ZenonT(40) DEF TypeOK
  <2>2. LeaseExclusive' BY SMTT(30), <1>2 DEF LeaseExclusive, CallsSound, TypeOK
  <2>4. CallsSound' BY SMTT(30), <1>2 DEF CallsSound, TypeOK
  <2>5. WarmSound' BY <1>2 DEF WarmSound
  <2>6. QED BY <2>1, <2>2, <2>3, <2>4, <2>5
<1>3. ASSUME NEW k \in Client, ReleaseUnknown(k) PROVE IInv'
  <2> USE <1>1, <1>3, ConstAssumption
      DEF ReleaseUnknown, Return, Returned, Calling, Releasing, PoolError
  <2>1. TypeOK' BY DEF TypeOK
  <2>2. LeaseExclusive' BY DEF LeaseExclusive, CallsSound, TypeOK
  <2>3. WaiterQueueSound' BY DEF WaiterQueueSound, TypeOK, CallsSound
  <2>4. CallsSound' BY DEF CallsSound, TypeOK
  <2>5. WarmSound' BY DEF WarmSound
  <2>6. QED BY ZenonT(40), <2>1, <2>2, <2>3, <2>4, <2>5
<1>4. ASSUME UNCHANGED calls,
             \/ WarmStart \/ WarmErr \/ ReaperStart \/ ReaperStops \/ IdleTimerExpires
             \/ UNCHANGED vars
      PROVE  IInv'
  <2>1. pc' = pc /\ conn' = conn BY <1>4
  <2>2. LeaseExclusive' BY SMTT(30), <2>1, <1>1 DEF LeaseExclusive
  <2>3. WaiterQueueSound' BY SMTT(30), <2>1, <1>1 DEF WaiterQueueSound
  <2>4. CallsSound' BY ZenonT(40), <2>1 DEF CallsSound
  <2>5. TypeOK' /\ WarmSound'
    BY SMTT(30), <1>1, <1>4, ConstAssumption
    DEF TypeOK, WarmSound, WarmStart, WarmErr, ReaperStart, ReaperStops, IdleTimerExpires,
        WarmLoop, vars
  <2>6. QED BY <1>1, <2>2, <2>3, <2>4, <2>5
<1>5. QED
  <2>1. CASE \E k \in Client : \/ AcquireShutdown(k) \/ AcquireConnect(k) \/ ConnectErr(k)
                               \/ TimerExpires(k) \/ WaiterOk(k) \/ ReleaseUnknown(k)
                               \/ \E how \in Releasing : CallRelease(k, how)
    BY <2>1, <1>2, <1>3, ZenonT(40)
    DEF AcquireShutdown, AcquireConnect, ConnectErr, TimerExpires, WaiterOk, CallRelease
  <2>2. CASE WarmStart \/ WarmErr \/ ReaperStart \/ ReaperStops \/ IdleTimerExpires
    BY <2>2, <1>4 DEF WarmStart, WarmErr, ReaperStart, ReaperStops, IdleTimerExpires
  <2>3. CASE UNCHANGED vars BY <2>3, <1>4 DEF vars
  <2>4. QED BY <2>1, <2>2, <2>3

\* acquire()'s fast path moves the front of free_list_ to active_.
LEMMA AcquireFreeIInv ==
  ASSUME IInv, NEW k \in Client, AcquireFree(k)
  PROVE  IInv'
<1> DEFINE c == Head(free_list)
<1>1. /\ free_list' \in Seq(Conn) /\ c \in Conn
      /\ Range(free_list) = {c} \union Range(free_list')
      /\ IsInjective(free_list') /\ c \notin Range(free_list')
  BY TailFacts DEF IInv, TypeOK, PoolPartition, AcquireFree
<1>2. /\ c \in all /\ c \notin active
      /\ all' = all /\ waiters' = waiters /\ shutting_down' = shutting_down /\ ~shutting_down
      /\ active' = active \union {c}
      /\ pc' = [pc EXCEPT ![k] = "holding"] /\ conn' = [conn EXCEPT ![k] = c]
      /\ pc[k] \in Returned
  BY <1>1 DEF IInv, PoolPartition, AcquireFree, Return
<1> HIDE DEF c
<1>3. PoolPartition' BY <1>1, <1>2 DEF IInv, PoolPartition
<1>4. TypeOK'
  <2>1. metrics' \in [free : Nat, active : Nat, waiters : Nat, total : Nat]
    BY <1>1, <1>2, <1>3, SizesType, ZenonT(40)
    DEF IInv, TypeOK, AcquireFree, sync_metrics, PoolPartition
  <2>2. QED
    BY ZenonT(40), <2>1, <1>1, <1>2 DEF IInv, TypeOK, AcquireFree, tasks, Calling
<1>5. LeaseExclusive'
  BY <1>2, ConstAssumption, <1>1 DEF IInv, TypeOK, LeaseExclusive, CallsSound
<1>6. WaiterQueueSound'
  BY <1>2 DEF IInv, TypeOK, WaiterQueueSound, Returned, PoolError
<1>7. CallsSound'
  BY <1>2, <1>1, ConstAssumption DEF IInv, TypeOK, CallsSound, Returned, PoolError
<1>8. WarmSound' BY DEF IInv, WarmSound, AcquireFree, tasks
<1>9. QED BY <1>2, <1>3, <1>4, <1>5, <1>6, <1>7, <1>8 DEF IInv

\* acquire() on an exhausted pool queues a client that was not queued.
LEMMA AcquireWaitIInv ==
  ASSUME IInv, NEW k \in Client, AcquireWait(k)
  PROVE  IInv'
<1>1. /\ waiters' \in Seq(Client) /\ Range(waiters') = Range(waiters) \union {k}
      /\ k \notin Range(waiters) => IsInjective(waiters')
  BY AppendFacts DEF IInv, TypeOK, WaiterQueueSound, AcquireWait
<1>2. /\ UNCHANGED <<all, free_list, active, shutting_down, warm, warm_i, reaper>>
      /\ ~shutting_down
      /\ pc[k] \in Returned /\ conn[k] = NoConn
      /\ pc' = [pc EXCEPT ![k] = "waiting"] /\ conn' = [conn EXCEPT ![k] = NoConn]
  BY DEF AcquireWait, Return, tasks, IInv, CallsSound
<1>3. k \notin Range(waiters)
  BY <1>2 DEF IInv, WaiterQueueSound, Returned, PoolError
<1>4. PoolPartition' /\ WarmSound' BY <1>2 DEF IInv, PoolPartition, WarmSound
<1>5. TypeOK'
  <2>1. metrics' \in [free : Nat, active : Nat, waiters : Nat, total : Nat]
    BY <1>1, <1>2, SizesType, ZenonT(40)
    DEF IInv, TypeOK, AcquireWait, sync_metrics, PoolPartition
  <2>2. QED BY <2>1, <1>1, <1>2 DEF IInv, TypeOK, Calling
<1>6. LeaseExclusive' BY <1>2 DEF IInv, TypeOK, LeaseExclusive
<1>7. WaiterQueueSound'
  BY <1>1, <1>2, <1>3, WaitersAreClients DEF IInv, TypeOK, WaiterQueueSound
<1>8. CallsSound' BY <1>2 DEF IInv, TypeOK, CallsSound, Releasing
<1>9. QED BY ZenonT(40), <1>2, <1>4, <1>5, <1>6, <1>7, <1>8 DEF IInv

\* Also after drain(): the new connection is not in either list yet.
LEMMA ConnectOkIInv ==
  ASSUME IInv, NEW k \in Client, ConnectOk(k)
  PROVE  IInv'
<1>1. PICK c \in Conn : /\ track(c)
                        /\ active' = active \union {c}
                        /\ Return(k, "holding", c)
  BY DEF ConnectOk
<1>2. /\ UNCHANGED <<free_list, waiters, shutting_down, warm, warm_i, reaper>>
      /\ c \notin all /\ all' = all \union {c} /\ active' = active \union {c}
      /\ pc[k] = "connecting" /\ conn[k] = NoConn
      /\ pc' = [pc EXCEPT ![k] = "holding"] /\ conn' = [conn EXCEPT ![k] = c]
      /\ c # NoConn
  BY Zenon, <1>1, ConstAssumption DEF ConnectOk, Return, track, tasks, IInv, CallsSound
<1>3. IsFiniteSet(all') BY <1>2, FS_AddElement DEF IInv
<1>4. PoolPartition' /\ WarmSound' BY <1>2 DEF IInv, PoolPartition, WarmSound
<1>5. TypeOK'
  <2>1. metrics' \in [free : Nat, active : Nat, waiters : Nat, total : Nat]
    BY <1>2, <1>3, <1>4, SizesType DEF IInv, TypeOK, ConnectOk, sync_metrics, PoolPartition
  <2>2. QED BY ZenonT(40), <2>1, <1>2 DEF IInv, TypeOK, Calling
<1>6. LeaseExclusive'
  <2> SUFFICES ASSUME ~shutting_down PROVE LeaseExclusive'
    BY <1>2 DEF LeaseExclusive
  <2>1. \A j \in Client : j # k => conn'[j] = conn[j] /\ conn[j] # c
    BY <1>2 DEF IInv, TypeOK, LeaseExclusive, PoolPartition
  <2>2. conn'[k] = c BY <1>2 DEF IInv, TypeOK
  <2>3. \A j \in Client : conn'[j] # NoConn => conn'[j] \in active'
    BY <2>1, <2>2, <1>2 DEF IInv, LeaseExclusive
  <2>4. \A i, j \in Client : conn'[i] = conn'[j] /\ conn'[i] # NoConn => i = j
    BY <2>1, <2>2, <1>2 DEF IInv, LeaseExclusive
  <2>5. ASSUME NEW d \in active' PROVE \E j \in Client : conn'[j] = d
    <3>1. CASE d = c BY <3>1, <2>2
    <3>2. CASE d \in active
      <4>1. PICK j \in Client : conn[j] = d BY <3>2 DEF IInv, LeaseExclusive
      <4>2. j # k BY ZenonT(40), <4>1, <3>2, <1>2, ConstAssumption DEF IInv, TypeOK
      <4>3. QED BY <4>1, <4>2, <2>1
    <3>3. QED BY <3>1, <3>2, <1>2
  <2>6. QED BY <2>3, <2>4, <2>5 DEF LeaseExclusive
<1>7. WaiterQueueSound'
  BY <1>2, WaitersAreClients DEF IInv, TypeOK, WaiterQueueSound
<1>8. CallsSound' BY <1>2 DEF IInv, TypeOK, CallsSound, Returned, PoolError
<1>9. QED BY <1>3, <1>4, <1>5, <1>6, <1>7, <1>8 DEF IInv

\* A waiter that wakes up without a result erases itself from the queue.
LEMMA WaiterTimedOutIInv ==
  ASSUME IInv, NEW k \in Client, WaiterTimedOut(k)
  PROVE  IInv'
<1>1. /\ UNCHANGED <<all, free_list, active, shutting_down, warm, warm_i, reaper>>
      /\ pc[k] = "woken" /\ conn[k] = NoConn
      /\ pc' = [pc EXCEPT ![k] = "TIMED_OUT"] /\ conn' = [conn EXCEPT ![k] = NoConn]
  BY DEF WaiterTimedOut, Return, tasks
<1>2. /\ waiters' \in Seq(Client) /\ Range(waiters') = Range(waiters) \ {k}
      /\ IsInjective(waiters')
  <2>1. ASSUME NEW i \in DOMAIN waiters, waiters[i] = k, waiters' = Erased(waiters, i)
        PROVE  <1>2
    <3>1. waiters \in Seq(Client) /\ IsInjective(waiters) BY DEF IInv, TypeOK, WaiterQueueSound
    <3>2. /\ Erased(waiters, i) \in Seq(Client) /\ IsInjective(Erased(waiters, i))
          /\ Range(Erased(waiters, i)) = Range(waiters) \ {waiters[i]}
      BY ZenonT(40), <3>1, RemoveFacts DEF Erased
    <3>3. QED BY Zenon, <2>1, <3>2
  <2>2. CASE k \notin Range(waiters) /\ waiters' = waiters
    BY <2>2 DEF IInv, TypeOK, WaiterQueueSound
  <2>3. QED BY <2>1, <2>2 DEF WaiterTimedOut
<1>3. shutting_down => waiters' = <<>>
  <2>1. shutting_down => Range(waiters) = {} BY DEF IInv, WaiterQueueSound, Range
  <2>2. shutting_down => waiters' = waiters
    BY <2>1 DEF WaiterTimedOut, Range
  <2>3. QED BY <2>2 DEF IInv, WaiterQueueSound
<1>4. PoolPartition' /\ WarmSound' BY <1>1 DEF IInv, PoolPartition, WarmSound
<1>5. TypeOK'
  <2>1. metrics' \in [free : Nat, active : Nat, waiters : Nat, total : Nat]
    BY <1>1, <1>2, SizesType DEF IInv, TypeOK, WaiterTimedOut, sync_metrics, PoolPartition
  <2>2. QED BY ZenonT(40), <2>1, <1>1, <1>2 DEF IInv, TypeOK, Returned, PoolError
<1>6. LeaseExclusive' BY <1>1 DEF IInv, TypeOK, LeaseExclusive
<1>7. WaiterQueueSound'
  BY ZenonT(40), <1>1, <1>2, <1>3, WaitersAreClients DEF IInv, TypeOK, WaiterQueueSound
<1>8. CallsSound' BY <1>1 DEF IInv, TypeOK, CallsSound, Releasing
<1>9. QED BY <1>1, <1>4, <1>5, <1>6, <1>7, <1>8 DEF IInv

\* release() of an unhealthy connection, or after drain(), destroys it.
LEMMA ReleaseCloseIInv ==
  ASSUME IInv, NEW k \in Client, ReleaseClose(k)
  PROVE  IInv'
<1> DEFINE c == conn[k]
<1>1. /\ UNCHANGED <<free_list, waiters, shutting_down, warm, warm_i, reaper>>
      /\ pc[k] \in Releasing /\ c \in active /\ c # NoConn
      /\ active' = active \ {c} /\ all' = all \ {c}
      /\ pc' = [pc EXCEPT ![k] = "idle"] /\ conn' = [conn EXCEPT ![k] = NoConn]
  BY DEF ReleaseClose, Return, untrack, tasks, IInv, CallsSound
<1> HIDE DEF c
<1>2. IsFiniteSet(all') BY <1>1, FS_RemoveElement DEF IInv
<1>3. PoolPartition' /\ WarmSound' BY <1>1 DEF IInv, PoolPartition, WarmSound
<1>4. TypeOK'
  <2>1. metrics' \in [free : Nat, active : Nat, waiters : Nat, total : Nat]
    BY ZenonT(40), <1>1, <1>2, <1>3, SizesType DEF IInv, TypeOK, ReleaseClose, sync_metrics, PoolPartition
  <2>2. QED BY ZenonT(40), <2>1, <1>1 DEF IInv, TypeOK, Returned
<1>5. LeaseExclusive'
  <2> SUFFICES ASSUME ~shutting_down PROVE LeaseExclusive'
    BY <1>1 DEF LeaseExclusive
  <2>1. \A j \in Client : j # k => conn'[j] = conn[j] /\ conn[j] # c
    BY <1>1 DEF IInv, TypeOK, LeaseExclusive, c
  <2>2. conn'[k] = NoConn BY ZenonT(40), <1>1 DEF IInv, TypeOK
  <2>3. QED BY <2>1, <2>2, <1>1 DEF IInv, LeaseExclusive, c
<1>6. WaiterQueueSound'
  BY ZenonT(40), <1>1, WaitersAreClients DEF IInv, TypeOK, WaiterQueueSound, Releasing
<1>7. CallsSound' BY <1>1 DEF IInv, TypeOK, CallsSound, Releasing
<1>8. QED BY ZenonT(40), <1>2, <1>3, <1>4, <1>5, <1>6, <1>7 DEF IInv

\* release() with nobody queued moves the connection to the free list.
LEMMA ReleaseIdleIInv ==
  ASSUME IInv, NEW k \in Client, ReleaseIdle(k)
  PROVE  IInv'
<1> DEFINE c == conn[k]
<1>1. /\ UNCHANGED <<all, waiters, shutting_down, warm, warm_i, reaper>>
      /\ pc[k] \in Releasing /\ c \in active /\ c # NoConn /\ c \in Conn
      /\ active' = active \ {c} /\ free_list' = Append(free_list, c)
      /\ pc' = [pc EXCEPT ![k] = "idle"] /\ conn' = [conn EXCEPT ![k] = NoConn]
  BY DEF ReleaseIdle, Return, tasks, IInv, CallsSound, TypeOK, Releasing
<1> HIDE DEF c
<1>2. c \notin Range(free_list) BY ZenonT(40), <1>1 DEF IInv, PoolPartition
<1>3. /\ free_list' \in Seq(Conn) /\ Range(free_list') = Range(free_list) \union {c}
      /\ IsInjective(free_list')
  BY SMTT(30), <1>1, <1>2, AppendFacts DEF IInv, TypeOK, PoolPartition
<1>4. PoolPartition' /\ WarmSound' BY ZenonT(40), <1>1, <1>3 DEF IInv, PoolPartition, WarmSound
<1>5. TypeOK'
  <2>1. metrics' \in [free : Nat, active : Nat, waiters : Nat, total : Nat]
    BY <1>1, <1>3, <1>4, SizesType, ZenonT(40)
    DEF IInv, TypeOK, ReleaseIdle, sync_metrics, PoolPartition
  <2>2. QED BY <2>1, <1>1, <1>3 DEF IInv, TypeOK, Returned
<1>6. LeaseExclusive'
  <2> SUFFICES ASSUME ~shutting_down PROVE LeaseExclusive'
    BY <1>1 DEF LeaseExclusive
  <2>1. \A j \in Client : j # k => conn'[j] = conn[j] /\ conn[j] # c
    BY <1>1 DEF IInv, TypeOK, LeaseExclusive, c
  <2>2. conn'[k] = NoConn BY ZenonT(40), <1>1 DEF IInv, TypeOK
  <2>3. QED BY <2>1, <2>2, <1>1 DEF IInv, LeaseExclusive, c
<1>7. WaiterQueueSound'
  BY ZenonT(40), <1>1, WaitersAreClients DEF IInv, TypeOK, WaiterQueueSound, Releasing
<1>8. CallsSound' BY <1>1 DEF IInv, TypeOK, CallsSound, Releasing
<1>9. QED BY ZenonT(40), <1>1, <1>4, <1>5, <1>6, <1>7, <1>8 DEF IInv

\* The connection changes borrowers without leaving active_.
LEMMA ReleaseHandOverIInv ==
  ASSUME IInv, NEW k \in Client, ReleaseHandOver(k)
  PROVE  IInv'
<1> DEFINE c == conn[k]
           w == Head(waiters)
<1>1. /\ UNCHANGED <<all, free_list, active, shutting_down, warm, warm_i, reaper>>
      /\ ~shutting_down
      /\ pc[k] \in Releasing /\ c \in active /\ c # NoConn /\ c \in Conn
      /\ pc' = [pc EXCEPT ![k] = "idle", ![w] = "woken"]
      /\ conn' = [conn EXCEPT ![k] = NoConn, ![w] = c]
      /\ waiters # <<>> /\ waiters' = Tail(waiters)
  BY DEF ReleaseHandOver, tasks, IInv, CallsSound, TypeOK, Releasing
<1>2. /\ waiters' \in Seq(Client) /\ w \in Client
      /\ Range(waiters) = {w} \union Range(waiters')
      /\ IsInjective(waiters') /\ w \notin Range(waiters')
  BY ZenonT(40), <1>1, TailFacts DEF IInv, TypeOK, WaiterQueueSound
<1>3. w # k /\ pc[w] \in {"waiting", "woken"} /\ conn[w] = NoConn
  BY ZenonT(40), <1>1, <1>2 DEF IInv, WaiterQueueSound, Releasing
<1> HIDE DEF c, w
<1>4. PoolPartition' /\ WarmSound' BY <1>1 DEF IInv, PoolPartition, WarmSound
<1>5. TypeOK'
  <2>1. metrics' \in [free : Nat, active : Nat, waiters : Nat, total : Nat]
    BY <1>1, <1>2, SizesType, ZenonT(40)
    DEF IInv, TypeOK, ReleaseHandOver, sync_metrics, PoolPartition
  <2>2. QED BY Zenon, <2>1, <1>1, <1>2 DEF IInv, TypeOK, Returned, Calling
<1>6. /\ conn'[k] = NoConn /\ conn'[w] = c /\ pc'[k] = "idle" /\ pc'[w] = "woken"
      /\ \A j \in Client \ {k, w} : conn'[j] = conn[j] /\ pc'[j] = pc[j]
  BY <1>1, <1>2, <1>3 DEF IInv, TypeOK
<1>7. LeaseExclusive'
  <2>1. \A j \in Client \ {k, w} : conn[j] # c
    BY <1>1 DEF IInv, LeaseExclusive, c
  <2>2. ASSUME NEW j \in Client, conn'[j] # NoConn PROVE conn'[j] \in active'
    <3>1. active' = active /\ c \in active BY <1>1
    <3>2. CASE j = w BY ZenonT(40), <3>1, <3>2, <1>6
    <3>3. CASE j # w
      <4>1. conn'[j] = conn[j] BY <2>2, <3>3, <1>6
      <4>2. QED BY ZenonT(40), <4>1, <2>2, <3>1, <1>1 DEF IInv, LeaseExclusive
    <3>4. QED BY <3>2, <3>3
  <2>3. ASSUME NEW i \in Client, NEW j \in Client, conn'[i] = conn'[j], conn'[i] # NoConn
        PROVE  i = j
    <3>1. i # k /\ j # k BY <2>3, <1>6
    <3>2. CASE i = w \/ j = w BY ZenonT(40), <3>1, <3>2, <2>1, <2>3, <1>6
    <3>3. CASE i # w /\ j # w
      <4>1. conn[i] = conn[j] /\ conn[i] # NoConn BY <3>1, <3>3, <2>3, <1>6
      <4>2. QED BY ZenonT(40), <4>1, <1>1 DEF IInv, LeaseExclusive
    <3>4. QED BY SMTT(30), <3>2, <3>3
  <2>4. ASSUME NEW d \in active' PROVE \E j \in Client : conn'[j] = d
    <3>1. CASE d = c BY <3>1, <1>2, <1>6
    <3>2. CASE d # c
      <4>1. PICK j \in Client : conn[j] = d BY ZenonT(40), <1>1 DEF IInv, LeaseExclusive
      <4>2. d # NoConn BY <1>1, ConstAssumption DEF IInv, TypeOK
      <4>3. j \notin {k, w} BY <4>1, <4>2, <3>2, <1>3 DEF c
      <4>4. QED BY <4>1, <4>3, <1>6
    <3>3. QED BY ZenonT(40), <3>1, <3>2
  <2>5. QED BY <2>2, <2>3, <2>4 DEF LeaseExclusive
<1>8. WaiterQueueSound'
  BY <1>1, <1>2, <1>3, <1>6, WaitersAreClients, ZenonT(40)
  DEF IInv, WaiterQueueSound, Releasing
<1>9. CallsSound'
  BY <1>1, <1>6, ZenonT(40) DEF IInv, CallsSound, Returned, PoolError, Releasing
<1>10. QED BY ZenonT(40), <1>1, <1>4, <1>5, <1>7, <1>8, <1>9 DEF IInv

\* warm() adds a fresh connection to the free list.
LEMMA WarmOkIInv ==
  ASSUME IInv, WarmOk
  PROVE  IInv'
<1>1. PICK c \in Conn : track(c) /\ free_list' = Append(free_list, c)
  BY DEF WarmOk
<1>2. /\ UNCHANGED <<active, waiters, shutting_down, pc, conn, reaper>>
      /\ c \notin all /\ all' = all \union {c}
      /\ warm = "connecting"
  BY ZenonT(40), <1>1 DEF WarmOk, track, calls
<1>3. /\ free_list' \in Seq(Conn) /\ Range(free_list') = Range(free_list) \union {c}
      /\ IsInjective(free_list')
  <2>1. c \notin Range(free_list) BY <1>2 DEF IInv, PoolPartition
  <2>2. QED BY <2>1, <1>1, AppendFacts DEF IInv, TypeOK, PoolPartition
<1>4. IsFiniteSet(all') BY <1>2, FS_AddElement DEF IInv
<1>5. PoolPartition' BY <1>2, <1>3 DEF IInv, PoolPartition
<1>6. warm_i' \in 0..MinConns /\ warm' \in {"connecting", "done"} /\ WarmSound'
  BY <1>2, ConstAssumption DEF IInv, TypeOK, WarmSound, WarmOk, WarmLoop
<1>7. TypeOK'
  <2>1. metrics' \in [free : Nat, active : Nat, waiters : Nat, total : Nat]
    BY ZenonT(40), <1>2, <1>3, <1>4, <1>5, SizesType DEF IInv, TypeOK, WarmOk, sync_metrics, PoolPartition
  <2>2. QED BY <2>1, <1>2, <1>3, <1>6, ZenonT(40) DEF IInv, TypeOK
<1>8. LeaseExclusive' /\ WaiterQueueSound' /\ CallsSound'
  BY <1>2 DEF IInv, LeaseExclusive, WaiterQueueSound, CallsSound
<1>9. QED BY <1>4, <1>5, <1>6, <1>7, <1>8 DEF IInv

\* drain() empties every list and wakes every queued client.
LEMMA DrainIInv ==
  ASSUME IInv, drain_impl
  PROVE  IInv'
<1>1. /\ UNCHANGED <<warm, warm_i>>
      /\ all' = {} /\ free_list' = <<>> /\ active' = {} /\ waiters' = <<>>
      /\ shutting_down' = TRUE /\ ~shutting_down
      /\ pc' = [k \in Client |-> IF k \in Range(waiters) THEN "woken" ELSE pc[k]]
      /\ conn' = [k \in Client |-> IF k \in Range(waiters) THEN NoConn ELSE conn[k]]
  BY Zenon DEF drain_impl
<1>2. Range(<<>>) = {} BY DEF Range
<1>3. IsFiniteSet(all') BY <1>1, FS_EmptySet, ZenonT(40)
<1>4. PoolPartition' /\ WarmSound' /\ LeaseExclusive'
  BY <1>1, <1>2 DEF IInv, PoolPartition, WarmSound, LeaseExclusive, IsInjective
<1>5. TypeOK'
  <2>1. free_list' \in Seq(Conn) /\ waiters' \in Seq(Client) BY <1>1
  <2>2. metrics' \in [free : Nat, active : Nat, waiters : Nat, total : Nat]
    BY Zenon, <2>1, <1>1, <1>3, SizesType DEF drain_impl, sync_metrics
  <2>3. pc' \in [Client -> Returned \union Calling] /\ conn' \in [Client -> Conn \union {NoConn}]
    BY <1>1 DEF IInv, TypeOK, Calling
  <2>4. reaper' \in {"off", "sleeping", "woken", "done"}
    BY ZenonT(40) DEF IInv, TypeOK, drain_impl
  <2>5. QED BY ZenonT(40), <2>1, <2>2, <2>3, <2>4, <1>1 DEF IInv, TypeOK
<1>6. WaiterQueueSound'
  BY SMTT(20), <1>1, <1>2 DEF IInv, WaiterQueueSound, IsInjective
<1>7. CallsSound'
  BY SMTT(20), <1>1 DEF IInv, CallsSound, WaiterQueueSound, Returned, PoolError, Releasing
<1>8. QED BY SMTT(20), <1>3, <1>4, <1>5, <1>6, <1>7 DEF IInv

\* The reaper never closes more than it was asked to, nor below min.
LEMMA EvictableFacts ==
  ASSUME NEW n \in Nat, IsFiniteSet(all)
  PROVE  /\ Evictable(n) \in 0..n
         /\ Evictable(n) > 0 => Evictable(n) <= Cardinality(all) - MinConns
<1>1. Cardinality(all) \in Nat BY FS_CardinalityType
<1>2. QED BY <1>1, ConstAssumption DEF Evictable

\* The reaper closes a prefix of the free list.
LEMMA IdleSweepIInv ==
  ASSUME IInv, IdleSweep
  PROVE  IInv'
<1>1. PICK n \in 0..Len(free_list) :
        /\ all' = all \ Range(SubSeq(free_list, 1, Evictable(n)))
        /\ free_list' = SubSeq(free_list, Evictable(n) + 1, Len(free_list))
  BY Zenon DEF IdleSweep
<1> DEFINE gone == SubSeq(free_list, 1, Evictable(n))
<1>2. Evictable(n) \in 0..Len(free_list)
  <2>1. Len(free_list) \in Nat BY DEF IInv, TypeOK
  <2>2. Evictable(n) \in 0..n BY SMTT(30), <2>1, EvictableFacts DEF IInv
  <2>3. QED BY <2>1, <2>2
<1>3. /\ free_list' \in Seq(Conn) /\ IsInjective(free_list')
      /\ Range(free_list) = Range(gone) \union Range(free_list')
      /\ Range(gone) \intersect Range(free_list') = {}
  BY SMTT(30), <1>1, <1>2, SplitFacts DEF IInv, TypeOK, PoolPartition
<1> HIDE DEF gone
<1>4. /\ UNCHANGED <<active, waiters, shutting_down, pc, conn, warm, warm_i>>
      /\ all' = all \ Range(gone) /\ reaper' = "sleeping"
  BY <1>1 DEF IdleSweep, calls, gone
<1>5. IsFiniteSet(all') BY Zenon, <1>4, FS_Difference DEF IInv
<1>6. PoolPartition' /\ WarmSound' BY ZenonT(40), <1>3, <1>4 DEF IInv, PoolPartition, WarmSound
<1>7. TypeOK'
  <2>1. metrics' \in [free : Nat, active : Nat, waiters : Nat, total : Nat]
    BY Zenon, <1>3, <1>4, <1>5, <1>6, SizesType DEF IInv, TypeOK, IdleSweep, sync_metrics, PoolPartition
  <2>2. QED BY SMTT(20), <2>1, <1>3, <1>4 DEF IInv, TypeOK
<1>8. LeaseExclusive' /\ WaiterQueueSound' /\ CallsSound'
  BY <1>4 DEF IInv, LeaseExclusive, WaiterQueueSound, CallsSound
<1>9. QED BY <1>5, <1>6, <1>7, <1>8 DEF IInv

\* Every handler preserves the invariant.
LEMMA NextIInv == IInv /\ [Next]_vars => IInv'
<1> SUFFICES ASSUME IInv, [Next]_vars PROVE IInv'
  OBVIOUS
<1>1. ASSUME NEW k \in Client, acquire_impl(k) PROVE IInv'
  BY <1>1, ListsUnchangedIInv, AcquireFreeIInv, AcquireWaitIInv
  DEF acquire_impl, AcquireShutdown, AcquireConnect
<1>2. ASSUME NEW k \in Client, FactoryAnswers(k) PROVE IInv'
  BY <1>2, ListsUnchangedIInv, ConnectOkIInv DEF FactoryAnswers, ConnectErr
<1>3. ASSUME NEW k \in Client, TimerExpires(k) PROVE IInv'
  BY Zenon, <1>3, ListsUnchangedIInv DEF TimerExpires
<1>4. ASSUME NEW k \in Client, WaiterResumes(k) PROVE IInv'
  BY <1>4, ListsUnchangedIInv, WaiterTimedOutIInv DEF WaiterResumes, WaiterOk
<1>5. ASSUME NEW k \in Client, NEW how \in Releasing, CallRelease(k, how) PROVE IInv'
  BY Zenon, <1>5, ListsUnchangedIInv DEF CallRelease
<1>6. ASSUME NEW k \in Client, release(k) PROVE IInv'
  BY ZenonT(40), <1>6, ListsUnchangedIInv, ReleaseCloseIInv, ReleaseHandOverIInv, ReleaseIdleIInv
  DEF release, ReleaseUnknown
<1>7. ASSUME WarmStart \/ WarmAnswered PROVE IInv'
  BY ZenonT(40), <1>7, ListsUnchangedIInv, WarmOkIInv DEF WarmAnswered, WarmStart, WarmErr
<1>8. ASSUME idle_reaper_impl \/ IdleTimerExpires PROVE IInv'
  BY <1>8, ListsUnchangedIInv, IdleSweepIInv
  DEF idle_reaper_impl, ReaperStart, ReaperStops, IdleTimerExpires
<1>9. CASE UNCHANGED vars BY <1>9, ListsUnchangedIInv DEF vars
<1>10. QED
  BY ZenonT(40), <1>1, <1>2, <1>3, <1>4, <1>5, <1>6, <1>7, <1>8, <1>9, DrainIInv DEF Next

\* The invariant holds in every reachable state.
LEMMA Invariance == Spec => []IInv
BY InitIInv, NextIInv, PTL DEF Spec

-----------------------------------------------------------------------------
\* Theorems

\* The lists, the calls and the background tasks keep their types.
THEOREM TypeCorrect == Spec => []TypeOK
BY Invariance, PTL DEF IInv

\* No handler of the pool drops, duplicates or misfiles a connection.
THEOREM Partition == Spec => []PoolPartition
BY Invariance, PTL DEF IInv

\* Until drain(), borrowers and lent connections correspond one to one.
THEOREM Exclusion == Spec => []LeaseExclusive
BY Invariance, PTL DEF IInv

\* The waiter queue and the suspended calls agree in every interleaving of timers,
\* releases and drain().
THEOREM QueueSoundness == Spec => []WaiterQueueSound
BY Invariance, PTL DEF IInv

=============================================================================
