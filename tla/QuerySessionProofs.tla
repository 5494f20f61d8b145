------------------------- MODULE QuerySessionProofs -------------------------
(***************************************************************************)
(* No session reads another query's answer, no connection is handed on     *)
(* with an answer left in it, none is leaked, and no client is left in the *)
(* middle of a response: for any number of clients, connections and unread *)
(* packets, and also when backends end a result with an error.  When they  *)
(* do not, no client gets a packet too many either.                        *)
(***************************************************************************)
EXTENDS QuerySession, TLAPS

\* What a session in the given phase of a response finds on its connection: the
\* packets that are under way continue the response from there without a gap, and
\* the backend is where the last of them leaves off.  Nothing follows a response.
Answering(phase, packets, todo, tag) ==
  /\ \A i \in DOMAIN packets : packets[i].for = tag
  /\ \A i \in DOMAIN todo : todo[i].for = tag
  /\ \E ph \in [0..Len(packets) -> Phase] :
       /\ ph[0] = phase
       /\ \A i \in 1..Len(packets) :
            /\ ph[i - 1] \in Reading
            /\ packets[i].kind \in Answers(ph[i - 1])
            /\ ph[i] = After(ph[i - 1], packets[i].kind)
       /\ todo # <<>> => Len(todo) = 1 /\ todo[1].phase = ph[Len(packets)]

\* Each connection is idle or has one borrower.
Exclusive ==
  /\ \A j, k \in Client : lease[j] # NoConn /\ lease[j] = lease[k] => j = k
  /\ \A k \in Client : lease[k] \notin idle

\* From acquire() to release() a session has its connection, and then the release()
\* on its way has it.
Holding ==
  \A k \in Client :
    IF at[k] \in {"writing"} \union Reading
      THEN lease[k] # NoConn /\ returning[k] = "no"
      ELSE lease[k] # NoConn <=> returning[k] # "no"

\* Only a connection that is being read, or was found broken, has anything in it.
Clean ==
  \A c \in Conn :
    \/ wire[c] = <<>> /\ jobs[c] = <<>>
    \/ \E k \in Client : lease[k] = c /\ (at[k] \in Reading \/ returning[k] = "broken")

\* A session at pc finds the rest of its answer; or it has taken an ERR for a row, and
\* there is nothing more to come.
Answered(pc, packets, todo, tag) ==
  \/ Answering(pc, packets, todo, tag)
  \/ pc = "rows" /\ Answering("done", packets, todo, tag)

\* A session that reads is in the middle of the answer to its own query.
OwnPlace ==
  \A k \in Client : at[k] \in Reading =>
    Answered(at[k], wire[lease[k]], jobs[lease[k]], <<k, turn[k]>>)

\* A client is at the end of a response when it may ask, nowhere in the next one before
\* its query is forwarded, and then where its session is, or ahead of it.
Responded ==
  \A k \in Client :
    /\ at[k] \in {"login", "command", "served"} => view[k] \notin Reading
    /\ at[k] \in {"acquiring", "writing"} => view[k] \in {"first", "garbled"}
    /\ at[k] \in Reading => view[k] = at[k] \/ view[k] \notin Reading

\* Unless results end with ERR it is never ahead, so an error that the session sends
\* of its own finds it before the end of its response.
InStep ==
  ~RowError => \A k \in Client :
    /\ view[k] # "garbled"
    /\ at[k] \in Reading => view[k] = at[k]
    /\ at[k] \in {"reply", "failed"} => view[k] \in Reading

IInv == TypeOK /\ Exclusive /\ Holding /\ Clean /\ OwnPlace /\ Responded /\ InStep

-----------------------------------------------------------------------------
(* Responses.                                                              *)

\* Sequences stay sequences.
LEMMA SeqFacts ==
  ASSUME NEW S, NEW s \in Seq(S)
  PROVE  /\ s # <<>> => Tail(s) \in Seq(S)
         /\ \A e \in S : Append(s, e) \in Seq(S)
         /\ \A e \in S : \A i \in 1..Len(s) : [s EXCEPT ![i] = e] \in Seq(S)
OBVIOUS

Packet == [for : Tag, kind : Kind]
Job == [for : Tag, phase : Reading]
Packets == Seq(Packet)
Todo == Seq(Job)

\* The job a backend is at.
LEMMA FirstJob ==
  ASSUME NEW todo \in Todo, todo # <<>>
  PROVE  1 \in DOMAIN todo /\ todo[1] \in Job /\ Head(todo) = todo[1] /\ todo[1].phase \in Reading
<1>1. 1 \in DOMAIN todo /\ todo[1] \in Job /\ Head(todo) = todo[1]
  BY DEF Todo
<1>2. QED
  BY <1>1 DEF Job

\* A backend that continues a response moves on to a phase of it.
LEMMA AnswersAdvance ==
  ASSUME NEW phase \in Reading, NEW kind \in Answers(phase)
  PROVE  kind \in Kind /\ After(phase, kind) \in Phase
BY DEF Answers, After, Reading, Phase, Kind

\* A query has just been written, and nothing is under way yet.
LEMMA StartsAnswering ==
  ASSUME NEW tag \in Tag, NEW todo \in Todo,
         todo # <<>> => todo = <<[for |-> tag, phase |-> "first"]>>
  PROVE  Answering("first", <<>>, todo, tag)
<1> DEFINE ph == [i \in 0..0 |-> "first"]
<1>1. ph \in [0..Len(<<>>) -> Phase] /\ ph[0] = "first"
  BY DEF Phase
<1>2. \A i \in DOMAIN todo : todo[i].for = tag
  BY DEF Todo
<1>3. todo # <<>> => Len(todo) = 1 /\ todo[1].phase = ph[Len(<<>>)]
  BY <1>1
<1> HIDE DEF ph
<1>4. QED
  BY <1>1, <1>2, <1>3 DEF Answering

\* The backend goes away in the middle of a response.
LEMMA AnswerCutShort ==
  ASSUME NEW phase, NEW packets, NEW todo, NEW tag, Answering(phase, packets, todo, tag)
  PROVE  Answering(phase, packets, <<>>, tag)
BY DEF Answering

\* The backend sends the next packet of the response, the last one or another.
LEMMA SendsAnswer ==
  ASSUME NEW phase, NEW packets \in Packets, NEW todo \in Todo, NEW tag \in Tag,
         Answering(phase, packets, todo, tag), todo # <<>>,
         NEW kind \in Answers(Head(todo).phase)
  PROVE  LET next == After(Head(todo).phase, kind)
             more == Append(packets, [for |-> Head(todo).for, kind |-> kind])
         IN  /\ next = "done" => Answering(phase, more, Tail(todo), tag)
             /\ next # "done" => Answering(phase, more, [todo EXCEPT ![1].phase = next], tag)
<1> DEFINE next == After(Head(todo).phase, kind)
           more == Append(packets, [for |-> Head(todo).for, kind |-> kind])
           n == Len(packets)
<1>1. PICK ph \in [0..n -> Phase] :
        /\ ph[0] = phase
        /\ \A i \in 1..n : ph[i - 1] \in Reading /\ packets[i].kind \in Answers(ph[i - 1])
                           /\ ph[i] = After(ph[i - 1], packets[i].kind)
        /\ todo # <<>> => Len(todo) = 1 /\ todo[1].phase = ph[n]
  BY DEF Answering
<1>2. Len(todo) = 1 /\ Head(todo) = todo[1] /\ todo[1].phase = ph[n] /\ todo[1].for = tag
      /\ todo[1].phase \in Reading
  <2>1. Len(todo) = 1 /\ todo[1].phase = ph[n]
    BY <1>1
  <2>2. todo[1].for = tag
    BY FirstJob DEF Answering
  <2>3. QED
    BY <2>1, <2>2, FirstJob
<1>3. kind \in Kind /\ next \in Phase
  BY <1>2, AnswersAdvance
<1> DEFINE qh == [i \in 0..n + 1 |-> IF i = n + 1 THEN next ELSE ph[i]]
<1>4. n \in Nat /\ Len(more) = n + 1 /\ DOMAIN more = 1..n + 1
      /\ more[n + 1] = [for |-> tag, kind |-> kind]
      /\ \A i \in 1..n : more[i] = packets[i]
  BY <1>2, <1>3 DEF Packets, Tag
<1>5. qh \in [0..Len(more) -> Phase] /\ qh[0] = phase
  BY <1>1, <1>3, <1>4
<1>6. ASSUME NEW i \in 1..Len(more)
      PROVE  /\ qh[i - 1] \in Reading
             /\ more[i].kind \in Answers(qh[i - 1])
             /\ qh[i] = After(qh[i - 1], more[i].kind)
  <2>1. CASE i = n + 1
    BY <2>1, <1>2, <1>4
  <2>2. CASE i \in 1..n
    BY <2>2, <1>1, <1>4
  <2>3. QED
    BY <2>1, <2>2, <1>4
<1>7. qh[Len(more)] = next
  BY <1>4
<1>8. \A i \in DOMAIN more : more[i].for = tag
  BY <1>4 DEF Answering, Packets
<1> HIDE DEF qh, more, next
<1>9. Answering(phase, more, [todo EXCEPT ![1].phase = next], tag)
  <2> DEFINE job == [todo EXCEPT ![1].phase = next]
  <2>1. Len(job) = 1 /\ DOMAIN job = {1} /\ job[1] = [todo[1] EXCEPT !.phase = next]
    BY <1>2 DEF Todo
  <2>2. job[1].for = tag /\ job[1].phase = next
    BY <2>1, <1>2, FirstJob DEF Job
  <2> HIDE DEF job
  <2>3. Answering(phase, more, job, tag)
    BY Zenon, <2>1, <2>2, <1>5, <1>6, <1>7, <1>8 DEF Answering
  <2>4. QED
    BY <2>3 DEF job
<1>10. Answering(phase, more, Tail(todo), tag)
  <2>1. Tail(todo) = <<>>
    BY <1>2 DEF Todo
  <2>2. QED
    BY Zenon, <2>1, <1>9, AnswerCutShort
<1>11. QED
  BY <1>9, <1>10 DEF next, more

\* The session reads a packet: it is one that belongs there, and the rest of the
\* response follows it.
LEMMA ReadsAnswer ==
  ASSUME NEW phase, NEW packets \in Packets, NEW todo \in Todo, NEW tag \in Tag,
         Answering(phase, packets, todo, tag), packets # <<>>
  PROVE  /\ phase \in Reading /\ Head(packets).kind \in Answers(phase)
         /\ Answering(After(phase, Head(packets).kind), Tail(packets), todo, tag)
<1> DEFINE n == Len(packets)
           rest == Tail(packets)
<1>1. PICK ph \in [0..n -> Phase] :
        /\ ph[0] = phase
        /\ \A i \in 1..n : ph[i - 1] \in Reading /\ packets[i].kind \in Answers(ph[i - 1])
                           /\ ph[i] = After(ph[i - 1], packets[i].kind)
        /\ todo # <<>> => Len(todo) = 1 /\ todo[1].phase = ph[n]
  BY DEF Answering
<1>2. n \in Nat \ {0} /\ Head(packets) = packets[1] /\ Len(rest) = n - 1
      /\ \A i \in 1..n - 1 : rest[i] = packets[i + 1]
  BY DEF Packets
<1>3. phase \in Reading /\ Head(packets).kind \in Answers(phase)
      /\ After(phase, Head(packets).kind) = ph[1]
  BY <1>1, <1>2
<1> DEFINE qh == [i \in 0..n - 1 |-> ph[i + 1]]
<1>4. qh \in [0..Len(rest) -> Phase] /\ qh[0] = ph[1] /\ qh[Len(rest)] = ph[n]
  BY <1>1, <1>2
<1>5. ASSUME NEW i \in 1..Len(rest)
      PROVE  /\ qh[i - 1] \in Reading
             /\ rest[i].kind \in Answers(qh[i - 1])
             /\ qh[i] = After(qh[i - 1], rest[i].kind)
  <2>1. i \in 1..n - 1 /\ i + 1 \in 1..n /\ qh[i - 1] = ph[i] /\ qh[i] = ph[i + 1]
        /\ rest[i] = packets[i + 1] /\ (i + 1) - 1 = i
    BY <1>2
  <2>2. ph[i] \in Reading /\ packets[i + 1].kind \in Answers(ph[i])
        /\ ph[i + 1] = After(ph[i], packets[i + 1].kind)
    BY <2>1, <1>1
  <2>3. QED
    BY <2>1, <2>2
<1>6. \A i \in DOMAIN rest : rest[i].for = tag
  BY <1>2 DEF Answering, Packets
<1>7. \A i \in DOMAIN todo : todo[i].for = tag
  BY DEF Answering
<1> HIDE DEF qh, rest
<1>8. Answering(ph[1], rest, todo, tag)
  BY Zenon, <1>1, <1>4, <1>5, <1>6, <1>7 DEF Answering
<1>9. QED
  BY <1>3, <1>8 DEF rest

\* After the last packet of a response nothing is left.
LEMMA AnswerEnds ==
  ASSUME NEW packets \in Packets, NEW todo \in Todo, NEW tag,
         Answering("done", packets, todo, tag)
  PROVE  packets = <<>> /\ todo = <<>>
<1> DEFINE n == Len(packets)
<1>1. PICK ph \in [0..n -> Phase] :
        /\ ph[0] = "done"
        /\ \A i \in 1..n : ph[i - 1] \in Reading
        /\ todo # <<>> => Len(todo) = 1 /\ todo[1].phase = ph[n]
  BY DEF Answering
<1>2. packets = <<>>
  BY <1>1 DEF Packets, Reading
<1>3. QED
  BY <1>1, <1>2, FirstJob DEF Reading

-----------------------------------------------------------------------------
(* The invariant is inductive.                                             *)

Outside == {"closed", "login", "command", "reply", "acquiring", "served", "failed"}

LEMMA InitIInv == Init => IInv
<1> SUFFICES ASSUME Init PROVE IInv
  OBVIOUS
<1>1. TypeOK
  BY DEF Init, Pool!Init, TypeOK, Phase, Reading
<1>2. Exclusive /\ Holding /\ Clean /\ OwnPlace /\ Responded /\ InStep
  BY DEF Init, Pool!Init, Exclusive, Holding, Clean, OwnPlace, Responded, InStep, Reading
<1>3. QED
  BY <1>1, <1>2 DEF IInv

\* A session that has no connection goes on without the pool.
LEMMA OutsideIInv ==
  ASSUME IInv, NEW k \in Client, NEW pc \in Outside, at[k] \in Outside, GoTo(k, pc),
         UNCHANGED <<pool, backends, returning>>,
         turn' \in [Client -> {0, 1}], view' \in [Client -> Phase \union {"garbled"}],
         gone' \in [Client -> BOOLEAN],
         \A j \in Client \ {k} : turn'[j] = turn[j] /\ view'[j] = view[j],
         pc \in {"login", "command", "served"} => view'[k] \notin Reading,
         pc = "acquiring" => view'[k] \in {"first", "garbled"},
         ~RowError => view'[k] # "garbled" /\ (pc \in {"reply", "failed"} => view'[k] \in Reading)
  PROVE  IInv'
<1>1. /\ at'[k] = pc /\ \A j \in Client \ {k} : at'[j] = at[j]
      /\ at' \in [Client -> {"closed", "login", "command", "reply", "acquiring", "writing",
                             "served", "failed"} \union Reading]
  BY DEF IInv, TypeOK, GoTo, Outside
<1>2. UNCHANGED <<idle, lease, wire, jobs, dead, returning>>
  BY DEF pool, backends
<1>3. TypeOK'
  BY Zenon, <1>1, <1>2 DEF IInv, TypeOK
<1>4. Exclusive'
  BY <1>2 DEF IInv, Exclusive
<1>5. Holding'
  BY <1>1, <1>2 DEF IInv, Holding, Outside, Reading
<1>6. Clean'
  BY <1>1, <1>2 DEF IInv, Clean, Outside, Reading
<1>7. OwnPlace'
  BY <1>1, <1>2 DEF IInv, OwnPlace, Outside, Reading
<1>8. Responded'
  BY <1>1 DEF IInv, Responded, Outside, Reading
<1>9. InStep'
  BY <1>1 DEF IInv, InStep, Outside, Reading
<1>10. QED
  BY <1>3, <1>4, <1>5, <1>6, <1>7, <1>8, <1>9 DEF IInv

\* The steps of do_run and command_loop, and those of route_and_forward before
\* acquire() succeeds and after release().
LEMMA CommandIInv ==
  ASSUME IInv, NEW k \in Client,
         \/ Accept(k) \/ LoginOk(k) \/ LoginFails(k) \/ command_loop(k) \/ Reply(k)
         \/ AcquireErr(k) \/ Count(k)
  PROVE  IInv'
<1> USE DEF Outside, Phase, Reading, pool, backends, clients
<1>1. /\ turn \in [Client -> {0, 1}] /\ view \in [Client -> Phase \union {"garbled"}]
      /\ gone \in [Client -> BOOLEAN]
      /\ at[k] \in {"login", "command", "served"} => view[k] \notin Reading
      /\ at[k] = "acquiring" => view[k] \in {"first", "garbled"}
      /\ ~RowError => view[k] # "garbled" /\ (at[k] \in {"reply", "failed"} => view[k] \in Reading)
  BY DEF IInv, TypeOK, Responded, InStep
<1>2. CASE Accept(k)
  BY <1>1, <1>2, OutsideIInv DEF Accept
<1>3. CASE LoginOk(k)
  BY <1>1, <1>3, OutsideIInv DEF LoginOk
<1>4. CASE LoginFails(k)
  BY <1>1, <1>4, OutsideIInv DEF LoginFails
<1>5. CASE Quit(k)
  BY <1>1, <1>5, OutsideIInv DEF Quit
<1>6. CASE LocalCommand(k)
  BY <1>1, <1>6, OutsideIInv DEF LocalCommand, Ask
<1>7. CASE Query(k)
  BY <1>1, <1>7, OutsideIInv DEF Query, Ask
<1>8. CASE Reply(k)
  BY <1>1, <1>8, OutsideIInv DEF Reply, After
<1>9. CASE AcquireErr(k)
  BY <1>1, <1>9, OutsideIInv DEF AcquireErr
<1>10. CASE Count(k)
  BY <1>1, <1>10, OutsideIInv DEF Count
<1>11. QED
  BY <1>2, <1>3, <1>4, <1>5, <1>6, <1>7, <1>8, <1>9, <1>10 DEF command_loop

\* acquire() gives the session a connection that is idle, new or handed over, and
\* clean: the lists and the verdicts change for nobody else.
LEMMA AcquiredIInv ==
  ASSUME IInv, NEW k \in Client, NEW c \in Conn, at[k] = "acquiring", GoTo(k, "writing"),
         lease[k] = NoConn,
         returning' \in [Client -> {"no", "healthy", "broken"}], returning'[k] = "no",
         lease' \in [Client -> Conn \union {NoConn}], lease'[k] = c,
         idle' \in SUBSET Conn, c \notin idle', idle' \subseteq idle,
         \A j \in Client \ {k} :
           \/ lease'[j] = lease[j] /\ lease[j] # c /\ returning'[j] = returning[j]
           \/ lease'[j] = NoConn /\ returning[j] = "healthy" /\ returning'[j] = "no",
         wire[c] = <<>>, jobs[c] = <<>>,
         UNCHANGED <<backends, turn, clients>>
  PROVE  IInv'
<1>1. /\ at'[k] = "writing" /\ \A j \in Client \ {k} : at'[j] = at[j]
      /\ at' \in [Client -> {"closed", "login", "command", "reply", "acquiring", "writing",
                             "served", "failed"} \union Reading]
  BY DEF IInv, TypeOK, GoTo
<1>2. UNCHANGED <<wire, jobs, dead, turn, view, gone>>
  BY DEF backends, clients
<1>3. NoConn \notin Conn
  BY SessionAssumption
<1>4. \A j \in Client \ {k} : lease'[j] # c /\ (lease'[j] = lease[j] \/ lease'[j] = NoConn)
  BY <1>3
<1>5. TypeOK'
  BY Zenon, <1>1, <1>2 DEF IInv, TypeOK
<1>6. Exclusive'
  <2>1. Exclusive /\ NoConn \notin idle'
    BY <1>3 DEF IInv
  <2>2. \A i, j \in Client : lease'[i] # NoConn /\ lease'[i] = lease'[j] => i = j
    BY <2>1, <1>4 DEF Exclusive
  <2>3. \A j \in Client : lease'[j] \notin idle'
    BY <2>1, <1>4 DEF Exclusive
  <2>4. QED
    BY <2>2, <2>3 DEF Exclusive
<1>7. Holding'
  BY <1>1, <1>3 DEF IInv, Holding, Reading
<1>8. Clean'
  BY <1>1, <1>2, <1>4 DEF IInv, Clean, Holding, Reading
<1>9. OwnPlace'
  BY <1>1, <1>2 DEF IInv, OwnPlace, Holding, Reading
<1>10. Responded' /\ InStep'
  BY <1>1, <1>2 DEF IInv, Responded, InStep, Reading
<1>11. QED
  BY <1>5, <1>6, <1>7, <1>8, <1>9, <1>10 DEF IInv

LEMMA AcquireIInv ==
  ASSUME IInv, NEW k \in Client, AcquireIdle(k) \/ AcquireNew(k)
  PROVE  IInv'
<1>1. PICK c \in Conn : Pool!Borrow(k, c) \/ Pool!OpenFor(k, c)
  BY DEF AcquireIdle, AcquireNew
<1>2. /\ at[k] = "acquiring" /\ returning[k] = "no" /\ GoTo(k, "writing")
      /\ UNCHANGED <<backends, returning, turn, clients>>
  BY DEF AcquireIdle, AcquireNew
<1>3. \A j \in Client : lease[j] # c
  BY <1>1, SessionAssumption DEF Pool!Borrow, Pool!OpenFor, Pool!Lent, IInv, Exclusive
<1>4. wire[c] = <<>> /\ jobs[c] = <<>>
  BY <1>3 DEF IInv, Clean
<1>5. /\ lease[k] = NoConn /\ lease' = [lease EXCEPT ![k] = c]
      /\ c \notin idle' /\ idle' \subseteq idle
  BY <1>1 DEF Pool!Borrow, Pool!OpenFor
<1>6. lease' \in [Client -> Conn \union {NoConn}] /\ lease'[k] = c
      /\ \A j \in Client \ {k} : lease'[j] = lease[j]
  BY <1>5 DEF IInv, TypeOK
<1>7. idle' \in SUBSET Conn /\ returning' \in [Client -> {"no", "healthy", "broken"}]
  BY <1>2, <1>5 DEF IInv, TypeOK
<1>8. QED
  BY <1>2, <1>3, <1>4, <1>5, <1>6, <1>7, AcquiredIInv

LEMMA ReleaseToIInv ==
  ASSUME IInv, NEW k \in Client, NEW j \in Client, ReleaseTo(k, j)
  PROVE  IInv'
<1>1. /\ returning[k] = "healthy" /\ returning' = [returning EXCEPT ![k] = "no"]
      /\ at[j] = "acquiring" /\ GoTo(j, "writing")
      /\ lease[k] # NoConn /\ lease[j] = NoConn /\ k # j
      /\ lease' = [lease EXCEPT ![k] = NoConn, ![j] = lease[k]] /\ idle' = idle
      /\ UNCHANGED <<backends, turn, clients>>
  BY DEF ReleaseTo, Pool!HandOver
<1>2. PICK c \in Conn : c = lease[k]
  BY <1>1 DEF IInv, TypeOK
<1>3. returning[j] = "no"
  BY <1>1 DEF IInv, Holding, Reading
<1>4. \A i \in Client \ {k} : lease[i] # c
  BY <1>1, <1>2 DEF IInv, Exclusive
<1>5. wire[c] = <<>> /\ jobs[c] = <<>>
  BY <1>1, <1>2, <1>4 DEF IInv, Clean, Holding
<1>6. c \notin idle' /\ idle' \subseteq idle /\ idle' \in SUBSET Conn
  BY <1>1, <1>2 DEF IInv, Exclusive, TypeOK
<1>7. lease' \in [Client -> Conn \union {NoConn}] /\ lease'[j] = c /\ lease'[k] = NoConn
      /\ \A i \in Client \ {k, j} : lease'[i] = lease[i]
  BY Zenon, <1>1, <1>2 DEF IInv, TypeOK
<1>8. returning' \in [Client -> {"no", "healthy", "broken"}] /\ returning'[k] = "no"
      /\ \A i \in Client \ {k} : returning'[i] = returning[i]
  BY <1>1 DEF IInv, TypeOK
<1>9. QED
  BY <1>1, <1>3, <1>4, <1>5, <1>6, <1>7, <1>8, AcquiredIInv

\* release(pooled, false): a failed write or read, or a client that is gone.  What
\* is left in the connection stays there until the pool closes it.
LEMMA GivesUpIInv ==
  ASSUME IInv, NEW k \in Client, WriteFails(k) \/ ForwardToNobody(k) \/ ReadFails(k)
  PROVE  IInv'
<1>1. /\ at[k] \in {"writing"} \union Reading /\ Release(k, FALSE)
      /\ UNCHANGED <<pool, jobs, dead, turn, clients>>
  BY Zenon DEF WriteFails, ForwardToNobody, ReadFails, backends
<1>2. UNCHANGED <<idle, lease, jobs, dead, turn, view, gone>>
  BY <1>1 DEF pool, clients
<1>3. lease[k] \in Conn /\ \A j \in Client \ {k} : lease[j] # lease[k]
  BY <1>1 DEF IInv, TypeOK, Holding, Exclusive
<1>4. /\ wire' \in [Conn -> Seq([for : Tag, kind : Kind])]
      /\ \A c \in Conn \ {lease[k]} : wire'[c] = wire[c]
  <2>1. CASE UNCHANGED wire
    BY Zenon, <2>1 DEF IInv, TypeOK
  <2>2. CASE wire[lease[k]] # <<>> /\ wire' = [wire EXCEPT ![lease[k]] = Tail(@)]
    <3>1. wire[lease[k]] \in Seq([for : Tag, kind : Kind])
      BY Zenon, <1>3 DEF IInv, TypeOK
    <3>2. Tail(wire[lease[k]]) \in Seq([for : Tag, kind : Kind])
      BY <3>1, <2>2, SeqFacts
    <3>3. QED
      BY Zenon, <3>2, <2>2 DEF IInv, TypeOK
  <2>3. QED
    BY Zenon, <2>1, <2>2 DEF WriteFails, ForwardToNobody, ReadFails, backends
<1>5. /\ at'[k] = "failed" /\ \A j \in Client \ {k} : at'[j] = at[j]
      /\ at' \in [Client -> {"closed", "login", "command", "reply", "acquiring", "writing",
                             "served", "failed"} \union Reading]
  BY <1>1 DEF IInv, TypeOK, Release, GoTo
<1>6. /\ returning'[k] = "broken" /\ \A j \in Client \ {k} : returning'[j] = returning[j]
      /\ returning' \in [Client -> {"no", "healthy", "broken"}]
  BY <1>1 DEF IInv, TypeOK, Release
<1>7. TypeOK'
  BY Zenon, <1>2, <1>4, <1>5, <1>6 DEF IInv, TypeOK
<1>8. Exclusive'
  BY <1>2 DEF IInv, Exclusive
<1>9. Holding'
  BY <1>1, <1>2, <1>5, <1>6 DEF IInv, Holding, Reading
<1>10. Clean'
  <2>1. ASSUME NEW c \in Conn, c # lease[k], ~(wire'[c] = <<>> /\ jobs'[c] = <<>>)
        PROVE  \E j \in Client : lease'[j] = c /\ (at'[j] \in Reading \/ returning'[j] = "broken")
    <3>1. PICK j \in Client : lease[j] = c /\ (at[j] \in Reading \/ returning[j] = "broken")
      BY <2>1, <1>2, <1>4 DEF IInv, Clean
    <3>2. QED
      BY <3>1, <2>1, <1>2, <1>5, <1>6
  <2>2. QED
    BY <2>1, <1>2, <1>6 DEF Clean
<1>11. OwnPlace'
  <2>1. ASSUME NEW j \in Client, at'[j] \in Reading
        PROVE  j # k /\ lease[j] \in Conn \ {lease[k]}
    BY <2>1, <1>3, <1>5 DEF IInv, TypeOK, Holding, Reading
  <2>2. QED
    BY <2>1, <1>2, <1>4, <1>5, ZenonT(40) DEF IInv, OwnPlace
<1>12. Responded' /\ InStep'
  BY <1>1, <1>2, <1>5 DEF IInv, Responded, InStep, Reading, TypeOK, Phase
<1>13. QED
  BY <1>7, <1>8, <1>9, <1>10, <1>11, <1>12 DEF IInv

\* The query is written to a clean connection.
LEMMA WriteQueryIInv ==
  ASSUME IInv, NEW k \in Client, WriteQuery(k)
  PROVE  IInv'
<1> DEFINE c == lease[k]
           tag == <<k, turn[k]>>
           job == [for |-> tag, phase |-> "first"]
<1>1. /\ at[k] = "writing" /\ GoTo(k, "first")
      /\ jobs' = [jobs EXCEPT ![c] = IF dead[c] THEN @ ELSE Append(@, job)]
      /\ UNCHANGED <<idle, lease, wire, dead, returning, turn, view, gone>>
  BY DEF WriteQuery, pool, clients
<1>2. c \in Conn /\ \A j \in Client \ {k} : lease[j] # c
  BY <1>1 DEF IInv, TypeOK, Holding, Exclusive
<1>3. wire[c] = <<>> /\ jobs[c] = <<>>
  BY <1>1, <1>2 DEF IInv, Clean, Holding, Reading
<1>4. tag \in Tag /\ job \in Job
  BY DEF IInv, TypeOK, Tag, Job, Reading
<1>5. jobs'[c] \in Todo /\ (jobs'[c] # <<>> => jobs'[c] = <<job>>)
  <2>1. jobs'[c] = IF dead[c] THEN <<>> ELSE Append(<<>>, job)
    BY <1>1, <1>2, <1>3 DEF IInv, TypeOK
  <2> HIDE DEF job
  <2>2. Append(<<>>, job) = <<job>> /\ <<job>> \in Todo /\ <<>> \in Todo
    BY <1>4 DEF Todo
  <2>3. QED
    BY <2>1, <2>2
<1>6. jobs' \in [Conn -> Todo] /\ \A d \in Conn \ {c} : jobs'[d] = jobs[d]
  BY Zenon, <1>1, <1>2, <1>5 DEF IInv, TypeOK, Todo, Job
<1>7. /\ at'[k] = "first" /\ \A j \in Client \ {k} : at'[j] = at[j]
      /\ at' \in [Client -> {"closed", "login", "command", "reply", "acquiring", "writing",
                             "served", "failed"} \union Reading]
  BY <1>1 DEF IInv, TypeOK, GoTo, Reading
<1>8. TypeOK'
  BY Zenon, <1>1, <1>6, <1>7 DEF IInv, TypeOK, Todo, Job
<1>9. Exclusive'
  BY <1>1 DEF IInv, Exclusive
<1>10. Holding'
  BY <1>1, <1>7 DEF IInv, Holding, Reading
<1>11. Clean'
  BY SMTT(30), <1>1, <1>2, <1>6, <1>7 DEF IInv, Clean, Reading
<1>12. OwnPlace'
  <2>1. Answering("first", wire'[c], jobs'[c], tag)
    BY <1>1, <1>3, <1>4, <1>5, StartsAnswering
  <2>2. turn'[k] = turn[k]
    BY <1>1
  <2>3. ASSUME NEW j \in Client \ {k}, at[j] \in Reading
        PROVE  lease[j] \in Conn \ {c}
    BY <2>3, <1>2 DEF IInv, TypeOK, Holding
  <2> HIDE DEF c
  <2>4. QED
    BY <2>1, <2>2, <2>3, <1>1, <1>6, <1>7 DEF IInv, OwnPlace, Answered, c
<1>13. Responded' /\ InStep'
  BY <1>1, <1>7 DEF IInv, Responded, InStep, Reading
<1>14. QED
  BY <1>8, <1>9, <1>10, <1>11, <1>12, <1>13 DEF IInv

\* proxy_result follows the response as its client does, but for an ERR among the
\* rows.
LEMMA ProxiedFollows ==
  ASSUME NEW phase \in Reading, NEW kind \in Answers(phase)
  PROVE  \/ Proxied(phase, kind) = After(phase, kind)
         \/ Proxied(phase, kind) = "rows" /\ After(phase, kind) = "done" /\ RowError
BY DEF Answers, After, Proxied, Reading

\* A packet of the response is forwarded; after the last one the connection is clean.
LEMMA ForwardIInv ==
  ASSUME IInv, NEW k \in Client, Forward(k)
  PROVE  IInv'
<1> DEFINE c == lease[k]
           tag == <<k, turn[k]>>
           kind == Head(wire[c]).kind
           next == Proxied(at[k], kind)
<1>1. /\ at[k] \in Reading /\ wire[c] # <<>>
      /\ wire' = [wire EXCEPT ![c] = Tail(@)]
      /\ view' = [view EXCEPT ![k] = After(@, kind)]
      /\ next = "done" => Release(k, TRUE)
      /\ next # "done" => GoTo(k, next) /\ UNCHANGED returning
      /\ UNCHANGED <<idle, lease, jobs, dead, turn, gone>>
  BY Zenon DEF Forward, pool
<1>2. c \in Conn /\ \A j \in Client \ {k} : lease[j] # c
  BY <1>1 DEF IInv, TypeOK, Holding, Exclusive
<1>3. wire[c] \in Packets /\ jobs[c] \in Todo /\ tag \in Tag
  BY Zenon, <1>2 DEF IInv, TypeOK, Packets, Packet, Todo, Job, Tag
<1>4. Answering(at[k], wire[c], jobs[c], tag)
  <2>1. Answered(at[k], wire[c], jobs[c], tag)
    BY <1>1 DEF IInv, OwnPlace
  <2>2. ~Answering("done", wire[c], jobs[c], tag)
    BY Zenon, <1>1, <1>3, AnswerEnds
  <2>3. QED
    BY ZenonT(40), <2>1, <2>2 DEF Answered
<1>5. /\ kind \in Answers(at[k])
      /\ Answering(After(at[k], kind), Tail(wire[c]), jobs[c], tag)
  BY Zenon, <1>1, <1>3, <1>4, ReadsAnswer
<1>6. /\ After(at[k], kind) \in Phase
      /\ next = After(at[k], kind) \/ (next = "rows" /\ After(at[k], kind) = "done" /\ RowError)
  BY Zenon, <1>1, <1>5, AnswersAdvance, ProxiedFollows
<1>7. /\ view[k] = at[k] \/ (view[k] \notin Reading /\ RowError)
      /\ view[k] \notin Reading => After(view[k], kind) = "garbled"
  BY ZenonT(40), <1>1, SessionAssumption DEF IInv, Responded, InStep, After, Reading
<1>8. Tail(wire[c]) \in Packets
  BY <1>1, <1>3, SeqFacts DEF Packets
<1>9. /\ wire'[c] = Tail(wire[c]) /\ \A d \in Conn \ {c} : wire'[d] = wire[d]
      /\ wire' \in [Conn -> Packets]
  BY Zenon, <1>1, <1>2, <1>8 DEF IInv, TypeOK, Packets, Packet
<1>10. /\ view'[k] = After(view[k], kind) /\ \A j \in Client \ {k} : view'[j] = view[j]
       /\ view' \in [Client -> Phase \union {"garbled"}]
  BY ZenonT(40), <1>1, <1>6, <1>7 DEF IInv, TypeOK
<1>11. UNCHANGED <<idle, lease, jobs, dead, turn, gone>> /\ at[k] \in Reading
  BY <1>1
<1> HIDE DEF next, kind, c
<1>12. Answering(After(at[k], kind), wire'[c], jobs'[c], tag)
  BY <1>5, <1>9, <1>11
<1>13. ASSUME NEW j \in Client \ {k}, at[j] \in Reading
       PROVE  Answered(at[j], wire'[lease'[j]], jobs'[lease'[j]], <<j, turn'[j]>>)
  <2>1. lease[j] \in Conn \ {c}
    BY <1>2, <1>13 DEF IInv, TypeOK, Holding
  <2>2. QED
    BY <2>1, <1>9, <1>10, <1>11, <1>13 DEF IInv, OwnPlace
<1>14. ASSUME NEW d \in Conn \ {c}, ~(wire'[d] = <<>> /\ jobs'[d] = <<>>)
       PROVE  \E j \in Client \ {k} : lease'[j] = d /\ (at[j] \in Reading \/ returning[j] = "broken")
  <2>1. ~(wire[d] = <<>> /\ jobs[d] = <<>>)
    BY <1>9, <1>11, <1>14
  <2>2. QED
    BY <2>1, <1>11 DEF IInv, Clean, c
<1>15. CASE next = "done"
  <2>1. /\ at'[k] = "served" /\ \A j \in Client \ {k} : at'[j] = at[j]
        /\ at' \in [Client -> {"closed", "login", "command", "reply", "acquiring", "writing",
                               "served", "failed"} \union Reading]
    BY Zenon, <1>1, <1>15 DEF IInv, TypeOK, Release, GoTo
  <2>2. /\ returning'[k] = "healthy" /\ \A j \in Client \ {k} : returning'[j] = returning[j]
        /\ returning' \in [Client -> {"no", "healthy", "broken"}]
    BY Zenon, <1>1, <1>15 DEF IInv, TypeOK, Release
  <2>3. After(at[k], kind) = "done" /\ view'[k] \in {"done", "garbled"} /\ (~RowError => view'[k] = "done")
    BY <1>6, <1>7, <1>10, <1>15
  <2>4. wire'[c] = <<>> /\ jobs'[c] = <<>>
    <3>1. Answering("done", wire'[c], jobs'[c], tag)
      BY <1>12, <2>3
    <3>2. wire'[c] \in Packets /\ jobs'[c] \in Todo
      BY <1>3, <1>8, <1>9, <1>11
    <3>3. QED
      BY <3>1, <3>2, AnswerEnds
  <2>5. TypeOK'
    BY Zenon, <1>9, <1>10, <1>11, <2>1, <2>2 DEF IInv, TypeOK, Packets, Packet
  <2>6. Exclusive'
    BY <1>11 DEF IInv, Exclusive
  <2>7. Holding'
    BY <1>11, <2>1, <2>2 DEF IInv, Holding, Reading
  <2>8. Clean'
    BY <1>14, <2>1, <2>2, <2>4 DEF Clean
  <2>9. OwnPlace'
    BY ZenonT(40), <1>13, <2>1 DEF OwnPlace, Reading
  <2>10. Responded' /\ InStep'
    BY <1>10, <2>1, <2>3 DEF IInv, Responded, InStep, Reading
  <2>11. QED
    BY <2>5, <2>6, <2>7, <2>8, <2>9, <2>10 DEF IInv
<1>16. CASE next # "done"
  <2>1. next \in Reading
    BY <1>6, <1>16 DEF Phase, Reading
  <2>2. /\ at'[k] = next /\ \A j \in Client \ {k} : at'[j] = at[j]
        /\ at' \in [Client -> {"closed", "login", "command", "reply", "acquiring", "writing",
                               "served", "failed"} \union Reading]
    BY ZenonT(40), <1>1, <1>16, <2>1 DEF IInv, TypeOK, GoTo
  <2>3. UNCHANGED returning
    BY <1>1, <1>16
  <2>4. TypeOK'
    BY Zenon, <1>9, <1>10, <1>11, <2>2, <2>3 DEF IInv, TypeOK, Packets, Packet
  <2>5. Exclusive'
    BY <1>11 DEF IInv, Exclusive
  <2>6. Holding'
    BY ZenonT(40), <1>11, <2>1, <2>2, <2>3 DEF IInv, Holding, Reading
  <2>7. Clean'
    BY ZenonT(40), <1>11, <1>14, <2>1, <2>2, <2>3 DEF Clean, c
  <2>8. OwnPlace'
    <3>1. Answered(at'[k], wire'[lease'[k]], jobs'[lease'[k]], <<k, turn'[k]>>)
      BY <1>6, <1>11, <1>12, <2>2 DEF Answered, c
    <3>2. QED
      BY ZenonT(40), <1>13, <2>2, <3>1 DEF OwnPlace
  <2>9. Responded' /\ InStep'
    <3>1. /\ view'[k] = next \/ view'[k] \notin Reading
          /\ ~RowError => view'[k] = next
      BY <1>6, <1>7, <1>10 DEF Reading
    <3>2. QED
      BY <1>10, <2>1, <2>2, <3>1 DEF IInv, Responded, InStep, Reading
  <2>10. QED
    BY <2>4, <2>5, <2>6, <2>7, <2>8, <2>9 DEF IInv
<1>17. QED
  BY <1>15, <1>16

\* The pool puts a connection aside that its session has read to the end.
LEMMA ReleaseBackIInv ==
  ASSUME IInv, NEW k \in Client, ReleaseBack(k)
  PROVE  IInv'
<1>1. /\ returning[k] = "healthy" /\ returning' = [returning EXCEPT ![k] = "no"]
      /\ lease[k] # NoConn /\ lease' = [lease EXCEPT ![k] = NoConn]
      /\ idle' = idle \union {lease[k]}
      /\ UNCHANGED <<wire, jobs, dead, at, turn, view, gone>>
  BY DEF ReleaseBack, Pool!GiveBack, backends, clients
<1>2. lease[k] \in Conn /\ \A j \in Client \ {k} : lease[j] # lease[k]
  BY <1>1 DEF IInv, TypeOK, Exclusive
<1>3. at[k] \notin {"writing"} \union Reading
  BY <1>1 DEF IInv, Holding
<1>4. /\ lease'[k] = NoConn /\ \A j \in Client \ {k} : lease'[j] = lease[j]
      /\ lease' \in [Client -> Conn \union {NoConn}]
  BY <1>1 DEF IInv, TypeOK
<1>5. /\ returning'[k] = "no" /\ \A j \in Client \ {k} : returning'[j] = returning[j]
      /\ returning' \in [Client -> {"no", "healthy", "broken"}]
  BY <1>1 DEF IInv, TypeOK
<1>6. idle' \in SUBSET Conn
  BY <1>1, <1>2 DEF IInv, TypeOK
<1>7. TypeOK'
  BY Zenon, <1>1, <1>4, <1>5, <1>6 DEF IInv, TypeOK
<1>8. Exclusive'
  BY <1>1, <1>2, <1>4, <1>6, SessionAssumption DEF IInv, Exclusive
<1>9. Holding'
  BY <1>1, <1>3, <1>4, <1>5 DEF IInv, Holding
<1>10. Clean'
  <2>1. wire[lease[k]] = <<>> /\ jobs[lease[k]] = <<>>
    BY ZenonT(40), <1>1, <1>2, <1>3 DEF IInv, Clean
  <2>2. QED
    BY <2>1, <1>1, <1>4, <1>5 DEF IInv, Clean
<1>11. OwnPlace'
  BY ZenonT(40), <1>1, <1>3, <1>4 DEF IInv, OwnPlace
<1>12. Responded' /\ InStep'
  BY <1>1 DEF IInv, Responded, InStep
<1>13. QED
  BY <1>7, <1>8, <1>9, <1>10, <1>11, <1>12 DEF IInv

\* Closing sockets leaves nothing in them and the others as they are.
LEMMA CloseFacts ==
  ASSUME TypeOK, NEW S, Close(S)
  PROVE  /\ wire' \in [Conn -> Seq([for : Tag, kind : Kind])]
         /\ jobs' \in [Conn -> Seq([for : Tag, phase : Reading])]
         /\ dead' \in [Conn -> BOOLEAN]
         /\ \A c \in Conn : c \in S => wire'[c] = <<>> /\ jobs'[c] = <<>>
         /\ \A c \in Conn : c \notin S => wire'[c] = wire[c] /\ jobs'[c] = jobs[c]
<1>1. <<>> \in Seq([for : Tag, kind : Kind]) /\ <<>> \in Seq([for : Tag, phase : Reading])
  OBVIOUS
<1>2. QED
  BY Zenon, <1>1 DEF TypeOK, Close

\* The pool closes a broken connection.
LEMMA ReleaseBrokenIInv ==
  ASSUME IInv, NEW k \in Client, ReleaseBroken(k)
  PROVE  IInv'
<1>1. /\ returning[k] = "broken" /\ returning' = [returning EXCEPT ![k] = "no"]
      /\ lease[k] # NoConn /\ lease' = [lease EXCEPT ![k] = NoConn] /\ idle' = idle
      /\ Close({lease[k]})
      /\ UNCHANGED <<at, turn, view, gone>>
  BY DEF ReleaseBroken, Pool!Discard, clients
<1>2. lease[k] \in Conn /\ \A j \in Client \ {k} : lease[j] # lease[k]
  BY <1>1 DEF IInv, TypeOK, Exclusive
<1>3. at[k] \notin {"writing"} \union Reading
  BY <1>1 DEF IInv, Holding
<1>4. /\ lease'[k] = NoConn /\ \A j \in Client \ {k} : lease'[j] = lease[j]
      /\ lease' \in [Client -> Conn \union {NoConn}]
  BY <1>1 DEF IInv, TypeOK
<1>5. /\ returning'[k] = "no" /\ \A j \in Client \ {k} : returning'[j] = returning[j]
      /\ returning' \in [Client -> {"no", "healthy", "broken"}]
  BY <1>1 DEF IInv, TypeOK
<1>6. /\ wire' \in [Conn -> Seq([for : Tag, kind : Kind])]
      /\ jobs' \in [Conn -> Seq([for : Tag, phase : Reading])]
      /\ dead' \in [Conn -> BOOLEAN]
      /\ wire'[lease[k]] = <<>> /\ jobs'[lease[k]] = <<>>
      /\ \A c \in Conn \ {lease[k]} : wire'[c] = wire[c] /\ jobs'[c] = jobs[c]
  BY Zenon, <1>1, <1>2, CloseFacts DEF IInv
<1>7. TypeOK'
  BY Zenon, <1>1, <1>4, <1>5, <1>6 DEF IInv, TypeOK
<1>8. Exclusive'
  <2>1. NoConn \notin idle'
    BY <1>1, SessionAssumption DEF IInv, TypeOK
  <2>2. QED
    BY <2>1, <1>1, <1>4 DEF IInv, Exclusive
<1>9. Holding'
  BY <1>1, <1>3, <1>4, <1>5 DEF IInv, Holding
<1>10. Clean'
  <2>1. ASSUME NEW c \in Conn, ~(wire'[c] = <<>> /\ jobs'[c] = <<>>)
        PROVE  \E j \in Client : lease'[j] = c /\ (at'[j] \in Reading \/ returning'[j] = "broken")
    <3>1. c # lease[k] /\ wire'[c] = wire[c] /\ jobs'[c] = jobs[c]
      BY <2>1, <1>6
    <3>2. PICK j \in Client : lease[j] = c /\ (at[j] \in Reading \/ returning[j] = "broken")
      BY <2>1, <3>1 DEF IInv, Clean
    <3>3. QED
      BY <3>1, <3>2, <1>1, <1>4, <1>5
  <2>2. QED
    BY <2>1 DEF Clean
<1>11. OwnPlace'
  <2>1. ASSUME NEW j \in Client, at[j] \in Reading
        PROVE  j # k /\ lease[j] \in Conn \ {lease[k]}
    BY <2>1, <1>2, <1>3 DEF IInv, TypeOK, Holding
  <2>2. QED
    BY Zenon, <2>1, <1>1, <1>4, <1>6 DEF IInv, OwnPlace
<1>12. Responded' /\ InStep'
  BY <1>1 DEF IInv, Responded, InStep
<1>13. QED
  BY <1>7, <1>8, <1>9, <1>10, <1>11, <1>12 DEF IInv

\* warm() adds an idle connection; the reaper closes some.
LEMMA IdleIInv ==
  ASSUME IInv, WarmOne \/ Reap
  PROVE  IInv'
<1>1. UNCHANGED <<lease, at, returning, turn, view, gone>>
  BY DEF WarmOne, Reap, Pool!OpenIdle, Pool!Evict, clients
<1>2. PICK S \in SUBSET idle : UNCHANGED <<wire, jobs, dead>> \/ Close(S)
  BY DEF WarmOne, Reap, backends
<1>3. idle' \in SUBSET Conn /\ \A k \in Client : lease[k] \notin idle'
  BY SessionAssumption
     DEF WarmOne, Reap, Pool!OpenIdle, Pool!Evict, Pool!Lent, IInv, TypeOK, Exclusive
<1>4. /\ wire' \in [Conn -> Seq([for : Tag, kind : Kind])]
      /\ jobs' \in [Conn -> Seq([for : Tag, phase : Reading])]
      /\ dead' \in [Conn -> BOOLEAN]
      /\ \A c \in Conn : (wire'[c] = wire[c] /\ jobs'[c] = jobs[c])
                         \/ (c \in S /\ wire'[c] = <<>> /\ jobs'[c] = <<>>)
  <2>1. CASE UNCHANGED <<wire, jobs, dead>>
    BY Zenon, <2>1 DEF IInv, TypeOK
  <2>2. CASE Close(S)
    BY Zenon, <2>2, CloseFacts DEF IInv
  <2>3. QED
    BY Zenon, <1>2, <2>1, <2>2
<1>5. TypeOK'
  BY Zenon, <1>1, <1>3, <1>4 DEF IInv, TypeOK
<1>6. Exclusive'
  BY ZenonT(40), <1>1, <1>3 DEF IInv, Exclusive
<1>7. Holding' /\ Responded' /\ InStep'
  BY <1>1 DEF IInv, Holding, Responded, InStep
<1>8. Clean'
  BY Zenon, <1>1, <1>4 DEF IInv, Clean
<1>9. OwnPlace'
  <2>1. ASSUME NEW k \in Client, at[k] \in Reading
        PROVE  lease[k] \in Conn /\ lease[k] \notin S
    BY <2>1 DEF IInv, TypeOK, Holding, Exclusive
  <2>2. QED
    BY Zenon, <2>1, <1>1, <1>4 DEF IInv, OwnPlace
<1>10. QED
  BY <1>5, <1>6, <1>7, <1>8, <1>9 DEF IInv

\* A backend that has gone away answers nothing any more; what it has sent can still
\* be read.
LEMMA BackendDiesIInv ==
  ASSUME IInv, NEW c \in Conn, BackendDies(c)
  PROVE  IInv'
<1>1. /\ dead' = [dead EXCEPT ![c] = TRUE] /\ jobs' = [jobs EXCEPT ![c] = <<>>]
      /\ UNCHANGED <<idle, lease, wire, at, returning, turn, view, gone>>
  BY DEF BackendDies, pool, clients
<1>2. <<>> \in Seq([for : Tag, phase : Reading])
  OBVIOUS
<1>3. /\ jobs' \in [Conn -> Seq([for : Tag, phase : Reading])] /\ dead' \in [Conn -> BOOLEAN]
      /\ jobs'[c] = <<>> /\ \A d \in Conn \ {c} : jobs'[d] = jobs[d]
  BY Zenon, <1>1, <1>2 DEF IInv, TypeOK
<1>4. TypeOK'
  BY Zenon, <1>1, <1>3 DEF IInv, TypeOK
<1>5. Exclusive' /\ Holding' /\ Responded' /\ InStep'
  BY ZenonT(40), <1>1 DEF IInv, Exclusive, Holding, Responded, InStep
<1>6. Clean'
  BY <1>1, <1>3 DEF IInv, Clean
<1>7. OwnPlace'
  <2>1. ASSUME NEW k \in Client, at[k] \in Reading
        PROVE  Answered(at[k], wire[lease[k]], jobs'[lease[k]], <<k, turn[k]>>)
    <3>1. /\ Answered(at[k], wire[lease[k]], jobs[lease[k]], <<k, turn[k]>>)
          /\ lease[k] \in Conn
      BY <2>1 DEF IInv, OwnPlace, Holding, TypeOK
    <3>2. jobs'[lease[k]] = <<>> \/ jobs'[lease[k]] = jobs[lease[k]]
      BY <3>1, <1>3
    <3>3. QED
      BY <3>1, <3>2, AnswerCutShort DEF Answered
  <2>2. QED
    BY ZenonT(40), <2>1, <1>1 DEF OwnPlace
<1>8. QED
  BY <1>4, <1>5, <1>6, <1>7 DEF IInv

\* A backend continues the response to the query it is at.  Someone is reading it,
\* or its connection is on the way to be closed.
LEMMA BackendSendsIInv ==
  ASSUME IInv, NEW c \in Conn, NEW kind \in Kind, BackendSends(c, kind)
  PROVE  IInv'
<1> DEFINE job == Head(jobs[c])
           next == After(job.phase, kind)
           more == Append(wire[c], [for |-> job.for, kind |-> kind])
           left == IF next = "done" THEN Tail(jobs[c]) ELSE [jobs[c] EXCEPT ![1].phase = next]
<1>1. /\ jobs[c] # <<>> /\ kind \in Answers(job.phase)
      /\ wire' = [wire EXCEPT ![c] = more] /\ jobs' = [jobs EXCEPT ![c] = left]
      /\ UNCHANGED <<idle, lease, dead, at, returning, turn, view, gone>>
  BY DEF BackendSends, pool, clients
<1>2. wire[c] \in Packets /\ jobs[c] \in Todo
  BY Zenon DEF IInv, TypeOK, Packets, Packet, Todo, Job
<1>3. job = jobs[c][1] /\ job \in Job /\ job.phase \in Reading
  BY <1>1, <1>2, FirstJob, ZenonT(40)
<1>4. next \in Phase
  <2>1. kind \in Answers(job.phase)
    BY <1>1
  <2> HIDE DEF job
  <2>2. QED
    BY <2>1, <1>3, AnswersAdvance
<1>5. more \in Packets
  <2>1. [for |-> job.for, kind |-> kind] \in Packet
    BY <1>3 DEF Packet, Job
  <2>2. QED
    BY ZenonT(40), <2>1, <1>2, SeqFacts DEF Packets
<1>6. left \in Todo
  <2>1. CASE next = "done"
    BY <2>1, <1>1, <1>2, SeqFacts DEF Todo
  <2>2. CASE next # "done"
    <3>1. next \in Reading
      BY <2>2, <1>4 DEF Phase, Reading
    <3>2. [job EXCEPT !.phase = next] \in Job
      BY <3>1, <1>3 DEF Job
    <3>3. left = [jobs[c] EXCEPT ![1] = [job EXCEPT !.phase = next]]
      BY <2>2, <1>3
    <3> HIDE DEF left, next, job
    <3>4. QED
      BY <3>2, <3>3, <1>1, <1>2, FirstJob, SeqFacts DEF Todo
  <2>3. QED
    BY <2>1, <2>2
<1> HIDE DEF more, left, next, job
<1>7. UNCHANGED <<idle, lease, dead, at, returning, turn, view, gone>>
  BY <1>1
<1>8. /\ wire' \in [Conn -> Packets] /\ wire'[c] = more
      /\ \A d \in Conn \ {c} : wire'[d] = wire[d]
      /\ jobs' \in [Conn -> Todo] /\ jobs'[c] = left
      /\ \A d \in Conn \ {c} : jobs'[d] = jobs[d]
  BY Zenon, <1>1, <1>5, <1>6 DEF IInv, TypeOK, Packets, Packet, Todo, Job
<1>9. TypeOK'
  BY Zenon, <1>7, <1>8 DEF IInv, TypeOK, Packets, Packet, Todo, Job
<1>10. Exclusive' /\ Holding' /\ Responded' /\ InStep'
  BY ZenonT(40), <1>7 DEF IInv, Exclusive, Holding, Responded, InStep
<1>11. \E k \in Client : lease[k] = c /\ (at[k] \in Reading \/ returning[k] = "broken")
  BY <1>1 DEF IInv, Clean
<1>12. Clean'
  BY <1>7, <1>8, <1>11, ZenonT(40) DEF IInv, Clean
<1>13. OwnPlace'
  <2>1. ASSUME NEW k \in Client, at[k] \in Reading
        PROVE  Answered(at[k], wire'[lease[k]], jobs'[lease[k]], <<k, turn[k]>>)
    <3>1. /\ Answered(at[k], wire[lease[k]], jobs[lease[k]], <<k, turn[k]>>)
          /\ lease[k] \in Conn /\ <<k, turn[k]>> \in Tag
      BY <2>1, ZenonT(40) DEF IInv, OwnPlace, Holding, TypeOK, Tag
    <3>2. CASE lease[k] = c
      <4>1. ASSUME NEW phase, Answering(phase, wire[c], jobs[c], <<k, turn[k]>>)
            PROVE  Answering(phase, more, left, <<k, turn[k]>>)
        BY Zenon, <4>1, <3>1, <1>1, <1>2, SendsAnswer DEF more, left, next, job
      <4>2. Answered(at[k], more, left, <<k, turn[k]>>)
        BY ZenonT(40), <4>1, <3>1, <3>2 DEF Answered
      <4>3. QED
        BY <4>2, <3>1, <3>2, <1>8
    <3>3. CASE lease[k] # c
      BY <3>1, <3>3, <1>8
    <3>4. QED
      BY <3>2, <3>3
  <2>2. QED
    BY ZenonT(40), <2>1, <1>7 DEF OwnPlace
<1>14. QED
  BY <1>9, <1>10, <1>12, <1>13 DEF IInv

\* A client that disconnects changes nothing until its session notices.
LEMMA LeavesIInv ==
  ASSUME IInv, gone' \in [Client -> BOOLEAN],
         UNCHANGED <<idle, lease, wire, jobs, dead, at, returning, turn, view>>
  PROVE  IInv'
<1>1. TypeOK'
  BY Zenon DEF IInv, TypeOK
<1>2. Exclusive' /\ Holding' /\ Clean'
  BY ZenonT(40) DEF IInv, Exclusive, Holding, Clean
<1>3. OwnPlace' /\ Responded' /\ InStep'
  BY DEF IInv, OwnPlace, Responded, InStep
<1>4. QED
  BY <1>1, <1>2, <1>3 DEF IInv

LEMMA NextIInv == IInv /\ [Next]_vars => IInv'
<1> SUFFICES ASSUME IInv, [Next]_vars PROVE IInv'
  OBVIOUS
<1>1. ASSUME NEW k \in Client,
             \/ Accept(k) \/ LoginOk(k) \/ LoginFails(k) \/ command_loop(k) \/ Reply(k)
      PROVE  IInv'
  BY <1>1, CommandIInv
<1>2. ASSUME NEW k \in Client, acquire(k)
      PROVE  IInv'
  BY <1>2, CommandIInv, AcquireIInv DEF acquire
<1>3. ASSUME NEW k \in Client, route_and_forward(k)
      PROVE  IInv'
  BY <1>3, CommandIInv, WriteQueryIInv, ForwardIInv, GivesUpIInv DEF route_and_forward
<1>4. ASSUME NEW k \in Client, Returned(k)
      PROVE  IInv'
  BY <1>4, ReleaseBackIInv, ReleaseToIInv, ReleaseBrokenIInv DEF Returned
<1>5. ASSUME NEW k \in Client, ClientLeaves(k)
      PROVE  IInv'
  BY Zenon, <1>5, LeavesIInv DEF ClientLeaves, pool, backends, IInv, TypeOK
<1>6. CASE WarmOne \/ Reap
  BY <1>6, IdleIInv
<1>7. ASSUME NEW c \in Conn, BackendDies(c) \/ \E kind \in Kind : BackendSends(c, kind)
      PROVE  IInv'
  BY <1>7, BackendDiesIInv, BackendSendsIInv
<1>8. CASE UNCHANGED vars
  BY Zenon, <1>8, LeavesIInv DEF vars, pool, backends, clients, IInv, TypeOK
<1>9. QED
  BY <1>1, <1>2, <1>3, <1>4, <1>5, <1>6, <1>7, <1>8 DEF Next

LEMMA Invariance == Spec => []IInv
<1>1. QED
  BY InitIInv, NextIInv, PTL DEF Spec

-----------------------------------------------------------------------------
(* Theorems.                                                               *)

\* The states have the shape that the model gives them.
THEOREM SessionTypeCorrect == Spec => []TypeOK
BY Invariance, PTL DEF IInv

\* proxy_result forwards no packet of another session's query, nor one of an
\* earlier query of its own: everything on its connection answers the query it
\* forwarded last.
THEOREM AnswersAreOwn == Spec => []OwnAnswer
<1>1. IInv => OwnAnswer
  <2> SUFFICES ASSUME IInv, NEW k \in Client, at[k] \in Reading
               PROVE  /\ \A p \in Range(wire[lease[k]]) : p.for = <<k, turn[k]>>
                      /\ \A job \in Range(jobs[lease[k]]) : job.for = <<k, turn[k]>>
    BY DEF OwnAnswer
  <2>1. PICK phase : Answering(phase, wire[lease[k]], jobs[lease[k]], <<k, turn[k]>>)
    BY Zenon DEF IInv, OwnPlace, Answered
  <2>2. /\ \A i \in DOMAIN wire[lease[k]] : wire[lease[k]][i].for = <<k, turn[k]>>
        /\ \A i \in DOMAIN jobs[lease[k]] : jobs[lease[k]][i].for = <<k, turn[k]>>
    BY ZenonT(40), <2>1 DEF Answering
  <2>3. QED
    BY <2>2 DEF Range
<1>2. QED
  BY <1>1, Invariance, PTL

\* release() puts aside, and hands on, only connections without an answer left in
\* them: route_and_forward calls release(pooled, true) only after the last packet.
THEOREM HandOverIsClean == Spec => []CleanHandOver
<1>1. IInv => CleanHandOver
  BY DEF IInv, Clean, Exclusive, Holding, CleanHandOver, Reading
<1>2. QED
  BY <1>1, Invariance, PTL

\* No path through route_and_forward, and no disconnection, leaves a session with a
\* connection that nobody gives back.
THEOREM NothingLeaks == Spec => []NoLeak
<1>1. IInv => NoLeak
  BY DEF IInv, Holding, NoLeak
<1>2. QED
  BY <1>1, Invariance, PTL

\* As long as backends end their results with EOF, command_loop reads the next command
\* only when the client has had a complete response to the previous one and nothing
\* after it: whichever packet the backend dies after, the ERR that route_and_forward
\* adds is the end of the response.
THEOREM ResponsesAreComplete == ASSUME ~RowError PROVE Spec => []ResponseComplete
<1>1. IInv => ResponseComplete
  BY DEF IInv, TypeOK, Responded, InStep, ResponseComplete, Phase, Reading
<1>2. QED
  BY <1>1, Invariance, PTL

\* Also when results may end with ERR, no path of handle_command goes on to the next
\* command while its client still waits for the end of a response.
THEOREM ResponsesEnd == Spec => []ResponseEnds
<1>1. IInv => ResponseEnds
  BY DEF IInv, Responded, ResponseEnds
<1>2. QED
  BY <1>1, Invariance, PTL

=============================================================================
