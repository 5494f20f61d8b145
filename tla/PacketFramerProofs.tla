-------------------------- MODULE PacketFramerProofs ------------------------
(***************************************************************************)
(* Packets arrive whole, in order and consecutively numbered, for every    *)
(* MAX_PACKET_SIZE, every list of payloads and every buffer, as long as no *)
(* payload is a multiple of MAX_PACKET_SIZE: after such a one write_packet *)
(* never stops sending empty frames (WriteEnds is violated).               *)
(***************************************************************************)
EXTENDS PacketFramer, TLAPS

NoExactMultiple == \A p \in Payload : p > 0 => p % MaxPacket # 0

Frame == [length : 0..MaxPacket, sequence : 0..255]
Packet == [size : Nat, sequence : 0..255]

\* A frame of the given length takes a reader from the offset o of the packet p to
\* the offset v of the packet u: a full frame is not the last of its packet, and
\* another one ends it exactly.
Moves(payloads, length, p, o, u, v) ==
  /\ p \in DOMAIN payloads
  /\ \/ length = MaxPacket /\ u = p /\ v = o + MaxPacket
     \/ length # MaxPacket /\ o + length = payloads[p] /\ u = p + 1 /\ v = 0

\* The frames fs do so one after the other.
Leads(fs, payloads, p, o, u, v) ==
  \E pk, of \in [0..Len(fs) -> Nat] :
    /\ pk[0] = p /\ of[0] = o
    /\ pk[Len(fs)] = u /\ of[Len(fs)] = v
    /\ \A i \in 1..Len(fs) : Moves(payloads, fs[i].length, pk[i - 1], of[i - 1], pk[i], of[i])

\* Where read_packet is in the packet it puts together.
At == IF reading THEN size ELSE 0

\* The loop of write_packet goes on at a multiple of MAX_PACKET_SIZE inside the
\* payload.
Cut ==
  sending =>
    /\ sent # <<>>
    /\ \E q \in Nat : offset = q * MaxPacket
    /\ offset < sent[Len(sent)] \/ (offset = 0 /\ sent[Len(sent)] = 0)

\* The frames under way lead the reader to where the writer is; those of a failed
\* connection lead it somewhere short of that.
Whole ==
  /\ reading => size > 0
  /\ ~broken /\ sending => Leads(socket, sent, Len(received) + 1, At, Len(sent), offset)
  /\ ~broken /\ ~sending => Leads(socket, sent, Len(received) + 1, At, Len(sent) + 1, 0)
  /\ broken => \E last, to \in Nat : Leads(socket, sent, Len(received) + 1, At, last, to)

\* ConsecutiveNumbers, with the number of the last frame read.
Numbered ==
  ~broken =>
    /\ \A i \in DOMAIN socket : (socket[i].sequence + (Len(socket) - i + 1)) % 256 = seq
    /\ received # <<>> \/ reading => (sequence + (Len(socket) + 1)) % 256 = seq
    /\ received # <<>> /\ ~reading => received[Len(received)].sequence = sequence

IInv == TypeOK /\ Faithful /\ Cut /\ Whole /\ Numbered

-----------------------------------------------------------------------------
(* Frames under way.                                                       *)

LEMMA LeadsNowhere ==
  ASSUME NEW payloads, NEW p \in Nat, NEW o \in Nat
  PROVE  /\ Leads(<<>>, payloads, p, o, p, o)
         /\ \A u, v : Leads(<<>>, payloads, p, o, u, v) => u = p /\ v = o
<1> DEFINE pk == [i \in 0..0 |-> p]
           of == [i \in 0..0 |-> o]
<1>1. pk \in [0..Len(<<>>) -> Nat] /\ of \in [0..Len(<<>>) -> Nat] /\ pk[0] = p /\ of[0] = o
  OBVIOUS
<1> HIDE DEF pk, of
<1>2. QED
  BY <1>1 DEF Leads

\* write_packet sends one frame more.
LEMMA LeadsOn ==
  ASSUME NEW fs \in Seq(Frame), NEW payloads, NEW p, NEW o, NEW u \in Nat, NEW v \in Nat,
         Leads(fs, payloads, p, o, u, v),
         NEW frame \in Frame, NEW x \in Nat, NEW y \in Nat,
         Moves(payloads, frame.length, u, v, x, y)
  PROVE  Leads(Append(fs, frame), payloads, p, o, x, y)
<1> DEFINE n == Len(fs)
           more == Append(fs, frame)
<1>1. PICK pk, of \in [0..n -> Nat] :
        /\ pk[0] = p /\ of[0] = o /\ pk[n] = u /\ of[n] = v
        /\ \A i \in 1..n : Moves(payloads, fs[i].length, pk[i - 1], of[i - 1], pk[i], of[i])
  BY Zenon DEF Leads
<1>2. n \in Nat /\ Len(more) = n + 1 /\ more[n + 1] = frame /\ \A i \in 1..n : more[i] = fs[i]
  OBVIOUS
<1> DEFINE pl == [i \in 0..n + 1 |-> IF i = n + 1 THEN x ELSE pk[i]]
           ol == [i \in 0..n + 1 |-> IF i = n + 1 THEN y ELSE of[i]]
<1>3. /\ pl \in [0..Len(more) -> Nat] /\ pl[0] = p /\ pl[Len(more)] = x
      /\ ol \in [0..Len(more) -> Nat] /\ ol[0] = o /\ ol[Len(more)] = y
  BY <1>1, <1>2
<1>4. ASSUME NEW i \in 1..Len(more)
      PROVE  Moves(payloads, more[i].length, pl[i - 1], ol[i - 1], pl[i], ol[i])
  <2>1. CASE i = n + 1
    BY <2>1, <1>1, <1>2
  <2>2. CASE i \in 1..n
    BY <2>2, <1>1, <1>2
  <2>3. QED
    BY <2>1, <2>2, <1>2
<1> HIDE DEF pl, ol, more
<1>5. Leads(more, payloads, p, o, x, y)
  BY Zenon, <1>3, <1>4 DEF Leads
<1>6. QED
  BY <1>5 DEF more

\* read_packet reads the first of them.
LEMMA LeadsFrom ==
  ASSUME NEW fs \in Seq(Frame), fs # <<>>, NEW payloads, NEW p, NEW o, NEW u, NEW v,
         Leads(fs, payloads, p, o, u, v)
  PROVE  \E x, y \in Nat : /\ Moves(payloads, Head(fs).length, p, o, x, y)
                           /\ Leads(Tail(fs), payloads, x, y, u, v)
<1> DEFINE n == Len(fs)
           rest == Tail(fs)
<1>1. PICK pk, of \in [0..n -> Nat] :
        /\ pk[0] = p /\ of[0] = o /\ pk[n] = u /\ of[n] = v
        /\ \A i \in 1..n : Moves(payloads, fs[i].length, pk[i - 1], of[i - 1], pk[i], of[i])
  BY Zenon DEF Leads
<1>2. n \in Nat \ {0} /\ Head(fs) = fs[1] /\ Len(rest) = n - 1
      /\ \A i \in 1..n - 1 : rest[i] = fs[i + 1]
  OBVIOUS
<1> DEFINE pl == [i \in 0..n - 1 |-> pk[i + 1]]
           ol == [i \in 0..n - 1 |-> of[i + 1]]
<1>3. /\ pl \in [0..Len(rest) -> Nat] /\ pl[0] = pk[1] /\ pl[Len(rest)] = u
      /\ ol \in [0..Len(rest) -> Nat] /\ ol[0] = of[1] /\ ol[Len(rest)] = v
  BY <1>1, <1>2
<1>4. ASSUME NEW i \in 1..Len(rest)
      PROVE  Moves(payloads, rest[i].length, pl[i - 1], ol[i - 1], pl[i], ol[i])
  <2>1. i + 1 \in 1..n /\ (i + 1) - 1 = i /\ rest[i] = fs[i + 1]
        /\ pl[i - 1] = pk[i] /\ ol[i - 1] = of[i] /\ pl[i] = pk[i + 1] /\ ol[i] = of[i + 1]
    BY <1>2
  <2>2. Moves(payloads, fs[i + 1].length, pk[i], of[i], pk[i + 1], of[i + 1])
    BY <2>1, <1>1
  <2>3. QED
    BY <2>1, <2>2
<1> HIDE DEF pl, ol, rest
<1>5. Leads(rest, payloads, pk[1], of[1], u, v)
  BY Zenon, <1>3, <1>4 DEF Leads
<1>6. Moves(payloads, Head(fs).length, p, o, pk[1], of[1]) /\ pk[1] \in Nat /\ of[1] \in Nat
  <2>1. 1 \in 1..n /\ 1 - 1 = 0 /\ pk[1] \in Nat /\ of[1] \in Nat
    BY <1>2
  <2>2. Moves(payloads, fs[1].length, pk[1 - 1], of[1 - 1], pk[1], of[1])
    BY <2>1, <1>1
  <2>3. QED
    BY <2>1, <2>2, <1>1, <1>2
<1>7. QED
  BY <1>5, <1>6 DEF rest

\* The last frames are lost with the connection.
LEMMA LeadsShort ==
  ASSUME NEW fs \in Seq(Frame), NEW n \in 0..Len(fs), NEW payloads, NEW p, NEW o, NEW u, NEW v,
         Leads(fs, payloads, p, o, u, v)
  PROVE  \E x, y \in Nat : Leads(SubSeq(fs, 1, n), payloads, p, o, x, y)
<1> DEFINE front == SubSeq(fs, 1, n)
<1>1. PICK pk, of \in [0..Len(fs) -> Nat] :
        /\ pk[0] = p /\ of[0] = o
        /\ \A i \in 1..Len(fs) :
             Moves(payloads, fs[i].length, pk[i - 1], of[i - 1], pk[i], of[i])
  BY Zenon DEF Leads
<1>2. Len(fs) \in Nat /\ Len(front) = n /\ \A i \in 1..n : front[i] = fs[i]
  OBVIOUS
<1> HIDE DEF front
<1> DEFINE pl == [i \in 0..n |-> pk[i]]
           ol == [i \in 0..n |-> of[i]]
<1>3. /\ pl \in [0..Len(front) -> Nat] /\ pl[0] = p /\ pl[Len(front)] = pk[n]
      /\ ol \in [0..Len(front) -> Nat] /\ ol[0] = o /\ ol[Len(front)] = of[n]
      /\ pk[n] \in Nat /\ of[n] \in Nat
  <2>1. 0 \in 0..n /\ n \in 0..n /\ \A i \in 0..n : i \in 0..Len(fs)
    BY <1>2
  <2>2. QED
    BY Zenon, <2>1, <1>1, <1>2
<1>4. ASSUME NEW i \in 1..Len(front)
      PROVE  Moves(payloads, front[i].length, pl[i - 1], ol[i - 1], pl[i], ol[i])
  <2>1. i \in 0..n /\ i - 1 \in 0..n /\ i \in 1..Len(fs) /\ front[i] = fs[i]
    BY <1>2
  <2>2. pl[i - 1] = pk[i - 1] /\ ol[i - 1] = of[i - 1] /\ pl[i] = pk[i] /\ ol[i] = of[i]
    BY <2>1, Zenon
  <2>3. Moves(payloads, fs[i].length, pk[i - 1], of[i - 1], pk[i], of[i])
    BY <2>1, <1>1
  <2>4. QED
    BY <2>1, <2>2, <2>3
<1> HIDE DEF pl, ol
<1>5. Leads(front, payloads, p, o, pk[n], of[n])
  BY Zenon, <1>3, <1>4 DEF Leads
<1>6. QED
  BY <1>3, <1>5 DEF front

\* Another packet is given to write_packet.
LEMMA LeadsStill ==
  ASSUME NEW fs, NEW payloads \in Seq(Payload), NEW p, NEW o, NEW u, NEW v, NEW e \in Payload,
         Leads(fs, payloads, p, o, u, v)
  PROVE  Leads(fs, Append(payloads, e), p, o, u, v)
<1>1. ASSUME NEW length, NEW a, NEW b, NEW c, NEW d, Moves(payloads, length, a, b, c, d)
      PROVE  Moves(Append(payloads, e), length, a, b, c, d)
  BY <1>1 DEF Moves
<1>2. QED
  BY Zenon, <1>1 DEF Leads

-----------------------------------------------------------------------------
(* The steps.                                                              *)

LEMMA InitIInv == ASSUME Init PROVE IInv
<1>1. TypeOK
  <2>1. /\ <<>> \in Seq(Payload) /\ Len(<<>>) <= Packets /\ Len(<<>>) <= Buffer
        /\ <<>> \in Seq([length : 0..MaxPacket, sequence : 0..255])
        /\ <<>> \in Seq([size : Nat, sequence : 0..255])
        /\ 0 \in Nat /\ 0 \in 0..255 /\ \A s \in FirstSeq : s \in 0..255
    BY FramerAssumption
  <2>2. QED
    BY Zenon, <2>1 DEF Init, TypeOK
<1>2. Faithful /\ Cut /\ Numbered
  BY DEF Init, Faithful, Cut, Numbered
<1>3. Whole
  BY LeadsNowhere DEF Init, Whole, At
<1>4. QED
  BY <1>1, <1>2, <1>3 DEF IInv

LEMMA WriteStartIInv ==
  ASSUME IInv, NEW p \in Payload, WriteStart(p)
  PROVE  IInv'
<1> USE DEF IInv
<1>1. /\ sent \in Seq(Payload) /\ Len(sent) \in Nat /\ p \in Nat
      /\ sent' = Append(sent, p) /\ Len(sent') = Len(sent) + 1 /\ sent'[Len(sent')] = p
      /\ \A i \in 1..Len(sent) : sent'[i] = sent[i]
      /\ sending' = TRUE /\ offset' = 0 /\ ~sending /\ ~broken
      /\ UNCHANGED <<seq, socket, broken, reading, size, sequence, received, surplus>>
  BY FramerAssumption DEF TypeOK, WriteStart, reader
<1>2. TypeOK'
  <2>1. sent' \in Seq(Payload) /\ Len(sent') <= Packets /\ 0 \in Nat
    BY <1>1, FramerAssumption DEF WriteStart
  <2>2. QED
    BY Zenon, <1>1, <2>1 DEF TypeOK
<1>3. Faithful'
  BY <1>1 DEF Faithful, TypeOK
<1>4. Cut'
  <2>1. 0 = 0 * MaxPacket /\ sent' # <<>>
    BY <1>1, FramerAssumption
  <2>2. QED
    BY <1>1, <2>1 DEF Cut
<1>5. Whole'
  <2>1. Leads(socket, sent, Len(received) + 1, At, Len(sent) + 1, 0)
    BY <1>1 DEF Whole
  <2>2. Leads(socket, Append(sent, p), Len(received) + 1, At, Len(sent) + 1, 0)
    BY <1>1, <2>1, LeadsStill
  <2>3. QED
    BY <1>1, <2>2 DEF Whole, At
<1>6. Numbered'
  BY <1>1 DEF Numbered
<1>7. QED
  BY <1>2, <1>3, <1>4, <1>5, <1>6

\* One round of the loop sends a full frame and goes on, or the rest of the payload
\* and ends: that is where NoExactMultiple is needed.
LEMMA ChunkFacts ==
  ASSUME NoExactMultiple, IInv, WriteChunk
  PROVE  LET frame == [length |-> socket'[Len(socket) + 1].length, sequence |-> seq]
         IN  /\ sent # <<>> /\ ~broken /\ socket' = Append(socket, frame) /\ frame \in Frame
             /\ \/ /\ sending' /\ frame.length = MaxPacket
                   /\ offset' = offset + MaxPacket /\ offset' < sent[Len(sent)]
                \/ /\ ~sending' /\ frame.length < MaxPacket
                   /\ offset + frame.length = sent[Len(sent)]
<1> USE DEF IInv
<1> DEFINE total == sent[Len(sent)]
           chunk == IF total - offset < MaxPacket THEN total - offset ELSE MaxPacket
           frame == [length |-> chunk, sequence |-> seq]
<1>1. /\ sent # <<>> /\ ~broken /\ sending
      /\ socket' = Append(socket, frame) /\ offset' = offset + chunk
      /\ sending' = More(total, offset + chunk)
  BY DEF WriteChunk, Cut
<1>2. PICK q \in Nat : offset = q * MaxPacket
  BY <1>1 DEF Cut
<1>3. /\ total \in Payload /\ total \in Nat /\ offset \in Nat /\ offset <= total
      /\ MaxPacket \in Nat /\ MaxPacket > 0
  <2>1. total \in Payload /\ offset \in Nat
    BY <1>1 DEF TypeOK
  <2>2. MaxPacket \in Nat /\ MaxPacket > 0 /\ \A e \in Payload : e \in Nat
    BY FramerAssumption
  <2>3. offset < total \/ (offset = 0 /\ total = 0)
    BY <1>1 DEF Cut
  <2>4. QED
    BY <2>1, <2>2, <2>3
<1>4. total > 0 => total % MaxPacket # 0
  BY <1>3 DEF NoExactMultiple
<1> HIDE DEF total
<1>5. chunk \in 0..MaxPacket /\ frame \in Frame
  BY <1>3 DEF TypeOK, Frame
<1>6. socket'[Len(socket) + 1] = frame
  BY <1>1, <1>5 DEF TypeOK
<1>7. CASE total - offset < MaxPacket
  <2>1. offset + chunk = total /\ chunk < MaxPacket
    BY <1>3, <1>7
  <2>2. ~More(total, offset + chunk)
    BY <1>3, <1>4, <2>1 DEF More
  <2>3. QED
    BY <1>1, <1>5, <1>6, <2>1, <2>2 DEF total
<1>8. CASE ~(total - offset < MaxPacket)
  <2>1. chunk = MaxPacket /\ offset + chunk <= total /\ total > 0
    BY <1>3, <1>8
  <2>2. offset + MaxPacket = (q + 1) * MaxPacket /\ ((q + 1) * MaxPacket) % MaxPacket = 0
    BY <1>2, <1>3
  <2>3. offset + chunk < total
    BY <2>1, <2>2, <1>3, <1>4
  <2>4. More(total, offset + chunk)
    BY <2>3 DEF More
  <2>5. QED
    BY <1>1, <1>5, <1>6, <2>1, <2>3, <2>4 DEF total
<1>9. QED
  BY <1>7, <1>8

\* A sequence number that leads up to the writer's still does after its next frame.
LEMMA NumbersOn ==
  ASSUME NEW s \in Nat, NEW n \in Nat, NEW q \in Nat, (s + n) % 256 = q
  PROVE  (s + (n + 1)) % 256 = (q + 1) % 256
OBVIOUS

LEMMA WriteChunkIInv ==
  ASSUME NoExactMultiple, IInv, WriteChunk
  PROVE  IInv'
<1> USE DEF IInv
<1> DEFINE frame == [length |-> socket'[Len(socket) + 1].length, sequence |-> seq]
           last == sent[Len(sent)]
<1>1. /\ sent # <<>> /\ ~broken /\ socket' = Append(socket, frame) /\ frame \in Frame
      /\ \/ /\ sending' /\ frame.length = MaxPacket
            /\ offset' = offset + MaxPacket /\ offset' < last
         \/ ~sending' /\ frame.length < MaxPacket /\ offset + frame.length = last
  BY ChunkFacts
<1>2. frame.sequence = seq
  OBVIOUS
<1> HIDE DEF frame
<1>3. /\ UNCHANGED <<sent, broken, reading, size, sequence, received, surplus>>
      /\ sending /\ sending' \in BOOLEAN /\ seq' = (seq + 1) % 256 /\ Len(socket) < Buffer
  BY Zenon DEF WriteChunk, reader, More
<1>4. /\ socket \in Seq(Frame) /\ Len(socket) \in Nat /\ Len(sent) \in Nat \ {0}
      /\ Len(socket') = Len(socket) + 1 /\ socket'[Len(socket) + 1] = frame
      /\ \A i \in 1..Len(socket) : socket'[i] = socket[i]
      /\ offset \in Nat /\ MaxPacket \in Nat \ {0} /\ Buffer \in Nat /\ seq \in 0..255
  BY SMTT(30), <1>1, FramerAssumption DEF TypeOK, Frame
<1>5. TypeOK'
  <2>1. offset' \in Nat
    <3>1. last \in Payload /\ \A e \in Payload : e \in Nat
      BY <1>4, FramerAssumption DEF TypeOK
    <3>2. offset' = offset + MaxPacket \/ offset' = last
      BY <1>1, <1>4 DEF WriteChunk
    <3>3. QED
      BY <3>1, <3>2, <1>4
  <2>2. socket' \in Seq(Frame) /\ Len(socket') <= Buffer /\ seq' \in 0..255
    BY <1>1, <1>3, <1>4
  <2>3. QED
    BY Zenon, <1>3, <2>1, <2>2 DEF TypeOK, Frame
<1>6. Faithful'
  BY <1>3 DEF Faithful
<1>7. Cut'
  <2>1. PICK q \in Nat : offset = q * MaxPacket
    BY <1>3 DEF Cut
  <2>2. offset + MaxPacket = (q + 1) * MaxPacket /\ q + 1 \in Nat
    BY <2>1, <1>4
  <2>3. QED
    BY <1>1, <1>3, <2>2 DEF Cut
<1>8. Whole'
  <2>1. Leads(socket, sent, Len(received) + 1, At, Len(sent), offset)
    BY <1>1, <1>3 DEF Whole
  <2>2. sending' => Moves(sent, frame.length, Len(sent), offset, Len(sent), offset')
    BY <1>1, <1>4 DEF Moves, TypeOK
  <2>3. ~sending' => Moves(sent, frame.length, Len(sent), offset, Len(sent) + 1, 0)
    BY <1>1, <1>4 DEF Moves, TypeOK
  <2>4. sending' => Leads(socket', sent, Len(received) + 1, At, Len(sent), offset')
    BY ZenonT(40), <1>1, <1>4, <1>5, <2>1, <2>2, LeadsOn DEF TypeOK
  <2>5. ~sending' => Leads(socket', sent, Len(received) + 1, At, Len(sent) + 1, 0)
    BY <1>1, <1>4, <2>1, <2>3, LeadsOn
  <2>6. At' = At
    BY <1>3 DEF At
  <2>7. QED
    BY <1>1, <1>3, <2>4, <2>5, <2>6 DEF Whole
<1>9. Numbered'
  <2>1. ASSUME NEW i \in DOMAIN socket'
        PROVE  (socket'[i].sequence + (Len(socket') - i + 1)) % 256 = seq'
    <3>1. CASE i = Len(socket) + 1
      BY <3>1, <1>2, <1>3, <1>4
    <3>2. CASE i \in 1..Len(socket)
      <4> DEFINE s == socket[i].sequence
                 m == Len(socket) - i + 1
      <4>1. socket[i] \in Frame /\ i \in DOMAIN socket /\ socket'[i] = socket[i]
        BY <3>2, <1>4
      <4>2. /\ s \in Nat /\ m \in Nat /\ Len(socket') - i + 1 = m + 1 /\ seq \in Nat
        <5>1. s \in Nat
          BY <4>1 DEF Frame
        <5>2. m \in Nat /\ Len(socket') - i + 1 = m + 1 /\ seq \in Nat
          BY <3>2, <1>4
        <5>3. QED
          BY <5>1, <5>2
      <4>3. (s + m) % 256 = seq
        BY Zenon, <4>1, <1>1 DEF Numbered
      <4>4. socket'[i].sequence = s
        BY <4>1
      <4> HIDE DEF s, m
      <4>5. (s + (m + 1)) % 256 = (seq + 1) % 256
        BY <4>2, <4>3, NumbersOn
      <4>6. QED
        BY Zenon, <4>2, <4>4, <4>5, <1>3
    <3>3. QED
      BY <3>1, <3>2, <1>1, <1>4
  <2>2. ASSUME received # <<>> \/ reading
        PROVE  (sequence + (Len(socket') + 1)) % 256 = seq'
    <3> DEFINE m == Len(socket) + 1
    <3>1. (sequence + m) % 256 = seq
      BY Zenon, <2>2, <1>1 DEF Numbered
    <3>2. m \in Nat /\ Len(socket') + 1 = m + 1 /\ sequence \in Nat /\ seq \in Nat
      BY <1>4 DEF TypeOK
    <3> HIDE DEF m
    <3>3. (sequence + (m + 1)) % 256 = (seq + 1) % 256
      BY <3>1, <3>2, NumbersOn
    <3>4. QED
      BY <3>2, <3>3, <1>3
  <2>3. received # <<>> /\ ~reading => received[Len(received)].sequence = sequence
    BY <1>1 DEF Numbered
  <2>4. QED
    BY <1>3, <2>1, <2>2, <2>3 DEF Numbered
<1>10. QED
  BY <1>5, <1>6, <1>7, <1>8, <1>9

LEMMA WriteFailsIInv == ASSUME IInv, WriteFails PROVE IInv'
<1> USE DEF IInv
<1>1. /\ sending' = FALSE /\ broken
      /\ UNCHANGED <<sent, offset, seq, socket, broken>>
      /\ UNCHANGED <<reading, size, sequence, received, surplus>>
  BY DEF WriteFails, reader
<1>2. TypeOK'
  BY Zenon, <1>1 DEF TypeOK
<1>3. Faithful' /\ Cut' /\ Numbered'
  BY <1>1 DEF Faithful, Cut, Numbered
<1>4. Whole'
  BY <1>1 DEF Whole, At
<1>5. QED
  BY <1>2, <1>3, <1>4

\* What is under way leads somewhere, whether the connection has failed or not.
LEMMA LeadsSomewhere ==
  ASSUME IInv
  PROVE  \E u, v \in Nat : Leads(socket, sent, Len(received) + 1, At, u, v)
<1> USE DEF IInv
<1>1. Len(sent) \in Nat /\ Len(sent) + 1 \in Nat /\ offset \in Nat /\ 0 \in Nat
  BY DEF TypeOK
<1>2. QED
  BY Zenon, <1>1 DEF Whole

\* The first of the frames under way belongs to the packet that read_packet puts
\* together; when it is not a full one it ends that packet.
LEMMA FirstFrame ==
  ASSUME IInv, ReadFrame
  PROVE  /\ Len(received) + 1 \in DOMAIN sent
         /\ Head(socket).length # MaxPacket =>
              At + Head(socket).length = sent[Len(received) + 1]
         /\ \A u, v : Leads(socket, sent, Len(received) + 1, At, u, v) =>
              Leads(Tail(socket), sent,
                    IF Head(socket).length = MaxPacket THEN Len(received) + 1
                                                       ELSE Len(received) + 1 + 1,
                    IF Head(socket).length = MaxPacket THEN At + MaxPacket ELSE 0, u, v)
<1> DEFINE first == Len(received) + 1
<1>1. socket \in Seq(Frame) /\ socket # <<>>
  BY DEF ReadFrame, IInv, TypeOK, Frame
<1>2. ASSUME NEW u, NEW v, Leads(socket, sent, first, At, u, v)
      PROVE  /\ first \in DOMAIN sent
             /\ Head(socket).length # MaxPacket => At + Head(socket).length = sent[first]
             /\ Leads(Tail(socket), sent,
                      IF Head(socket).length = MaxPacket THEN first ELSE first + 1,
                      IF Head(socket).length = MaxPacket THEN At + MaxPacket ELSE 0, u, v)
  <2>1. PICK x, y \in Nat : /\ Moves(sent, Head(socket).length, first, At, x, y)
                            /\ Leads(Tail(socket), sent, x, y, u, v)
    BY <1>1, <1>2, LeadsFrom
  <2> HIDE DEF first
  <2>2. QED
    BY Zenon, <2>1 DEF Moves
<1> HIDE DEF first
<1>3. \E u, v \in Nat : Leads(socket, sent, first, At, u, v)
  BY LeadsSomewhere DEF first
<1>4. QED
  BY Zenon, <1>2, <1>3 DEF first

LEMMA ReadFrameIInv == ASSUME IInv, ReadFrame PROVE IInv'
<1> USE DEF IInv
<1> DEFINE frame == Head(socket)
           total == IF reading THEN size + frame.length ELSE frame.length
           packet == [size |-> total, sequence |-> frame.sequence]
<1>1. /\ socket \in Seq(Frame) /\ socket # <<>> /\ Len(socket) \in Nat \ {0}
      /\ Len(socket) <= Buffer /\ Buffer \in Nat /\ MaxPacket \in Nat \ {0}
      /\ size \in Nat /\ Len(received) \in Nat /\ Len(sent) \in Nat
      /\ received \in Seq(Packet)
  BY SMTT(30), FramerAssumption DEF ReadFrame, TypeOK, Frame, Packet
<1>2. frame = socket[1] /\ frame \in Frame
  BY <1>1
<1>3. /\ Tail(socket) \in Seq(Frame) /\ Len(Tail(socket)) = Len(socket) - 1
      /\ \A i \in 1..Len(socket) - 1 : Tail(socket)[i] = socket[i + 1]
  BY <1>1
<1>4. frame.length \in 0..MaxPacket /\ frame.sequence \in 0..255
  BY <1>2 DEF Frame
<1>5. total = At + frame.length /\ At \in Nat
  BY <1>1, <1>4 DEF At
<1>6. /\ Len(received) + 1 \in DOMAIN sent
      /\ frame.length # MaxPacket => At + frame.length = sent[Len(received) + 1]
  BY FirstFrame
<1>7. /\ socket' = Tail(socket) /\ sequence' = frame.sequence /\ size' = total
      /\ reading' = (frame.length = MaxPacket)
      /\ UNCHANGED <<sent, sending, offset, seq, broken, surplus>>
      /\ received' = IF frame.length = MaxPacket THEN received ELSE Append(received, packet)
  <2>1. Len(received) < Len(sent)
    BY <1>1, <1>6 DEF TypeOK
  <2>2. QED
    BY <2>1 DEF ReadFrame, writer
<1>8. /\ packet \in Packet /\ packet.sequence = frame.sequence /\ packet.size = total
      /\ reading' <=> frame.length = MaxPacket
  <2>1. total \in Nat
    BY <1>1, <1>4
  <2> HIDE DEF total, frame
  <2>2. packet \in Packet /\ packet.sequence = frame.sequence /\ packet.size = total
    BY <2>1, <1>4 DEF Packet
  <2>3. QED
    BY Zenon, <2>2, <1>7
<1> HIDE DEF frame, packet, total
<1>9. TypeOK'
  <2>1. total \in Nat
    BY <1>4, <1>5
  <2>2. received' \in Seq(Packet)
    BY <1>1, <1>7, <1>8
  <2>3. Len(Tail(socket)) <= Buffer
    BY <1>1, <1>3
  <2>4. QED
    BY Zenon, <1>3, <1>4, <1>7, <2>1, <2>2, <2>3 DEF TypeOK, Frame, Packet
<1>10. Faithful'
  <2>1. CASE frame.length = MaxPacket
    BY <2>1, <1>7 DEF Faithful
  <2>2. CASE frame.length # MaxPacket
    <3>1. /\ received' = Append(received, packet) /\ Len(received') = Len(received) + 1
          /\ received'[Len(received) + 1] = packet
          /\ \A i \in 1..Len(received) : received'[i] = received[i]
      BY <2>2, <1>1, <1>7, <1>8
    <3>2. ~surplus' /\ Len(received') <= Len(sent')
      BY <3>1, <1>1, <1>6, <1>7 DEF Faithful, TypeOK
    <3>3. ASSUME NEW i \in DOMAIN received' PROVE received'[i].size = sent'[i]
      <4>1. CASE i = Len(received) + 1
        BY Zenon, <4>1, <3>1, <2>2, <1>5, <1>6, <1>7, <1>8
      <4>2. CASE i \in 1..Len(received)
        BY <4>2, <3>1, <1>1, <1>7 DEF Faithful
      <4>3. QED
        BY SMTT(30), <4>1, <4>2, <3>1, <1>1, <1>9 DEF TypeOK
    <3>4. QED
      BY <3>2, <3>3 DEF Faithful
  <2>3. QED
    BY <2>1, <2>2
<1>11. Cut'
  BY <1>7 DEF Cut
<1>12. Whole'
  <2>1. reading' => size' > 0
    BY <1>1, <1>4, <1>5, <1>7, <1>8
  <2>2. ASSUME NEW u, NEW v, Leads(socket, sent, Len(received) + 1, At, u, v)
        PROVE  Leads(socket', sent', Len(received') + 1, At', u, v)
    <3>1. CASE frame.length = MaxPacket
      <4>1. Leads(Tail(socket), sent, Len(received) + 1, At + MaxPacket, u, v)
        BY Zenon, <2>2, <3>1, FirstFrame DEF frame
      <4>2. At' = At + MaxPacket /\ received' = received
        BY Zenon, <3>1, <1>5, <1>7, <1>8 DEF At
      <4>3. QED
        BY <4>1, <4>2, <1>7
    <3>2. CASE frame.length # MaxPacket
      <4>1. Leads(Tail(socket), sent, Len(received) + 1 + 1, 0, u, v)
        BY Zenon, <2>2, <3>2, FirstFrame DEF frame
      <4>2. At' = 0
        BY <3>2, <1>8 DEF At
      <4>3. Len(received') = Len(received) + 1
        BY <3>2, <1>1, <1>7, <1>8
      <4>4. QED
        BY <4>1, <4>2, <4>3, <1>7
    <3>3. QED
      BY <3>1, <3>2
  <2>3. QED
    BY Zenon, <2>1, <2>2, <1>7 DEF Whole
<1>13. Numbered'
  <2> SUFFICES ASSUME ~broken PROVE Numbered'
    BY <1>7 DEF Numbered
  <2>1. \A i \in DOMAIN socket : (socket[i].sequence + (Len(socket) - i + 1)) % 256 = seq
    BY DEF Numbered
  <2>2. ASSUME NEW i \in DOMAIN socket'
        PROVE  (socket'[i].sequence + (Len(socket') - i + 1)) % 256 = seq'
    <3>1. i \in 1..Len(socket) - 1
      BY <1>1, <1>3, <1>7
    <3>2. /\ socket'[i] = socket[i + 1] /\ i + 1 \in DOMAIN socket
          /\ Len(socket') - i + 1 = Len(socket) - (i + 1) + 1
      BY <3>1, <1>1, <1>3, <1>7
    <3>3. QED
      BY Zenon, <3>2, <2>1, <1>7
  <2>3. (sequence' + (Len(socket') + 1)) % 256 = seq'
    <3>1. 1 \in DOMAIN socket /\ Len(socket') + 1 = Len(socket) - 1 + 1
      BY <1>1, <1>3, <1>7
    <3>2. QED
      BY Zenon, <3>1, <2>1, <1>2, <1>7
  <2>4. received' # <<>> /\ ~reading' => received'[Len(received')].sequence = sequence'
    <3>1. CASE frame.length # MaxPacket
      <4>1. received' = Append(received, packet)
        BY <3>1, <1>7
      <4>2. received'[Len(received')] = packet
        BY <4>1, <1>1, <1>8
      <4>3. QED
        BY <4>2, <1>7, <1>8
    <3>2. QED
      BY <3>1, <1>8
  <2>5. QED
    BY <2>2, <2>3, <2>4 DEF Numbered
<1>14. QED
  BY <1>9, <1>10, <1>11, <1>12, <1>13

LEMMA ReadFailsIInv == ASSUME IInv, ReadFails PROVE IInv'
<1> USE DEF IInv
<1>1. /\ broken /\ socket = <<>> /\ reading' = FALSE
      /\ UNCHANGED <<sent, sending, offset, seq, socket, broken>>
      /\ UNCHANGED <<size, sequence, received, surplus>>
  BY DEF ReadFails, writer
<1>2. TypeOK'
  BY Zenon, <1>1 DEF TypeOK
<1>3. Faithful' /\ Cut' /\ Numbered'
  BY <1>1 DEF Faithful, Cut, Numbered
<1>4. Whole'
  <2>1. Len(received) + 1 \in Nat /\ 0 \in Nat /\ At' = 0
    BY <1>1 DEF TypeOK, At
  <2>2. Leads(<<>>, sent, Len(received) + 1, 0, Len(received) + 1, 0)
    BY <2>1, LeadsNowhere
  <2>3. QED
    BY Zenon, <1>1, <2>1, <2>2 DEF Whole
<1>5. QED
  BY <1>2, <1>3, <1>4

LEMMA BreakIInv == ASSUME IInv, Break PROVE IInv'
<1> USE DEF IInv
<1>1. /\ broken' = TRUE
      /\ UNCHANGED <<sent, sending, offset, seq>>
      /\ UNCHANGED <<reading, size, sequence, received, surplus>>
  BY DEF Break, writer, reader
<1>2. PICK n \in 0..Len(socket) : socket' = SubSeq(socket, 1, n)
  BY DEF Break
<1>3. socket \in Seq(Frame)
  BY DEF TypeOK, Frame
<1>4. TypeOK'
  <2>1. socket' \in Seq(Frame) /\ Len(socket') <= Buffer
    BY SMTT(30), <1>2, <1>3, FramerAssumption DEF TypeOK
  <2>2. QED
    BY Zenon, <1>1, <2>1 DEF TypeOK, Frame
<1>5. Faithful' /\ Cut' /\ Numbered'
  BY <1>1 DEF Faithful, Cut, Numbered
<1>6. Whole'
  <2>1. PICK u, v \in Nat : Leads(socket, sent, Len(received) + 1, At, u, v)
    BY LeadsSomewhere
  <2>2. \E x, y \in Nat : Leads(SubSeq(socket, 1, n), sent, Len(received) + 1, At, x, y)
    BY <1>2, <1>3, <2>1, LeadsShort
  <2>3. At' = At
    BY <1>1 DEF At
  <2>4. QED
    BY Zenon, <1>1, <1>2, <2>2, <2>3 DEF Whole
<1>7. QED
  BY <1>4, <1>5, <1>6

LEMMA NextIInv == ASSUME NoExactMultiple, IInv, [Next]_vars PROVE IInv'
<1>1. ASSUME NEW p \in Payload, WriteStart(p) PROVE IInv'
  BY <1>1, WriteStartIInv
<1>2. CASE WriteChunk
  BY <1>2, WriteChunkIInv
<1>3. CASE WriteFails
  BY <1>3, WriteFailsIInv
<1>4. CASE ReadFrame
  BY <1>4, ReadFrameIInv
<1>5. CASE ReadFails
  BY <1>5, ReadFailsIInv
<1>6. CASE Break
  BY <1>6, BreakIInv
<1>7. CASE UNCHANGED vars
  <2>1. /\ UNCHANGED <<sent, sending, offset, seq, socket, broken>>
        /\ UNCHANGED <<reading, size, sequence, received, surplus>>
    BY <1>7 DEF vars, writer, reader
  <2>2. QED
    <3>1. TypeOK' /\ Faithful'
      BY Zenon, <2>1 DEF IInv, TypeOK, Faithful
    <3>2. Cut' /\ At' = At
      BY Zenon, <2>1 DEF IInv, Cut, At
    <3>3. Whole'
      BY Zenon, <2>1, <3>2 DEF IInv, Whole
    <3>4. Numbered'
      BY ZenonT(40), <2>1 DEF IInv, Numbered
    <3>5. QED
      BY Zenon, <3>1, <3>2, <3>3, <3>4 DEF IInv
<1>8. QED
  BY <1>1, <1>2, <1>3, <1>4, <1>5, <1>6, <1>7 DEF Next, write_packet, read_packet

LEMMA Invariance == ASSUME NoExactMultiple PROVE Spec => []IInv
<1>1. Init => IInv
  BY InitIInv
<1>2. IInv /\ [Next]_vars => IInv'
  BY NextIInv
<1>3. QED
  BY <1>1, <1>2, PTL DEF Spec

-----------------------------------------------------------------------------

\* write_packet and read_packet keep their variables in range: in particular at most
\* Buffer frames are under way and every length fits its header.
THEOREM FramerTypeCorrect == ASSUME NoExactMultiple PROVE Spec => []TypeOK
<1>1. IInv => TypeOK
  BY DEF IInv
<1>2. QED
  BY <1>1, Invariance, PTL

\* However write_packet cuts the payloads into frames, and wherever the connection
\* fails, read_packet returns them whole and in order, and nothing besides.
THEOREM PacketsAreFaithful == ASSUME NoExactMultiple PROVE Spec => []Faithful
<1>1. IInv => Faithful
  BY DEF IInv
<1>2. QED
  BY <1>1, Invariance, PTL

\* The numbers write_packet gives to frames are consecutive modulo 256 across packets,
\* and read_packet hands on the last one of each packet.
THEOREM NumbersAreConsecutive == ASSUME NoExactMultiple PROVE Spec => []ConsecutiveNumbers
<1>1. ASSUME IInv PROVE ConsecutiveNumbers
  <2> SUFFICES ASSUME ~broken PROVE ConsecutiveNumbers
    BY DEF ConsecutiveNumbers
  <2> USE <1>1 DEF IInv
  <2>1. socket \in Seq(Frame) /\ Len(socket) \in Nat /\ Len(received) \in Nat
    BY DEF TypeOK, Frame
  <2>2. ASSUME NEW i \in DOMAIN socket
        PROVE  (socket[i].sequence + Len(socket) - i + 1) % 256 = seq
    <3>1. (socket[i].sequence + (Len(socket) - i + 1)) % 256 = seq
      BY Zenon DEF Numbered
    <3>2. socket[i] \in Frame /\ i \in Nat
      BY <2>1
    <3>3. socket[i].sequence \in Int
      BY <3>2 DEF Frame
    <3>4. QED
      BY <3>1, <3>2, <3>3, <2>1
  <2>3. ASSUME received # <<>>, ~sending, socket = <<>>
        PROVE  (received[Len(received)].sequence + 1) % 256 = seq
    <3>1. ~reading
      <4>1. Leads(<<>>, sent, Len(received) + 1, At, Len(sent) + 1, 0)
        BY <2>3 DEF Whole
      <4>2. At \in Nat /\ Len(received) + 1 \in Nat
        BY <2>1 DEF At, TypeOK
      <4>3. At = 0
        BY <4>1, <4>2, LeadsNowhere
      <4>4. QED
        BY <4>3 DEF At, Whole
    <3>2. (sequence + (Len(socket) + 1)) % 256 = seq
          /\ received[Len(received)].sequence = sequence
      BY Zenon, <3>1, <2>3 DEF Numbered
    <3>3. Len(socket) + 1 = 1
      BY <2>3
    <3>4. QED
      BY <3>2, <3>3
  <2>4. QED
    BY <2>2, <2>3 DEF ConsecutiveNumbers
<1>2. QED
  BY <1>1, Invariance, PTL

=============================================================================
