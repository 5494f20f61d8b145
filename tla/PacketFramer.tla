---------------------------- MODULE PacketFramer ----------------------------
(***************************************************************************)
(* Two ends of a MySQL connection: write_packet on one, read_packet on the *)
(* other (protocol/mysql/src/packet_framer.cpp).  A payload is abstracted  *)
(* to its size; a frame is its 24-bit length and its 8-bit sequence        *)
(* number.  asio::async_read and async_write move whole frames or fail.    *)
(***************************************************************************)
EXTENDS Integers, Sequences

CONSTANTS
  MaxPacket, \* MAX_PACKET_SIZE
  Payload,   \* sizes of the payloads that are written
  Packets,   \* how many packets are written
  FirstSeq,  \* sequence numbers a writer may start from
  Buffer     \* bound on the frames under way

ASSUME FramerAssumption ==
  /\ MaxPacket \in Nat \ {0}
  /\ Payload \subseteq Nat
  /\ Packets \in Nat
  /\ FirstSeq \subseteq 0..255
  /\ Buffer \in Nat \ {0}

VARIABLES
  sent,      \* the payloads given to write_packet
  sending,   \* TRUE while write_packet is in its loop
  offset,    \* its offset
  seq,       \* its seq
  socket,    \* frames under way
  broken,    \* the connection has failed
  reading,   \* TRUE once read_packet has the first frame of a packet
  size,      \* payload.size() so far
  sequence,  \* the last header's sequence number
  received,  \* packets that read_packet returned
  surplus    \* read_packet returned a packet that nobody wrote

writer == <<sent, sending, offset, seq>>
reader == <<reading, size, sequence, received, surplus>>
vars == <<writer, socket, broken, reader>>

TypeOK ==
  /\ sent \in Seq(Payload) /\ Len(sent) <= Packets
  /\ sending \in BOOLEAN
  /\ offset \in Nat
  /\ seq \in 0..255
  /\ socket \in Seq([length : 0..MaxPacket, sequence : 0..255]) /\ Len(socket) <= Buffer
  /\ broken \in BOOLEAN
  /\ reading \in BOOLEAN
  /\ size \in Nat
  /\ sequence \in 0..255
  /\ received \in Seq([size : Nat, sequence : 0..255])
  /\ surplus \in BOOLEAN

Init ==
  /\ sent = <<>>
  /\ sending = FALSE
  /\ offset = 0
  /\ seq \in FirstSeq
  /\ socket = <<>>
  /\ broken = FALSE
  /\ reading = FALSE
  /\ size = 0
  /\ sequence = 0
  /\ received = <<>>
  /\ surplus = FALSE

-----------------------------------------------------------------------------
\* write_packet

WriteStart(p) ==
  /\ ~sending
  /\ ~broken
  /\ Len(sent) < Packets
  /\ sent' = Append(sent, p)
  /\ sending' = TRUE
  /\ offset' = 0
  /\ UNCHANGED <<seq, socket, broken, reader>>

\* The loop condition, with the offset after the chunk.
More(total, after) ==
  after < total \/ (total > 0 /\ total % MaxPacket = 0)

\* Mutant: chained frames repeat the number of the first.
WriteChunkSameSeq ==
  LET total == sent[Len(sent)]
      chunk == IF total - offset < MaxPacket THEN total - offset ELSE MaxPacket
      more == More(total, offset + chunk)
  IN  /\ sending
      /\ ~broken
      /\ Len(socket) < Buffer
      /\ socket' = Append(socket, [length |-> chunk, sequence |-> seq])
      /\ seq' = IF more THEN seq ELSE (seq + 1) % 256
      /\ offset' = offset + chunk
      /\ sending' = more
      /\ UNCHANGED <<sent, broken, reader>>

WriteChunk ==
  LET total == sent[Len(sent)]
      chunk == IF total - offset < MaxPacket THEN total - offset ELSE MaxPacket
  IN  /\ sending
      /\ ~broken
      /\ Len(socket) < Buffer
      /\ socket' = Append(socket, [length |-> chunk, sequence |-> seq])
      /\ seq' = (seq + 1) % 256
      /\ offset' = offset + chunk
      /\ sending' = More(total, offset + chunk)
      /\ UNCHANGED <<sent, broken, reader>>

\* Err(WRITE_FAILED)
WriteFails ==
  /\ sending
  /\ broken
  /\ sending' = FALSE
  /\ UNCHANGED <<sent, offset, seq, socket, broken, reader>>

-----------------------------------------------------------------------------
\* read_packet, one frame at a time: the first, and then the chained ones.

\* Mutant: a chained frame overwrites the ones before it.
ReadFrameOverwrites ==
  LET frame == Head(socket)
  IN  /\ socket # <<>>
      /\ socket' = Tail(socket)
      /\ sequence' = frame.sequence
      /\ size' = frame.length
      /\ reading' = (frame.length = MaxPacket)
      /\ IF frame.length = MaxPacket
           THEN UNCHANGED <<received, surplus>>
           ELSE IF Len(received) < Len(sent)
             THEN /\ received' = Append(received,
                                        [size |-> frame.length, sequence |-> frame.sequence])
                  /\ UNCHANGED surplus
             ELSE surplus' = TRUE /\ UNCHANGED received
      /\ UNCHANGED <<writer, broken>>

ReadFrame ==
  LET frame == Head(socket)
      total == IF reading THEN size + frame.length ELSE frame.length
  IN  /\ socket # <<>>
      /\ socket' = Tail(socket)
      /\ sequence' = frame.sequence
      /\ size' = total
      /\ reading' = (frame.length = MaxPacket)
      /\ IF frame.length = MaxPacket
           THEN UNCHANGED <<received, surplus>>
           ELSE IF Len(received) < Len(sent)
             THEN /\ received' = Append(received,
                                        [size |-> total, sequence |-> frame.sequence])
                  /\ UNCHANGED surplus
             ELSE surplus' = TRUE /\ UNCHANGED received
      /\ UNCHANGED <<writer, broken>>

\* Err(READ_FAILED): the packet that was being put together is dropped.
ReadFails ==
  /\ broken
  /\ reading
  /\ socket = <<>>
  /\ reading' = FALSE
  /\ UNCHANGED <<writer, socket, broken, size, sequence, received, surplus>>

\* The connection fails, with any number of the last frames lost (external).
Break ==
  /\ ~broken
  /\ broken' = TRUE
  /\ \E n \in 0..Len(socket) : socket' = SubSeq(socket, 1, n)
  /\ UNCHANGED <<writer, reader>>

write_packet == WriteChunk \/ WriteFails

read_packet == ReadFrame \/ ReadFails

Next ==
  \/ \E p \in Payload : WriteStart(p)
  \/ write_packet
  \/ read_packet
  \/ Break

Spec == Init /\ [][Next]_vars

FairSpec == Spec /\ WF_vars(write_packet) /\ WF_vars(read_packet)

-----------------------------------------------------------------------------

\* The reader gets the packets that were written, whole and in order, however they
\* were cut into frames and wherever the connection failed: a failed connection
\* loses packets at the end but never shortens one.
Faithful ==
  /\ ~surplus
  /\ Len(received) <= Len(sent)
  /\ \A i \in DOMAIN received : received[i].size = sent[i]

\* Frames are numbered consecutively, across packets and past 255: the reader's
\* last number, and then the ones under way, lead up to the writer's next one.  A
\* reply numbered one above the packet it answers relies on it.
ConsecutiveNumbers ==
  ~broken =>
    /\ \A i \in DOMAIN socket : (socket[i].sequence + Len(socket) - i + 1) % 256 = seq
    /\ received # <<>> /\ ~sending /\ socket = <<>> =>
         (received[Len(received)].sequence + 1) % 256 = seq

\* A comment in write_packet: after a payload that is a multiple of MAX_PACKET_SIZE
\* "send a 0-byte terminal packet per the MySQL spec"; the call then returns.
WriteEnds == sending ~> ~sending

=============================================================================
