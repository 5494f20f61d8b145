----------------------------- MODULE Handshake -----------------------------
(***************************************************************************)
(* How a connection starts: BackendConnector::connect against a backend    *)
(* server (protocol/mysql/src/backend_connector.cpp) and                   *)
(* MySqlConnection::do_run against a client (mysql_connection.cpp), with   *)
(* the packets of handshake.cpp, codec.h and packets.h byte by byte.       *)
(*                                                                         *)
(* A behaviour is one dialogue.  The peer is external: it is a record of   *)
(* what it announces, what it expects and who it is, and it keeps to the   *)
(* protocol.  Its packets are laid out by operators of their own, not by   *)
(* the encoders of the code.  The connection may break at any time.        *)
(***************************************************************************)
EXTENDS Integers, Sequences, FiniteSetsExt

CONSTANTS
  Backends, Clients, \* the peers, on either side
  Challenge,         \* outcomes of RAND_bytes
  Password, Empty,
  Token(_, _),       \* SHA1(pwd) XOR SHA1(salt + SHA1(SHA1(pwd)))
  None

Byte == 0..255

Salt == {[i \in 1..20 |-> IF c[i] = 0 THEN 1 ELSE c[i]] : c \in Challenge}

ASSUME TokenAssumption ==
  /\ Empty \in Password
  /\ \A c \in Challenge : c \in [1..20 -> Byte]
  /\ \A p, q \in Password, s, t \in Salt : /\ Token(p, s) \in [1..20 -> Byte]
                                           /\ Token(p, s) = Token(q, t) => p = q /\ s = t
                                           /\ Token(p, s) # [i \in 1..20 |-> 0]

VARIABLES
  peer,          \* who is at the other end
  pc,            \* where DBMesh is
  at,            \* where the peer is
  wire,          \* the packet under way, None if there is none
  seq,           \* the sequence number of the last packet sent
  broken,
  auth_data,     \* the challenge: the backend's, or DBMesh's own
  response       \* the client's HandshakeResponse41, as decoded

vars == <<peer, pc, at, wire, seq, broken, auth_data, response>>

-----------------------------------------------------------------------------
(* codec.h                                                                 *)

write_u16_le(v) == <<v % 256, (v \div 256) % 256>>
write_u24_le(v) == <<v % 256, (v \div 256) % 256, (v \div 65536) % 256>>
write_u32_le(v) == <<v % 256, (v \div 256) % 256, (v \div 65536) % 256, (v \div 16777216) % 256>>

\* The number at offset pos.
read_u16_le(p, pos) == p[pos + 1] + 256 * p[pos + 2]
read_u24_le(p, pos) == p[pos + 1] + 256 * p[pos + 2] + 65536 * p[pos + 3]
read_u32_le(p, pos) == p[pos + 1] + 256 * p[pos + 2] + 65536 * p[pos + 3] + 16777216 * p[pos + 4]

write_null_str(s) == s \o <<0>>

\* The string at pos, and the offset after its null byte.
read_null_str(p, pos) ==
  LET end == CHOOSE i \in pos..Len(p) :
               (i = Len(p) \/ p[i + 1] = 0) /\ \A j \in (pos + 1)..i : p[j] # 0
  IN  [value |-> SubSeq(p, pos + 1, end), pos |-> Min({end + 1, Len(p)})]

write_lenenc_int(v) ==
  CASE v < 251 -> <<v>>
    [] v >= 251 /\ v < 65536 -> <<252>> \o write_u16_le(v)
    [] v >= 65536 /\ v < 16777216 -> <<253>> \o write_u24_le(v)
    [] OTHER -> <<254>> \o write_u32_le(v) \o <<0, 0, 0, 0>>

\* A value that is cut off is 0.
read_lenenc_int(p, pos) ==
  LET first == p[pos + 1]
      n == CASE first = 252 -> 2 [] first = 253 -> 3 [] OTHER -> 8
      number == CASE n = 2 -> read_u16_le(p, pos + 1)
                  [] n = 3 -> read_u24_le(p, pos + 1)
                  [] n = 8 -> read_u32_le(p, pos + 1) + 65536 * 65536 * read_u32_le(p, pos + 5)
  IN  CASE pos >= Len(p) -> [value |-> 0, pos |-> pos]
        [] pos < Len(p) /\ first < 251 -> [value |-> first, pos |-> pos + 1]
        [] pos < Len(p) /\ first >= 251 /\ pos + 1 + n > Len(p) -> [value |-> 0, pos |-> pos + 1]
        [] OTHER -> [value |-> number, pos |-> pos + 1 + n]

Zeros(n) == [i \in 1..n |-> 0]

(* Capability flags                                                        *)
CONNECT_WITH_DB == 8
SECURE_CONNECTION == 32768
PLUGIN_AUTH == 524288
PLUGIN_AUTH_LENENC == 2097152
SERVER_FLAGS == 1 + 2 + 4 + CONNECT_WITH_DB + 512 + 8192 + SECURE_CONNECTION
                  + 65536 + 131072 + 262144 + PLUGIN_AUTH
kClientFlags == 1 + 512 + SECURE_CONNECTION + PLUGIN_AUTH + 8192 + CONNECT_WITH_DB

MAX_PACKET_SIZE == 16777215

Has(flags, bit) == (flags \div bit) % 2 = 1

\* Flags are sent in two halves of 16 bits.
Word == {n \in Nat : n < 65536}
Low(flags) == flags % 65536
High(flags) == flags \div 65536
Joined(low, high) == low + 65536 * high

\* mysql_native_password, abbreviated
NATIVE_PASSWORD == <<31>>

make_ok == <<0>> \o write_lenenc_int(0) \o write_lenenc_int(0) \o write_u16_le(2) \o write_u16_le(0)

make_err(code) == <<255>> \o write_u16_le(code)

-----------------------------------------------------------------------------
(* handshake.cpp                                                           *)

\* Mutant: the bytes are used as they come.
GenerateRaw(random) == random

\* No null bytes: they would end the field early.
generate_auth_data(random) == [i \in 1..20 |-> IF random[i] = 0 THEN 1 ELSE random[i]]

EncodeV10(version, id, salt) ==
  <<10>> \o write_null_str(version) \o write_u32_le(id) \o SubSeq(salt, 1, 8) \o <<0>>
    \o write_u16_le(Low(SERVER_FLAGS)) \o <<45>> \o write_u16_le(2) \o write_u16_le(High(SERVER_FLAGS))
    \o <<21>> \o Zeros(10) \o SubSeq(salt, 9, 20) \o <<0>> \o write_null_str(NATIVE_PASSWORD)

\* The offset after n bytes, if there are so many.
After(p, pos, n) == IF pos + n <= Len(p) THEN pos + n ELSE pos

\* HandshakeV10::decode, for the one field that connect() goes by; None is Err.
DecodeV10(p) ==
  LET start == read_null_str(p, 1).pos
      low == start + 13                    \* after the id, part 1 and the filler
      set == low + 2
      status == After(p, set + 1, 2)
      high == After(p, status, 2)
      flags == Joined(read_u16_le(p, low),
                      IF set < Len(p) /\ high > status THEN read_u16_le(p, status) ELSE 0)
      len == IF high < Len(p) THEN p[high + 1] ELSE 0
      rest == IF set < Len(p) THEN After(p, high, 1) + 10 ELSE set
      n == Min({12, Max({13, len - 8}) - 1})   \* without the trailing null
      part2 == IF Has(flags, SECURE_CONNECTION) THEN SubSeq(p, rest + 1, Min({rest + n, Len(p)})) ELSE << >>
  IN  IF p = << >> \/ p[1] # 10 \/ set > Len(p) THEN None
      ELSE SubSeq(p, start + 5, start + 12) \o part2 \o Zeros(12 - Len(part2))

EncodeResponse(flags, user, auth, db, plugin) ==
  write_u32_le(flags) \o write_u32_le(MAX_PACKET_SIZE) \o <<45>> \o Zeros(23) \o write_null_str(user)
    \o <<Len(auth) % 256>> \o auth
    \o (IF Has(flags, CONNECT_WITH_DB) THEN write_null_str(db) ELSE << >>)
    \o (IF Has(flags, PLUGIN_AUTH) THEN write_null_str(IF plugin = << >> THEN NATIVE_PASSWORD ELSE plugin)
                                   ELSE << >>)

\* HandshakeResponse41::decode; withDb tells whether a database is read.
ReadResponse(p, withDb) ==
  LET flags == read_u32_le(p, 0)
      user == read_null_str(p, 32)
      length == CASE Has(flags, PLUGIN_AUTH_LENENC) -> read_lenenc_int(p, user.pos)
                  [] ~Has(flags, PLUGIN_AUTH_LENENC) /\ Has(flags, SECURE_CONNECTION) ->
                       [value |-> p[user.pos + 1], pos |-> user.pos + 1]
                  [] OTHER -> [value |-> 0, pos |-> user.pos]
      after == length.pos + length.value
      db == IF withDb /\ after < Len(p)
              THEN read_null_str(p, after) ELSE [value |-> << >>, pos |-> after]
      plugin == IF Has(flags, PLUGIN_AUTH) /\ db.pos < Len(p) THEN read_null_str(p, db.pos).value ELSE << >>
      noLength == Has(flags, SECURE_CONNECTION) /\ ~Has(flags, PLUGIN_AUTH_LENENC) /\ user.pos >= Len(p)
  IN  IF Len(p) <= 32 \/ noLength \/ after > Len(p) THEN None
      ELSE [user |-> user.value, auth |-> SubSeq(p, length.pos + 1, after), db |-> db.value, plugin |-> plugin]

\* Mutant: a database is read whether or not the client sends one.
DecodeResponseAlwaysDb(p) == ReadResponse(p, TRUE)

DecodeResponse(p) == ReadResponse(p, Has(read_u32_le(p, 0), CONNECT_WITH_DB))

scramble_native_password(password, salt) == IF password = Empty THEN << >> ELSE Token(password, salt)

\* expected == h1: the response is the token for this password and challenge.
verify_native_password(password, salt, auth) ==
  Len(auth) = 20 /\ IF password = Empty THEN auth = Zeros(20) ELSE auth = Token(password, salt)

\* The salt of an AuthSwitchRequest: 0xFE, the plugin's name, the salt.
parse_switch_salt(p) ==
  LET pos == read_null_str(p, 1).pos
      salt == SubSeq(p, pos + 1, Min({pos + 20, Len(p)}))
  IN  salt \o Zeros(20 - Len(salt))

-----------------------------------------------------------------------------
(* The peers, as the protocol describes them.                              *)

Greeting(b) ==
  <<10, 8, 0>> \o write_u32_le(1) \o SubSeq(b.salt, 1, 8) \o <<0>> \o write_u16_le(Low(b.flags))
    \o <<8>> \o write_u16_le(2) \o write_u16_le(High(b.flags))
    \o <<IF Has(b.flags, PLUGIN_AUTH) THEN 21 ELSE 0>> \o Zeros(10) \o SubSeq(b.salt, 9, 20) \o <<0>>
    \o (IF Has(b.flags, PLUGIN_AUTH) THEN b.plugin \o <<0>> ELSE << >>)

\* A HandshakeResponse41.
Response(flags, user, auth, db, plugin) ==
  write_u32_le(flags) \o <<255, 255, 255, 0, 45>> \o Zeros(23) \o user \o <<0>>
    \o (IF Has(flags, PLUGIN_AUTH_LENENC) THEN write_lenenc_int(Len(auth)) ELSE <<Len(auth)>>) \o auth
    \o (IF Has(flags, CONNECT_WITH_DB) THEN db \o <<0>> ELSE << >>)
    \o (IF Has(flags, PLUGIN_AUTH) THEN plugin \o <<0>> ELSE << >>)

\* The challenge in a greeting; its second part is a null-terminated string.
ChallengeIn(p) ==
  LET start == read_null_str(p, 1).pos
  IN  SubSeq(p, start + 5, start + 12) \o read_null_str(p, start + 31).value

\* A client from before 4.1 sends a response of another, shorter form.
Answer(c, salt) ==
  IF c.old THEN write_u16_le(Low(c.flags)) \o <<255, 255, 255>> \o c.user \o <<0>>
  ELSE Response(c.flags, c.user, scramble_native_password(c.password, salt), c.db, c.plugin)

Data == Seq(Byte)
Text == Seq(Byte \ {0})

\* What both sides have of the protocol: 32 bits of flags, texts without null bytes,
\* salts as generate_auth_data makes them, a length before the client's token.
\* User names had 16 characters at most before 4.1.
ASSUME PeerAssumption ==
  /\ \A b \in Backends :
       /\ b.flags \in Nat /\ High(b.flags) \in Word /\ Has(b.flags, SECURE_CONNECTION)
       /\ {b.plugin, b.account} \subseteq Text /\ b.user \in Data
       /\ {b.salt, b.switch_salt} \subseteq Salt /\ {b.password, b.configured} \subseteq Password
  /\ \A c \in Clients :
       /\ c.flags \in Nat /\ High(c.flags) \in Word
       /\ Has(c.flags, SECURE_CONNECTION) \/ Has(c.flags, PLUGIN_AUTH_LENENC)
       /\ {c.user, c.db, c.plugin} \subseteq Text /\ c.password \in Password
       /\ c.old => Len(c.user) <= 16

ASSUME NoneAssumption ==
  None \notin Salt /\ None \notin [user : Text, auth : Data, db : Text, plugin : Text]

-----------------------------------------------------------------------------

Waiting == {"connect", "greeting", "result", "final", "accepted", "login"}

TypeOK ==
  /\ peer \in Backends \union Clients
  /\ pc \in Waiting \union {"ok", "command", "failed"}
  /\ at \in {"start", "greeted", "switched", "answered", "accepts", "rejects"}
  /\ wire # None => wire.seq \in Byte /\ wire.payload \in Data
  /\ seq \in Byte /\ broken \in BOOLEAN
  /\ auth_data # None => auth_data \in [1..20 -> Byte]
  /\ response # None => DOMAIN response = {"user", "auth", "db", "plugin"}

Init ==
  /\ peer \in Backends \union Clients
  /\ pc = (IF peer \in Backends THEN "connect" ELSE "accepted")
  /\ at = "start" /\ wire = None /\ seq = 255 /\ broken = FALSE
  /\ auth_data = None /\ response = None

Send(to, n, payload) == seq' = n /\ wire' = [to |-> to, seq |-> n, payload |-> payload]

Arrived(to) == wire # None /\ wire.to = to

Fail == pc' = "failed" /\ wire' = None /\ UNCHANGED seq

IsOk(p) == p # << >> /\ p[1] = 0

-----------------------------------------------------------------------------
(* BackendConnector::connect                                               *)

\* Resolving and connecting.
Connect ==
  /\ pc = "connect" /\ pc' = "greeting"
  /\ UNCHANGED <<peer, at, wire, seq, broken, auth_data, response>>

ReadGreeting ==
  /\ pc = "greeting" /\ Arrived("us")
  /\ LET salt == DecodeV10(wire.payload) IN
       IF salt = None THEN Fail /\ UNCHANGED auth_data
       ELSE /\ pc' = "result" /\ auth_data' = salt
            /\ Send("peer", (wire.seq + 1) % 256,
                    EncodeResponse(kClientFlags - CONNECT_WITH_DB, peer.user,
                                   scramble_native_password(peer.configured, salt), << >>, NATIVE_PASSWORD))
  /\ UNCHANGED <<peer, at, broken, response>>

\* The answer to the response: OK, AuthSwitchRequest or anything else.
Judged(ok, fresh) ==
  /\ pc = "result" /\ Arrived("us")
  /\ IF wire.payload # << >> /\ wire.payload[1] = 254
       THEN /\ pc' = "final" /\ auth_data' = fresh
            /\ Send("peer", (wire.seq + 1) % 256, scramble_native_password(peer.configured, fresh))
       ELSE /\ IF ok THEN pc' = "ok" /\ wire' = None /\ UNCHANGED seq ELSE Fail
            /\ UNCHANGED auth_data
  /\ UNCHANGED <<peer, at, broken, response>>

\* Mutant: whatever is not ERR counts as success.
ReadResultLax == Judged(wire.payload = << >> \/ wire.payload[1] # 255, parse_switch_salt(wire.payload))

\* Mutant: the token is computed for the salt of the greeting.
ReadResultOldSalt == Judged(IsOk(wire.payload), auth_data)

\* Mutant: nothing is sent for an AuthSwitchRequest.
ReadResultSilent ==
  /\ pc = "result" /\ Arrived("us") /\ wire' = None
  /\ pc' = IF wire.payload[1] = 254 THEN "final" ELSE IF IsOk(wire.payload) THEN "ok" ELSE "failed"
  /\ UNCHANGED <<peer, at, seq, broken, auth_data, response>>

ReadResult == Judged(IsOk(wire.payload), parse_switch_salt(wire.payload))

ReadFinal ==
  /\ pc = "final" /\ Arrived("us")
  /\ IF IsOk(wire.payload) THEN pc' = "ok" /\ wire' = None /\ UNCHANGED seq ELSE Fail
  /\ UNCHANGED <<peer, at, broken, auth_data, response>>

-----------------------------------------------------------------------------
(* MySqlConnection::do_run                                                 *)

Greet ==
  /\ pc = "accepted" /\ pc' = "login"
  /\ \E random \in Challenge :
       /\ auth_data' = generate_auth_data(random)
       /\ Send("peer", 0, EncodeV10(<<8>>, 1, auth_data'))
  /\ UNCHANGED <<peer, at, broken, response>>

\* seq_ is 1 when the error is sent and 2 for the OK.
LoggedIn(ok_seq) ==
  /\ pc = "login" /\ Arrived("us")
  /\ response' = DecodeResponse(wire.payload)
  /\ IF response' = None THEN pc' = "failed" /\ Send("peer", 1, make_err(1045))
                         ELSE pc' = "command" /\ Send("peer", ok_seq, make_ok)
  /\ UNCHANGED <<peer, at, broken, auth_data>>

\* Mutant: seq_ is left where it is.
LoginSameSeq == LoggedIn(1)

Login == LoggedIn(2)

\* read_packet or write_packet fails: connect() and do_run() return.
IoError ==
  /\ broken /\ pc \in Waiting /\ Fail
  /\ UNCHANGED <<peer, at, broken, auth_data, response>>

-----------------------------------------------------------------------------
(* The peer and the network.                                               *)

BackendGreets ==
  /\ pc = "greeting" /\ at = "start"
  /\ IF peer.full THEN at' = "rejects" /\ Send("us", 0, make_err(1040))
                  ELSE at' = "greeted" /\ Send("us", 0, Greeting(peer))
  /\ UNCHANGED <<peer, pc, broken, auth_data, response>>

\* The verdict on a packet that should have number n and be the one expected.
Verdict(n, expected) ==
  IF wire.seq = n /\ wire.payload = expected /\ peer.account = NATIVE_PASSWORD
    THEN at' = "accepts" /\ Send("us", n + 1, make_ok)
    ELSE at' = "rejects" /\ \E p \in {make_err(1045), <<1, 4>>} : Send("us", n + 1, p)

\* Where the account has another plugin than the one announced, a switch.
BackendJudges ==
  /\ at = "greeted" /\ Arrived("peer")
  /\ IF Has(peer.flags, PLUGIN_AUTH) /\ peer.account # peer.plugin
       THEN at' = "switched" /\ Send("us", 2, <<254>> \o peer.account \o <<0>> \o peer.switch_salt \o <<0>>)
       ELSE Verdict(1, Response(kClientFlags - CONNECT_WITH_DB, peer.user,
                                scramble_native_password(peer.password, peer.salt), << >>, NATIVE_PASSWORD))
  /\ UNCHANGED <<peer, pc, broken, auth_data, response>>

BackendSwitched ==
  /\ at = "switched" /\ Arrived("peer")
  /\ Verdict(3, scramble_native_password(peer.password, peer.switch_salt))
  /\ UNCHANGED <<peer, pc, broken, auth_data, response>>

ClientAnswers ==
  /\ peer \in Clients /\ at = "start" /\ Arrived("peer") /\ at' = "answered"
  /\ Send("us", 1, Answer(peer, ChallengeIn(wire.payload)))
  /\ UNCHANGED <<peer, pc, broken, auth_data, response>>

ClientReads ==
  /\ at = "answered" /\ Arrived("peer")
  /\ at' = (IF IsOk(wire.payload) THEN "accepts" ELSE "rejects") /\ wire' = None
  /\ UNCHANGED <<peer, pc, seq, broken, auth_data, response>>

Break ==
  /\ ~broken /\ pc \in Waiting /\ broken' = TRUE /\ wire' \in {wire, None}
  /\ UNCHANGED <<peer, pc, at, seq, auth_data, response>>

connect == Connect \/ ReadGreeting \/ ReadResult \/ ReadFinal

do_run == Greet \/ Login

Peer == BackendGreets \/ BackendJudges \/ BackendSwitched \/ ClientAnswers \/ ClientReads

Next == connect \/ do_run \/ IoError \/ Peer \/ Break

\* Coroutines run on when their operation completes.  connect() and do_run() have
\* no timeout: that they end rests on a peer that goes on, or a broken connection.
Spec == Init /\ [][Next]_vars /\ WF_vars(connect) /\ WF_vars(do_run) /\ WF_vars(IoError) /\ WF_vars(Peer)

-----------------------------------------------------------------------------
\* Packets of a dialogue are numbered without a gap, whichever side sends: the
\* peer would drop the connection otherwise.  (do_run answers a response of the
\* form before 4.1 with ERR under the number of that response.)
PacketsInOrder ==
  [][wire' \notin {None, wire} /\ ~(peer \in Clients /\ peer.old) => seq' = (seq + 1) % 256]_vars

\* connect() returns a connection only if the backend has accepted the user.
ConnectedIsAccepted == pc = "ok" => at = "accepts"

\* With the right password for an account that uses mysql_native_password,
\* connect() succeeds, announced or switched to, unless the connection breaks.
NoNeedlessRefusal ==
  pc = "failed" /\ peer \in Backends =>
    broken \/ peer.full \/ peer.configured # peer.password \/ peer.account # NATIVE_PASSWORD

\* The session takes user, database and plugin as the client meant them, whichever
\* of the optional fields it sends.
ClientUnderstood ==
  pc = "command" =>
    /\ response.user = peer.user
    /\ response.db = IF Has(peer.flags, CONNECT_WITH_DB) THEN peer.db ELSE << >>
    /\ response.plugin = IF Has(peer.flags, PLUGIN_AUTH) THEN peer.plugin ELSE << >>

\* verify_native_password on what has arrived accepts the client's own password and
\* no other, whatever bytes the challenge was made from; but not the empty one.  A
\* client without a password sends no token, as scramble_native_password does, and
\* verify_native_password wants twenty zeros from it.  (do_run takes any user: so far
\* verify_native_password is only called by tests.)
ChallengeHolds ==
  pc = "command" =>
    \A p \in Password :
      verify_native_password(p, auth_data, response.auth) <=> p = peer.password /\ p # Empty

\* A dialogue with a peer that goes on comes to an end: nobody waits for a packet
\* that the other side does not send.
DialogueEnds == pc \in Waiting ~> pc \notin Waiting
=============================================================================
