-------------------------- MODULE HandshakeProofs --------------------------
(***************************************************************************)
(* Proofs about Handshake, for every set of peers, challenges and          *)
(* passwords: what is decoded is what was encoded, a connection is returned *)
(* only if the backend has accepted the user, no right password is         *)
(* refused, a client's response is understood and its password verified,   *)
(* and packets are numbered without a gap.                                 *)
(***************************************************************************)
EXTENDS Handshake, TLAPS

-----------------------------------------------------------------------------
(* Sequences of bytes                                                      *)

\* The bytes of s are those of p from offset pos.
Stands(s, p, pos) == pos + Len(s) <= Len(p) /\ \A i \in 1..Len(s) : p[pos + i] = s[i]

\* A sequence is a function on 1..Len(s).
LEMMA SeqFacts ==
  ASSUME NEW S, NEW s \in Seq(S)
  PROVE  s \in [1..Len(s) -> S] /\ Len(s) \in Nat /\ \A i \in 1..Len(s) : s[i] \in S
OBVIOUS

\* Sequences over a set are sequences over a larger one.
LEMMA SeqMonotonic ==
  ASSUME NEW S, NEW T, S \subseteq T, NEW s \in Seq(S)
  PROVE  s \in Seq(T)
OBVIOUS

\* A concatenation has the elements of both, in order.
LEMMA ConcatFacts ==
  ASSUME NEW S, NEW s \in Seq(S), NEW t \in Seq(S)
  PROVE  /\ s \o t \in Seq(S) /\ Len(s \o t) = Len(s) + Len(t)
         /\ \A i \in 1..Len(s) : (s \o t)[i] = s[i]
         /\ \A i \in 1..Len(t) : (s \o t)[Len(s) + i] = t[i]
OBVIOUS

\* Sequences of the same length with the same elements are equal.
LEMMA SameElements ==
  ASSUME NEW S, NEW s \in Seq(S), NEW t \in Seq(S), Len(s) = Len(t), \A i \in 1..Len(s) : s[i] = t[i]
  PROVE  s = t
OBVIOUS

\* Concatenation is associative.
LEMMA Associative ==
  ASSUME NEW S, NEW s \in Seq(S), NEW t \in Seq(S), NEW u \in Seq(S)
  PROVE  (s \o t) \o u = s \o (t \o u)
OBVIOUS

\* A function on 1..n is a sequence of length n.
LEMMA FunctionIsSeq ==
  ASSUME NEW S, NEW n \in Nat, NEW f \in [1..n -> S]
  PROVE  f \in Seq(S) /\ Len(f) = n
OBVIOUS

\* Of two parts that stand in p from its start, each stands there by itself.
LEMMA TwoParts ==
  ASSUME NEW S, NEW a \in Seq(S), NEW b \in Seq(S), NEW p \in Seq(S), Stands(a \o b, p, 0)
  PROVE  Stands(a, p, 0) /\ Stands(b, p, Len(a))
<1>1. Len(a) \in Nat /\ Len(b) \in Nat /\ Len(p) \in Nat /\ a \o b \in Seq(S)
  BY ConcatFacts, SeqFacts
<1>2. Len(a \o b) = Len(a) + Len(b) /\ Len(a) + Len(b) <= Len(p)
  BY <1>1, ConcatFacts DEF Stands
<1>3. \A i \in 1..Len(a) + Len(b) : p[i] = (a \o b)[i]
  BY <1>1, <1>2 DEF Stands
<1>4. \A i \in 1..Len(a) : p[i] = a[i]
  <2> TAKE i \in 1..Len(a)
  <2>1. i \in 1..Len(a) + Len(b) /\ (a \o b)[i] = a[i]
    BY <1>1, ConcatFacts
  <2> QED BY <1>3, <2>1
<1>5. \A i \in 1..Len(b) : p[Len(a) + i] = b[i]
  <2> TAKE i \in 1..Len(b)
  <2> QED BY <1>1, <1>3, ConcatFacts
<1> QED BY <1>1, <1>2, <1>4, <1>5 DEF Stands

\* The elements of s after the first m, up to n.
LEMMA SubSeqFacts ==
  ASSUME NEW S, NEW s \in Seq(S), NEW m \in Nat, NEW l \in Nat, NEW n \in Nat,
         l = m + 1, m <= n, n <= Len(s)
  PROVE  /\ SubSeq(s, l, n) \in Seq(S) /\ Len(SubSeq(s, l, n)) = n - m
         /\ \A i \in 1..(n - m) : SubSeq(s, l, n)[i] = s[m + i]
OBVIOUS

\* Where s stands in p, it is a part of p.
LEMMA PartIs ==
  ASSUME NEW S, NEW s \in Seq(S), NEW p \in Seq(S), NEW pos \in Nat, Stands(s, p, pos)
  PROVE  SubSeq(p, pos + 1, pos + Len(s)) = s
<1> DEFINE t == SubSeq(p, pos + 1, pos + Len(s))
<1>1. Len(s) \in Nat /\ Len(p) \in Nat /\ pos + Len(s) <= Len(p)
  BY SeqFacts DEF Stands
<1>2. t \in Seq(S) /\ Len(t) = Len(s) /\ \A i \in 1..Len(s) : t[i] = p[pos + i]
  BY <1>1, SubSeqFacts
<1>3. \A i \in 1..Len(s) : t[i] = s[i]
  BY <1>1, <1>2 DEF Stands
<1> HIDE DEF t
<1>4. t = s
  BY <1>2, <1>3, SameElements
<1> QED BY <1>4 DEF t

-----------------------------------------------------------------------------
(* Bytes                                                                   *)

\* What a byte is.
LEMMA ByteFacts == \A x : x \in Byte <=> x \in Int /\ 0 <= x /\ x <= 255
BY SMT DEF Byte

\* The elements of data are bytes, those of texts are not null.
LEMMA DataFacts ==
  ASSUME NEW s \in Data
  PROVE  Len(s) \in Nat /\ \A i \in 1..Len(s) : s[i] \in Byte
BY SeqFacts DEF Data

LEMMA TextFacts ==
  ASSUME NEW s \in Text
  PROVE  s \in Data /\ Len(s) \in Nat /\ \A i \in 1..Len(s) : s[i] # 0
<1>1. Len(s) \in Nat /\ \A i \in 1..Len(s) : s[i] \in Byte \ {0}
  BY SeqFacts DEF Text
<1>2. s \in Data
  BY SeqMonotonic, Byte \ {0} \subseteq Byte DEF Data, Text
<1> QED BY <1>1, <1>2

\* read_null_str reads the text that stands there before a null byte.
LEMMA ReadNullStr ==
  ASSUME NEW p \in Data, NEW pos \in Nat, NEW s \in Text,
         Stands(s, p, pos), Stands(<< 0 >>, p, pos + Len(s))
  PROVE  read_null_str(p, pos) = [value |-> s, pos |-> pos + Len(s) + 1]
<1> DEFINE E == pos + Len(s)
           Ends(i) == (i = Len(p) \/ p[i + 1] = 0) /\ \A j \in (pos + 1)..i : p[j] # 0
<1>1. /\ Len(s) \in Nat /\ Len(p) \in Nat /\ E \in Nat /\ E + 1 <= Len(p) /\ p[E + 1] = 0
  BY TextFacts, DataFacts DEF Stands
<1>2. \A j \in (pos + 1)..E : p[j] # 0
  <2> TAKE j \in (pos + 1)..E
  <2>1. j - pos \in 1..Len(s) /\ pos + (j - pos) = j
    BY <1>1
  <2> QED BY <2>1, TextFacts, Zenon DEF Stands
<1>3. E \in pos..Len(p) /\ Ends(E)
  BY <1>1, <1>2
<1>4. \A i \in pos..Len(p) : Ends(i) => i = E
  BY <1>1, <1>2
<1>5. (CHOOSE i \in pos..Len(p) : Ends(i)) = E
  BY <1>3, <1>4
<1>6. SubSeq(p, pos + 1, E) = s
  BY PartIs, TextFacts DEF Data
<1>7. Min({E + 1, Len(p)}) = E + 1
  BY <1>1 DEF Min
<1> QED BY <1>5, <1>6, <1>7, Zenon DEF read_null_str

\* The bytes where a tuple stands.
LEMMA TupleStands ==
  ASSUME NEW p, NEW pos \in Nat
  PROVE  /\ \A x : Stands(<<x>>, p, pos) => pos + 1 <= Len(p) /\ p[pos + 1] = x
         /\ \A x, y : Stands(<<x, y>>, p, pos) => p[pos + 1] = x /\ p[pos + 2] = y
         /\ \A x, y, z, u : Stands(<<x, y, z, u>>, p, pos) =>
              p[pos + 1] = x /\ p[pos + 2] = y /\ p[pos + 3] = z /\ p[pos + 4] = u
BY DEF Stands

\* The digits to base 256 make up the number.
LEMMA TwoDigits ==
  ASSUME NEW v \in Int, 0 <= v, v < 65536, NEW x \in Int, NEW y \in Int,
         x = v % 256, y = (v \div 256) % 256
  PROVE  x + 256 * y = v
BY SMT

LEMMA FourDigits ==
  ASSUME NEW v \in Int, 0 <= v, v \div 65536 < 65536, NEW x \in Int, NEW y \in Int, NEW z \in Int, NEW u \in Int,
         x = v % 256, y = (v \div 256) % 256, z = (v \div 65536) % 256, u = (v \div 16777216) % 256
  PROVE  x + 256 * y + 65536 * z + 16777216 * u = v
BY SMT

\* A number of 16 or 32 bits is read as it was written.
LEMMA ShortRead ==
  ASSUME NEW p, NEW pos \in Nat, NEW v \in Nat, v < 65536, Stands(write_u16_le(v), p, pos)
  PROVE  read_u16_le(p, pos) = v
<1>1. p[pos + 1] = v % 256 /\ p[pos + 2] = (v \div 256) % 256
  BY TupleStands DEF write_u16_le
<1>2. v \in Int /\ 0 <= v /\ v % 256 \in Int /\ (v \div 256) % 256 \in Int
  BY SMT
<1> QED BY <1>1, <1>2, TwoDigits DEF read_u16_le

LEMMA LongRead ==
  ASSUME NEW p, NEW pos \in Nat, NEW v \in Nat, v \div 65536 < 65536,
         Stands(write_u32_le(v), p, pos)
  PROVE  read_u32_le(p, pos) = v
<1>1. /\ p[pos + 1] = v % 256 /\ p[pos + 2] = (v \div 256) % 256
      /\ p[pos + 3] = (v \div 65536) % 256 /\ p[pos + 4] = (v \div 16777216) % 256
  BY TupleStands DEF write_u32_le
<1>2. /\ v \in Int /\ 0 <= v /\ v % 256 \in Int /\ (v \div 256) % 256 \in Int
      /\ (v \div 65536) % 256 \in Int /\ (v \div 16777216) % 256 \in Int
  BY SMT
<1> QED BY <1>1, <1>2, FourDigits DEF read_u32_le

\* What write_lenenc_int writes is read by read_lenenc_int, with its length.
LEMMA LengthsRead ==
  ASSUME NEW p \in Data, NEW pos \in Nat, NEW v \in Nat, v < 251, Stands(write_lenenc_int(v), p, pos)
  PROVE  read_lenenc_int(p, pos) = [value |-> v, pos |-> pos + 1]
<1>1. write_lenenc_int(v) = <<v>>
  BY SMT DEF write_lenenc_int
<1>2. pos < Len(p) /\ p[pos + 1] = v /\ Len(p) \in Nat
  <2>1. Stands(<<v>>, p, pos)
    BY <1>1, Zenon
  <2>2. pos + 1 <= Len(p) /\ p[pos + 1] = v
    BY <2>1, TupleStands, Zenon
  <2>3. Len(p) \in Nat
    BY DataFacts, Zenon
  <2> QED BY <2>2, <2>3
<1> QED BY <1>2, SMT DEF read_lenenc_int

\* Tuples are sequences.
LEMMA TupleFacts ==
  ASSUME NEW S
  PROVE  /\ << >> \in Seq(S) /\ Len(<< >>) = 0
         /\ \A x \in S : <<x>> \in Seq(S) /\ Len(<<x>>) = 1 /\ <<x>>[1] = x
         /\ \A x, y \in S : <<x, y>> \in Seq(S) /\ Len(<<x, y>>) = 2
         /\ \A x, y, z \in S : <<x, y, z>> \in Seq(S) /\ Len(<<x, y, z>>) = 3
         /\ \A x, y, z, u \in S : <<x, y, z, u>> \in Seq(S) /\ Len(<<x, y, z, u>>) = 4
OBVIOUS

\* The fixed parts of packets.
LEMMA ShortFacts ==
  ASSUME NEW v \in Nat
  PROVE  write_u16_le(v) \in Data /\ Len(write_u16_le(v)) = 2
<1>1. v % 256 \in Byte /\ (v \div 256) % 256 \in Byte
  BY ByteFacts, SMT
<1> QED BY <1>1, TupleFacts DEF write_u16_le, Data

LEMMA LongFacts ==
  ASSUME NEW v \in Nat
  PROVE  write_u32_le(v) \in Data /\ Len(write_u32_le(v)) = 4
<1>1. /\ v % 256 \in Byte /\ (v \div 256) % 256 \in Byte
      /\ (v \div 65536) % 256 \in Byte /\ (v \div 16777216) % 256 \in Byte
  BY ByteFacts, SMT
<1> QED BY <1>1, TupleFacts DEF write_u32_le, Data

LEMMA ZerosFacts ==
  ASSUME NEW n \in Nat
  PROVE  Zeros(n) \in Data /\ Len(Zeros(n)) = n
<1>1. Zeros(n) \in [1..n -> Byte]
  BY ByteFacts DEF Zeros
<1> QED BY <1>1, FunctionIsSeq DEF Data

\* Four parts that follow each other stand where the lengths before them say.
LEMMA FourParts ==
  ASSUME NEW w \in Data, NEW x \in Data, NEW y \in Data, NEW z \in Data, NEW u \in Data,
         NEW p \in Data, Stands(w \o x \o y \o z \o u, p, 0)
  PROVE  /\ Stands(w, p, 0) /\ Stands(x, p, Len(w)) /\ Stands(y, p, Len(w) + Len(x))
         /\ Stands(z, p, Len(w) + Len(x) + Len(y)) /\ Stands(u, p, Len(w) + Len(x) + Len(y) + Len(z))
<1>1. w \o x \in Data /\ Len(w \o x) = Len(w) + Len(x)
  BY ConcatFacts DEF Data
<1>2. w \o x \o y \in Data /\ Len(w \o x \o y) = Len(w) + Len(x) + Len(y)
  BY <1>1, ConcatFacts DEF Data
<1>3. w \o x \o y \o z \in Data /\ Len(w \o x \o y \o z) = Len(w) + Len(x) + Len(y) + Len(z)
  BY <1>2, ConcatFacts DEF Data
<1>4. Stands(w \o x \o y \o z, p, 0) /\ Stands(u, p, Len(w \o x \o y \o z))
  BY <1>3, TwoParts, Zenon DEF Data
<1>5. Stands(w \o x \o y, p, 0) /\ Stands(z, p, Len(w \o x \o y))
  BY <1>2, <1>4, TwoParts, Zenon DEF Data
<1>6. Stands(w \o x, p, 0) /\ Stands(y, p, Len(w \o x))
  BY <1>1, <1>5, TwoParts, Zenon DEF Data
<1>7. Stands(w, p, 0) /\ Stands(x, p, Len(w))
  BY <1>6, TwoParts DEF Data
<1> QED BY <1>1, <1>2, <1>3, <1>4, <1>5, <1>6, <1>7

-----------------------------------------------------------------------------
(* The packets                                                             *)

\* The two halves of a sequence of 20 elements.
LEMMA HalvesFacts ==
  ASSUME NEW S, NEW s \in Seq(S), Len(s) = 20
  PROVE  /\ SubSeq(s, 1, 8) \in Seq(S) /\ Len(SubSeq(s, 1, 8)) = 8
         /\ SubSeq(s, 9, 20) \in Seq(S) /\ Len(SubSeq(s, 9, 20)) = 12
         /\ SubSeq(s, 1, 8) \o SubSeq(s, 9, 20) = s
<1>0. \A l, n \in Nat : 1 <= l /\ l <= n + 1 /\ n <= Len(s) => SubSeq(s, l, n) \in Seq(S)
  <2> SUFFICES ASSUME NEW l \in Nat, NEW n \in Nat, 1 <= l, l <= n + 1, n <= Len(s)
               PROVE  SubSeq(s, l, n) \in Seq(S)
    BY Zenon
  <2>1. l - 1 \in Nat /\ l = (l - 1) + 1 /\ l - 1 <= n
    OBVIOUS
  <2> QED BY <2>1, SubSeqFacts, Zenon
<1>1. /\ SubSeq(s, 1, 8) \in Seq(S) /\ Len(SubSeq(s, 1, 8)) = 8
      /\ \A i \in 1..8 : SubSeq(s, 1, 8)[i] = s[i]
  <2>1. SubSeq(s, 1, 8) \in Seq(S)
    BY <1>0, 1 \in Nat, 8 \in Nat, 1 <= 1, 1 <= 8 + 1, 8 <= Len(s), Zenon
  <2> QED BY <2>1
<1>2. /\ SubSeq(s, 9, 20) \in Seq(S) /\ Len(SubSeq(s, 9, 20)) = 12
      /\ \A i \in 1..12 : SubSeq(s, 9, 20)[i] = s[8 + i]
  <2>1. SubSeq(s, 9, 20) \in Seq(S)
    BY <1>0, 9 \in Nat, 20 \in Nat, 1 <= 9, 9 <= 20 + 1, 20 <= Len(s), Zenon
  <2> QED BY <2>1
<1> DEFINE t == SubSeq(s, 1, 8) \o SubSeq(s, 9, 20)
<1>3. t \in Seq(S) /\ Len(t) = 20 /\ \A i \in 1..8 : t[i] = s[i]
  BY <1>1, <1>2, ConcatFacts
<1>4. \A i \in 1..12 : t[8 + i] = s[8 + i]
  BY SMTT(30), <1>1, <1>2, ConcatFacts
<1> HIDE DEF t
<1>5. \A i \in 1..20 : t[i] = s[i]
  <2> SUFFICES ASSUME NEW i \in 1..20 PROVE t[i] = s[i]
    BY Zenon
  <2>1. CASE i <= 8
    BY <2>1, <1>3
  <2>2. CASE i > 8
    <3>1. i - 8 \in 1..12 /\ 8 + (i - 8) = i
      BY <2>2
    <3> QED BY <3>1, <1>4
  <2> QED BY SMTT(30), <2>1, <2>2
<1>6. t = s
  BY <1>3, <1>5, SameElements, Zenon
<1> QED BY ZenonT(40), <1>1, <1>2, <1>6 DEF t

\* A challenge is 20 bytes without a null byte, and so is what
\* generate_auth_data makes of random bytes.
LEMMA SaltFacts ==
  ASSUME NEW s \in Salt
  PROVE  /\ s \in Text /\ s \in Data /\ Len(s) = 20
         /\ SubSeq(s, 1, 8) \in Text /\ Len(SubSeq(s, 1, 8)) = 8
         /\ SubSeq(s, 9, 20) \in Text /\ Len(SubSeq(s, 9, 20)) = 12
         /\ SubSeq(s, 1, 8) \o SubSeq(s, 9, 20) = s
<1>1. PICK c \in Challenge : s = [i \in 1..20 |-> IF c[i] = 0 THEN 1 ELSE c[i]]
  BY DEF Salt
<1>2. c \in [1..20 -> Byte] /\ 1 \in Byte \ {0}
  BY TokenAssumption, ByteFacts
<1>3. s \in [1..20 -> Byte \ {0}]
  BY <1>1, <1>2
<1>4. s \in Text /\ Len(s) = 20
  BY <1>3, FunctionIsSeq, ZenonT(40) DEF Text
<1> QED BY <1>4, TextFacts, HalvesFacts, Zenon DEF Text

LEMMA ChallengesAreSalts ==
  ASSUME NEW c \in Challenge
  PROVE  generate_auth_data(c) \in Salt
BY DEF generate_auth_data, Salt

\* A token is 20 bytes; without a password there is none.
LEMMA ScrambleFacts ==
  ASSUME NEW q \in Password, NEW s \in Salt
  PROVE  /\ scramble_native_password(q, s) \in Data
         /\ Len(scramble_native_password(q, s)) = IF q = Empty THEN 0 ELSE 20
<1>1. Token(q, s) \in [1..20 -> Byte]
  BY TokenAssumption
<1>2. Token(q, s) \in Data /\ Len(Token(q, s)) = 20
  BY <1>1, FunctionIsSeq, ZenonT(40) DEF Data
<1>3. << >> \in Data /\ Len(<< >>) = 0
  BY TupleFacts DEF Data
<1>4. CASE q = Empty
  BY <1>3, <1>4 DEF scramble_native_password
<1>5. CASE q # Empty
  BY <1>2, <1>5 DEF scramble_native_password
<1> QED BY <1>4, <1>5

\* Joining four parts to a first one.
LEMMA ThreeJoined ==
  ASSUME NEW w \in Data, NEW x \in Data, NEW y \in Data, NEW z \in Data
  PROVE  w \o x \o y \o z \in Data /\ Len(w \o x \o y \o z) = Len(w) + Len(x) + Len(y) + Len(z)
<1>1. w \o x \in Data /\ Len(w \o x) = Len(w) + Len(x)
  BY ConcatFacts DEF Data
<1>2. w \o x \o y \in Data /\ Len(w \o x \o y) = Len(w) + Len(x) + Len(y)
  BY <1>1, ConcatFacts DEF Data
<1> QED BY <1>2, ConcatFacts DEF Data

LEMMA FourJoined ==
  ASSUME NEW w \in Data, NEW x \in Data, NEW y \in Data, NEW z \in Data, NEW u \in Data
  PROVE  /\ w \o x \o y \o z \o u \in Data
         /\ Len(w \o x \o y \o z \o u) = Len(w) + Len(x) + Len(y) + Len(z) + Len(u)
<1>1. w \o x \in Data /\ Len(w \o x) = Len(w) + Len(x)
  BY ConcatFacts DEF Data
<1>2. w \o x \o y \in Data /\ Len(w \o x \o y) = Len(w) + Len(x) + Len(y)
  BY <1>1, ConcatFacts DEF Data
<1>3. w \o x \o y \o z \in Data /\ Len(w \o x \o y \o z) = Len(w) + Len(x) + Len(y) + Len(z)
  BY <1>2, ConcatFacts DEF Data
<1> QED BY <1>3, ConcatFacts DEF Data

\* The greeting of a server: HandshakeV10::encode and the backends lay it out
\* alike, with flags, character set, status and the name at the end of their own.
V10(salt, low, set, status, high, len, tail) ==
  <<10, 8, 0>> \o write_u32_le(1) \o SubSeq(salt, 1, 8) \o << 0 >> \o write_u16_le(low)
    \o <<set>> \o write_u16_le(status) \o write_u16_le(high) \o <<len>>
    \o Zeros(10) \o SubSeq(salt, 9, 20) \o << 0 >> \o tail

\* Where the fields of a greeting stand.
LaidOut(p, salt, low, high, len) ==
  /\ p \in Data /\ Len(p) \in Nat /\ Len(p) >= 47
  /\ p[1] = 10 /\ Stands(<< 8 >>, p, 1) /\ Stands(<< 0 >>, p, 2)
  /\ Stands(SubSeq(salt, 1, 8), p, 7) /\ Stands(write_u16_le(low), p, 16)
  /\ Stands(write_u16_le(high), p, 21) /\ p[24] = len
  /\ Stands(SubSeq(salt, 9, 20), p, 34) /\ Stands(<< 0 >>, p, 46)

LEMMA GreetingParts ==
  ASSUME NEW salt \in Salt, NEW low \in Nat, NEW set \in Byte, NEW status \in Nat, NEW high \in Nat,
         NEW len \in Byte, NEW tail \in Data
  PROVE  LaidOut(V10(salt, low, set, status, high, len, tail), salt, low, high, len)
<1> DEFINE p == V10(salt, low, set, status, high, len, tail)
           c1 == <<10, 8, 0>>    c2 == write_u32_le(1)        c3 == SubSeq(salt, 1, 8)   c4 == << 0 >>
           c5 == write_u16_le(low)   c6 == <<set>>            c7 == write_u16_le(status)
           c8 == write_u16_le(high)  c9 == <<len>>            c10 == Zeros(10)
           c11 == SubSeq(salt, 9, 20)
           w1 == c1 \o c2 \o c3 \o c4 \o c5
           w2 == w1 \o c6 \o c7 \o c8 \o c9
<1>1. p = w2 \o c10 \o c11 \o c4 \o tail
  BY DEF V10
<1> HIDE DEF p
<1>2. c1 \in Data /\ Len(c1) = 3 /\ c1[1] = 10 /\ c1[2] = 8 /\ c1[3] = 0
  <2>1. 10 \in Byte /\ 8 \in Byte /\ 0 \in Byte
    BY ByteFacts
  <2> QED BY <2>1, TupleFacts DEF Data
<1>3. c2 \in Data /\ Len(c2) = 4
  BY LongFacts
<1>4. c3 \in Data /\ Len(c3) = 8 /\ c11 \in Data /\ Len(c11) = 12
  BY SaltFacts, TextFacts
<1>5. c4 \in Data /\ Len(c4) = 1
  <2>1. 0 \in Byte
    BY ByteFacts
  <2> QED BY <2>1, TupleFacts DEF Data
<1>6. c6 \in Data /\ Len(c6) = 1 /\ c9 \in Data /\ Len(c9) = 1
  BY TupleFacts DEF Data
<1>7. c5 \in Data /\ Len(c5) = 2 /\ c7 \in Data /\ Len(c7) = 2 /\ c8 \in Data /\ Len(c8) = 2
  BY ShortFacts
<1>8. c10 \in Data /\ Len(c10) = 10
  BY ZerosFacts, Zenon
<1>9. tail \in Data /\ Len(tail) \in Nat
  BY DataFacts
<1> HIDE DEF c1, c2, c3, c4, c5, c6, c7, c8, c9, c10, c11
<1>0. /\ c1 \in Data /\ c2 \in Data /\ c3 \in Data /\ c4 \in Data /\ c5 \in Data /\ c6 \in Data
      /\ c7 \in Data /\ c8 \in Data /\ c9 \in Data /\ c10 \in Data /\ c11 \in Data
  BY <1>2, <1>3, <1>4, <1>5, <1>6, <1>7, <1>8
<1>10. w1 \in Data /\ Len(w1) = 18
  <2>1. w1 \in Data /\ Len(w1) = Len(c1) + Len(c2) + Len(c3) + Len(c4) + Len(c5)
    BY <1>0, FourJoined, SMTT(30)
  <2> QED BY <2>1, <1>2, <1>3, <1>4, <1>5, <1>7
<1>11. w2 \in Data /\ Len(w2) = 24
  <2> HIDE DEF w1
  <2>0. w1 \in Data
    BY <1>10
  <2>1. w2 \in Data /\ Len(w2) = Len(w1) + Len(c6) + Len(c7) + Len(c8) + Len(c9)
    BY <1>0, <2>0, FourJoined, SMTT(30)
  <2> QED BY <2>1, <1>6, <1>7, <1>10
<1>12. p \in Data /\ Len(p) = 47 + Len(tail)
  <2> HIDE DEF w2
  <2>0. w2 \in Data
    BY <1>11
  <2>1. p \in Data /\ Len(p) = Len(w2) + Len(c10) + Len(c11) + Len(c4) + Len(tail)
    BY <1>0, <1>1, <2>0, FourJoined, SMTT(30)
  <2> QED BY <2>1, <1>4, <1>5, <1>8, <1>9, <1>11
<1>13. Stands(p, p, 0)
  BY <1>12, <1>9 DEF Stands
<1>14. Stands(w2, p, 0) /\ Stands(c11, p, 34) /\ Stands(c4, p, 46)
  <2> HIDE DEF w2
  <2>0. w2 \in Data /\ p \in Data
    BY <1>11, <1>12
  <2>1. Stands(w2 \o c10 \o c11 \o c4 \o tail, p, 0)
    BY <1>1, <1>13
  <2>2. Stands(w2, p, 0) /\ Stands(c11, p, Len(w2) + Len(c10)) /\ Stands(c4, p, Len(w2) + Len(c10) + Len(c11))
    BY <1>0, <2>0, <2>1, FourParts, Zenon
  <2> QED BY <2>2, <1>4, <1>8, <1>11
<1>15. Stands(w1, p, 0) /\ Stands(c8, p, 21) /\ Stands(c9, p, 23)
  <2> HIDE DEF w1
  <2>1. /\ Stands(w1, p, 0) /\ Stands(c8, p, Len(w1) + Len(c6) + Len(c7))
        /\ Stands(c9, p, Len(w1) + Len(c6) + Len(c7) + Len(c8))
    BY <1>0, <1>10, <1>12, <1>14, FourParts, ZenonT(40)
  <2> QED BY <2>1, <1>6, <1>7, <1>10
<1>16. Stands(c1, p, 0) /\ Stands(c3, p, 7) /\ Stands(c5, p, 16)
  <2>1. /\ Stands(c1, p, 0) /\ Stands(c3, p, Len(c1) + Len(c2))
        /\ Stands(c5, p, Len(c1) + Len(c2) + Len(c3) + Len(c4))
    BY <1>0, <1>12, <1>15, FourParts, ZenonT(40)
  <2> QED BY <2>1, <1>2, <1>3, <1>4, <1>5
<1>17. p[1] = 10 /\ p[2] = 8 /\ p[3] = 0
  BY <1>2, <1>16 DEF Stands
<1>18. p[24] = len
  BY <1>15, TupleStands DEF c9
<1>19. Stands(<< 8 >>, p, 1) /\ Stands(<< 0 >>, p, 2)
  BY <1>17, <1>12, <1>9 DEF Stands
<1> QED BY <1>9, <1>12, <1>14, <1>15, <1>16, <1>17, <1>18, <1>19 DEF LaidOut, p, c3, c4, c5, c8, c11

\* The smaller and the larger of two numbers.
LEMMA MinMax ==
  ASSUME NEW m \in Int, NEW n \in Int
  PROVE  Min({m, n}) = (IF m <= n THEN m ELSE n) /\ Max({m, n}) = (IF m >= n THEN m ELSE n)
BY DEF Min, Max

\* Nothing is added by no null bytes.
LEMMA NoZeros ==
  ASSUME NEW s \in Data
  PROVE  s \o Zeros(0) = s
<1>1. Zeros(0) = << >>
  BY DEF Zeros
<1>2. s \o << >> = s
  BY DEF Data
<1> QED BY <1>1, <1>2, Zenon

\* Reading a half of the flags.
LEMMA ReadWord ==
  ASSUME NEW p, NEW pos \in Nat, NEW v \in Word, Stands(write_u16_le(v), p, pos)
  PROVE  v \in Nat /\ read_u16_le(p, pos) = v
BY ShortRead, SMT DEF Word

\* What stands from one offset to another, as SubSeq takes it.
LEMMA PartOf ==
  ASSUME NEW s \in Data, NEW p \in Data, NEW pos \in Nat, Stands(s, p, pos)
  PROVE  SubSeq(p, pos + 1, pos + Len(s)) = s
BY PartIs DEF Data

\* The version in a greeting ends at offset 3.
LEMMA VersionRead ==
  ASSUME NEW p, NEW salt, NEW low, NEW high, NEW len, LaidOut(p, salt, low, high, len)
  PROVE  read_null_str(p, 1).pos = 3
<1>1. p \in Data /\ Stands(<< 8 >>, p, 1) /\ Stands(<< 0 >>, p, 2)
  BY DEF LaidOut
<1>2. << 8 >> \in Text /\ Len(<< 8 >>) = 1
  <2>1. 8 \in Byte \ {0}
    BY ByteFacts
  <2> QED BY <2>1, TupleFacts DEF Text
<1>3. Stands(<< 0 >>, p, 1 + Len(<< 8 >>))
  BY <1>1, <1>2
<1>4. read_null_str(p, 1) = [value |-> << 8 >>, pos |-> 1 + Len(<< 8 >>) + 1]
  BY <1>1, <1>2, <1>3, ReadNullStr, Zenon
<1> QED BY <1>2, <1>4

\* Where a greeting announces SECURE_CONNECTION, decode() finds both parts of its salt.
LEMMA LayoutDecoded ==
  ASSUME NEW salt \in Salt, NEW low \in Word, NEW high \in Word, NEW len \in Byte,
         Has(Joined(low, high), SECURE_CONNECTION), NEW p, LaidOut(p, salt, low, high, len)
  PROVE  DecodeV10(p) = salt
<1> DEFINE s1 == SubSeq(salt, 1, 8)
           s2 == SubSeq(salt, 9, 20)
<1>1. p \in Data /\ Len(p) \in Nat /\ Len(p) >= 47 /\ p[1] = 10 /\ p[24] = len
  BY DEF LaidOut
<1>3. Stands(s1, p, 7) /\ Stands(s2, p, 34)
  BY DEF LaidOut
<1>4. Stands(write_u16_le(low), p, 16) /\ Stands(write_u16_le(high), p, 21)
  BY DEF LaidOut
<1>5. s1 \in Data /\ Len(s1) = 8 /\ s2 \in Data /\ Len(s2) = 12 /\ s1 \o s2 = salt /\ salt \in Data
  BY SaltFacts, TextFacts
<1> HIDE DEF s1, s2
<1>6. read_null_str(p, 1).pos = 3
  BY VersionRead
<1>7. read_u16_le(p, 16) = low /\ read_u16_le(p, 21) = high
  BY <1>4, ReadWord
<1>8. SubSeq(p, 8, 15) = s1 /\ SubSeq(p, 35, 46) = s2
  <2>1. p \in Data /\ s1 \in Data /\ s2 \in Data /\ 7 \in Nat /\ 34 \in Nat
    BY <1>1, <1>5
  <2>2. SubSeq(p, 7 + 1, 7 + Len(s1)) = s1 /\ SubSeq(p, 34 + 1, 34 + Len(s2)) = s2
    BY <1>3, <2>1, PartOf, Zenon
  <2>3. 7 + 1 = 8 /\ 7 + Len(s1) = 15 /\ 34 + 1 = 35 /\ 34 + Len(s2) = 46
    BY <1>5
  <2> QED BY <2>2, <2>3, Zenon
<1>9. Min({12, Max({13, len - 8}) - 1}) = 12 /\ Min({46, Len(p)}) = 46
  <2>1. len \in Int /\ len - 8 \in Int /\ 13 \in Int /\ 12 \in Int /\ 46 \in Int /\ Len(p) \in Int
    BY <1>1, ByteFacts
  <2>2. Max({13, len - 8}) = IF 13 >= len - 8 THEN 13 ELSE len - 8
    BY <2>1, MinMax, Zenon
  <2>3. Max({13, len - 8}) - 1 \in Int /\ 12 <= Max({13, len - 8}) - 1
    BY <2>1, <2>2
  <2>4. Min({12, Max({13, len - 8}) - 1}) = 12
    BY <2>1, <2>3, MinMax, Zenon
  <2>5. 46 <= Len(p)
    BY <1>1
  <2>6. Min({46, Len(p)}) = 46
    BY <2>1, <2>5, MinMax, Zenon
  <2> QED BY <2>4, <2>6
<1>10. s1 \o s2 \o Zeros(0) = salt
  BY <1>5, NoZeros, Zenon
<1>11. p # << >>
  BY <1>1
<1> DEFINE start == read_null_str(p, 1).pos
           lo == start + 13
           cs == lo + 2
           st == After(p, cs + 1, 2)
           hi == After(p, st, 2)
           flags == Joined(read_u16_le(p, lo), IF cs < Len(p) /\ hi > st THEN read_u16_le(p, st) ELSE 0)
           ln == IF hi < Len(p) THEN p[hi + 1] ELSE 0
           rest == IF cs < Len(p) THEN After(p, hi, 1) + 10 ELSE cs
           n == Min({12, Max({13, ln - 8}) - 1})
           part2 == IF Has(flags, SECURE_CONNECTION) THEN SubSeq(p, rest + 1, Min({rest + n, Len(p)})) ELSE << >>
<1>12. DecodeV10(p) = IF p = << >> \/ p[1] # 10 \/ cs > Len(p) THEN None
                      ELSE SubSeq(p, start + 5, start + 12) \o part2 \o Zeros(12 - Len(part2))
  BY DEF DecodeV10
<1>13. start = 3 /\ lo = 16 /\ cs = 18
  BY <1>6
<1> HIDE DEF start, lo, cs
<1>14. st = 21
  BY <1>1, <1>13 DEF After
<1> HIDE DEF st
<1>15. hi = 23
  BY <1>1, <1>14 DEF After
<1> HIDE DEF hi
<1>16. flags = Joined(low, high)
  BY <1>1, <1>7, <1>13, <1>14, <1>15, SMT
<1> HIDE DEF flags
<1>17. ln = len
  BY <1>1, <1>15
<1> HIDE DEF ln
<1>18. rest = 34
  BY <1>1, <1>13, <1>15 DEF After
<1> HIDE DEF rest
<1>19. n = 12
  BY <1>9, <1>17
<1> HIDE DEF n
<1>20. part2 = s2
  <2>1. rest + 1 = 35 /\ rest + n = 46
    BY <1>18, <1>19
  <2> QED BY <2>1, <1>8, <1>9, <1>16, Zenon
<1> HIDE DEF part2
<1>21. SubSeq(p, start + 5, start + 12) = s1 /\ 12 - Len(part2) = 0 /\ ~(cs > Len(p))
  <2>1. start + 5 = 8 /\ start + 12 = 15
    BY <1>13
  <2>2. SubSeq(p, start + 5, start + 12) = s1
    BY <2>1, <1>8, Zenon
  <2> QED BY <2>2, <1>1, <1>5, <1>13, <1>20
<1> QED BY <1>1, <1>10, <1>11, <1>12, <1>20, <1>21, Zenon

\* What the peers of either side have.
LEMMA BackendFacts ==
  ASSUME NEW b \in Backends
  PROVE  /\ b.flags \in Nat /\ High(b.flags) \in Word /\ Has(b.flags, SECURE_CONNECTION)
         /\ b.plugin \in Text /\ b.account \in Text
         /\ b.user \in Data /\ b.salt \in Salt /\ b.switch_salt \in Salt
         /\ b.password \in Password /\ b.configured \in Password
BY PeerAssumption, Zenon

\* The flags of a greeting, in two halves.
LEMMA Halves ==
  ASSUME NEW f \in Nat, High(f) \in Word
  PROVE  Low(f) \in Word /\ Joined(Low(f), High(f)) = f
<1>1. \A v, l, h \in Int : 0 <= v /\ l = v % 65536 /\ h = v \div 65536 =>
        0 <= l /\ l < 65536 /\ l + 65536 * h = v
  BY SMT
<1>2. f \in Int /\ 0 <= f /\ Low(f) \in Int /\ High(f) \in Int
  BY SMT DEF Low, High
<1>3. 0 <= Low(f) /\ Low(f) < 65536 /\ Low(f) + 65536 * High(f) = f
  BY <1>1, <1>2, SMT DEF Low, High
<1> QED BY <1>2, <1>3, SMT DEF Word, Joined

\* connect() finds the salt in the greeting of every backend.
LEMMA GreetingDecoded ==
  ASSUME NEW b \in Backends
  PROVE  DecodeV10(Greeting(b)) = b.salt
<1> DEFINE len == IF Has(b.flags, PLUGIN_AUTH) THEN 21 ELSE 0
           tail == IF Has(b.flags, PLUGIN_AUTH) THEN b.plugin \o << 0 >> ELSE << >>
<1>1. Greeting(b) = V10(b.salt, Low(b.flags), 8, 2, High(b.flags), len, tail)
  BY DEF Greeting, V10
<1>2. len \in Byte /\ 8 \in Byte /\ 2 \in Nat /\ 0 \in Byte
  BY ByteFacts
<1>3. tail \in Data
  <2>1. b.plugin \in Data /\ << 0 >> \in Data /\ << >> \in Data
    BY <1>2, BackendFacts, TextFacts, TupleFacts, Zenon DEF Data
  <2>2. b.plugin \o << 0 >> \in Data
    BY <2>1, ConcatFacts DEF Data
  <2> QED BY <2>1, <2>2
<1> HIDE DEF len, tail
<1>4. /\ b.salt \in Salt /\ Low(b.flags) \in Word /\ High(b.flags) \in Word
      /\ Has(Joined(Low(b.flags), High(b.flags)), SECURE_CONNECTION)
  BY BackendFacts, Halves, Zenon
<1>5. Low(b.flags) \in Nat /\ High(b.flags) \in Nat
  BY <1>4 DEF Word
<1>6. LaidOut(Greeting(b), b.salt, Low(b.flags), High(b.flags), len)
  BY <1>1, <1>2, <1>3, <1>4, <1>5, GreetingParts, Zenon
<1> QED BY <1>2, <1>4, <1>6, LayoutDecoded, Zenon

\* Three bytes, one by one.
LEMMA ThreeBytes ==
  ASSUME NEW S, NEW x \in S, NEW y \in S, NEW z \in S
  PROVE  <<x>> \o (<<y>> \o <<z>>) = <<x, y, z>>
<1> DEFINE t == <<y>> \o <<z>>
           u == <<x>> \o t
<1>1. /\ <<x>> \in Seq(S) /\ <<y>> \in Seq(S) /\ <<z>> \in Seq(S) /\ <<x, y, z>> \in Seq(S)
      /\ Len(<<x>>) = 1 /\ <<x>>[1] = x /\ Len(<<x, y, z>>) = 3
  OBVIOUS
<1>2. t \in Seq(S) /\ Len(t) = 2 /\ t[1] = y /\ t[2] = z
  BY <1>1, ConcatFacts
<1> HIDE DEF t
<1>3. u \in Seq(S) /\ Len(u) = 3 /\ u[1] = x /\ u[2] = y /\ u[3] = z
  <2>1. u \in Seq(S) /\ Len(u) = 3 /\ u[1] = x
    BY <1>1, <1>2, ConcatFacts
  <2>2. \A i \in 1..Len(t) : u[Len(<<x>>) + i] = t[i]
    <3> DEFINE v == <<x>>
    <3>1. v \in Seq(S) /\ t \in Seq(S)
      BY <1>1, <1>2
    <3> HIDE DEF v
    <3>2. \A i \in 1..Len(t) : (v \o t)[Len(v) + i] = t[i]
      BY <3>1, ConcatFacts
    <3> QED BY <3>2, Zenon DEF v
  <2> QED BY <1>1, <1>2, <2>1, <2>2
<1> HIDE DEF u
<1>4. \A i \in 1..3 : u[i] = <<x, y, z>>[i]
  BY <1>3
<1>5. u = <<x, y, z>>
  BY <1>1, <1>3, <1>4, SameElements
<1> QED BY <1>5 DEF u, t

\* A client finds DBMesh's challenge in its greeting.
LEMMA ChallengeFound ==
  ASSUME NEW s \in Salt
  PROVE  ChallengeIn(EncodeV10(<< 8 >>, 1, s)) = s
<1> DEFINE p == EncodeV10(<< 8 >>, 1, s)
           s1 == SubSeq(s, 1, 8)
           s2 == SubSeq(s, 9, 20)
           tail == write_null_str(NATIVE_PASSWORD)
<1>2. 10 \in Byte /\ 8 \in Byte /\ 45 \in Byte /\ 2 \in Nat /\ 21 \in Byte /\ 31 \in Byte /\ 0 \in Byte
  BY ByteFacts
<1>1. p = V10(s, Low(SERVER_FLAGS), 45, 2, High(SERVER_FLAGS), 21, tail)
  <2>1. << 10 >> \o write_null_str(<< 8 >>) = <<10, 8, 0>>
    BY <1>2, ThreeBytes, ZenonT(40) DEF write_null_str
  <2> QED BY <2>1, Zenon DEF EncodeV10, V10
<1>3. Low(SERVER_FLAGS) \in Nat /\ High(SERVER_FLAGS) \in Nat
  BY SMT DEF Low, High, SERVER_FLAGS, CONNECT_WITH_DB, SECURE_CONNECTION, PLUGIN_AUTH
<1>4. tail \in Data
  <2>1. << 0 >> \in Data /\ << 31 >> \in Data
    BY <1>2, TupleFacts DEF Data
  <2> QED BY <2>1, ConcatFacts DEF Data, write_null_str, NATIVE_PASSWORD
<1> HIDE DEF p, tail
<1>5. LaidOut(p, s, Low(SERVER_FLAGS), High(SERVER_FLAGS), 21)
  BY <1>1, <1>2, <1>3, <1>4, GreetingParts, Zenon
<1>6. p \in Data /\ Stands(s1, p, 7) /\ Stands(s2, p, 34) /\ Stands(<< 0 >>, p, 46)
  BY <1>5 DEF LaidOut
<1>7. s1 \in Data /\ Len(s1) = 8 /\ s2 \in Text /\ Len(s2) = 12 /\ s1 \o s2 = s
  BY SaltFacts, TextFacts
<1> HIDE DEF s1, s2
<1>8. read_null_str(p, 1).pos = 3
  BY <1>5, VersionRead
<1>9. SubSeq(p, 8, 15) = s1
  <2>1. SubSeq(p, 7 + 1, 7 + Len(s1)) = s1
    BY <1>6, <1>7, 7 \in Nat, PartOf, Zenon
  <2>2. 7 + 1 = 8 /\ 7 + Len(s1) = 15
    BY <1>7
  <2> QED BY <2>1, <2>2, Zenon
<1>10. read_null_str(p, 34).value = s2
  <2>1. Stands(<< 0 >>, p, 34 + Len(s2))
    BY <1>6, <1>7
  <2>2. read_null_str(p, 34) = [value |-> s2, pos |-> 34 + Len(s2) + 1]
    BY <1>6, <1>7, <2>1, 34 \in Nat, ReadNullStr, Zenon
  <2> QED BY <2>2
<1>11. ChallengeIn(p) = SubSeq(p, read_null_str(p, 1).pos + 5, read_null_str(p, 1).pos + 12)
                         \o read_null_str(p, read_null_str(p, 1).pos + 31).value
  BY DEF ChallengeIn
<1>12. 3 + 5 = 8 /\ 3 + 12 = 15 /\ 3 + 31 = 34
  OBVIOUS
<1> QED BY <1>7, <1>8, <1>9, <1>10, <1>11, <1>12, Zenon DEF p

-----------------------------------------------------------------------------
(* The client's response                                                   *)

\* Two parts that follow each other, anywhere in p.
LEMMA TwoPartsAt ==
  ASSUME NEW a \in Data, NEW b \in Data, NEW p \in Data, NEW pos \in Nat, Stands(a \o b, p, pos)
  PROVE  Stands(a, p, pos) /\ Stands(b, p, pos + Len(a))
<1>1. /\ Len(a) \in Nat /\ Len(b) \in Nat /\ Len(p) \in Nat
      /\ Len(a \o b) = Len(a) + Len(b) /\ pos + (Len(a) + Len(b)) <= Len(p)
  BY ConcatFacts, SeqFacts DEF Data, Stands
<1>2. \A i \in 1..Len(a) + Len(b) : p[pos + i] = (a \o b)[i]
  BY <1>1 DEF Stands
<1>3. \A i \in 1..Len(a) : p[pos + i] = a[i]
  <2> TAKE i \in 1..Len(a)
  <2>1. i \in 1..Len(a) + Len(b) /\ (a \o b)[i] = a[i]
    BY <1>1, ConcatFacts DEF Data
  <2> QED BY <1>2, <2>1
<1>4. \A i \in 1..Len(b) : p[(pos + Len(a)) + i] = b[i]
  <2> TAKE i \in 1..Len(b)
  <2>1. Len(a) + i \in 1..Len(a) + Len(b) /\ (a \o b)[Len(a) + i] = b[i]
    BY <1>1, ConcatFacts DEF Data
  <2>2. p[pos + (Len(a) + i)] = b[i]
    BY <1>2, <2>1, Zenon
  <2>3. pos + (Len(a) + i) = (pos + Len(a)) + i
    BY <1>1
  <2> QED BY <2>2, <2>3, Zenon
<1> QED BY <1>1, <1>3, <1>4 DEF Stands

\* A text with its null byte is read, and the offset after it.
LEMMA ReadText ==
  ASSUME NEW p \in Data, NEW pos \in Nat, NEW s \in Text, Stands(s \o << 0 >>, p, pos)
  PROVE  pos < Len(p) /\ read_null_str(p, pos) = [value |-> s, pos |-> pos + Len(s) + 1]
<1>1. s \in Data /\ << 0 >> \in Data
  <2>1. 0 \in Byte
    BY ByteFacts
  <2> QED BY <2>1, TextFacts, TupleFacts DEF Data
<1>2. Stands(s, p, pos) /\ Stands(<< 0 >>, p, pos + Len(s))
  BY <1>1, TwoPartsAt
<1>3. pos < Len(p)
  <2>1. Len(s) \in Nat /\ Len(p) \in Nat
    BY TextFacts, DataFacts
  <2>2. pos + Len(s) + 1 <= Len(p)
    BY <2>1, <1>2, TupleStands
  <2> QED BY <2>1, <2>2
<1> QED BY <1>2, <1>3, ReadNullStr

\* An optional text: there with its null byte, or not at all.
Optional(there, s) == IF there THEN s \o << 0 >> ELSE << >>

LEMMA OptionalFacts ==
  ASSUME NEW there \in BOOLEAN, NEW s \in Text
  PROVE  /\ Optional(there, s) \in Data
         /\ Len(Optional(there, s)) = IF there THEN Len(s) + 1 ELSE 0
<1>1. s \in Data /\ << >> \in Data /\ << 0 >> \in Data /\ Len(<< 0 >>) = 1 /\ Len(<< >>) = 0
  <2>1. 0 \in Byte
    BY ByteFacts
  <2> QED BY <2>1, TextFacts, TupleFacts DEF Data
<1>2. s \o << 0 >> \in Data /\ Len(s \o << 0 >>) = Len(s) + 1
  BY <1>1, ConcatFacts DEF Data
<1>3. CASE there
  BY <1>2, <1>3 DEF Optional
<1>4. CASE ~there
  BY <1>1, <1>4 DEF Optional
<1> QED BY <1>3, <1>4

\* Where the fields of a response stand.
Answered(p, flags, user, auth, db, plugin) ==
  /\ p \in Data /\ Len(p) = 34 + Len(user) + Len(auth) + Len(db) + Len(plugin)
  /\ Stands(write_u32_le(flags), p, 0)
  /\ Stands(user, p, 32) /\ Stands(<< 0 >>, p, 32 + Len(user))
  /\ Stands(<<Len(auth)>>, p, 33 + Len(user)) /\ Stands(auth, p, 34 + Len(user))
  /\ Stands(db, p, 34 + Len(user) + Len(auth))
  /\ Stands(plugin, p, 34 + Len(user) + Len(auth) + Len(db))

LEMMA ResponseParts ==
  ASSUME NEW flags \in Nat, NEW user \in Text, NEW auth \in Data, Len(auth) \in Byte, Len(auth) < 251,
         NEW db \in Text, NEW plugin \in Text
  PROVE  Answered(Response(flags, user, auth, db, plugin), flags, user, auth,
                  Optional(Has(flags, CONNECT_WITH_DB), db), Optional(Has(flags, PLUGIN_AUTH), plugin))
<1> DEFINE c1 == write_u32_le(flags)   c2 == <<255, 255, 255, 0, 45>>   c3 == Zeros(23)
           c4 == << 0 >>                 c5 == <<Len(auth)>>
           c6 == Optional(Has(flags, CONNECT_WITH_DB), db)
           c7 == Optional(Has(flags, PLUGIN_AUTH), plugin)
           w == c1 \o c2 \o c3 \o user \o c4
           p == Response(flags, user, auth, db, plugin)
<1>1. p = w \o c5 \o auth \o c6 \o c7
  <2>1. write_lenenc_int(Len(auth)) = <<Len(auth)>>
    BY SMT DEF write_lenenc_int
  <2> QED BY <2>1 DEF Response, Optional
<1>2. c1 \in Data /\ Len(c1) = 4
  BY LongFacts
<1>3. c2 \in Data /\ Len(c2) = 5
  <2>1. 255 \in Byte /\ 0 \in Byte /\ 45 \in Byte
    BY ByteFacts
  <2> QED BY <2>1 DEF Data
<1>4. c3 \in Data /\ Len(c3) = 23
  BY ZerosFacts, Zenon
<1>5. c4 \in Data /\ Len(c4) = 1 /\ c5 \in Data /\ Len(c5) = 1
  <2>1. 0 \in Byte
    BY ByteFacts
  <2> QED BY <2>1, TupleFacts DEF Data
<1>6. c6 \in Data /\ c7 \in Data /\ Len(c6) \in Nat /\ Len(c7) \in Nat
  <2>1. Has(flags, CONNECT_WITH_DB) \in BOOLEAN /\ Has(flags, PLUGIN_AUTH) \in BOOLEAN
    BY DEF Has
  <2>2. c6 \in Data /\ c7 \in Data
    BY <2>1, OptionalFacts
  <2> QED BY <2>2, DataFacts
<1>7. user \in Data /\ Len(user) \in Nat /\ Len(auth) \in Nat
  BY TextFacts, DataFacts
<1> HIDE DEF c1, c2, c3, c4, c5, c6, c7, p
<1>0. /\ c1 \in Data /\ c2 \in Data /\ c3 \in Data /\ c4 \in Data /\ c5 \in Data /\ c6 \in Data
      /\ c7 \in Data /\ user \in Data
  BY <1>2, <1>3, <1>4, <1>5, <1>6, <1>7
<1>8. w \in Data /\ Len(w) = 33 + Len(user)
  <2>1. w \in Data /\ Len(w) = Len(c1) + Len(c2) + Len(c3) + Len(user) + Len(c4)
    BY <1>0, FourJoined, SMT
  <2> QED BY <2>1, <1>2, <1>3, <1>4, <1>5, <1>7
<1>9. p \in Data /\ Len(p) = 34 + Len(user) + Len(auth) + Len(c6) + Len(c7)
  <2> HIDE DEF w
  <2>0. w \in Data
    BY <1>8
  <2>1. p \in Data /\ Len(p) = Len(w) + Len(c5) + Len(auth) + Len(c6) + Len(c7)
    BY <1>0, <1>1, <2>0, FourJoined, SMT
  <2> QED BY <2>1, <1>5, <1>6, <1>7, <1>8
<1>10. Stands(p, p, 0)
  BY <1>9, DataFacts DEF Stands
<1>11. /\ Stands(w, p, 0) /\ Stands(c5, p, 33 + Len(user)) /\ Stands(auth, p, 34 + Len(user))
       /\ Stands(c6, p, 34 + Len(user) + Len(auth)) /\ Stands(c7, p, 34 + Len(user) + Len(auth) + Len(c6))
  <2> HIDE DEF w
  <2>1. Stands(w \o c5 \o auth \o c6 \o c7, p, 0)
    BY <1>1, <1>10
  <2>0. w \in Data /\ p \in Data
    BY <1>8, <1>9
  <2>2. /\ Stands(w, p, 0) /\ Stands(c5, p, Len(w)) /\ Stands(auth, p, Len(w) + Len(c5))
        /\ Stands(c6, p, Len(w) + Len(c5) + Len(auth)) /\ Stands(c7, p, Len(w) + Len(c5) + Len(auth) + Len(c6))
    BY <1>0, <2>0, <2>1, FourParts, Zenon
  <2>3. /\ Len(w) = 33 + Len(user) /\ Len(w) + Len(c5) = 34 + Len(user)
        /\ Len(w) + Len(c5) + Len(auth) = 34 + Len(user) + Len(auth)
        /\ Len(w) + Len(c5) + Len(auth) + Len(c6) = 34 + Len(user) + Len(auth) + Len(c6)
    BY <1>5, <1>6, <1>7, <1>8
  <2> QED BY <2>2, <2>3, Zenon
<1>12. Stands(c1, p, 0) /\ Stands(user, p, 32) /\ Stands(c4, p, 32 + Len(user))
  <2>1. /\ Stands(c1, p, 0) /\ Stands(user, p, Len(c1) + Len(c2) + Len(c3))
        /\ Stands(c4, p, Len(c1) + Len(c2) + Len(c3) + Len(user))
    BY <1>0, <1>9, <1>11, FourParts, ZenonT(40)
  <2>2. Len(c1) + Len(c2) + Len(c3) = 32 /\ Len(c1) + Len(c2) + Len(c3) + Len(user) = 32 + Len(user)
    BY <1>2, <1>3, <1>4, <1>7
  <2> QED BY <2>1, <2>2, Zenon
<1> QED BY <1>9, <1>11, <1>12 DEF Answered, p, c1, c4, c5, c6, c7

\* HandshakeResponse41::decode finds every field of a response, whichever of the
\* optional ones it has.
LEMMA ResponseDecoded ==
  ASSUME NEW flags \in Nat, High(flags) \in Word, NEW user \in Text, NEW auth \in Data,
         Len(auth) \in Byte, Len(auth) < 251, NEW db \in Text, NEW plugin \in Text,
         Has(flags, SECURE_CONNECTION) \/ Has(flags, PLUGIN_AUTH_LENENC)
  PROVE  DecodeResponse(Response(flags, user, auth, db, plugin)) =
           [user |-> user, auth |-> auth,
            db |-> IF Has(flags, CONNECT_WITH_DB) THEN db ELSE << >>,
            plugin |-> IF Has(flags, PLUGIN_AUTH) THEN plugin ELSE << >>]
<1> DEFINE p == Response(flags, user, auth, db, plugin)
           withDb == Has(flags, CONNECT_WITH_DB)
           named == Has(flags, PLUGIN_AUTH)
           c6 == Optional(withDb, db)
           c7 == Optional(named, plugin)
           A == 34 + Len(user) + Len(auth)
<1>1. Answered(p, flags, user, auth, c6, c7)
  BY ResponseParts, Zenon
<1>2. Len(user) \in Nat /\ Len(auth) \in Nat /\ Len(db) \in Nat /\ Len(plugin) \in Nat /\ A \in Nat
  BY TextFacts, DataFacts
<1>3. withDb \in BOOLEAN /\ named \in BOOLEAN
  BY DEF Has
<1>4. /\ Len(c6) = IF withDb THEN Len(db) + 1 ELSE 0
      /\ Len(c7) = IF named THEN Len(plugin) + 1 ELSE 0
  BY <1>3, OptionalFacts, Zenon
<1> HIDE DEF p, withDb, named
<1>5. p \in Data /\ Len(p) = A + Len(c6) + Len(c7) /\ Len(p) \in Nat
  BY <1>1, DataFacts DEF Answered
<1>6. read_u32_le(p, 0) = flags
  <2>1. flags \div 65536 < 65536
    BY SMT DEF High, Word
  <2> QED BY <1>1, <2>1, LongRead, SMT DEF Answered
<1>7. read_null_str(p, 32) = [value |-> user, pos |-> 32 + Len(user) + 1]
  BY <1>1, <1>5, ReadNullStr, 32 \in Nat, Zenon DEF Answered
<1>8. withDb => A < Len(p) /\ read_null_str(p, A) = [value |-> db, pos |-> A + Len(db) + 1]
  <2> HAVE withDb
  <2>1. Stands(db \o << 0 >>, p, A)
    BY <1>1 DEF Answered, Optional
  <2> QED BY <1>2, <1>5, <2>1, ReadText, ZenonT(40)
<1>9. named => /\ A + Len(c6) < Len(p)
               /\ read_null_str(p, A + Len(c6)) = [value |-> plugin, pos |-> A + Len(c6) + Len(plugin) + 1]
  <2> HAVE named
  <2>0. Len(c6) \in Nat
    BY <1>3, OptionalFacts, DataFacts, Zenon
  <2>1. A + Len(c6) \in Nat
    <3> HIDE DEF c6
    <3> QED BY <1>2, <2>0
  <2>2. Stands(c7, p, A + Len(c6))
    BY <1>1, Zenon DEF Answered
  <2>3. c7 = plugin \o << 0 >>
    BY DEF Optional
  <2> QED BY <1>5, <2>1, <2>2, <2>3, ReadText, ZenonT(40)
<1> DEFINE u == read_null_str(p, 32)
           length == CASE Has(flags, PLUGIN_AUTH_LENENC) -> read_lenenc_int(p, u.pos)
                       [] ~Has(flags, PLUGIN_AUTH_LENENC) /\ Has(flags, SECURE_CONNECTION) ->
                            [value |-> p[u.pos + 1], pos |-> u.pos + 1]
                       [] OTHER -> [value |-> 0, pos |-> u.pos]
           after == length.pos + length.value
           d == IF withDb /\ after < Len(p) THEN read_null_str(p, after) ELSE [value |-> << >>, pos |-> after]
           n == IF named /\ d.pos < Len(p) THEN read_null_str(p, d.pos).value ELSE << >>
           noLength == Has(flags, SECURE_CONNECTION) /\ ~Has(flags, PLUGIN_AUTH_LENENC) /\ u.pos >= Len(p)
<1>10. DecodeResponse(p) = IF Len(p) <= 32 \/ noLength \/ after > Len(p) THEN None
                           ELSE [user |-> u.value, auth |-> SubSeq(p, length.pos + 1, after),
                                 db |-> d.value, plugin |-> n]
  BY <1>6, ZenonT(40) DEF DecodeResponse, ReadResponse, withDb, named
<1>11. u.value = user /\ u.pos = 33 + Len(user)
  BY <1>2, <1>7
<1> HIDE DEF u
<1>12. length = [value |-> Len(auth), pos |-> 34 + Len(user)]
  <2>1. Stands(<<Len(auth)>>, p, 33 + Len(user)) /\ 33 + Len(user) \in Nat
    BY <1>1, <1>2 DEF Answered
  <2>2. write_lenenc_int(Len(auth)) = <<Len(auth)>>
    BY SMT DEF write_lenenc_int
  <2>3. read_lenenc_int(p, 33 + Len(user)) = [value |-> Len(auth), pos |-> 33 + Len(user) + 1]
    <3>1. Stands(write_lenenc_int(Len(auth)), p, 33 + Len(user)) /\ p \in Data /\ Len(auth) \in Nat
      BY <1>2, <1>5, <2>1, <2>2
    <3> QED BY <2>1, <3>1, LengthsRead, Zenon
  <2>4. p[33 + Len(user) + 1] = Len(auth)
    BY <2>1, TupleStands
  <2>5. 33 + Len(user) + 1 = 34 + Len(user)
    BY <1>2
  <2>6. CASE Has(flags, PLUGIN_AUTH_LENENC)
    BY <1>11, <2>3, <2>5, <2>6
  <2>7. CASE ~Has(flags, PLUGIN_AUTH_LENENC)
    BY <1>11, <2>4, <2>5, <2>7
  <2> QED BY <2>6, <2>7
<1>13. length.pos = 34 + Len(user) /\ after = A
  BY SMTT(30), <1>2, <1>12
<1> HIDE DEF length, after
<1>14. d.value = (IF withDb THEN db ELSE << >>) /\ d.pos = A + Len(c6)
  <2>1. CASE withDb
    BY SMTT(30), <1>2, <1>4, <1>8, <1>13, <2>1
  <2>2. CASE ~withDb
    BY <1>2, <1>4, <1>13, <2>2
  <2> QED BY <2>1, <2>2
<1> HIDE DEF d
<1>15. n = IF named THEN plugin ELSE << >>
  BY <1>9, <1>14
<1> HIDE DEF n
<1>16. Len(p) > 32 /\ ~noLength /\ ~(after > Len(p))
  <2>1. Len(c6) \in Nat /\ Len(c7) \in Nat
    BY <1>2, <1>3, <1>4
  <2> HIDE DEF c6, c7
  <2> QED BY SMTT(30), <1>2, <1>5, <1>11, <1>13, <2>1
<1> HIDE DEF noLength
<1>17. SubSeq(p, length.pos + 1, after) = auth
  <2>1. Stands(auth, p, 34 + Len(user)) /\ 34 + Len(user) \in Nat
    BY <1>1, <1>2 DEF Answered
  <2>2. SubSeq(p, 34 + Len(user) + 1, 34 + Len(user) + Len(auth)) = auth
    BY <1>5, <2>1, PartOf, Zenon
  <2> QED BY <1>13, <2>2
<1>18. ~(Len(p) <= 32)
  BY <1>5, <1>16
<1> QED BY <1>10, <1>11, <1>14, <1>15, <1>16, <1>17, <1>18, Zenon DEF p, withDb, named

\* What do_run decodes from a client's response, as the client meant it.
Meant(c, salt) ==
  [user |-> c.user, auth |-> scramble_native_password(c.password, salt),
   db |-> IF Has(c.flags, CONNECT_WITH_DB) THEN c.db ELSE << >>,
   plugin |-> IF Has(c.flags, PLUGIN_AUTH) THEN c.plugin ELSE << >>]

LEMMA AnswerDecoded ==
  ASSUME NEW c \in Clients, NEW salt \in Salt
  PROVE  /\ c.old => DecodeResponse(Answer(c, salt)) = None
         /\ ~c.old => DecodeResponse(Answer(c, salt)) = Meant(c, salt) /\ Meant(c, salt) # None
<1> DEFINE auth == scramble_native_password(c.password, salt)
<1>1. /\ c.flags \in Nat /\ High(c.flags) \in Word /\ c.user \in Text /\ c.db \in Text /\ c.plugin \in Text
      /\ Has(c.flags, SECURE_CONNECTION) \/ Has(c.flags, PLUGIN_AUTH_LENENC)
      /\ c.password \in Password /\ (c.old => Len(c.user) <= 16)
  BY PeerAssumption, Zenon
<1>2. auth \in Data /\ Len(auth) \in Nat /\ Len(auth) < 251 /\ Len(auth) \in Byte
  <2>1. Len(auth) = 0 \/ Len(auth) = 20
    BY <1>1, ScrambleFacts
  <2>2. auth \in Data
    BY <1>1, ScrambleFacts
  <2>3. 0 \in Byte /\ 20 \in Byte
    BY ByteFacts
  <2> HIDE DEF auth
  <2>4. Len(auth) \in Byte
    BY <2>1, <2>3, Zenon
  <2>5. Len(auth) \in Nat /\ Len(auth) < 251
    <3>1. \A n : n = 0 \/ n = 20 => n \in Nat /\ n < 251
      OBVIOUS
    <3> QED BY <2>1, <3>1, Zenon
  <2> QED BY <2>2, <2>4, <2>5
<1>3. ASSUME c.old PROVE DecodeResponse(Answer(c, salt)) = None
  <2> DEFINE a == write_u16_le(Low(c.flags))
             b == <<255, 255, 255>>
             z == << 0 >>
             p == a \o b \o c.user \o z
  <2>1. Answer(c, salt) = p
    BY <1>3, Zenon DEF Answer
  <2>2. a \in Data /\ Len(a) = 2
    <3>1. Low(c.flags) \in Nat
      BY <1>1, Halves DEF Word
    <3> QED BY <3>1, ShortFacts
  <2>3. b \in Data /\ Len(b) = 3 /\ z \in Data /\ Len(z) = 1
    <3>1. 255 \in Byte /\ 0 \in Byte
      BY ByteFacts
    <3> QED BY <3>1, TupleFacts DEF Data
  <2>4. c.user \in Data /\ Len(c.user) \in Nat /\ Len(c.user) <= 16
    BY <1>1, <1>3, TextFacts
  <2> HIDE DEF a, b, z
  <2>5. a \in Data /\ b \in Data /\ z \in Data /\ c.user \in Data
    BY <2>2, <2>3, <2>4
  <2>6. Len(p) = Len(a) + Len(b) + Len(c.user) + Len(z)
    BY <2>5, ThreeJoined
  <2> HIDE DEF p
  <2>8. Len(p) <= 32
    BY <2>2, <2>3, <2>4, <2>6
  <2> QED BY <2>1, <2>8, Zenon DEF DecodeResponse, ReadResponse
<1>4. ASSUME ~c.old PROVE DecodeResponse(Answer(c, salt)) = Meant(c, salt)
  <2>1. Answer(c, salt) = Response(c.flags, c.user, auth, c.db, c.plugin)
    BY <1>4 DEF Answer
  <2> HIDE DEF auth
  <2>2. DecodeResponse(Response(c.flags, c.user, auth, c.db, c.plugin)) =
          [user |-> c.user, auth |-> auth,
           db |-> IF Has(c.flags, CONNECT_WITH_DB) THEN c.db ELSE << >>,
           plugin |-> IF Has(c.flags, PLUGIN_AUTH) THEN c.plugin ELSE << >>]
    BY <1>1, <1>2, ResponseDecoded, ZenonT(40)
  <2> QED BY <2>1, <2>2, Zenon DEF Meant, auth
<1>5. Meant(c, salt) # None
  <2>1. << >> \in Text
    BY TupleFacts DEF Text
  <2>2. Meant(c, salt) \in [user : Text, auth : Data, db : Text, plugin : Text]
    BY <1>1, <1>2, <2>1 DEF Meant
  <2> QED BY <2>2, NoneAssumption
<1> QED BY <1>3, <1>4, <1>5

LEMMA DataAssociative ==
  ASSUME NEW s \in Data, NEW t \in Data, NEW u \in Data
  PROVE  (s \o t) \o u = s \o (t \o u)
BY SMTT(30), Associative DEF Data

\* Four bytes and one more.
LEMMA FiveBytes ==
  ASSUME NEW S, NEW x \in S, NEW y \in S, NEW z \in S, NEW u \in S, NEW v \in S
  PROVE  <<x, y, z, u>> \o <<v>> = <<x, y, z, u, v>>
<1> DEFINE m == <<x, y, z, u>>
           t == <<v>>
           c == <<x, y, z, u, v>>
<1>1. m \in Seq(S) /\ t \in Seq(S) /\ c \in Seq(S)
  OBVIOUS
<1>2. /\ Len(m) = 4 /\ m[1] = x /\ m[2] = y /\ m[3] = z /\ m[4] = u /\ Len(t) = 1 /\ t[1] = v
      /\ Len(c) = 5 /\ c[1] = x /\ c[2] = y /\ c[3] = z /\ c[4] = u /\ c[5] = v
  OBVIOUS
<1> HIDE DEF m, t, c
<1>3. /\ m \o t \in Seq(S) /\ Len(m \o t) = Len(m) + Len(t)
      /\ \A i \in 1..Len(m) : (m \o t)[i] = m[i]
      /\ \A i \in 1..Len(t) : (m \o t)[Len(m) + i] = t[i]
  BY <1>1, ConcatFacts
<1> DEFINE r == m \o t
<1>4. r \in Seq(S) /\ Len(r) = 5 /\ \A i \in 1..5 : r[i] = c[i]
  <2> HIDE DEF r
  <2>1. r \in Seq(S) /\ Len(r) = 5
    BY <1>2, <1>3 DEF r
  <2>2. /\ r[1] = m[1] /\ r[2] = m[2] /\ r[3] = m[3] /\ r[4] = m[4]
    BY <1>2, <1>3 DEF r
  <2>3. r[5] = t[1]
    BY <1>2, <1>3 DEF r
  <2> QED BY <1>2, <2>1, <2>2, <2>3
<1> HIDE DEF r
<1>5. r = c
  BY <1>1, <1>2, <1>4, SameElements, Zenon
<1> QED BY <1>5 DEF r, m, t, c

\* Where no database is named and a plugin is, HandshakeResponse41::encode lays a
\* response out as the protocol does.
LEMMA EncodedAsResponse ==
  ASSUME NEW flags, ~Has(flags, CONNECT_WITH_DB), Has(flags, PLUGIN_AUTH), ~Has(flags, PLUGIN_AUTH_LENENC),
         flags \in Nat, NEW user \in Data, NEW auth \in Data, Len(auth) < 251
  PROVE  EncodeResponse(flags, user, auth, << >>, NATIVE_PASSWORD) =
           Response(flags, user, auth, << >>, NATIVE_PASSWORD)
<1> DEFINE c1 == write_u32_le(flags)
           m == write_u32_le(MAX_PACKET_SIZE)
           c2 == <<255, 255, 255, 0, 45>>
           c3 == Zeros(23)
           t == << 45 >>
           z == << 0 >>
<1>1. c1 \in Data /\ c3 \in Data
  BY LongFacts, ZerosFacts
<1>2. m \in Data /\ t \in Data /\ c2 \in Data /\ m \o t = c2
  <2>1. m = <<255, 255, 255, 0>>
    BY SMT DEF write_u32_le, MAX_PACKET_SIZE
  <2> DEFINE b255 == 255
             b0 == 0
             b45 == 45
  <2>2. b255 \in Byte /\ b0 \in Byte /\ b45 \in Byte
    BY ByteFacts
  <2> HIDE DEF m
  <2>3. m = <<b255, b255, b255, b0>> /\ t = <<b45>> /\ c2 = <<b255, b255, b255, b0, b45>>
    BY <2>1
  <2> HIDE DEF b255, b0, b45, t, c2
  <2>4. m \in Data /\ t \in Data /\ c2 \in Data
    BY <2>2, <2>3 DEF Data
  <2>5. <<b255, b255, b255, b0>> \o <<b45>> = <<b255, b255, b255, b0, b45>>
    <3>1. \A x, y, z1, u, v \in Byte : <<x, y, z1, u>> \o <<v>> = <<x, y, z1, u, v>>
      BY FiveBytes, Zenon
    <3> QED BY <2>2, <3>1
  <2> QED BY <2>3, <2>4, <2>5, Zenon
<1>3. z \in Data
  <2>1. 0 \in Byte
    BY ByteFacts
  <2> QED BY <2>1, TupleFacts DEF Data
<1> HIDE DEF c1, m, c2, c3, z, t
<1>4. c1 \o m \o t = c1 \o c2
  <2>1. c1 \in Data /\ m \in Data /\ t \in Data
    BY <1>1, <1>2
  <2>2. (c1 \o m) \o t = c1 \o (m \o t)
    BY <2>1, DataAssociative, ZenonT(40)
  <2> QED BY <2>2, <1>2
<1>5. c1 \o c2 \in Data /\ c1 \o c2 \o c3 \in Data
  BY <1>1, <1>2, ConcatFacts DEF Data
<1>6. c1 \o c2 \o c3 \o (user \o z) = c1 \o c2 \o c3 \o user \o z
  BY <1>3, <1>5, DataAssociative, ZenonT(40)
<1>7. Len(auth) % 256 = Len(auth)
  BY DataFacts, SMT
<1>8. EncodeResponse(flags, user, auth, << >>, NATIVE_PASSWORD) =
        c1 \o m \o t \o c3 \o (user \o z) \o <<Len(auth) % 256>> \o auth \o << >> \o (NATIVE_PASSWORD \o z)
  <2>1. NATIVE_PASSWORD # << >>
    <3>1. Len(NATIVE_PASSWORD) = 1 /\ Len(<< >>) = 0
      BY TupleFacts DEF NATIVE_PASSWORD
    <3>2. 1 # 0
      OBVIOUS
    <3> QED BY <3>1, <3>2, Zenon
  <2> QED BY <2>1, Zenon DEF EncodeResponse, write_null_str, c1, m, c3, z, t
<1>9. Response(flags, user, auth, << >>, NATIVE_PASSWORD) =
        c1 \o c2 \o c3 \o user \o z \o <<Len(auth)>> \o auth \o << >> \o (NATIVE_PASSWORD \o z)
  BY ZenonT(40) DEF Response, c1, c2, c3, z
<1> QED BY <1>4, <1>6, <1>7, <1>8, <1>9, ZenonT(40)

\* connect() answers a greeting with a response that the backend reads as it was meant.
LEMMA OurResponse ==
  ASSUME NEW user \in Data, NEW q \in Password, NEW s \in Salt
  PROVE  EncodeResponse(kClientFlags - CONNECT_WITH_DB, user, scramble_native_password(q, s), << >>, NATIVE_PASSWORD) =
           Response(kClientFlags - CONNECT_WITH_DB, user, scramble_native_password(q, s), << >>, NATIVE_PASSWORD)
<1> DEFINE auth == scramble_native_password(q, s)
           f == kClientFlags - CONNECT_WITH_DB
<1>1. f = 565761
  BY SMT DEF kClientFlags, CONNECT_WITH_DB, SECURE_CONNECTION, PLUGIN_AUTH
<1>2. f \in Nat /\ ~Has(f, CONNECT_WITH_DB) /\ Has(f, PLUGIN_AUTH) /\ ~Has(f, PLUGIN_AUTH_LENENC)
  BY <1>1, SMT DEF Has, CONNECT_WITH_DB, PLUGIN_AUTH, PLUGIN_AUTH_LENENC
<1>3. auth \in Data /\ (Len(auth) = 0 \/ Len(auth) = 20)
  BY ScrambleFacts
<1> HIDE DEF auth, f
<1>4. Len(auth) < 251
  <2>1. \A n : n = 0 \/ n = 20 => n < 251
    OBVIOUS
  <2> QED BY <1>3, <2>1, Zenon
<1>5. EncodeResponse(f, user, auth, << >>, NATIVE_PASSWORD) = Response(f, user, auth, << >>, NATIVE_PASSWORD)
  BY <1>2, <1>3, <1>4, EncodedAsResponse, Zenon
<1> QED BY <1>5 DEF f, auth

\* What a packet begins with.
First(x, p) == p # << >> /\ p[1] = x

LEMMA FirstByte ==
  ASSUME NEW x \in Byte, NEW p \in Data, Stands(<<x>>, p, 0)
  PROVE  First(x, p)
<1>1. 0 + 1 <= Len(p) /\ p[0 + 1] = x
  BY TupleStands, 0 \in Nat, Zenon
<1>2. Len(p) >= 1 /\ p[1] = x
  BY <1>1
<1>3. p # << >>
  <2>1. Len(<< >>) = 0
    BY TupleFacts
  <2> QED BY <1>2, <2>1
<1> QED BY <1>2, <1>3 DEF First

LEMMA OkFirst == First(0, make_ok)
<1> DEFINE x == << 0 >>
           l == write_lenenc_int(0)
           s == write_u16_le(2)
           n == write_u16_le(0)
<1>0. 0 \in Byte /\ 0 \in Nat /\ 2 \in Nat
  BY ByteFacts
<1>1. x \in Data /\ l \in Data
  <2>1. l = << 0 >>
    BY DEF write_lenenc_int
  <2> QED BY <1>0, <2>1, TupleFacts, Zenon DEF Data
<1>2. s \in Data /\ n \in Data
  BY <1>0, ShortFacts
<1> HIDE DEF x, l, s, n
<1>3. make_ok = x \o l \o l \o s \o n
  BY DEF make_ok, x, l, s, n
<1>4. make_ok \in Data
  BY <1>1, <1>2, <1>3, FourJoined, Zenon
<1>5. Stands(make_ok, make_ok, 0)
  BY <1>4, DataFacts DEF Stands
<1>6. Stands(x, make_ok, 0)
  BY <1>1, <1>2, <1>3, <1>4, <1>5, FourParts, Zenon
<1> QED BY <1>0, <1>4, <1>6, FirstByte, Zenon DEF x

LEMMA ErrFirst ==
  ASSUME NEW code \in Nat
  PROVE  First(255, make_err(code))
<1> DEFINE x == << 255 >>
           n == write_u16_le(code)
<1>0. 255 \in Byte
  BY ByteFacts
<1>1. x \in Data /\ n \in Data
  BY <1>0, TupleFacts, ShortFacts DEF Data
<1> HIDE DEF x, n
<1>2. make_err(code) = x \o n
  BY DEF make_err, x, n
<1>3. make_err(code) \in Data
  BY <1>1, <1>2, ConcatFacts DEF Data
<1>4. Stands(make_err(code), make_err(code), 0)
  BY <1>3, DataFacts DEF Stands
<1>5. Stands(x, make_err(code), 0)
  BY <1>1, <1>2, <1>3, <1>4, TwoParts, Zenon DEF Data
<1> QED BY <1>0, <1>3, <1>5, FirstByte DEF x

LEMMA OtherFirst == First(1, <<1, 4>>)
BY DEF First

\* No packet begins with two bytes.
LEMMA OneFirst ==
  ASSUME NEW x, NEW y, NEW p, First(x, p), First(y, p)
  PROVE  x = y
BY DEF First

\* An AuthSwitchRequest, as a backend lays it out.
Switch(b) == << 254 >> \o b.account \o << 0 >> \o b.switch_salt \o << 0 >>

\* connect() finds the new challenge in an AuthSwitchRequest.
LEMMA SwitchParsed ==
  ASSUME NEW b \in Backends
  PROVE  First(254, Switch(b)) /\ parse_switch_salt(Switch(b)) = b.switch_salt
<1> DEFINE x == << 254 >>
           z == << 0 >>
           a == b.account
           s == b.switch_salt
           p == Switch(b)
<1>0. 254 \in Byte /\ 0 \in Byte /\ 1 \in Nat
  BY ByteFacts
<1>1. a \in Text /\ a \in Data /\ Len(a) \in Nat /\ s \in Data /\ Len(s) = 20
  BY BackendFacts, TextFacts, SaltFacts
<1>2. x \in Data /\ z \in Data /\ Len(x) = 1 /\ Len(z) = 1
  BY <1>0, TupleFacts DEF Data
<1>3. p = x \o a \o z \o s \o z
  BY DEF Switch
<1> HIDE DEF x, z, a, s, p
<1>4. /\ p \in Data /\ Len(p) = Len(x) + Len(a) + Len(z) + Len(s) + Len(z)
  <2>1. x \in Data /\ a \in Data /\ z \in Data /\ s \in Data
    BY <1>1, <1>2
  <2> QED BY <1>3, <2>1, FourJoined, SMT
<1>5. Stands(p, p, 0)
  BY <1>4, DataFacts DEF Stands
<1>6. /\ Stands(x, p, 0) /\ Stands(a, p, Len(x)) /\ Stands(z, p, Len(x) + Len(a))
      /\ Stands(s, p, Len(x) + Len(a) + Len(z))
  <2>1. x \in Data /\ a \in Data /\ z \in Data /\ s \in Data /\ p \in Data
    BY <1>1, <1>2, <1>4
  <2> QED BY <1>3, <1>5, <2>1, FourParts, Zenon
<1>7. First(254, p)
  BY <1>0, <1>4, <1>6, FirstByte, Zenon DEF x
<1> DEFINE pos == Len(a) + 2
<1>8. /\ pos \in Nat /\ Len(x) = 1 /\ Len(x) + Len(a) = 1 + Len(a) /\ Len(x) + Len(a) + Len(z) = pos
      /\ 1 + Len(a) + 1 = pos /\ Len(p) = pos + 21
  BY <1>1, <1>2, <1>4
<1>9. read_null_str(p, 1).pos = pos
  <2>1. Stands(a, p, 1) /\ Stands(<< 0 >>, p, 1 + Len(a))
    BY <1>6, <1>8, Zenon DEF z
  <2>2. read_null_str(p, 1) = [value |-> a, pos |-> 1 + Len(a) + 1]
    BY <1>0, <1>1, <1>4, <2>1, ReadNullStr, Zenon
  <2> QED BY <1>8, <2>2
<1> HIDE DEF pos
<1>10. SubSeq(p, pos + 1, pos + 20) = s
  <2>1. Stands(s, p, pos)
    BY <1>6, <1>8, Zenon
  <2>2. SubSeq(p, pos + 1, pos + Len(s)) = s
    BY <1>1, <1>4, <1>8, <2>1, PartOf, Zenon
  <2> QED BY <1>1, <2>2, Zenon
<1>11. Min({pos + 20, Len(p)}) = pos + 20
  BY <1>8, MinMax
<1>12. s \o Zeros(20 - Len(s)) = s
  <2>1. 20 - Len(s) = 0
    BY <1>1
  <2> QED BY <1>1, <2>1, NoZeros, Zenon
<1>13. parse_switch_salt(p) = SubSeq(p, pos + 1, Min({pos + 20, Len(p)}))
                                \o Zeros(20 - Len(SubSeq(p, pos + 1, Min({pos + 20, Len(p)}))))
  BY <1>9, Zenon DEF parse_switch_salt
<1>14. parse_switch_salt(p) = s
  BY <1>10, <1>11, <1>12, <1>13, Zenon
<1> QED BY <1>7, <1>14 DEF p, s

\* The error of a backend that is full is not a greeting.
LEMMA ErrorIsNoGreeting == \A code \in Nat : DecodeV10(make_err(code)) = None
<1> TAKE code \in Nat
<1>1. make_err(code)[1] = 255
  BY ErrFirst DEF First
<1>2. make_err(code)[1] # 10
  BY <1>1
<1> HIDE DEF make_err
<1> QED BY <1>2, Zenon DEF DecodeV10

-----------------------------------------------------------------------------
(* The inductive invariant                                                 *)

\* The connection is right for the backend: nothing but a broken connection is in its way.
Good(b) == ~b.full /\ b.configured = b.password /\ b.account = NATIVE_PASSWORD

\* The packet under way, if it is not lost.
Packet(to, payload) == wire = None \/ wire = [to |-> to, seq |-> seq, payload |-> payload]

Refusals == {make_err(1045), <<1, 4>>}

Refused == ~Good(peer) /\ \E p \in Refusals : Packet("us", p)

Ours(b, salt) ==
  EncodeResponse(kClientFlags - CONNECT_WITH_DB, b.user,
                 scramble_native_password(b.configured, salt), << >>, NATIVE_PASSWORD)

\* Where the peer is, what is under way and its number, for every place of DBMesh.
AtConnect == peer \in Backends /\ at = "start" /\ wire = None /\ seq = 255

AtGreeting ==
  /\ peer \in Backends
  /\ \/ at = "start" /\ wire = None /\ seq = 255
     \/ at = "greeted" /\ ~peer.full /\ seq = 0 /\ Packet("us", Greeting(peer))
     \/ at = "rejects" /\ peer.full /\ seq = 0 /\ Packet("us", make_err(1040))

AtResult ==
  /\ peer \in Backends
  /\ \/ at = "greeted" /\ seq = 1 /\ Packet("peer", Ours(peer, peer.salt))
     \/ at = "switched" /\ seq = 2 /\ Packet("us", Switch(peer))
     \/ at = "accepts" /\ seq = 2 /\ Packet("us", make_ok)
     \/ at = "rejects" /\ seq = 2 /\ Refused

AtFinal ==
  /\ peer \in Backends
  /\ \/ at = "switched" /\ seq = 3
        /\ Packet("peer", scramble_native_password(peer.configured, peer.switch_salt))
     \/ at = "accepts" /\ seq = 4 /\ Packet("us", make_ok)
     \/ at = "rejects" /\ seq = 4 /\ Refused

AtOk == at = "accepts" /\ wire = None

\* Only a client may still have something to read when DBMesh is done.
LastWord == wire = None \/ (at = "answered" /\ wire.to = "peer")

AtFailed == (peer \in Backends => broken \/ ~Good(peer)) /\ LastWord

AtAccepted == peer \in Clients \ Backends /\ at = "start" /\ wire = None /\ seq = 255

AtLogin ==
  /\ peer \in Clients \ Backends /\ auth_data \in Salt
  /\ \/ at = "start" /\ seq = 0 /\ Packet("peer", EncodeV10(<< 8 >>, 1, auth_data))
     \/ at = "answered" /\ seq = 1 /\ Packet("us", Answer(peer, auth_data))

AtCommand ==
  /\ peer \in Clients \ Backends /\ auth_data \in Salt
  /\ response = Meant(peer, auth_data) /\ LastWord

IInv ==
  /\ pc \in Waiting \union {"ok", "command", "failed"} /\ broken \in BOOLEAN
  /\ pc = "connect" => AtConnect
  /\ pc = "greeting" => AtGreeting
  /\ pc = "result" => AtResult
  /\ pc = "final" => AtFinal
  /\ pc = "ok" => AtOk
  /\ pc = "failed" => AtFailed
  /\ pc = "accepted" => AtAccepted
  /\ pc = "login" => AtLogin
  /\ pc = "command" => AtCommand

\* A packet arrives as it was sent.
LEMMA Arrives ==
  ASSUME NEW to, NEW who, NEW p, Packet(to, p), Arrived(who)
  PROVE  who = to /\ wire.seq = seq /\ wire.payload = p
BY DEF Packet, Arrived

LEMMA InitIInv == Init => IInv
<1> SUFFICES ASSUME Init PROVE IInv
  OBVIOUS
<1>1. CASE peer \in Backends
  BY <1>1, Zenon DEF Init, IInv, AtConnect, Waiting
<1>2. CASE peer \notin Backends
  BY <1>2, Zenon DEF Init, IInv, AtAccepted, Waiting
<1> QED BY <1>1, <1>2

-----------------------------------------------------------------------------
(* DBMesh's steps                                                          *)

LEMMA ConnectKeeps == IInv /\ Connect => IInv'
<1> SUFFICES ASSUME IInv, Connect PROVE IInv'
  OBVIOUS
<1>1. AtConnect /\ broken \in BOOLEAN
  BY DEF IInv, Connect
<1>2. AtGreeting'
  BY <1>1 DEF AtConnect, AtGreeting, Connect
<1> QED BY <1>1, <1>2 DEF IInv, Connect, Waiting

\* connect() gets a challenge from every greeting, and an error from a backend that is full.
LEMMA ReadGreetingKeeps ==
  IInv /\ ReadGreeting => IInv' /\ (wire' # None => seq' = (seq + 1) % 256)
<1> SUFFICES ASSUME IInv, ReadGreeting PROVE IInv' /\ (wire' # None => seq' = (seq + 1) % 256)
  OBVIOUS
<1>1. AtGreeting /\ Arrived("us") /\ broken \in BOOLEAN
  BY DEF IInv, ReadGreeting
<1>2. CASE at = "greeted" /\ ~peer.full /\ seq = 0 /\ Packet("us", Greeting(peer))
  <2>1. wire.seq = 0 /\ wire.payload = Greeting(peer)
    BY <1>1, <1>2, Arrives
  <2>2. DecodeV10(wire.payload) = peer.salt /\ peer.salt # None
    <3>1. peer \in Backends
      BY <1>1 DEF AtGreeting
    <3> QED BY <2>1, <3>1, GreetingDecoded, BackendFacts, NoneAssumption, Zenon
  <2>3. (wire.seq + 1) % 256 = 1
    BY <2>1
  <2>4. pc' = "result" /\ Send("peer", 1, Ours(peer, peer.salt)) /\ UNCHANGED <<peer, at, broken>>
    BY <2>2, <2>3, Zenon DEF ReadGreeting, Ours
  <2>5. AtResult'
    BY <1>1, <1>2, <2>4 DEF AtGreeting, AtResult, Send, Packet
  <2>6. seq' = (seq + 1) % 256
    BY <1>2, <2>4 DEF Send
  <2> QED BY <1>1, <2>4, <2>5, <2>6 DEF IInv, Waiting
<1>3. CASE at = "rejects" /\ peer.full /\ seq = 0 /\ Packet("us", make_err(1040))
  <2>1. wire.payload = make_err(1040)
    BY <1>1, <1>3, Arrives
  <2>2. DecodeV10(wire.payload) = None
    BY <2>1, ErrorIsNoGreeting, 1040 \in Nat, SMT
  <2>3. Fail /\ UNCHANGED <<peer, at, broken>>
    BY <2>2, Zenon DEF ReadGreeting
  <2>4. AtFailed'
    BY <1>3, <2>3 DEF AtFailed, Good, Fail, LastWord
  <2> QED BY <1>1, <2>3, <2>4 DEF IInv, Waiting, Fail
<1> QED BY <1>1, <1>2, <1>3 DEF AtGreeting, Arrived

\* What connect() makes of a packet by its first byte.
IsSwitch(p) == First(254, p)

LEMMA Kinds ==
  /\ IsOk(make_ok) /\ ~IsSwitch(make_ok)
  /\ \A p \in Refusals : ~IsOk(p) /\ ~IsSwitch(p)
<1>1. First(255, make_err(1045))
  BY ErrFirst, 1045 \in Nat, SMT
<1> QED BY <1>1, OkFirst, OtherFirst DEF First, IsOk, IsSwitch, Refusals

\* connect() succeeds on OK, goes on with the new challenge on an AuthSwitchRequest,
\* and fails on anything else.
LEMMA ReadResultKeeps ==
  IInv /\ ReadResult => IInv' /\ (wire' # None => seq' = (seq + 1) % 256)
<1> SUFFICES ASSUME IInv, ReadResult PROVE IInv' /\ (wire' # None => seq' = (seq + 1) % 256)
  OBVIOUS
<1>1. AtResult /\ Arrived("us") /\ broken \in BOOLEAN /\ peer \in Backends
  BY ZenonT(40) DEF IInv, ReadResult, Judged, AtResult
<1>0. UNCHANGED <<peer, at, broken>>
  BY DEF ReadResult, Judged
<1>2. CASE at = "switched" /\ seq = 2 /\ Packet("us", Switch(peer))
  <2>1. wire.seq = 2 /\ wire.payload = Switch(peer)
    BY <1>1, <1>2, Arrives
  <2>2. IsSwitch(wire.payload) /\ parse_switch_salt(wire.payload) = peer.switch_salt
    BY <1>1, <2>1, SwitchParsed, Zenon DEF IsSwitch
  <2>3. (wire.seq + 1) % 256 = 3
    BY <2>1
  <2>4. pc' = "final" /\ Send("peer", 3, scramble_native_password(peer.configured, peer.switch_salt))
    BY <2>2, <2>3, Zenon DEF ReadResult, Judged, IsSwitch, First
  <2>5. AtFinal'
    BY <1>0, <1>1, <1>2, <2>4 DEF AtFinal, Send, Packet
  <2>6. seq' = (seq + 1) % 256
    BY <1>2, <2>4 DEF Send
  <2> QED BY <1>0, <1>1, <2>4, <2>5, <2>6 DEF IInv, Waiting
<1>3. CASE at = "accepts" /\ seq = 2 /\ Packet("us", make_ok)
  <2>1. wire.payload = make_ok
    BY <1>1, <1>3, Arrives
  <2>2. IsOk(wire.payload) /\ ~IsSwitch(wire.payload)
    BY <2>1, Kinds, Zenon
  <2>3. pc' = "ok" /\ wire' = None
    BY <2>2, Zenon DEF ReadResult, Judged, IsSwitch, First
  <2> QED BY <1>0, <1>1, <1>3, <2>3 DEF IInv, Waiting, AtOk
<1>4. CASE at = "rejects" /\ seq = 2 /\ Refused
  <2>1. PICK p \in Refusals : Packet("us", p)
    BY <1>4, Zenon DEF Refused
  <2>2. wire.payload = p
    BY <1>1, <2>1, Arrives, Zenon
  <2>3. ~IsOk(wire.payload) /\ ~IsSwitch(wire.payload)
    BY <2>1, <2>2, Kinds, Zenon
  <2>4. Fail
    BY <2>3, Zenon DEF ReadResult, Judged, IsSwitch, First
  <2>5. AtFailed'
    BY <1>0, <1>4, <2>4 DEF AtFailed, Refused, Good, Fail, LastWord
  <2> QED BY <1>0, <1>1, <2>4, <2>5 DEF IInv, Waiting, Fail
<1>5. CASE at = "greeted" /\ seq = 1 /\ Packet("peer", Ours(peer, peer.salt))
  <2>1. "us" = "peer"
    BY <1>1, <1>5, Arrives, Zenon
  <2> QED BY <2>1
<1> QED BY <1>1, <1>2, <1>3, <1>4, <1>5, Zenon DEF AtResult

LEMMA ReadFinalKeeps == IInv /\ ReadFinal => IInv' /\ wire' = None
<1> SUFFICES ASSUME IInv, ReadFinal PROVE IInv' /\ wire' = None
  OBVIOUS
<1>1. AtFinal /\ Arrived("us") /\ broken \in BOOLEAN
  BY DEF IInv, ReadFinal
<1>0. UNCHANGED <<peer, at, broken>>
  BY DEF ReadFinal
<1>2. CASE at = "accepts" /\ seq = 4 /\ Packet("us", make_ok)
  <2>1. wire.payload = make_ok
    BY <1>1, <1>2, Arrives
  <2>2. IsOk(wire.payload)
    BY <2>1, Kinds, Zenon
  <2>3. pc' = "ok" /\ wire' = None
    BY <2>2, Zenon DEF ReadFinal
  <2> QED BY <1>0, <1>1, <1>2, <2>3 DEF IInv, Waiting, AtOk
<1>3. CASE at = "rejects" /\ seq = 4 /\ Refused
  <2>1. PICK p \in Refusals : Packet("us", p)
    BY <1>3, Zenon DEF Refused
  <2>2. wire.payload = p
    BY <1>1, <2>1, Arrives, Zenon
  <2>3. ~IsOk(wire.payload)
    BY <2>1, <2>2, Kinds, Zenon
  <2>4. Fail
    BY <2>3, Zenon DEF ReadFinal
  <2>5. AtFailed'
    BY <1>0, <1>3, <2>4 DEF AtFailed, Refused, Good, Fail, LastWord
  <2> QED BY <1>0, <1>1, <2>4, <2>5 DEF IInv, Waiting, Fail
<1>4. CASE /\ at = "switched" /\ seq = 3
           /\ Packet("peer", scramble_native_password(peer.configured, peer.switch_salt))
  <2>1. "us" = "peer"
    BY <1>1, <1>4, Arrives, Zenon
  <2> QED BY <2>1
<1> QED BY <1>1, <1>2, <1>3, <1>4, Zenon DEF AtFinal

\* do_run sends a challenge without null bytes.
LEMMA GreetKeeps == IInv /\ Greet => IInv' /\ seq' = (seq + 1) % 256
<1> SUFFICES ASSUME IInv, Greet PROVE IInv' /\ seq' = (seq + 1) % 256
  OBVIOUS
<1>1. AtAccepted /\ broken \in BOOLEAN
  BY DEF IInv, Greet
<1>2. PICK random \in Challenge :
        auth_data' = generate_auth_data(random) /\ Send("peer", 0, EncodeV10(<< 8 >>, 1, auth_data'))
  BY Zenon DEF Greet
<1>3. auth_data' \in Salt
  BY <1>2, ChallengesAreSalts, Zenon
<1>4. pc' = "login" /\ UNCHANGED <<peer, at, broken>>
  BY ZenonT(40) DEF Greet
<1>5. AtLogin'
  BY ZenonT(40), <1>1, <1>2, <1>3, <1>4 DEF AtAccepted, AtLogin, Send, Packet
<1>6. seq' = (seq + 1) % 256
  BY <1>1, <1>2 DEF AtAccepted, Send
<1> QED BY <1>1, <1>4, <1>5, <1>6 DEF IInv, Waiting

\* do_run reads a response as the client meant it, and refuses the form before 4.1.
LEMMA LoginKeeps ==
  IInv /\ Login => IInv' /\ (~(peer \in Clients /\ peer.old) => seq' = (seq + 1) % 256)
<1> SUFFICES ASSUME IInv, Login
             PROVE  IInv' /\ (~(peer \in Clients /\ peer.old) => seq' = (seq + 1) % 256)
  OBVIOUS
<1>1. AtLogin /\ Arrived("us") /\ broken \in BOOLEAN
  BY DEF IInv, Login, LoggedIn
<1>2. UNCHANGED <<peer, at, broken, auth_data>> /\ response' = DecodeResponse(wire.payload)
  BY DEF Login, LoggedIn
<1>3. CASE at = "answered" /\ seq = 1 /\ Packet("us", Answer(peer, auth_data))
  <2>1. wire.payload = Answer(peer, auth_data)
    BY <1>1, <1>3, Arrives
  <2>2. peer \in Clients \ Backends /\ peer \in Clients /\ auth_data \in Salt
    BY <1>1 DEF AtLogin
  <2>3. CASE peer.old
    <3>1. response' = None
      BY <1>2, <2>1, <2>2, <2>3, AnswerDecoded, Zenon
    <3>2. pc' = "failed" /\ Send("peer", 1, make_err(1045))
      BY <3>1, ZenonT(40) DEF Login, LoggedIn
    <3>3. AtFailed'
      BY <1>2, <1>3, <2>2, <3>2 DEF AtFailed, LastWord, Send
    <3> QED BY <1>1, <1>2, <2>2, <2>3, <3>2, <3>3 DEF IInv, Waiting
  <2>4. CASE ~peer.old
    <3>1. response' = Meant(peer, auth_data) /\ response' # None
      BY <1>2, <2>1, <2>2, <2>4, AnswerDecoded, Zenon
    <3>2. pc' = "command" /\ Send("peer", 2, make_ok)
      BY <3>1, Zenon DEF Login, LoggedIn
    <3>3. LastWord'
      BY <1>2, <1>3, <3>2 DEF LastWord, Send
    <3>4. AtCommand'
      BY <1>2, <2>2, <3>1, <3>3, Zenon DEF AtCommand, Meant
    <3>5. seq' = (seq + 1) % 256
      BY <1>3, <3>2 DEF Send
    <3> QED BY <1>1, <1>2, <3>2, <3>4, <3>5 DEF IInv, Waiting
  <2> QED BY <2>3, <2>4
<1>4. CASE at = "start" /\ seq = 0 /\ Packet("peer", EncodeV10(<< 8 >>, 1, auth_data))
  <2>1. "us" = "peer"
    BY <1>1, <1>4, Arrives, Zenon
  <2> QED BY <2>1
<1> QED BY <1>1, <1>3, <1>4, Zenon DEF AtLogin

LEMMA IoErrorKeeps == IInv /\ IoError => IInv' /\ wire' = None
<1> SUFFICES ASSUME IInv, IoError PROVE IInv' /\ wire' = None
  OBVIOUS
<1>1. pc' = "failed" /\ wire' = None /\ broken /\ broken' = broken /\ broken \in BOOLEAN
  BY DEF IoError, Fail, IInv
<1>2. AtFailed'
  BY <1>1 DEF AtFailed, LastWord
<1> QED BY <1>1, <1>2 DEF IInv, Waiting

-----------------------------------------------------------------------------
(* The peer's steps                                                        *)

LEMMA BackendGreetsKeeps == IInv /\ BackendGreets => IInv' /\ seq' = (seq + 1) % 256
<1> SUFFICES ASSUME IInv, BackendGreets PROVE IInv' /\ seq' = (seq + 1) % 256
  OBVIOUS
<1>1. /\ pc = "greeting" /\ peer \in Backends /\ broken \in BOOLEAN /\ seq = 255
      /\ UNCHANGED <<peer, pc, broken>>
  BY DEF IInv, AtGreeting, BackendGreets
<1>2. CASE peer.full
  <2>1. at' = "rejects" /\ Send("us", 0, make_err(1040))
    BY <1>2, ZenonT(40) DEF BackendGreets
  <2>2. AtGreeting'
    BY <1>1, <1>2, <2>1 DEF AtGreeting, Send, Packet
  <2> QED BY <1>1, <2>1, <2>2 DEF IInv, Waiting, Send
<1>3. CASE ~peer.full
  <2>1. at' = "greeted" /\ Send("us", 0, Greeting(peer))
    BY <1>3, Zenon DEF BackendGreets
  <2>2. AtGreeting'
    BY <1>1, <1>3, <2>1 DEF AtGreeting, Send, Packet
  <2> QED BY <1>1, <2>1, <2>2 DEF IInv, Waiting, Send
<1> QED BY <1>2, <1>3

\* The backend refuses what connect() sends only if the connection is not right for it.
LEMMA VerdictIsFair ==
  ASSUME NEW n, NEW expected, Verdict(n, expected), wire.seq = n, Good(peer) => wire.payload = expected
  PROVE  \/ at' = "accepts" /\ Send("us", n + 1, make_ok)
         \/ at' = "rejects" /\ ~Good(peer) /\ \E p \in Refusals : Send("us", n + 1, p)
BY DEF Verdict, Good, Refusals

LEMMA BackendJudgesKeeps == IInv /\ BackendJudges => IInv' /\ seq' = (seq + 1) % 256
<1> SUFFICES ASSUME IInv, BackendJudges PROVE IInv' /\ seq' = (seq + 1) % 256
  OBVIOUS
<1>0. at = "greeted" /\ Arrived("peer") /\ UNCHANGED <<peer, pc, broken>>
  BY DEF BackendJudges
<1>1. pc = "result"
  <2>1. ASSUME Packet("us", Greeting(peer)) PROVE FALSE
    <3>1. "peer" = "us"
      BY <1>0, <2>1, Arrives, Zenon
    <3> QED BY <3>1
  <2> QED BY <1>0, <2>1 DEF IInv, Waiting, AtConnect, AtGreeting, AtFinal, AtOk, AtFailed,
                            AtAccepted, AtLogin, AtCommand, LastWord, Arrived
<1>2. peer \in Backends /\ seq = 1 /\ Packet("peer", Ours(peer, peer.salt)) /\ broken \in BOOLEAN
  BY <1>0, <1>1 DEF IInv, AtResult
<1>3. wire.seq = 1 /\ wire.payload = Ours(peer, peer.salt)
  BY ZenonT(40), <1>0, <1>2, Arrives
<1> DEFINE expected == Response(kClientFlags - CONNECT_WITH_DB, peer.user,
                                scramble_native_password(peer.password, peer.salt), << >>, NATIVE_PASSWORD)
<1>4. CASE Has(peer.flags, PLUGIN_AUTH) /\ peer.account # peer.plugin
  <2>1. at' = "switched" /\ Send("us", 2, Switch(peer))
    BY <1>4, Zenon DEF BackendJudges, Switch
  <2>2. AtResult'
    BY <1>0, <1>2, <2>1 DEF AtResult, Send, Packet
  <2> QED BY <1>0, <1>1, <1>2, <2>1, <2>2 DEF IInv, Waiting, Send
<1>5. CASE ~(Has(peer.flags, PLUGIN_AUTH) /\ peer.account # peer.plugin)
  <2>1. Verdict(1, expected)
    BY <1>5, Zenon DEF BackendJudges
  <2>2. Good(peer) => wire.payload = expected
    <3>1. peer.user \in Data /\ peer.configured \in Password /\ peer.salt \in Salt
      BY <1>2, BackendFacts
    <3>2. Ours(peer, peer.salt) = Response(kClientFlags - CONNECT_WITH_DB, peer.user,
            scramble_native_password(peer.configured, peer.salt), << >>, NATIVE_PASSWORD)
      BY <3>1, OurResponse, Zenon DEF Ours
    <3> QED BY <1>3, <3>2, Zenon DEF Good
  <2> HIDE DEF expected
  <2>3. \/ at' = "accepts" /\ Send("us", 1 + 1, make_ok)
        \/ at' = "rejects" /\ ~Good(peer) /\ \E p \in Refusals : Send("us", 1 + 1, p)
    BY <1>3, <2>1, <2>2, VerdictIsFair, Zenon
  <2>4. seq' = 2
    BY <2>3, SMTT(20) DEF Send
  <2>5. AtResult'
    BY <1>0, <1>2, <2>3, <2>4 DEF AtResult, Refused, Send, Packet
  <2> QED BY <1>0, <1>1, <1>2, <2>4, <2>5 DEF IInv, Waiting
<1> QED BY <1>4, <1>5

LEMMA BackendSwitchedKeeps == IInv /\ BackendSwitched => IInv' /\ seq' = (seq + 1) % 256
<1> SUFFICES ASSUME IInv, BackendSwitched PROVE IInv' /\ seq' = (seq + 1) % 256
  OBVIOUS
<1>0. at = "switched" /\ Arrived("peer") /\ UNCHANGED <<peer, pc, broken>>
  BY DEF BackendSwitched
<1>1. pc = "final"
  <2>1. ASSUME Packet("us", Switch(peer)) PROVE FALSE
    <3>1. "peer" = "us"
      BY <1>0, <2>1, Arrives, Zenon
    <3> QED BY <3>1
  <2> QED BY <1>0, <2>1 DEF IInv, Waiting, AtConnect, AtGreeting, AtResult, AtOk, AtFailed,
                            AtAccepted, AtLogin, AtCommand, LastWord, Arrived
<1> DEFINE token(q) == scramble_native_password(q, peer.switch_salt)
<1>2. peer \in Backends /\ seq = 3 /\ Packet("peer", token(peer.configured)) /\ broken \in BOOLEAN
  BY <1>0, <1>1 DEF IInv, AtFinal
<1>3. wire.seq = 3 /\ wire.payload = token(peer.configured)
  BY <1>0, <1>2, Arrives
<1>4. \/ at' = "accepts" /\ Send("us", 3 + 1, make_ok)
      \/ at' = "rejects" /\ ~Good(peer) /\ \E p \in Refusals : Send("us", 3 + 1, p)
  <2>1. Verdict(3, token(peer.password))
    BY Zenon DEF BackendSwitched
  <2>2. Good(peer) => wire.payload = token(peer.password)
    BY <1>3, Zenon DEF Good
  <2> HIDE DEF token
  <2> QED BY <1>3, <2>1, <2>2, VerdictIsFair, Zenon
<1>5. seq' = 4
  BY SMTT(30), <1>4 DEF Send
<1>6. AtFinal'
  BY ZenonT(40), <1>0, <1>2, <1>4, <1>5 DEF AtFinal, Refused, Send, Packet
<1> QED BY <1>0, <1>1, <1>2, <1>5, <1>6 DEF IInv, Waiting

LEMMA ClientAnswersKeeps == IInv /\ ClientAnswers => IInv' /\ seq' = (seq + 1) % 256
<1> SUFFICES ASSUME IInv, ClientAnswers PROVE IInv' /\ seq' = (seq + 1) % 256
  OBVIOUS
<1>0. /\ at = "start" /\ Arrived("peer") /\ at' = "answered" /\ UNCHANGED <<peer, pc, broken, auth_data>>
      /\ Send("us", 1, Answer(peer, ChallengeIn(wire.payload)))
  BY ZenonT(40) DEF ClientAnswers
<1>1. pc = "login"
  BY <1>0 DEF IInv, Waiting, AtConnect, AtGreeting, AtResult, AtFinal, AtOk, AtFailed,
              AtAccepted, AtCommand, LastWord, Arrived
<1>2. /\ peer \in Clients \ Backends /\ auth_data \in Salt /\ broken \in BOOLEAN
      /\ seq = 0 /\ Packet("peer", EncodeV10(<< 8 >>, 1, auth_data))
  BY <1>0, <1>1 DEF IInv, AtLogin
<1>3. wire.payload = EncodeV10(<< 8 >>, 1, auth_data)
  BY <1>0, <1>2, Arrives, Zenon
<1>4. ChallengeIn(wire.payload) = auth_data
  BY <1>2, <1>3, ChallengeFound, Zenon
<1>5. Send("us", 1, Answer(peer, auth_data))
  BY <1>0, <1>4, Zenon
<1>6. AtLogin'
  BY <1>0, <1>2, <1>5 DEF AtLogin, Send, Packet
<1> QED BY <1>0, <1>1, <1>2, <1>5, <1>6 DEF IInv, Waiting, Send

LEMMA ClientReadsKeeps == IInv /\ ClientReads => IInv' /\ wire' = None
<1> SUFFICES ASSUME IInv, ClientReads PROVE IInv' /\ wire' = None
  OBVIOUS
<1>0. /\ at = "answered" /\ Arrived("peer") /\ wire' = None
      /\ UNCHANGED <<peer, pc, seq, broken, auth_data, response>>
  BY ZenonT(40) DEF ClientReads
<1>1. pc = "failed" \/ pc = "command"
  <2>1. ASSUME Packet("us", Answer(peer, auth_data)) PROVE FALSE
    <3>1. "peer" = "us"
      BY <1>0, <2>1, Arrives, Zenon
    <3> QED BY <3>1
  <2> QED BY <1>0, <2>1 DEF IInv, Waiting, AtConnect, AtGreeting, AtResult, AtFinal, AtOk,
                            AtAccepted, AtLogin, Arrived
<1>2. LastWord' /\ broken \in BOOLEAN
  BY <1>0 DEF LastWord, IInv
<1>3. CASE pc = "failed"
  <2>1. AtFailed'
    BY ZenonT(40), <1>0, <1>2, <1>3 DEF IInv, AtFailed, Good
  <2> QED BY <1>0, <1>2, <1>3, <2>1, SMTT(20) DEF IInv, Waiting
<1>4. CASE pc = "command"
  <2>1. AtCommand
    BY <1>4 DEF IInv
  <2>2. AtCommand'
    BY <1>0, <1>2, <2>1, Zenon DEF AtCommand, Meant
  <2> QED BY <1>0, <1>2, <1>4, <2>2 DEF IInv, Waiting
<1> QED BY <1>1, <1>3, <1>4

\* A connection that breaks loses at most the packet under way.
LEMMA BreakKeeps == IInv /\ Break => IInv' /\ wire' \in {None, wire}
<1> SUFFICES ASSUME IInv, Break PROVE IInv' /\ wire' \in {None, wire}
  OBVIOUS
<1>0. /\ pc \in Waiting /\ broken' = TRUE /\ (wire' = wire \/ wire' = None)
      /\ UNCHANGED <<peer, pc, at, seq, auth_data, response>>
  BY DEF Break
<1>1. \A to, p : Packet(to, p) => (wire' = None \/ wire' = [to |-> to, seq |-> seq', payload |-> p])
  BY <1>0, Zenon DEF Packet
<1>2. pc = "connect" => AtConnect'
  BY ZenonT(40), <1>0 DEF IInv, AtConnect
<1>3. pc = "greeting" => AtGreeting'
  BY <1>0 DEF IInv, AtGreeting, Packet
<1>4. Refused => Refused'
  BY <1>0, <1>1, Zenon DEF Refused, Good, Packet
<1>5. pc = "result" => AtResult'
  BY <1>0, <1>1, <1>4, ZenonT(40) DEF IInv, AtResult, Packet, Ours, Switch
<1>6. pc = "final" => AtFinal'
  BY <1>0, <1>1, <1>4, Zenon DEF IInv, AtFinal, Packet
<1>7. pc = "accepted" => AtAccepted'
  BY <1>0 DEF IInv, AtAccepted
<1>8. pc = "login" => AtLogin'
  BY <1>0, <1>1, Zenon DEF IInv, AtLogin, Packet
<1> QED BY <1>0, <1>2, <1>3, <1>5, <1>6, <1>7, <1>8 DEF IInv, Waiting

-----------------------------------------------------------------------------
(* The theorems                                                            *)

\* One step of the formula in PacketsInOrder.
NextInOrder == wire' \notin {None, wire} /\ ~(peer \in Clients /\ peer.old) => seq' = (seq + 1) % 256

LEMMA NextIInv == IInv /\ [Next]_vars => IInv' /\ [NextInOrder]_vars
<1> SUFFICES ASSUME IInv, [Next]_vars PROVE IInv' /\ [NextInOrder]_vars
  OBVIOUS
<1>1. CASE Connect
  <2>1. wire' = wire
    BY <1>1 DEF Connect
  <2> QED BY <1>1, <2>1, ConnectKeeps, Zenon DEF NextInOrder
<1>2. CASE ReadGreeting
  BY <1>2, ReadGreetingKeeps, Zenon DEF NextInOrder
<1>3. CASE ReadResult
  BY <1>3, ReadResultKeeps, Zenon DEF NextInOrder
<1>4. CASE ReadFinal
  BY <1>4, ReadFinalKeeps, Zenon DEF NextInOrder
<1>5. CASE Greet
  BY <1>5, GreetKeeps, Zenon DEF NextInOrder
<1>6. CASE Login
  BY <1>6, LoginKeeps, ZenonT(40) DEF NextInOrder
<1>7. CASE IoError
  BY <1>7, IoErrorKeeps, Zenon DEF NextInOrder
<1>8. CASE BackendGreets
  BY <1>8, BackendGreetsKeeps, Zenon DEF NextInOrder
<1>9. CASE BackendJudges
  BY <1>9, BackendJudgesKeeps, Zenon DEF NextInOrder
<1>10. CASE BackendSwitched
  BY <1>10, BackendSwitchedKeeps, Zenon DEF NextInOrder
<1>11. CASE ClientAnswers
  BY <1>11, ClientAnswersKeeps, Zenon DEF NextInOrder
<1>12. CASE ClientReads
  BY <1>12, ClientReadsKeeps, Zenon DEF NextInOrder
<1>13. CASE Break
  BY <1>13, BreakKeeps, Zenon DEF NextInOrder
<1>14. CASE UNCHANGED vars
  <2>1. /\ peer' = peer /\ pc' = pc /\ at' = at /\ wire' = wire /\ seq' = seq /\ broken' = broken
        /\ auth_data' = auth_data /\ response' = response
    BY <1>14, SMTT(20) DEF vars
  <2>2. (AtGreeting <=> AtGreeting') /\ (AtFailed <=> AtFailed')
    BY <2>1 DEF AtGreeting, AtFailed, Good, LastWord, Packet
  <2>3. (AtResult <=> AtResult') /\ (AtFinal <=> AtFinal')
    BY <2>1, ZenonT(40) DEF AtResult, AtFinal, Refused, Good, Packet, Ours, Switch
  <2>4. (AtLogin <=> AtLogin') /\ (AtCommand <=> AtCommand')
    BY <2>1, Zenon DEF AtLogin, AtCommand, LastWord, Packet, Meant
  <2>5. (AtConnect <=> AtConnect') /\ (AtAccepted <=> AtAccepted') /\ (AtOk <=> AtOk')
    BY <2>1 DEF AtConnect, AtAccepted, AtOk
  <2>6. IInv'
    BY <2>1, <2>2, <2>3, <2>4, <2>5, Zenon DEF IInv
  <2> QED BY <1>14, <2>6, Zenon
<1> QED BY <1>1, <1>2, <1>3, <1>4, <1>5, <1>6, <1>7, <1>8, <1>9, <1>10, <1>11, <1>12, <1>13, <1>14, Zenon
        DEF Next, connect, do_run, Peer

\* The dialogue keeps to its script: at every place of connect() and do_run the peer, the
\* packet under way and its number are the ones that belong there.
THEOREM DialogueKeepsToScript == Spec => []IInv
BY InitIInv, NextIInv, PTL DEF Spec

\* connect() returns a connection only if the backend has accepted the user: nothing a
\* backend sends but the OK of its verdict is taken for one.
THEOREM ConnectionsAreAccepted == Spec => []ConnectedIsAccepted
<1>1. IInv => ConnectedIsAccepted
  BY DEF IInv, AtOk, ConnectedIsAccepted
<1> QED BY <1>1, DialogueKeepsToScript, PTL

\* For every account, password, salt and set of flags, connect() fails against a backend
\* that would take the user only if the connection breaks.
THEOREM RefusalsAreNeeded == Spec => []NoNeedlessRefusal
<1>1. IInv => NoNeedlessRefusal
  BY SMTT(20) DEF IInv, AtFailed, Good, NoNeedlessRefusal
<1> QED BY <1>1, DialogueKeepsToScript, PTL

\* do_run takes user, database and plugin as any client meant them, whichever of the
\* optional fields its flags announce.
THEOREM ClientsAreUnderstood == Spec => []ClientUnderstood
<1>1. IInv => ClientUnderstood
  BY DEF IInv, AtCommand, Meant, ClientUnderstood
<1> QED BY <1>1, DialogueKeepsToScript, PTL

\* verify_native_password accepts the client's password, if it has one, and no other: the
\* challenge that the client found is the one do_run keeps, whatever bytes it was made from.
\* No token passes for the empty password, not even that of a client without one.
THEOREM ChallengesHold == Spec => []ChallengeHolds
<1>1. IInv => ChallengeHolds
  <2> SUFFICES ASSUME IInv, pc = "command", NEW p \in Password
               PROVE  verify_native_password(p, auth_data, response.auth)
                        <=> p = peer.password /\ p # Empty
    BY DEF ChallengeHolds
  <2>1. peer \in Clients /\ auth_data \in Salt /\ response = Meant(peer, auth_data)
    BY SMTT(20) DEF IInv, AtCommand
  <2> DEFINE q == peer.password
             auth == scramble_native_password(q, auth_data)
  <2>2. q \in Password /\ p \in Password
    BY ZenonT(40), <2>1, PeerAssumption
  <2>3. response.auth = auth
    BY <2>1 DEF Meant
  <2>4. verify_native_password(p, auth_data, auth)
          <=> Len(auth) = 20 /\ auth = IF p = Empty THEN Zeros(20) ELSE Token(p, auth_data)
    BY DEF verify_native_password
  <2>5. CASE q = Empty
    <3>1. Len(auth) = 0
      BY <2>1, <2>2, <2>5, ScrambleFacts
    <3>2. Len(auth) # 20
      BY <3>1
    <3> QED BY <2>3, <2>4, <2>5, <3>2, Zenon
  <2>6. CASE q # Empty
    <3>1. auth = Token(q, auth_data)
      BY <2>6 DEF scramble_native_password
    <3>2. Len(auth) = 20
      BY <2>1, <2>2, <2>6, ScrambleFacts
    <3>3. Token(p, auth_data) = Token(q, auth_data) <=> p = q
      BY <2>1, <2>2, TokenAssumption, Zenon
    <3>4. Token(q, auth_data) # Zeros(20)
      BY <2>1, <2>2, TokenAssumption, Zenon DEF Zeros
    <3> QED BY <2>3, <2>4, <2>6, <3>1, <3>2, <3>3, <3>4, Zenon
  <2> QED BY <2>5, <2>6
<1> QED BY <1>1, DialogueKeepsToScript, PTL

\* Both sides number the packets of a dialogue without a gap.
THEOREM PacketsAreInOrder == Spec => PacketsInOrder
<1>1. Spec => [][NextInOrder]_vars
  BY InitIInv, NextIInv, PTL DEF Spec
<1> QED BY <1>1, Zenon DEF PacketsInOrder, NextInOrder
=============================================================================
