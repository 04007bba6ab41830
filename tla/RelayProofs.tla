---------------------------- MODULE RelayProofs ----------------------------
(***************************************************************************)
(* What process_update makes of a message, for messages of every length:   *)
(* its three loops stay in the fields of the message, they take it as a    *)
(* whole or not at all, and they read what its sender wrote.  Then what    *)
(* parse_capabilites reads of an OPEN, what a policy file says after it    *)
(* was written again, and what a policy decides.  Last the AS_PATH of a    *)
(* route: how it is written and read in either width, and that its ASes    *)
(* are those the route has passed, wherever it is (PathInv), so that a     *)
(* route that comes back to us is dropped.                                 *)
(***************************************************************************)
EXTENDS Relay, NumbersAndLists

-----------------------------------------------------------------------------
\* Bytes inside of bytes.

\* The bytes x are those of b after the first o.
Sits(b, x, o) ==
  /\ o + Len(x) <= Len(b)
  /\ \A k \in 1..Len(x) : b[o + k] = x[k]

\* An element of bytes that sit somewhere, read by its place in the whole.
LEMMA SitsAt ==
  ASSUME NEW b, NEW x, NEW o, Sits(b, x, o), NEW k \in 1..Len(x)
  PROVE  b[o + k] = x[k]
BY DEF Sits

\* What is in a part is in the whole.
LEMMA SitsIn ==
  ASSUME NEW B, NEW b \in Seq(B), NEW x \in Seq(B), NEW y \in Seq(B),
         NEW o \in Nat, NEW p \in Nat, Sits(b, x, o), Sits(x, y, p)
  PROVE  Sits(b, y, o + p)
<1>1. Len(b) \in Nat /\ Len(x) \in Nat /\ Len(y) \in Nat
  OBVIOUS
<1>2. /\ o + Len(x) <= Len(b) /\ p + Len(y) <= Len(x)
      /\ \A k \in 1..Len(x) : b[o + k] = x[k]
      /\ \A k \in 1..Len(y) : x[p + k] = y[k]
  BY DEF Sits
<1>3. ASSUME NEW k \in 1..Len(y) PROVE b[(o + p) + k] = y[k]
  <2>1. p + k \in 1..Len(x) /\ o + (p + k) = (o + p) + k
    BY <1>1, <1>2
  <2> QED BY <1>2, <2>1
<1> QED BY <1>1, <1>2, <1>3 DEF Sits

\* The two parts of a concatenation.
LEMMA ThenSits ==
  ASSUME NEW B, NEW s \in Seq(B), NEW t \in Seq(B)
  PROVE  /\ Then(s, t) \in Seq(B)
         /\ Len(Then(s, t)) = Len(s) + Len(t)
         /\ Sits(Then(s, t), s, 0) /\ Sits(Then(s, t), t, Len(s))
<1>1. Then(s, t) \in Seq(B) /\ Joined(Then(s, t), s, t)
  BY ThenJoins
<1> DEFINE c == Then(s, t)
<1> HIDE DEF c
<1>2. c \in Seq(B) /\ Joined(c, s, t)
  BY <1>1 DEF c
<1>3. /\ c \in Seq(B) /\ Len(c) = Len(s) + Len(t)
      /\ Sits(c, s, 0) /\ Sits(c, t, Len(s))
  BY <1>2 DEF Joined, Sits
<1> QED BY <1>3 DEF c

\* What sits somewhere is what is cut off there.
LEMMA SitsCut ==
  ASSUME NEW B, NEW b \in Seq(B), NEW x \in Seq(B), NEW o \in Nat, Sits(b, x, o)
  PROVE  SubSeq(b, o + 1, o + Len(x)) = x
<1>1. Len(b) \in Nat /\ Len(x) \in Nat /\ o + Len(x) <= Len(b)
  BY DEF Sits
<1>2. SubSeq(b, o + 1, o + Len(x)) \in Seq(B)
  <2>1. \A i \in (o + 1)..(o + Len(x)) : b[i] \in B
    BY <1>1, ElementOfSeq
  <2> QED BY <1>1, <2>1, SubSeqProperties
<1>3. Len(SubSeq(b, o + 1, o + Len(x))) = Len(x)
  BY <1>1, SubSeqProperties
<1>4. \A i \in 1..Len(x) : SubSeq(b, o + 1, o + Len(x))[i] = x[i]
  <2>1. \A i \in 1..Len(x) : SubSeq(b, o + 1, o + Len(x))[i] = b[(o + 1) + i - 1]
    BY <1>1, SubSeqProperties
  <2>2. \A i \in 1..Len(x) : (o + 1) + i - 1 = o + i /\ b[o + i] = x[i]
    BY <1>1 DEF Sits
  <2> QED BY <2>1, <2>2
<1> QED BY <1>2, <1>3, <1>4, SeqEqual

\* The first t and the next n are the first t + n.
LEMMA FirstAndNext ==
  ASSUME NEW B, NEW x \in Seq(B), NEW t \in Nat, NEW n \in Nat, t + n <= Len(x)
  PROVE  Then(SubSeq(x, 1, t), SubSeq(x, t + 1, t + n)) = SubSeq(x, 1, t + n)
<1>1. 1 \in 1..(Len(x) + 1) /\ t \in (1-1)..Len(x) /\ (t + n) \in t..Len(x)
  OBVIOUS
<1>2. SubSeq(x, 1, t) \o SubSeq(x, t + 1, t + n) = SubSeq(x, 1, t + n)
  BY <1>1, ConcatAdjacentSubSeq
<1> QED BY <1>2 DEF Then

\* A beginning of the body, and what sits after it, are a longer beginning.
LEMMA BeginningGrows ==
  ASSUME NEW B, NEW b \in Seq(B), NEW x \in Seq(B), NEW t \in Nat, Sits(b, x, t)
  PROVE  Then(SubSeq(b, 1, t), x) = SubSeq(b, 1, t + Len(x))
<1>1. t + Len(x) <= Len(b) /\ Len(x) \in Nat
  BY DEF Sits
<1>2. Then(SubSeq(b, 1, t), SubSeq(b, t + 1, t + Len(x))) = SubSeq(b, 1, t + Len(x))
  BY <1>1, FirstAndNext
<1>3. SubSeq(b, t + 1, t + Len(x)) = x
  BY SitsCut
<1> QED BY <1>2, <1>3, Zenon

\* The bytes of a list are those of its parts.
LEMMA FlattenIsBytes ==
  ASSUME NEW B, NEW s \in Seq(Seq(B))
  PROVE  /\ FlattenSeq(s) = Bytes(s, 0, Len(s)) /\ FlattenSeq(s) \in Seq(B)
<1>1. SubSeq(s, 1, Len(s)) = s
  BY SubSeqFull
<1>2. FlattenSeq(s) = Bytes(s, 0, Len(s))
  <2>1. 0 + 1 = 1
    OBVIOUS
  <2> QED BY <1>1, <2>1, Zenon DEF Bytes
<1>3. Len(s) \in Nat /\ 0 \in Nat /\ 0 <= Len(s) /\ Len(s) <= Len(s)
  OBVIOUS
<1>4. Bytes(s, 0, Len(s)) \in Seq(B)
  BY <1>3, BytesType
<1> QED BY <1>2, <1>4

\* The next part of a list comes after the parts before it.
LEMMA PartSits ==
  ASSUME NEW B, NEW s \in Seq(Seq(B)), NEW k \in Nat, k < Len(s)
  PROVE  /\ Bytes(s, 0, k) \in Seq(B) /\ s[k+1] \in Seq(B)
         /\ Sits(FlattenSeq(s), s[k+1], Len(Bytes(s, 0, k)))
         /\ Len(Bytes(s, 0, k+1)) = Len(Bytes(s, 0, k)) + Len(s[k+1])
<1>1. /\ Len(s) \in Nat /\ 0 \in Nat /\ 0 <= k /\ k <= Len(s) /\ k + 1 \in Nat
      /\ k + 1 <= Len(s) /\ k + 1 \in 1..Len(s) /\ 0 < k + 1 /\ (k + 1) - 1 = k
      /\ Len(s) <= Len(s)
  OBVIOUS
<1> DEFINE P == Bytes(s, 0, k)
           R == Bytes(s, k+1, Len(s))
<1>2. P \in Seq(B) /\ R \in Seq(B) /\ s[k+1] \in Seq(B)
  BY <1>1, BytesType, ElementOfSeq
<1>3. Bytes(s, 0, Len(s)) = Then(P, Bytes(s, k, Len(s)))
  BY <1>1, BytesSplit
<1>4. Bytes(s, k, Len(s)) = Then(s[k+1], R)
  BY <1>1, BytesFirst
<1>5. FlattenSeq(s) = Then(P, Then(s[k+1], R))
  BY <1>3, <1>4, FlattenIsBytes
<1>6. Bytes(s, 0, k+1) = Then(P, s[k+1])
  BY <1>1, BytesLast
<1> DEFINE x == s[k+1]
<1> HIDE DEF P, R, x
<1>7. P \in Seq(B) /\ R \in Seq(B) /\ x \in Seq(B)
  BY <1>2 DEF x
<1>8. Then(x, R) \in Seq(B) /\ Sits(Then(x, R), x, 0)
  BY <1>7, ThenSits
<1>9. /\ Then(P, Then(x, R)) \in Seq(B) /\ Sits(Then(P, Then(x, R)), Then(x, R), Len(P))
      /\ Len(Then(P, x)) = Len(P) + Len(x)
  BY <1>7, <1>8, ThenSits
<1>10. Len(P) \in Nat /\ 0 \in Nat /\ Len(P) + 0 = Len(P)
  BY <1>7
<1>11. Sits(Then(P, Then(x, R)), x, Len(P) + 0)
  BY <1>7, <1>8, <1>9, <1>10, SitsIn
<1> QED BY <1>5, <1>6, <1>7, <1>9, <1>10, <1>11 DEF P, x

-----------------------------------------------------------------------------
\* Bytes and numbers.

\* The bits of a byte with four flags.
LEMMA FourBits ==
  ASSUME NEW o \in {0, 128}, NEW t \in {0, 64}, NEW p \in {0, 32}, NEW e \in {0, 16}
  PROVE  LET v == o + t + p + e
         IN /\ v \in 0..255
            /\ ((v \div 128) % 2 = 1) <=> (o = 128)
            /\ ((v \div 64) % 2 = 1) <=> (t = 64)
            /\ ((v \div 32) % 2 = 1) <=> (p = 32)
            /\ ((v \div 16) % 2 = 1) <=> (e = 16)
OBVIOUS

\* A byte of flags is read as the flags that were written.
LEMMA FlagsRead ==
  ASSUME NEW flags \in SUBSET Flag
  PROVE  FlagByte(flags) \in Byte /\ FlagsOf(FlagByte(flags)) = flags
<1> DEFINE o == IF "optional" \in flags THEN 128 ELSE 0
           t == IF "transitive" \in flags THEN 64 ELSE 0
           p == IF "partial" \in flags THEN 32 ELSE 0
           e == IF "extended_length" \in flags THEN 16 ELSE 0
           v == o + t + p + e
<1>1. FlagByte(flags) = v
  BY DEF FlagByte, FlagBit
<1>2. o \in {0, 128} /\ t \in {0, 64} /\ p \in {0, 32} /\ e \in {0, 16}
  OBVIOUS
<1>3. /\ o = 128 <=> "optional" \in flags
      /\ t = 64 <=> "transitive" \in flags
      /\ p = 32 <=> "partial" \in flags
      /\ e = 16 <=> "extended_length" \in flags
  OBVIOUS
<1>4. Flag = {"optional", "transitive", "partial", "extended_length"}
  BY DEF Flag, FlagBit
<1>5. /\ v \in 0..255
      /\ ((v \div 128) % 2 = 1) <=> (o = 128)
      /\ ((v \div 64) % 2 = 1) <=> (t = 64)
      /\ ((v \div 32) % 2 = 1) <=> (p = 32)
      /\ ((v \div 16) % 2 = 1) <=> (e = 16)
  <2> HIDE DEF o, t, p, e
  <2> QED BY <1>2, FourBits
<1>6. /\ FlagBit["optional"] = 128 /\ FlagBit["transitive"] = 64
      /\ FlagBit["partial"] = 32 /\ FlagBit["extended_length"] = 16
  BY DEF FlagBit
<1>7. \A f \in Flag : (v \div FlagBit[f]) % 2 = 1 <=> f \in flags
  <2> HIDE DEF v, o, t, p, e
  <2>1. ASSUME NEW f \in Flag PROVE (v \div FlagBit[f]) % 2 = 1 <=> f \in flags
    <3>1. CASE f = "optional"
      BY <3>1, <1>3, <1>5, <1>6
    <3>2. CASE f = "transitive"
      BY <3>2, <1>3, <1>5, <1>6
    <3>3. CASE f = "partial"
      BY <3>3, <1>3, <1>5, <1>6
    <3>4. CASE f = "extended_length"
      BY <3>4, <1>3, <1>5, <1>6
    <3> QED BY <1>4, <3>1, <3>2, <3>3, <3>4
  <2> QED BY <2>1
<1>8. FlagsOf(v) = flags
  <2> HIDE DEF v
  <2> QED BY <1>7 DEF FlagsOf
<1> QED BY <1>1, <1>5, <1>8 DEF Byte

\* The most that two bytes count.
Longest == 65535

\* The largest number that 16 bits hold is a number.
LEMMA LongestType == Longest \in Nat
BY DEF Longest

\* Two bytes of a number that fits them.
LEMMA TwoBytes ==
  ASSUME NEW v \in Nat
  PROVE  /\ Be16(v) \in Seq(Byte) /\ Len(Be16(v)) = 2
         /\ v <= Longest => 256 * Be16(v)[1] + Be16(v)[2] = v
<1>1. (v \div 256) % 256 \in Byte /\ v % 256 \in Byte
  BY DEF Byte
<1>2. v <= Longest => 256 * ((v \div 256) % 256) + (v % 256) = v
  BY DEF Longest
<1> QED BY <1>1, <1>2 DEF Be16

\* A prefix is its length and its bytes.
LEMMA PrefixType ==
  ASSUME NEW p \in NLRI
  PROVE  /\ Serialize(p) \in Seq(Byte) /\ Len(Serialize(p)) = 1 + Len(p.data)
         /\ p.nlri_len \in Byte /\ p.data \in Seq(Byte)
         /\ Serialize(p)[1] = p.nlri_len /\ Sits(Serialize(p), p.data, 1)
<1>1. p.nlri_len \in Byte /\ p.data \in Seq(Byte)
  BY DEF NLRI
<1>2. Serialize(p) = Then(<<p.nlri_len>>, p.data)
  BY DEF Serialize, Then
<1> DEFINE h == <<p.nlri_len>>
           d == p.data
<1>3. h \in Seq(Byte) /\ Len(h) = 1 /\ h[1] = p.nlri_len
  BY <1>1
<1> HIDE DEF h
<1>4. /\ Then(h, d) \in Seq(Byte) /\ Len(Then(h, d)) = Len(h) + Len(d)
      /\ Sits(Then(h, d), h, 0) /\ Sits(Then(h, d), d, Len(h))
  BY <1>1, <1>3, ThenSits
<1>5. Then(h, d)[1] = p.nlri_len
  <2>1. 1 \in 1..Len(h) /\ 0 + 1 = 1
    BY <1>3
  <2>2. Then(h, d)[0 + 1] = h[1]
    BY <1>4, <2>1 DEF Sits
  <2> QED BY <1>3, <2>1, <2>2
<1> QED BY <1>1, <1>2, <1>3, <1>4, <1>5 DEF h

\* How an attribute is written.
CountIn(flags, x) == IF "extended_length" \in flags THEN 256 * x[3] + x[4] ELSE x[3]

AttributeWritten(a, x) ==
  /\ x \in Seq(Byte)
  /\ FlagsOf(x[1]) = a.flags /\ x[2] = a.type
  /\ Len(x) = HeaderSize(a.flags) + Len(a.bytes)
  /\ CountIn(a.flags, x) = Len(a.bytes)
  /\ Sits(x, a.bytes, HeaderSize(a.flags))

\* A header with a length of two bytes gives the length back.
LEMMA LongHeader ==
  ASSUME NEW f \in Byte, NEW t \in Byte, NEW n \in Nat, n <= Longest
  PROVE  LET h == Then(<<f, t>>, Be16(n))
         IN h \in Seq(Byte) /\ Len(h) = 4 /\ h[1] = f /\ h[2] = t /\ 256 * h[3] + h[4] = n
<1> DEFINE b == Be16(n)
           g == <<f, t>>
<1>1. b \in Seq(Byte) /\ Len(b) = 2 /\ 256 * b[1] + b[2] = n
  BY TwoBytes
<1>2. g \in Seq(Byte) /\ Len(g) = 2 /\ g[1] = f /\ g[2] = t
  OBVIOUS
<1> HIDE DEF b, g
<1>3. Then(g, b) \in Seq(Byte) /\ Joined(Then(g, b), g, b)
  BY <1>1, <1>2, ThenJoins
<1> DEFINE h == Then(g, b)
<1> HIDE DEF h
<1>4. h \in Seq(Byte) /\ Joined(h, g, b)
  BY <1>3 DEF h
<1>5. Len(h) = 4 /\ h[1] = f /\ h[2] = t /\ h[2+1] = b[1] /\ h[2+2] = b[2]
  BY <1>1, <1>2, <1>4 DEF Joined
<1> QED BY <1>1, <1>4, <1>5 DEF h, g, b

\* A header with a length of one byte gives the length back.
LEMMA ShortHeader ==
  ASSUME NEW f \in Byte, NEW t \in Byte, NEW n \in Byte
  PROVE  LET h == Then(<<f, t>>, <<n>>)
         IN h \in Seq(Byte) /\ Len(h) = 3 /\ h[1] = f /\ h[2] = t /\ h[3] = n
<1> DEFINE b == <<n>>
           g == <<f, t>>
<1>1. b \in Seq(Byte) /\ Len(b) = 1 /\ b[1] = n
  OBVIOUS
<1>2. g \in Seq(Byte) /\ Len(g) = 2 /\ g[1] = f /\ g[2] = t
  OBVIOUS
<1> HIDE DEF b, g
<1>3. Then(g, b) \in Seq(Byte) /\ Joined(Then(g, b), g, b)
  BY <1>1, <1>2, ThenJoins
<1> DEFINE h == Then(g, b)
<1> HIDE DEF h
<1>4. h \in Seq(Byte) /\ Joined(h, g, b)
  BY <1>3 DEF h
<1>5. Len(h) = 3 /\ h[1] = f /\ h[2] = t /\ h[2+1] = b[1]
  BY <1>1, <1>2, <1>4 DEF Joined
<1> QED BY <1>1, <1>4, <1>5 DEF h, g, b

\* The bytes of an attribute before its value.
IsHeader(a, h) ==
  /\ h \in Seq(Byte) /\ Len(h) = HeaderSize(a.flags)
  /\ FlagsOf(h[1]) = a.flags /\ h[2] = a.type
  /\ CountIn(a.flags, h) = Len(a.bytes)

\* A header that is right, and then the value, are the attribute as it is read.
LEMMA HeaderThenValue ==
  ASSUME NEW a, a.bytes \in Seq(Byte), NEW h, IsHeader(a, h)
  PROVE  AttributeWritten(a, Then(h, a.bytes))
<1> DEFINE x == Then(h, a.bytes)
<1>1. h \in Seq(Byte) /\ a.bytes \in Seq(Byte)
  BY DEF IsHeader
<1>2. /\ x \in Seq(Byte) /\ Len(x) = Len(h) + Len(a.bytes)
      /\ Sits(x, h, 0) /\ Sits(x, a.bytes, Len(h))
  BY <1>1, ThenSits
<1> HIDE DEF x
<1>3. \A k \in 1..Len(h) : x[k] = h[k]
  <2>1. \A k \in 1..Len(h) : 0 + k = k
    BY <1>1
  <2> QED BY <1>2, <2>1 DEF Sits
<1>4. Len(h) = HeaderSize(a.flags)
  BY DEF IsHeader
<1>5. /\ x[1] = h[1] /\ x[2] = h[2] /\ x[3] = h[3]
      /\ "extended_length" \in a.flags => x[4] = h[4]
  <2>1. /\ 1 \in 1..Len(h) /\ 2 \in 1..Len(h) /\ 3 \in 1..Len(h)
        /\ "extended_length" \in a.flags => 4 \in 1..Len(h)
    BY <1>4 DEF HeaderSize
  <2> QED BY <1>3, <2>1
<1>6. CountIn(a.flags, x) = CountIn(a.flags, h)
  BY <1>5 DEF CountIn
<1>7. AttributeWritten(a, x)
  BY <1>2, <1>4, <1>5, <1>6 DEF AttributeWritten, IsHeader
<1> QED BY <1>7 DEF x

\* The length of the value, in one byte or two.
CountBytes(a) ==
  IF "extended_length" \in a.flags THEN Be16(Len(a.bytes)) ELSE <<Len(a.bytes) % 256>>

\* to_bytes writes flags, type, length and value, in this order.
LEMMA HeaderParts ==
  ASSUME NEW a
  PROVE  to_bytes(a) = Then(Then(<<FlagByte(a.flags), a.type>>, CountBytes(a)), a.bytes)
BY DEF to_bytes, Then, CountBytes

\* A length that fits one byte is written as it is.
LEMMA OneByte ==
  ASSUME NEW a, a.bytes \in Seq(Byte), Len(a.bytes) <= 255, "extended_length" \notin a.flags
  PROVE  CountBytes(a) = <<Len(a.bytes)>> /\ Len(a.bytes) \in Byte
<1>1. Len(a.bytes) % 256 = Len(a.bytes) /\ Len(a.bytes) \in Byte
  <2> DEFINE n == Len(a.bytes)
  <2>1. n \in Nat /\ n <= 255
    OBVIOUS
  <2> HIDE DEF n
  <2>2. n % 256 = n /\ n \in Byte
    BY <2>1 DEF Byte
  <2> QED BY <2>2 DEF n
<1> QED BY <1>1, Zenon DEF CountBytes

\* Every attribute of a message is written such that process_update reads the same header and value.
LEMMA AttributeRead ==
  ASSUME NEW a \in path_attr_t, Len(a.bytes) <= Longest,
         "extended_length" \notin a.flags => Len(a.bytes) <= 255
  PROVE  AttributeWritten(a, to_bytes(a))
<1> DEFINE f == FlagByte(a.flags)
           n == Len(a.bytes)
<1>1. a.flags \in SUBSET Flag /\ a.type \in Byte /\ a.bytes \in Seq(Byte) /\ n \in Nat
  BY DEF path_attr_t
<1>2. f \in Byte /\ FlagsOf(f) = a.flags
  BY <1>1, FlagsRead
<1>3. CASE "extended_length" \in a.flags
  <2> DEFINE h == Then(<<f, a.type>>, Be16(n))
  <2>1. to_bytes(a) = Then(h, a.bytes)
    <3>1. CountBytes(a) = Be16(n)
      BY <1>3 DEF CountBytes
    <3> QED BY <3>1, HeaderParts
  <2> HIDE DEF f
  <2>2. /\ h \in Seq(Byte) /\ Len(h) = 4 /\ h[1] = f /\ h[2] = a.type
        /\ 256 * h[3] + h[4] = n
    <3> HIDE DEF n
    <3>1. f \in Byte /\ a.type \in Byte /\ n \in Nat /\ n <= Longest
      BY <1>1, <1>2 DEF n
    <3> QED BY <3>1, LongHeader
  <2> HIDE DEF h
  <2>3. IsHeader(a, h)
    BY <1>2, <1>3, <2>2 DEF IsHeader, CountIn, HeaderSize
  <2> QED BY <1>1, <2>1, <2>3, HeaderThenValue
<1>4. CASE ~("extended_length" \in a.flags)
  <2> DEFINE h == Then(<<f, a.type>>, <<n>>)
  <2>1. CountBytes(a) = <<Len(a.bytes)>> /\ Len(a.bytes) \in Byte
    BY <1>1, <1>4, OneByte
  <2>2. to_bytes(a) = Then(h, a.bytes)
    <3>1. CountBytes(a) = <<n>>
      BY <2>1
    <3> QED BY <3>1, HeaderParts
  <2> HIDE DEF f
  <2>3. h \in Seq(Byte) /\ Len(h) = 3 /\ h[1] = f /\ h[2] = a.type /\ h[3] = n
    <3> HIDE DEF n
    <3>1. f \in Byte /\ a.type \in Byte /\ n \in Byte
      BY <1>1, <1>2, <2>1 DEF n
    <3> QED BY <3>1, ShortHeader
  <2> HIDE DEF h
  <2>4. IsHeader(a, h)
    BY <1>2, <1>4, <2>3 DEF IsHeader, CountIn, HeaderSize
  <2> QED BY <1>1, <2>2, <2>4, HeaderThenValue
<1> QED BY <1>3, <1>4

-----------------------------------------------------------------------------
\* The three fields of a message.

PrefixList(list) == [k \in 1..Len(list) |-> Serialize(list[k])]
PathList(attrs)  == [k \in 1..Len(attrs) |-> to_bytes(attrs[k])]

\* Prefixes are written one after the other.
LEMMA PrefixListType ==
  ASSUME NEW list \in Seq(NLRI)
  PROVE  /\ PrefixList(list) \in Seq(Seq(Byte)) /\ Len(PrefixList(list)) = Len(list)
         /\ PrefixBytes(list) = FlattenSeq(PrefixList(list))
         /\ PrefixBytes(list) \in Seq(Byte)
<1>1. \A k \in 1..Len(list) : Serialize(list[k]) \in Seq(Byte)
  BY ElementOfSeq, PrefixType
<1>2. PrefixList(list) \in Seq(Seq(Byte)) /\ Len(PrefixList(list)) = Len(list)
  BY <1>1 DEF PrefixList
<1>3. PrefixBytes(list) = FlattenSeq(PrefixList(list))
  BY DEF PrefixBytes, PrefixList
<1> QED BY <1>2, <1>3, FlattenIsBytes

\* Attributes whose values fit the lengths they have.
Fit(attrs) ==
  /\ attrs \in Seq(path_attr_t)
  /\ \A i \in 1..Len(attrs) : AttributeWritten(attrs[i], to_bytes(attrs[i]))

\* Attributes are written one after the other.
LEMMA PathListType ==
  ASSUME NEW attrs, Fit(attrs)
  PROVE  /\ PathList(attrs) \in Seq(Seq(Byte)) /\ Len(PathList(attrs)) = Len(attrs)
         /\ PathBytes(attrs) = FlattenSeq(PathList(attrs))
         /\ PathBytes(attrs) \in Seq(Byte)
<1>1. \A k \in 1..Len(attrs) : to_bytes(attrs[k]) \in Seq(Byte)
  BY DEF Fit, AttributeWritten
<1>2. PathList(attrs) \in Seq(Seq(Byte)) /\ Len(PathList(attrs)) = Len(attrs)
  BY <1>1 DEF PathList, Fit
<1>3. PathBytes(attrs) = FlattenSeq(PathList(attrs))
  BY DEF PathBytes, PathList
<1> QED BY <1>2, <1>3, FlattenIsBytes

\* Where the bytes of the attributes and of the routes start.
AttrsStart(m)  == 4 + Len(PrefixBytes(m.withdrawn))
RoutesStart(m) == AttrsStart(m) + Len(PathBytes(m.attrs))

Layout(b, m) ==
  LET W == PrefixBytes(m.withdrawn)
      P == PathBytes(m.attrs)
      R == PrefixBytes(m.routes)
  IN /\ W \in Seq(Byte) /\ P \in Seq(Byte) /\ R \in Seq(Byte) /\ b \in Seq(Byte)
     /\ Len(b) <= Longest /\ Len(b) = RoutesStart(m) + Len(R)
     /\ 256 * b[1] + b[2] = Len(W)
     /\ Sits(b, W, 2)
     /\ 256 * b[2 + Len(W) + 1] + b[2 + Len(W) + 2] = Len(P)
     /\ Sits(b, P, AttrsStart(m))
     /\ Sits(b, R, RoutesStart(m))

\* A field with its length.
LEMMA CountedSits ==
  ASSUME NEW x \in Seq(Byte)
  PROVE  /\ Counted(x) \in Seq(Byte) /\ Len(Counted(x)) = 2 + Len(x)
         /\ Len(x) <= Longest => 256 * Counted(x)[1] + Counted(x)[2] = Len(x)
         /\ Sits(Counted(x), x, 2)
<1> DEFINE h == Be16(Len(x))
           c == Then(h, x)
<1>1. Counted(x) = c
  BY DEF Counted, Then
<1>2. /\ h \in Seq(Byte) /\ Len(h) = 2
      /\ Len(x) <= Longest => 256 * h[1] + h[2] = Len(x)
  <2>1. Len(x) \in Nat
    OBVIOUS
  <2> QED BY <2>1, TwoBytes
<1> HIDE DEF h
<1>3. c \in Seq(Byte) /\ Len(c) = Len(h) + Len(x) /\ Sits(c, h, 0) /\ Sits(c, x, Len(h))
  <2>1. h \in Seq(Byte) /\ x \in Seq(Byte)
    BY <1>2
  <2> QED BY <2>1, ThenSits
<1> HIDE DEF c
<1>4. c[1] = h[1] /\ c[2] = h[2]
  <2>1. 1 \in 1..Len(h) /\ 2 \in 1..Len(h) /\ 0 + 1 = 1 /\ 0 + 2 = 2
    BY <1>2
  <2>2. \A k \in 1..Len(h) : c[0 + k] = h[k]
    BY <1>3 DEF Sits
  <2> QED BY <2>1, <2>2
<1> QED BY <1>1, <1>2, <1>3, <1>4

\* The body of a message has its three fields, each behind the length it says, where process_update looks for them.
LEMMA BodyLaidOut ==
  ASSUME NEW m, m.withdrawn \in Seq(NLRI), m.routes \in Seq(NLRI), Fit(m.attrs),
         Len(BodyOf(m)) <= Longest
  PROVE  Layout(BodyOf(m), m)
<1> DEFINE W == PrefixBytes(m.withdrawn)
           P == PathBytes(m.attrs)
           R == PrefixBytes(m.routes)
           cw == Counted(W)
           cp == Counted(P)
           f == Then(cw, cp)
           b == Then(f, R)
<1>1. W \in Seq(Byte) /\ P \in Seq(Byte) /\ R \in Seq(Byte)
  BY PrefixListType, PathListType
<1>2. BodyOf(m) = b
  BY DEF BodyOf, UpdateBody, Then
<1>s. AttrsStart(m) = 4 + Len(W) /\ RoutesStart(m) = 4 + Len(W) + Len(P)
  BY DEF AttrsStart, RoutesStart
<1> HIDE DEF W, P, R
<1>3. /\ cw \in Seq(Byte) /\ Len(cw) = 2 + Len(W) /\ Sits(cw, W, 2)
      /\ cp \in Seq(Byte) /\ Len(cp) = 2 + Len(P) /\ Sits(cp, P, 2)
      /\ Len(W) <= Longest => 256 * cw[1] + cw[2] = Len(W)
      /\ Len(P) <= Longest => 256 * cp[1] + cp[2] = Len(P)
  BY <1>1, CountedSits
<1> HIDE DEF cw, cp
<1>4. f \in Seq(Byte) /\ Len(f) = Len(cw) + Len(cp) /\ Sits(f, cw, 0) /\ Sits(f, cp, Len(cw))
  <2>1. cw \in Seq(Byte) /\ cp \in Seq(Byte)
    BY <1>3
  <2> QED BY <2>1, ThenSits
<1> HIDE DEF f
<1>5. b \in Seq(Byte) /\ Len(b) = Len(f) + Len(R) /\ Sits(b, f, 0) /\ Sits(b, R, Len(f))
  <2>1. f \in Seq(Byte) /\ R \in Seq(Byte)
    BY <1>1, <1>4
  <2> QED BY <2>1, ThenSits
<1> HIDE DEF b
<1>6. /\ Len(W) \in Nat /\ Len(P) \in Nat /\ Len(R) \in Nat /\ Len(cw) \in Nat
      /\ Len(b) = 4 + Len(W) + Len(P) + Len(R) /\ Len(b) <= Longest
      /\ Len(f) = 4 + Len(W) + Len(P) /\ Len(cw) + 2 = 4 + Len(W)
      /\ Len(W) <= Longest /\ Len(P) <= Longest
  BY <1>1, <1>2, <1>3, <1>4, <1>5, LongestType, SMTT(30)
<1>7. Sits(b, cw, 0) /\ Sits(b, cp, Len(cw))
  <2>1. Sits(b, cw, 0 + 0) /\ Sits(b, cp, 0 + Len(cw))
    BY <1>3, <1>4, <1>5, <1>6, SitsIn
  <2> QED BY <1>6, <2>1
<1>8. Sits(b, W, 2) /\ Sits(b, P, 4 + Len(W))
  <2>1. Sits(b, W, 0 + 2) /\ Sits(b, P, Len(cw) + 2)
    BY <1>1, <1>3, <1>5, <1>6, <1>7, SitsIn, SMTT(30)
  <2> QED BY <1>6, <2>1
<1>9. /\ b[1] = cw[1] /\ b[2] = cw[2]
      /\ b[2 + Len(W) + 1] = cp[1] /\ b[2 + Len(W) + 2] = cp[2]
  <2>1. /\ 1 \in 1..Len(cw) /\ 2 \in 1..Len(cw) /\ 1 \in 1..Len(cp) /\ 2 \in 1..Len(cp)
        /\ 0 + 1 = 1 /\ 0 + 2 = 2
    BY <1>3, <1>6
  <2> QED BY <1>3, <1>7, <2>1 DEF Sits
<1>10. Sits(b, R, 4 + Len(W) + Len(P))
  BY <1>5, <1>6
<1> QED BY <1>1, <1>2, <1>s, <1>3, <1>5, <1>6, <1>8, <1>9, <1>10 DEF Layout, W, P, R

-----------------------------------------------------------------------------
\* What the loops find in the message.

\* What the constructors get from the body is a part of it.
LEMMA SliceType ==
  ASSUME body \in Seq(Byte), NEW o \in Nat, NEW n \in Nat, o + n <= Len(body)
  PROVE  /\ Slice(o, n) \in Seq(Byte) /\ Len(Slice(o, n)) = n
         /\ \A k \in 1..n : Slice(o, n)[k] = body[o + k]
<1>1. \A k \in 1..n : At(o + k - 1) = body[o + k] /\ body[o + k] \in Byte
  <2> SUFFICES ASSUME NEW k \in 1..n
               PROVE  At(o + k - 1) = body[o + k] /\ body[o + k] \in Byte
    OBVIOUS
  <2>1. o + k - 1 < Len(body) /\ (o + k - 1) + 1 = o + k /\ o + k \in 1..Len(body)
    OBVIOUS
  <2>2. body[o + k] \in Byte
    BY <2>1, ElementOfSeq
  <2> QED BY <2>1, <2>2 DEF At
<1> DEFINE f == [k \in 1..n |-> At(o + k - 1)]
<1>2. /\ f \in [1..n -> Byte]
      /\ \A k \in 1..n : f[k] = body[o + k]
  BY <1>1
<1>3. Slice(o, n) = f
  BY DEF Slice
<1> HIDE DEF f
<1>4. f \in Seq(Byte) /\ Len(f) = n
  BY <1>2
<1> QED BY <1>2, <1>3, <1>4

\* When bytes sit in the body, that part of it is those bytes.
LEMMA SliceIs ==
  ASSUME body \in Seq(Byte), NEW x \in Seq(Byte), NEW o \in Nat, Sits(body, x, o)
  PROVE  Slice(o, Len(x)) = x
<1>1. Len(x) \in Nat /\ o + Len(x) <= Len(body) /\ \A k \in 1..Len(x) : body[o + k] = x[k]
  BY DEF Sits
<1>2. /\ Slice(o, Len(x)) \in Seq(Byte) /\ Len(Slice(o, Len(x))) = Len(x)
      /\ \A k \in 1..Len(x) : Slice(o, Len(x))[k] = body[o + k]
  BY <1>1, SliceType
<1>3. \A k \in 1..Len(x) : Slice(o, Len(x))[k] = x[k]
  BY <1>1, <1>2
<1> QED BY <1>2, <1>3, SeqEqual

\* A message whose prefixes have the bytes their lengths ask for.
Good(said) == \A i \in 1..Len(said) : Len(said[i].data) = BytesOf(said[i].nlri_len)

\* The prefixes of a field that starts at s have been read up to o, and l bytes
\* are left of it.  Where the lengths are wrong, other prefixes may be read,
\* but they have the same bytes.
PrefixesRead(list, said, s, o, l) ==
  /\ list \in Seq(NLRI)
  /\ o \in s .. s + Len(PrefixBytes(said))
  /\ l = s + Len(PrefixBytes(said)) - o
  /\ PrefixBytes(list) = SubSeq(PrefixBytes(said), 1, o - s)
  /\ Good(said) => Len(list) <= Len(said) /\ \A i \in 1..Len(list) : list[i] = said[i]

\* All of them have been read.
PrefixesWhole(list, said) ==
  /\ list \in Seq(NLRI)
  /\ PrefixBytes(list) = PrefixBytes(said)
  /\ Good(said) => list = said

\* Where a list is at in what is said, when it begins as that does.
LEMMA BeginsAs ==
  ASSUME NEW list \in Seq(NLRI), NEW said \in Seq(NLRI), Len(list) <= Len(said),
         \A i \in 1..Len(list) : list[i] = said[i]
  PROVE  PrefixBytes(list) = Bytes(PrefixList(said), 0, Len(list))
<1> DEFINE P == PrefixList(said)
           L == PrefixList(list)
           k == Len(list)
<1>1. /\ P \in Seq(Seq(Byte)) /\ Len(P) = Len(said)
      /\ L \in Seq(Seq(Byte)) /\ Len(L) = k /\ PrefixBytes(list) = FlattenSeq(L)
  BY PrefixListType
<1>2. \A i \in 1..k : L[i] = P[i]
  BY DEF PrefixList
<1>3. k \in Nat /\ k <= Len(P)
  BY <1>1
<1> HIDE DEF P, L, k
<1>4. SubSeq(P, 0 + 1, k) = L
  <2>1. \A i \in 1..k : P[i] \in Seq(Byte)
    BY <1>1, <1>3, ElementOfSeq
  <2>2. /\ SubSeq(P, 1, k) \in Seq(Seq(Byte)) /\ Len(SubSeq(P, 1, k)) = k
        /\ \A i \in 1..k : SubSeq(P, 1, k)[i] = P[i]
    BY <1>1, <1>3, <2>1
  <2>3. SubSeq(P, 1, k) = L
    BY <1>1, <1>2, <2>2, SeqEqual
  <2> QED BY <2>3
<1> QED BY <1>1, <1>4 DEF Bytes, P, k

\* The prefix r stands in the message from o on, before the end of its field.
StandsAt(r, o, end) ==
  /\ o \in Nat /\ r \in NLRI
  /\ o + 1 + Len(r.data) <= end
  /\ body[o + 1] = r.nlri_len
  /\ Sits(body, r.data, o + 1)

\* The next prefix in the message.
LEMMA PrefixStands ==
  ASSUME body \in Seq(Byte), NEW said \in Seq(NLRI), NEW k \in Nat, k < Len(said),
         NEW s \in Nat, Sits(body, PrefixBytes(said), s),
         NEW o, o = s + Len(Bytes(PrefixList(said), 0, k))
  PROVE  StandsAt(said[k+1], o, s + Len(PrefixBytes(said)))
<1> DEFINE P == PrefixList(said)
           X == PrefixBytes(said)
           x == Serialize(said[k+1])
           d == said[k+1].data
           a == Len(Bytes(P, 0, k))
<1>1. P \in Seq(Seq(Byte)) /\ Len(P) = Len(said) /\ X = FlattenSeq(P) /\ X \in Seq(Byte)
  BY PrefixListType
<1>2. k + 1 \in 1..Len(said) /\ P[k+1] = x
  BY DEF PrefixList
<1>3. said[k+1] \in NLRI
  BY <1>2, ElementOfSeq
<1>4. /\ x \in Seq(Byte) /\ Len(x) = 1 + Len(d) /\ d \in Seq(Byte)
      /\ x[1] = said[k+1].nlri_len /\ Sits(x, d, 1)
  BY <1>3, PrefixType
<1>5. Bytes(P, 0, k) \in Seq(Byte) /\ Sits(FlattenSeq(P), P[k+1], a)
  <2>1. k < Len(P)
    BY <1>1
  <2> HIDE DEF P
  <2> QED BY <1>1, <2>1, PartSits
<1>6. Sits(X, x, a) /\ a \in Nat /\ o = s + a
  BY <1>1, <1>2, <1>5
<1> HIDE DEF P, X, x, d, a
<1>7. Sits(body, X, s)
  BY DEF X
<1>8. Sits(body, x, s + a)
  BY <1>1, <1>4, <1>6, <1>7, SitsIn
<1>9. o \in Nat /\ Sits(body, x, o) /\ 1 \in Nat
  BY <1>6, <1>8
<1>10. Sits(body, d, o + 1)
  BY <1>4, <1>9, SitsIn
<1>11. body[o + 1] = x[1]
  <2>1. 1 \in 1..Len(x)
    BY <1>4
  <2> QED BY <1>9, <2>1 DEF Sits
<1>12. o + 1 + Len(d) <= s + Len(X)
  <2>1. a + Len(x) <= Len(X) /\ Len(d) \in Nat /\ Len(X) \in Nat
    BY <1>1, <1>4, <1>6, SMTT(30) DEF Sits
  <2> QED BY <1>4, <1>6, <2>1
<1>13. StandsAt(said[k+1], o, s + Len(X))
  BY <1>3, <1>4, <1>9, <1>10, <1>11, <1>12, Zenon DEF StandsAt, d
<1> QED BY <1>13, Zenon DEF X

\* When the list read so far is a beginning of what was said, the next prefix that is read is the next one that was said,
\* and the field ends when the list is complete.
LEMMA PrefixNext ==
  ASSUME body \in Seq(Byte), NEW said \in Seq(NLRI), Good(said),
         NEW s \in Nat, Sits(body, PrefixBytes(said), s),
         NEW list, PrefixesRead(list, said, s, offset, len)
  PROVE  /\ len > 0 => Len(list) < Len(said)
         /\ Len(list) < Len(said) =>
              ~PrefixFails /\ PrefixHere = said[Len(list) + 1] /\ len > 0
         /\ Len(list) >= Len(said) => list = said
<1> DEFINE P == PrefixList(said)
           X == PrefixBytes(said)
           k == Len(list)
<1>1. /\ list \in Seq(NLRI) /\ k <= Len(said) /\ \A i \in 1..k : list[i] = said[i]
      /\ offset \in s .. s + Len(X) /\ len = s + Len(X) - offset
      /\ PrefixBytes(list) = SubSeq(X, 1, offset - s)
  BY DEF PrefixesRead
<1>2. X \in Seq(Byte) /\ Len(X) \in Nat /\ k \in Nat /\ Len(said) \in Nat
  BY <1>1, PrefixListType
<1>3. Len(PrefixBytes(list)) = offset - s
  <2>1. offset - s \in 0..Len(X)
    BY <1>1, <1>2
  <2> HIDE DEF X
  <2> QED BY <1>1, <1>2, <2>1
<1>4. PrefixBytes(list) = Bytes(P, 0, k)
  BY <1>1, BeginsAs
<1>t. offset \in Int /\ s + Len(X) \in Int /\ len = (s + Len(X)) - offset
  <2> HIDE DEF X
  <2> QED BY <1>1, <1>2
<1>5. offset = s + Len(Bytes(P, 0, k))
  <2>1. Len(Bytes(P, 0, k)) = offset - s
    BY <1>3, <1>4
  <2> DEFINE c == Len(Bytes(P, 0, k))
  <2> HIDE DEF c, X
  <2>2. c = offset - s
    BY <2>1 DEF c
  <2>3. offset = s + c
    BY <1>t, <2>2
  <2> QED BY <2>3 DEF c
<1>6. k = Len(said) => list = said
  BY <1>1, SeqEqual
<1>7. k = Len(said) => len = 0
  <2>1. P \in Seq(Seq(Byte)) /\ Len(P) = Len(said) /\ X = FlattenSeq(P)
    BY PrefixListType
  <2>2. FlattenSeq(P) = Bytes(P, 0, Len(P))
    <3> HIDE DEF P
    <3> QED BY <2>1, FlattenIsBytes
  <2> HIDE DEF P, X, k
  <2> QED BY <1>1, <1>2, <1>5, <2>1, <2>2
<1>8. ASSUME k < Len(said)
      PROVE  ~PrefixFails /\ PrefixHere = said[k + 1] /\ len > 0
  <2> DEFINE r == said[k+1]
  <2>1. /\ offset \in Nat /\ r \in NLRI
        /\ offset + 1 + Len(r.data) <= s + Len(X)
        /\ body[offset + 1] = r.nlri_len
        /\ Sits(body, r.data, offset + 1)
    <3>1. StandsAt(r, offset, s + Len(X))
      BY <1>2, <1>5, <1>8, PrefixStands, Zenon
    <3> QED BY <3>1 DEF StandsAt
  <2>2. s + Len(X) <= Len(body) /\ Len(body) \in Nat
    BY DEF Sits
  <2>3. Len(r.data) = BytesOf(r.nlri_len)
    BY <1>2, <1>8 DEF Good
  <2>4. r.data \in Seq(Byte) /\ Len(r.data) \in Nat
    BY <2>1, PrefixType
  <2> HIDE DEF r, X
  <2> DEFINE e == s + Len(X)
             n == Len(r.data)
  <2>a. e \in Int /\ n \in Nat /\ offset \in Int /\ len = e - offset
        /\ offset + 1 + n <= e /\ e <= Len(body) /\ Len(body) \in Nat
    BY <1>t, <2>1, <2>2, <2>4
  <2> HIDE DEF e, n
  <2>5. offset < Len(body) /\ At(offset) = r.nlri_len
    <3>1. offset < Len(body)
      BY <2>a
    <3> QED BY <2>1, <3>1 DEF At
  <2>6. n <= len - 1 /\ len > 0
    BY <2>a
  <2>7. ~PrefixFails
    <3>1. ~(offset >= Len(body))
      BY <2>1, <2>2, <2>5
    <3>2. BytesOf(At(offset)) = Len(r.data)
      BY <2>3, <2>5
    <3>3. ~(BytesOf(At(offset)) > len - 1)
      BY <2>6, <2>a, <3>2 DEF n
    <3> QED BY <3>1, <3>3 DEF PrefixFails
  <2>8. Slice(offset + 1, Len(r.data)) = r.data
    <3>1. offset + 1 \in Nat
      BY <2>1
    <3> QED BY <2>1, <2>4, <3>1, SliceIs
  <2>9. PrefixHere = [nlri_len |-> r.nlri_len, data |-> r.data]
    BY <2>3, <2>5, <2>8 DEF PrefixHere
  <2>10. r = [nlri_len |-> r.nlri_len, data |-> r.data]
    BY <2>1 DEF NLRI
  <2> QED BY <2>6, <2>7, <2>9, <2>10 DEF r
<1> QED BY <1>1, <1>2, <1>6, <1>7, <1>8

\* A prefix with right lengths is never refused.
LEMMA FailsIsBad ==
  ASSUME body \in Seq(Byte), NEW said \in Seq(NLRI), PrefixFails, len > 0,
         NEW s \in Nat, Sits(body, PrefixBytes(said), s),
         NEW list, PrefixesRead(list, said, s, offset, len)
  PROVE  ~Good(said)
BY PrefixNext

\* The end of a field.
LEMMA PrefixesEnd ==
  ASSUME body \in Seq(Byte), NEW said \in Seq(NLRI), len = 0,
         NEW s \in Nat, Sits(body, PrefixBytes(said), s),
         NEW list, PrefixesRead(list, said, s, offset, len)
  PROVE  PrefixesWhole(list, said) /\ offset = s + Len(PrefixBytes(said))
<1> DEFINE X == PrefixBytes(said)
<1>1. /\ list \in Seq(NLRI)
      /\ offset \in s .. s + Len(X) /\ len = s + Len(X) - offset
      /\ PrefixBytes(list) = SubSeq(X, 1, offset - s)
  BY DEF PrefixesRead
<1>2. X \in Seq(Byte) /\ Len(X) \in Nat
  BY PrefixListType
<1>3. SubSeq(X, 1, Len(X)) = X
  BY <1>2, SubSeqFull
<1>4. offset = s + Len(X) /\ offset - s = Len(X)
  <2> HIDE DEF X
  <2> QED BY <1>1, <1>2
<1>5. PrefixBytes(list) = X
  BY <1>1, <1>3, <1>4
<1>6. Good(said) => list = said
  <2>1. Len(list) \in Nat /\ Len(said) \in Nat
    BY <1>1
  <2>2. ~(0 > 0)
    OBVIOUS
  <2>3. Good(said) => ~(Len(list) < Len(said))
    BY <2>2, PrefixNext
  <2>4. Good(said) => Len(list) >= Len(said)
    BY <2>1, <2>3
  <2> QED BY <2>4, PrefixNext
<1> QED BY <1>1, <1>4, <1>5, <1>6 DEF PrefixesWhole

\* A byte for the length, and the bytes that it asks for.
LEMMA BytesOfType ==
  ASSUME NEW a \in Byte
  PROVE  BytesOf(a) \in Nat
BY DEF BytesOf, Byte

\* A length and some bytes make an NLRI.
LEMMA PrefixOf ==
  ASSUME NEW a \in Byte, NEW d \in Seq(Byte)
  PROVE  LET p == [nlri_len |-> a, data |-> d]
         IN p \in NLRI /\ p.data = d /\ p.nlri_len = a
BY DEF NLRI

\* The prefix that is read next is made of the next bytes.
LEMMA HereStands ==
  ASSUME body \in Seq(Byte), Len(body) <= Longest, ~PrefixFails,
         NEW X \in Seq(Byte), NEW s \in Nat, Sits(body, X, s),
         offset \in s .. s + Len(X), len = s + Len(X) - offset, len > 0
  PROVE  /\ PrefixHere \in NLRI
         /\ offset - s \in Nat /\ Sits(X, Serialize(PrefixHere), offset - s)
         /\ Len(PrefixHere.data) + 1 <= len
<1> DEFINE a == At(offset)
           n == BytesOf(a)
           d == Slice(offset + 1, n)
           p == [nlri_len |-> a, data |-> d]
           e == s + Len(X)
           t == offset - s
<1>1. /\ e \in Nat /\ e <= Len(body) /\ Len(body) \in Nat /\ offset \in Nat
      /\ offset < e /\ len = e - offset /\ t \in Nat /\ s + t = offset
      /\ t < Len(X) /\ Len(X) \in Nat /\ e = s + Len(X)
  BY DEF Sits
<1>2. a = body[offset + 1] /\ a \in Byte
  <2>1. offset + 1 \in 1..Len(body) /\ offset < Len(body)
    BY <1>1
  <2>2. body[offset + 1] \in Byte
    BY <2>1, ElementOfSeq
  <2> QED BY <2>1, <2>2 DEF At
<1>3. n \in Nat /\ n <= len - 1
  <2>1. ~(n > len - 1)
    BY DEF PrefixFails
  <2>2. n \in Nat
    <3> HIDE DEF a
    <3> QED BY <1>2, BytesOfType
  <2> HIDE DEF n, e
  <2>3. len \in Int
    BY <1>1
  <2> QED BY <2>1, <2>2, <2>3
<1>4. d \in Seq(Byte) /\ Len(d) = n /\ \A k \in 1..n : d[k] = body[(offset + 1) + k]
  <2> HIDE DEF n, e
  <2>1. offset + 1 \in Nat /\ (offset + 1) + n <= Len(body)
    BY <1>1, <1>3
  <2> QED BY <1>3, <2>1, SliceType
<1>5. PrefixHere = p
  BY DEF PrefixHere
<1> HIDE DEF a, n, d, e
<1>6. p \in NLRI /\ p.data = d /\ p.nlri_len = a
  <2>1. a \in Byte /\ d \in Seq(Byte)
    BY <1>2, <1>4
  <2> QED BY <2>1, PrefixOf
<1> HIDE DEF p, t
<1> DEFINE x == Serialize(p)
<1>7. x \in Seq(Byte) /\ Len(x) = 1 + n /\ x[1] = a /\ Sits(x, d, 1)
  <2>1. p \in NLRI
    BY <1>6
  <2>2. /\ x \in Seq(Byte) /\ Len(x) = 1 + Len(p.data)
        /\ x[1] = p.nlri_len /\ Sits(x, p.data, 1)
    BY <2>1, PrefixType
  <2>3. p.data = d /\ p.nlri_len = a /\ Len(d) = n
    BY <1>4, <1>6
  <2> HIDE DEF x
  <2> QED BY <2>2, <2>3
<1> HIDE DEF x
<1>v. \A j \in 1..Len(d) : x[1 + j] = d[j]
  <2>1. Sits(x, d, 1)
    BY <1>7
  <2> QED BY <2>1, SitsAt
<1>8. ASSUME NEW k \in 1..Len(x) PROVE X[t + k] = x[k]
  <2>1. t + k \in 1..Len(X) /\ s + (t + k) = offset + k
    BY <1>1, <1>3, <1>7
  <2>2. body[s + (t + k)] = X[t + k]
    BY <2>1 DEF Sits
  <2>3. X[t + k] = body[offset + k]
    BY <2>1, <2>2
  <2>4. CASE k = 1
    BY <1>2, <1>7, <2>3, <2>4
  <2>5. CASE k # 1
    <3>1. /\ k - 1 \in 1..n /\ k - 1 \in 1..Len(d)
          /\ (offset + 1) + (k - 1) = offset + k /\ 1 + (k - 1) = k
      <4>1. k \in 1..(1 + n) /\ n \in Nat /\ offset \in Nat /\ Len(d) = n
        BY <1>1, <1>3, <1>4, <1>7
      <4>2. k - 1 \in 1..n
        BY <2>5, <4>1
      <4>3. (offset + 1) + (k - 1) = offset + k /\ 1 + (k - 1) = k
        BY <4>1
      <4> QED BY <4>1, <4>2, <4>3
    <3>2. d[k - 1] = body[(offset + 1) + (k - 1)]
      BY <1>4, <3>1
    <3>3. x[1 + (k - 1)] = d[k - 1]
      BY <1>v, <3>1
    <3> QED BY <2>3, <3>1, <3>2, <3>3
  <2> QED BY <2>4, <2>5
<1>9. t + Len(x) <= Len(X)
  BY <1>1, <1>3, <1>7
<1>10. Sits(X, x, t)
  BY <1>8, <1>9 DEF Sits
<1>11. Len(p.data) + 1 <= len
  BY <1>1, <1>3, <1>4, <1>6
<1> QED BY <1>1, <1>5, <1>6, <1>10, <1>11 DEF t, x

\* One more prefix.
LEMMA OneMorePrefix ==
  ASSUME NEW list \in Seq(NLRI), NEW p \in NLRI
  PROVE  PrefixBytes(Append(list, p)) = Then(PrefixBytes(list), Serialize(p))
<1> DEFINE L == PrefixList(list)
           M == PrefixList(Append(list, p))
           x == Serialize(p)
<1>1. L \in Seq(Seq(Byte)) /\ Len(L) = Len(list) /\ PrefixBytes(list) = FlattenSeq(L)
  BY PrefixListType
<1>2. /\ Append(list, p) \in Seq(NLRI) /\ Len(Append(list, p)) = Len(list) + 1
      /\ \A i \in 1..Len(list) : Append(list, p)[i] = list[i]
      /\ Append(list, p)[Len(list) + 1] = p /\ Len(list) \in Nat
  BY AppendProperties
<1>3. /\ M \in Seq(Seq(Byte)) /\ Len(M) = Len(list) + 1
      /\ PrefixBytes(Append(list, p)) = FlattenSeq(M)
  BY <1>2, PrefixListType
<1>4. x \in Seq(Byte)
  BY PrefixType
<1>5. /\ \A i \in 1..Len(list) : M[i] = L[i]
      /\ M[Len(list) + 1] = x
  BY <1>2 DEF PrefixList
<1> HIDE DEF L, M, x
<1>6. M = Append(L, x)
  <2>1. /\ Append(L, x) \in Seq(Seq(Byte)) /\ Len(Append(L, x)) = Len(L) + 1
        /\ \A i \in 1..Len(L) : Append(L, x)[i] = L[i]
        /\ Append(L, x)[Len(L) + 1] = x
    BY <1>1, <1>4, AppendProperties
  <2>2. \A i \in 1..Len(M) : M[i] = Append(L, x)[i]
    BY <1>1, <1>2, <1>3, <1>5, <2>1
  <2> QED BY <1>1, <1>3, <2>1, <2>2, SeqEqual
<1>7. FlattenSeq(Append(L, x)) = Then(FlattenSeq(L), x)
  BY <1>1, <1>4, FlattenAppend
<1> QED BY <1>1, <1>3, <1>6, <1>7 DEF x

\* offset and len move together, and do not wrap round.
Left(s, n, o, l) == o \in s .. s + n /\ l = s + n - o

\* Taking z bytes more of a field is not cut to 16 bits.
LEMMA MoveOn ==
  ASSUME NEW s \in Nat, NEW n \in Nat, NEW b \in Nat, s + n <= b, b <= Longest,
         NEW o, NEW l, Left(s, n, o, l), NEW z \in Nat, z <= l
  PROVE  /\ o \in Nat /\ Left(s, n, o + z, l - z)
         /\ uint16_t(o + z) = o + z /\ uint16_t(l - z) = l - z
BY DEF Longest, uint16_t, Left

\* A round of a loop over prefixes.
LEMMA PrefixGoes ==
  ASSUME body \in Seq(Byte), Len(body) <= Longest, NEW said \in Seq(NLRI),
         NEW s \in Nat, Sits(body, PrefixBytes(said), s), ~PrefixFails, len > 0,
         NEW list, PrefixesRead(list, said, s, offset, len), PassPrefix
  PROVE  PrefixesRead(Append(list, PrefixHere), said, s, offset', len')
<1> DEFINE X == PrefixBytes(said)
           p == PrefixHere
           x == Serialize(p)
           t == offset - s
           size == 1 + Len(p.data)
<1>1. /\ list \in Seq(NLRI)
      /\ offset \in s .. s + Len(X) /\ len = s + Len(X) - offset
      /\ PrefixBytes(list) = SubSeq(X, 1, t)
  BY DEF PrefixesRead
<1>2. X \in Seq(Byte) /\ Sits(body, X, s)
  BY PrefixListType
<1>3. p \in NLRI /\ t \in Nat /\ Sits(X, x, t) /\ Len(p.data) + 1 <= len
  <2> HIDE DEF X
  <2> QED BY <1>1, <1>2, HereStands
<1>4. x \in Seq(Byte) /\ Len(x) = size /\ size \in Nat
  BY <1>3, PrefixType
<1>5. len' = uint16_t(len - size) /\ offset' = uint16_t(offset + size)
  BY DEF PassPrefix
<1> HIDE DEF X, x, size
<1>6. /\ s + Len(X) <= Len(body) /\ Len(body) \in Nat /\ Len(body) <= Longest
      /\ Len(X) \in Nat /\ size \in Nat /\ size <= len
  <2>1. size <= len
    <3>1. Len(p.data) \in Nat
      BY <1>3, PrefixType
    <3> QED BY <1>3, <3>1 DEF size
  <2> QED BY <1>2, <1>4, <2>1 DEF Sits
<1>7. /\ offset' = offset + size /\ len' = len - size /\ offset \in Nat
      /\ offset + size \in s .. s + Len(X) /\ len - size = s + Len(X) - (offset + size)
  <2> DEFINE n == Len(X)
             b == Len(body)
  <2>1. /\ n \in Nat /\ b \in Nat /\ s + n <= b /\ b <= Longest
        /\ Left(s, n, offset, len) /\ size \in Nat /\ size <= len
    BY <1>1, <1>6 DEF Left
  <2> HIDE DEF n, b
  <2>2. /\ offset \in Nat /\ Left(s, n, offset + size, len - size)
        /\ uint16_t(offset + size) = offset + size /\ uint16_t(len - size) = len - size
    BY <2>1, MoveOn
  <2> QED BY <1>5, <2>2 DEF n, Left
<1>8. PrefixBytes(Append(list, p)) = SubSeq(X, 1, offset' - s)
  <2>1. PrefixBytes(Append(list, p)) = Then(PrefixBytes(list), x)
    <3>1. list \in Seq(NLRI) /\ p \in NLRI
      BY <1>1, <1>3
    <3> HIDE DEF p
    <3> QED BY <3>1, OneMorePrefix DEF x
  <2>2. Then(SubSeq(X, 1, t), x) = SubSeq(X, 1, t + Len(x))
    <3>1. x \in Seq(Byte) /\ t \in Nat /\ Sits(X, x, t)
      BY <1>3, <1>4
    <3> HIDE DEF t
    <3> QED BY <1>2, <3>1, BeginningGrows
  <2> DEFINE e == t + Len(x)
             g == offset' - s
  <2>3. e = g
    BY <1>4, <1>6, <1>7
  <2>4. PrefixBytes(list) = SubSeq(X, 1, t)
    BY <1>1
  <2>5. Then(SubSeq(X, 1, t), x) = SubSeq(X, 1, e)
    BY <2>2
  <2> HIDE DEF t, p, e
  <2>6. PrefixBytes(Append(list, p)) = SubSeq(X, 1, e)
    BY <2>1, <2>4, <2>5, Zenon
  <2> HIDE DEF g
  <2>7. PrefixBytes(Append(list, p)) = SubSeq(X, 1, g)
    BY <2>3, <2>6, Zenon
  <2> QED BY <2>7 DEF g
<1>9. Append(list, p) \in Seq(NLRI)
  BY <1>1, <1>3
<1>10. ASSUME Good(said)
       PROVE  /\ Len(Append(list, p)) <= Len(said)
              /\ \A i \in 1..Len(Append(list, p)) : Append(list, p)[i] = said[i]
  <2>1. Len(list) < Len(said) /\ p = said[Len(list) + 1]
    BY <1>10, PrefixNext
  <2>2. \A i \in 1..Len(list) : list[i] = said[i]
    BY <1>10 DEF PrefixesRead
  <2> HIDE DEF p
  <2>3. /\ Len(Append(list, p)) = Len(list) + 1 /\ Len(list) \in Nat /\ Len(said) \in Nat
        /\ \A i \in 1..Len(list) : Append(list, p)[i] = list[i]
        /\ Append(list, p)[Len(list) + 1] = p
    BY <1>1, <1>3, AppendProperties
  <2> QED BY <2>1, <2>2, <2>3
<1>11. offset' \in s .. s + Len(X) /\ len' = s + Len(X) - offset'
  BY <1>6, <1>7
<1> QED BY <1>8, <1>9, <1>10, <1>11 DEF PrefixesRead, X

-----------------------------------------------------------------------------
\* The loop over attributes.

\* The attributes that have been read are those that were written; the width
\* of their AS numbers may be another.
Alike(list, attrs) ==
  /\ list \in Seq(path_attr_t) /\ Len(list) <= Len(attrs)
  /\ \A i \in 1..Len(list) : SameAttribute(list[i], attrs[i])

AttributesRead(list, attrs, s, o, l) ==
  /\ Alike(list, attrs)
  /\ Left(s, Len(PathBytes(attrs)), o, l)
  /\ o = s + Len(Bytes(PathList(attrs), 0, Len(list)))

\* What is found where an attribute stands.
LEMMA AttributeHere ==
  ASSUME body \in Seq(Byte), NEW a, a.bytes \in Seq(Byte), NEW x, AttributeWritten(a, x),
         NEW o \in Nat, Sits(body, x, o)
  PROVE  /\ FlagsOf(At(o)) = a.flags /\ At(o + 1) = a.type
         /\ "extended_length" \in a.flags => U16At(o + 2) = Len(a.bytes)
         /\ "extended_length" \notin a.flags => At(o + 2) = Len(a.bytes)
         /\ Slice(o + HeaderSize(a.flags), Len(a.bytes)) = a.bytes
<1> DEFINE h == HeaderSize(a.flags)
           d == a.bytes
<1>1. /\ x \in Seq(Byte) /\ FlagsOf(x[1]) = a.flags /\ x[2] = a.type
      /\ Len(x) = h + Len(d) /\ CountIn(a.flags, x) = Len(d) /\ Sits(x, d, h)
  BY DEF AttributeWritten
<1>2. /\ h \in Nat /\ 3 <= h
      /\ "extended_length" \in a.flags => h = 4
      /\ Len(d) \in Nat
  BY DEF HeaderSize
<1> HIDE DEF h, d
<1>3. \A k \in 1..Len(x) : At(o + (k - 1)) = x[k]
  <2> SUFFICES ASSUME NEW k \in 1..Len(x) PROVE At(o + (k - 1)) = x[k]
    OBVIOUS
  <2>1. body[o + k] = x[k]
    BY SitsAt
  <2>2. o + (k - 1) < Len(body) /\ (o + (k - 1)) + 1 = o + k
    <3>1. o + Len(x) <= Len(body) /\ Len(x) \in Nat /\ Len(body) \in Nat
      BY <1>1 DEF Sits
    <3> QED BY <3>1
  <2> QED BY <2>1, <2>2 DEF At
<1>4. /\ 1 \in 1..Len(x) /\ 2 \in 1..Len(x) /\ 3 \in 1..Len(x)
      /\ "extended_length" \in a.flags => 4 \in 1..Len(x)
  <2>1. Len(x) = h + Len(d) /\ h \in Nat /\ 3 <= h /\ Len(d) \in Nat
    BY <1>1, <1>2
  <2>2. 1 \in 1..Len(x) /\ 2 \in 1..Len(x) /\ 3 \in 1..Len(x)
    BY <2>1
  <2>3. h = 4 => 4 \in 1..Len(x)
    BY <2>1
  <2> QED BY <1>2, <2>2, <2>3
<1>5. At(o) = x[1] /\ At(o + 1) = x[2] /\ At(o + 2) = x[3]
  <2>1. o + (1 - 1) = o /\ o + (2 - 1) = o + 1 /\ o + (3 - 1) = o + 2
    OBVIOUS
  <2>2. At(o + (1 - 1)) = x[1] /\ At(o + (2 - 1)) = x[2] /\ At(o + (3 - 1)) = x[3]
    BY <1>3, <1>4
  <2> QED BY <2>1, <2>2
<1>6. ASSUME "extended_length" \in a.flags PROVE U16At(o + 2) = Len(d)
  <2>1. At(o + (4 - 1)) = x[4]
    BY <1>3, <1>4, <1>6
  <2>2. o + (4 - 1) = (o + 2) + 1
    OBVIOUS
  <2>3. At((o + 2) + 1) = x[4]
    BY <2>1, <2>2
  <2>4. Len(d) = 256 * x[3] + x[4]
    BY <1>1, <1>6 DEF CountIn
  <2> QED BY <1>5, <2>3, <2>4 DEF U16At
<1>7. ASSUME "extended_length" \notin a.flags PROVE At(o + 2) = Len(d)
  BY <1>1, <1>5, <1>7 DEF CountIn
<1>8. Slice(o + h, Len(d)) = d
  <2>1. d \in Seq(Byte)
    BY DEF d
  <2>2. h \in Nat
    BY <1>2
  <2>3. o + h \in Nat
    BY <2>2
  <2>4. x \in Seq(Byte) /\ Sits(x, d, h)
    BY <1>1
  <2>5. Sits(body, d, o + h)
    BY <2>1, <2>2, <2>4, SitsIn
  <2> QED BY <2>1, <2>3, <2>5, SliceIs
<1> QED BY <1>1, <1>5, <1>6, <1>7, <1>8 DEF h, d

\* The next attribute in the message.
LEMMA AttributeNext ==
  ASSUME body \in Seq(Byte), NEW attrs, Fit(attrs), NEW s \in Nat,
         Sits(body, PathBytes(attrs), s),
         NEW list, AttributesRead(list, attrs, s, offset, len)
  PROVE  LET k == Len(list)
             x == to_bytes(attrs[k+1])
         IN /\ k \in Nat /\ offset \in Nat /\ len \in Nat
            /\ k >= Len(attrs) => len = 0
            /\ k < Len(attrs) =>
                 /\ attrs[k+1] \in path_attr_t /\ AttributeWritten(attrs[k+1], x)
                 /\ Sits(body, x, offset) /\ Len(x) \in Nat \ {0} /\ Len(x) <= len
                 /\ s + Len(Bytes(PathList(attrs), 0, k+1)) = offset + Len(x)
<1> DEFINE P == PathList(attrs)
           X == PathBytes(attrs)
           k == Len(list)
           x == to_bytes(attrs[k+1])
           a == Len(Bytes(P, 0, k))
<1>1. P \in Seq(Seq(Byte)) /\ Len(P) = Len(attrs) /\ X = FlattenSeq(P) /\ X \in Seq(Byte)
  BY PathListType
<1>2. /\ list \in Seq(path_attr_t) /\ attrs \in Seq(path_attr_t) /\ k <= Len(attrs)
      /\ Left(s, Len(X), offset, len) /\ offset = s + a
  BY DEF AttributesRead, Alike, Fit
<1>3. k \in Nat /\ Len(attrs) \in Nat /\ Len(X) \in Nat
  BY <1>1, <1>2
<1> DEFINE n == Len(X)
<1>4. offset \in Nat /\ len \in Nat /\ len = s + n - offset
  <2>1. Left(s, n, offset, len) /\ n \in Nat
    BY <1>2, <1>3
  <2> HIDE DEF n
  <2> QED BY <2>1 DEF Left
<1>5. k >= Len(attrs) => len = 0
  <2>1. FlattenSeq(P) = Bytes(P, 0, Len(P))
    <3> HIDE DEF P
    <3> QED BY <1>1, FlattenIsBytes
  <2> HIDE DEF P, X, k
  <2> QED BY <1>1, <1>2, <1>3, <1>4, <2>1
<1>6. ASSUME k < Len(attrs)
      PROVE  /\ attrs[k+1] \in path_attr_t /\ AttributeWritten(attrs[k+1], x)
             /\ Sits(body, x, offset) /\ Len(x) \in Nat \ {0} /\ Len(x) <= len
             /\ s + Len(Bytes(P, 0, k+1)) = offset + Len(x)
  <2>1. k + 1 \in 1..Len(attrs)
    BY <1>3, <1>6
  <2>2. attrs[k+1] \in path_attr_t /\ AttributeWritten(attrs[k+1], x)
    <3>1. attrs[k+1] \in path_attr_t
      BY <1>2, <2>1, ElementOfSeq
    <3> HIDE DEF k
    <3> QED BY <2>1, <3>1 DEF Fit
  <2>3. P[k+1] = x
    BY <2>1 DEF PathList
  <2>4. /\ Bytes(P, 0, k) \in Seq(Byte) /\ Sits(FlattenSeq(P), P[k+1], a)
        /\ Len(Bytes(P, 0, k+1)) = a + Len(P[k+1])
    <3>1. k < Len(P)
      BY <1>1, <1>6
    <3> HIDE DEF P, k
    <3> QED BY <1>1, <1>3, <3>1, PartSits
  <2>5. x \in Seq(Byte) /\ Len(x) \in Nat \ {0}
    <3>1. x \in Seq(Byte) /\ Sits(x, attrs[k+1].bytes, HeaderSize(attrs[k+1].flags))
      BY <2>2 DEF AttributeWritten
    <3>2. HeaderSize(attrs[k+1].flags) \in {3, 4} /\ Len(attrs[k+1].bytes) \in Nat
      BY <2>2 DEF HeaderSize, path_attr_t
    <3> HIDE DEF x
    <3>3. HeaderSize(attrs[k+1].flags) + Len(attrs[k+1].bytes) <= Len(x)
      BY <3>1 DEF Sits
    <3> QED BY <3>1, <3>2, <3>3
  <2>6. Sits(X, x, a) /\ a \in Nat
    BY <1>1, <2>3, <2>4
  <2> HIDE DEF P, X, x, a, n
  <2>7. Sits(body, x, s + a)
    BY <1>1, <2>5, <2>6, SitsIn DEF X
  <2>8. Sits(body, x, offset)
    BY <1>2, <2>7
  <2>9. Len(x) <= len
    <3>1. a + Len(x) <= n
      BY <2>6 DEF Sits, n
    <3> QED BY <1>2, <1>3, <1>4, <2>5, <2>6, <3>1 DEF n
  <2>10. s + Len(Bytes(P, 0, k+1)) = offset + Len(x)
    <3>1. Len(Bytes(P, 0, k+1)) = a + Len(x)
      BY <2>3, <2>4 DEF a
    <3> DEFINE c == Len(Bytes(P, 0, k+1))
    <3> HIDE DEF c
    <3>2. c = a + Len(x)
      BY <3>1 DEF c
    <3>3. s + c = offset + Len(x)
      BY <1>2, <2>5, <2>6, <3>2
    <3> QED BY <3>3 DEF c
  <2> QED BY <2>2, <2>5, <2>8, <2>9, <2>10
<1> QED BY <1>3, <1>4, <1>5, <1>6

\* What a round of the loop over attributes adds to the list.
HereFlags == FlagsOf(At(offset))
HereCount == IF "extended_length" \in HereFlags THEN U16At(offset + 2) ELSE At(offset + 2)
HereSize  == HeaderSize(HereFlags) + HereCount
HereAttribute(w) ==
  [flags |-> HereFlags, type |-> At(offset + 1),
   bytes |-> Slice(offset + HeaderSize(HereFlags), HereCount), four_byte_asn |-> w]

\* A round of the attribute loop appends the attribute that is here and goes behind it.
LEMMA AttributeTaken ==
  ASSUME wide \in BOOLEAN, ReadAttribute
  PROVE  /\ len > 0
         /\ \E w \in BOOLEAN : paths' = Append(paths, HereAttribute(w))
         /\ len' = uint16_t(len - HereSize) /\ offset' = uint16_t(offset + HereSize)
<1>1. len > 0
  BY DEF ReadAttribute
<1>2. \E w \in IF "extended_length" \in HereFlags THEN JunkWidth ELSE {wide} :
        paths' = Append(paths, HereAttribute(w))
  BY Zenon DEF ReadAttribute, HereFlags, HereCount, HereAttribute
<1>3. len' = uint16_t(len - HereSize) /\ offset' = uint16_t(offset + HereSize)
  BY Zenon DEF ReadAttribute, HereFlags, HereCount, HereSize
<1>4. (IF "extended_length" \in HereFlags THEN JunkWidth ELSE {wide}) \subseteq BOOLEAN
  BY WidthAssumption
<1> QED BY <1>1, <1>2, <1>3, <1>4, Zenon

\* A round of the loop over attributes.
LEMMA AttributeGoes ==
  ASSUME body \in Seq(Byte), Len(body) <= Longest, wide \in BOOLEAN, NEW attrs, Fit(attrs),
         NEW s \in Nat, Sits(body, PathBytes(attrs), s), ReadAttribute,
         AttributesRead(paths, attrs, s, offset, len)
  PROVE  AttributesRead(paths', attrs, s, offset', len')
<1> DEFINE k == Len(paths)
           a == attrs[k+1]
           x == to_bytes(a)
           n == Len(PathBytes(attrs))
<1>1. /\ paths \in Seq(path_attr_t) /\ attrs \in Seq(path_attr_t) /\ k <= Len(attrs)
      /\ \A i \in 1..k : SameAttribute(paths[i], attrs[i])
      /\ Left(s, n, offset, len)
  BY DEF AttributesRead, Alike, Fit
<1>2. k \in Nat /\ Len(attrs) \in Nat
  BY <1>1
<1>3. k < Len(attrs)
  <2>1. len > 0
    BY DEF ReadAttribute
  <2>2. len # 0
    BY <2>1
  <2>3. ~(k >= Len(attrs))
    BY <2>2, AttributeNext
  <2> HIDE DEF k
  <2> QED BY <1>2, <2>3
<1>4. /\ a \in path_attr_t /\ AttributeWritten(a, x) /\ Sits(body, x, offset)
      /\ Len(x) \in Nat /\ Len(x) <= len /\ offset \in Nat
      /\ s + Len(Bytes(PathList(attrs), 0, k+1)) = offset + Len(x)
  BY <1>3, AttributeNext
<1>5. a.bytes \in Seq(Byte) /\ a.flags \in SUBSET Flag /\ a.type \in Byte
  BY <1>4 DEF path_attr_t
<1> HIDE DEF a, x
<1>6. /\ FlagsOf(At(offset)) = a.flags /\ At(offset + 1) = a.type
      /\ "extended_length" \in a.flags => U16At(offset + 2) = Len(a.bytes)
      /\ "extended_length" \notin a.flags => At(offset + 2) = Len(a.bytes)
      /\ Slice(offset + HeaderSize(a.flags), Len(a.bytes)) = a.bytes
  BY <1>4, <1>5, AttributeHere
<1>7. Len(x) = HeaderSize(a.flags) + Len(a.bytes)
  BY <1>4 DEF AttributeWritten
<1>8. PICK w \in BOOLEAN :
        /\ paths' = Append(paths, [flags |-> a.flags, type |-> a.type, bytes |-> a.bytes,
                                   four_byte_asn |-> w])
        /\ len' = uint16_t(len - Len(x)) /\ offset' = uint16_t(offset + Len(x))
  <2>1. /\ \E w \in BOOLEAN : paths' = Append(paths, HereAttribute(w))
        /\ len' = uint16_t(len - HereSize) /\ offset' = uint16_t(offset + HereSize)
    BY AttributeTaken
  <2>2. HereFlags = a.flags /\ HereCount = Len(a.bytes)
    BY <1>6 DEF HereFlags, HereCount
  <2>3. HereSize = Len(x)
    BY <1>7, <2>2 DEF HereSize
  <2>4. \A w : HereAttribute(w) = [flags |-> a.flags, type |-> a.type, bytes |-> a.bytes,
                                  four_byte_asn |-> w]
    BY <1>6, <2>2, Zenon DEF HereAttribute
  <2> QED BY <2>1, <2>3, <2>4, Zenon
<1> DEFINE e == [flags |-> a.flags, type |-> a.type, bytes |-> a.bytes, four_byte_asn |-> w]
<1>9. e \in path_attr_t /\ SameAttribute(e, a)
  BY <1>5 DEF path_attr_t, SameAttribute
<1> HIDE DEF e, k, n
<1>10. /\ paths' \in Seq(path_attr_t) /\ Len(paths') = k + 1
       /\ \A i \in 1..k : paths'[i] = paths[i]
       /\ paths'[k+1] = e
  BY <1>1, <1>8, <1>9, AppendProperties DEF e, k
<1>11. Alike(paths', attrs)
  <2>1. Len(paths') <= Len(attrs)
    BY <1>2, <1>3, <1>10
  <2>2. ASSUME NEW i \in 1..(k+1) PROVE SameAttribute(paths'[i], attrs[i])
    <3>1. CASE i \in 1..k
      BY <1>1, <1>10, <3>1
    <3>2. CASE i = k + 1
      BY <1>9, <1>10, <3>2 DEF a
    <3> QED BY <1>2, <3>1, <3>2
  <2> QED BY <1>10, <2>1, <2>2 DEF Alike
<1>12. /\ Left(s, n, offset + Len(x), len - Len(x))
       /\ uint16_t(offset + Len(x)) = offset + Len(x) /\ uint16_t(len - Len(x)) = len - Len(x)
  <2> DEFINE b == Len(body)
             z == Len(x)
  <2>1. /\ n \in Nat /\ b \in Nat /\ s + n <= b /\ b <= Longest
        /\ Left(s, n, offset, len) /\ z \in Nat /\ z <= len
    <3>1. PathBytes(attrs) \in Seq(Byte)
      BY PathListType
    <3> QED BY <1>1, <1>4, <3>1 DEF n, Sits
  <2> HIDE DEF b, z
  <2>2. Left(s, n, offset + z, len - z) /\ uint16_t(offset + z) = offset + z /\ uint16_t(len - z) = len - z
    BY <2>1, MoveOn
  <2> QED BY <2>2 DEF z
<1>13. offset' = offset + Len(x) /\ len' = len - Len(x)
  BY <1>8, <1>12
<1>14. Left(s, n, offset', len')
  BY <1>12, <1>13
<1>15. offset' = s + Len(Bytes(PathList(attrs), 0, Len(paths')))
  BY <1>4, <1>10, <1>13
<1> QED BY <1>11, <1>14, <1>15 DEF AttributesRead, n

-----------------------------------------------------------------------------
\* Where process_update is in a message m.

Message(m) ==
  /\ m.withdrawn \in Seq(NLRI) /\ m.routes \in Seq(NLRI) /\ Fit(m.attrs)
  /\ Layout(body, m)

Reading(m) ==
  /\ phase \in {"withdrawn", "attributes", "routes", "done", "error"}
  /\ phase = "withdrawn" =>
       /\ PrefixesRead(withdrawn, m.withdrawn, 2, offset, len)
       /\ paths = <<>> /\ routes = <<>>
  /\ phase = "attributes" =>
       /\ PrefixesWhole(withdrawn, m.withdrawn)
       /\ AttributesRead(paths, m.attrs, AttrsStart(m), offset, len)
       /\ routes = <<>>
  /\ phase = "routes" =>
       /\ PrefixesWhole(withdrawn, m.withdrawn)
       /\ Alike(paths, m.attrs) /\ Len(paths) = Len(m.attrs)
       /\ PrefixesRead(routes, m.routes, RoutesStart(m), offset, len)
  /\ phase = "done" =>
       /\ PrefixesWhole(withdrawn, m.withdrawn)
       /\ Alike(paths, m.attrs) /\ Len(paths) = Len(m.attrs)
       /\ PrefixesWhole(routes, m.routes)
       /\ offset = Len(body) /\ len = 0
  /\ phase = "error" => result = <<<<>>, <<>>, <<>>>> /\ ~(Good(m.withdrawn) /\ Good(m.routes))

\* The layout of the message that is read, in numbers.
LEMMA MessageFacts ==
  ASSUME NEW m, Message(m)
  PROVE  LET W == Len(PrefixBytes(m.withdrawn))
             P == Len(PathBytes(m.attrs))
             R == Len(PrefixBytes(m.routes))
         IN /\ body \in Seq(Byte) /\ Len(body) \in Nat /\ Len(body) <= Longest
            /\ W \in Nat /\ P \in Nat /\ R \in Nat
            /\ AttrsStart(m) = 4 + W /\ RoutesStart(m) = 4 + W + P
            /\ Len(body) = 4 + W + P + R
            /\ Sits(body, PrefixBytes(m.withdrawn), 2)
            /\ Sits(body, PathBytes(m.attrs), AttrsStart(m))
            /\ Sits(body, PrefixBytes(m.routes), RoutesStart(m))
            /\ U16At(0) = W /\ U16At(2 + W) = P
<1> DEFINE X == PrefixBytes(m.withdrawn)
           Y == PathBytes(m.attrs)
           Z == PrefixBytes(m.routes)
<1>1. /\ X \in Seq(Byte) /\ Y \in Seq(Byte) /\ Z \in Seq(Byte) /\ body \in Seq(Byte)
      /\ Len(body) <= Longest /\ Len(body) = RoutesStart(m) + Len(Z)
      /\ 256 * body[1] + body[2] = Len(X)
      /\ Sits(body, X, 2)
      /\ 256 * body[2 + Len(X) + 1] + body[2 + Len(X) + 2] = Len(Y)
      /\ Sits(body, Y, AttrsStart(m))
      /\ Sits(body, Z, RoutesStart(m))
  BY DEF Message, Layout
<1>2. AttrsStart(m) = 4 + Len(X) /\ RoutesStart(m) = 4 + Len(X) + Len(Y)
  BY DEF AttrsStart, RoutesStart
<1> HIDE DEF X, Y, Z
<1>3. Len(X) \in Nat /\ Len(Y) \in Nat /\ Len(Z) \in Nat /\ Len(body) \in Nat
  BY <1>1
<1> DEFINE w == Len(X)
<1>4. Len(body) = 4 + w + Len(Y) + Len(Z)
  BY <1>1, <1>2, <1>3
<1>5. U16At(0) = w
  <2>1. 0 < Len(body) /\ 0 + 1 < Len(body) /\ 0 + 1 = 1 /\ 1 + 1 = 2
    BY <1>3, <1>4
  <2>2. At(0) = body[1] /\ At(0 + 1) = body[2]
    BY <2>1 DEF At
  <2> QED BY <1>1, <2>2 DEF U16At
<1>6. U16At(2 + w) = Len(Y)
  <2> HIDE DEF w
  <2>1. /\ 2 + w < Len(body) /\ (2 + w) + 1 < Len(body)
        /\ ((2 + w) + 1) + 1 = 2 + w + 2
    BY <1>3, <1>4 DEF w
  <2>2. At(2 + w) = body[2 + w + 1] /\ At((2 + w) + 1) = body[2 + w + 2]
    BY <2>1 DEF At
  <2> QED BY <1>1, <2>2 DEF U16At, w
<1> QED BY <1>1, <1>2, <1>3, <1>4, <1>5, <1>6 DEF X, Y, Z

\* Before the first prefix of a field.
LEMMA NothingRead ==
  ASSUME NEW said \in Seq(NLRI), NEW s \in Nat
  PROVE  PrefixesRead(<<>>, said, s, s, Len(PrefixBytes(said)))
<1> DEFINE X == PrefixBytes(said)
<1>1. X \in Seq(Byte) /\ Len(X) \in Nat /\ Len(said) \in Nat
  BY PrefixListType
<1> HIDE DEF X
<1>2. s \in s .. s + Len(X) /\ Len(X) = s + Len(X) - s /\ s - s = 0
  BY <1>1
<1>3. <<>> \in Seq(NLRI) /\ Len(<<>>) = 0
  OBVIOUS
<1>4. PrefixBytes(<<>>) = SubSeq(X, 1, s - s)
  <2>1. PrefixList(<<>>) = <<>>
    BY DEF PrefixList
  <2>2. PrefixBytes(<<>>) = <<>>
    BY <1>3, <2>1, PrefixListType, FlattenNone
  <2>3. SubSeq(X, 1, 0) = <<>>
    <3>1. 1 \in Int /\ 0 \in Int /\ 0 < 1
      OBVIOUS
    <3> QED BY <3>1, SubSeqEmpty
  <2> QED BY <1>2, <2>2, <2>3
<1>5. Len(<<>>) <= Len(said) /\ \A i \in 1..Len(<<>>) : <<>>[i] = said[i]
  BY <1>1, <1>3
<1> QED BY <1>2, <1>3, <1>4, <1>5 DEF PrefixesRead, X

-----------------------------------------------------------------------------
\* Every step of the loops keeps Reading(m).

\* A round of the loop over the withdrawn prefixes reads one that was sent.
LEMMA ReadWithdrawnKeeps ==
  ASSUME NEW m, Message(m), Reading(m), ReadWithdrawn
  PROVE  Reading(m)'
<1>1. /\ phase = "withdrawn" /\ phase' = "withdrawn" /\ len > 0 /\ ~PrefixFails /\ PassPrefix
      /\ withdrawn' = Append(withdrawn, PrefixHere) /\ paths' = paths /\ routes' = routes
  BY DEF ReadWithdrawn
<1>2. /\ PrefixesRead(withdrawn, m.withdrawn, 2, offset, len)
      /\ paths = <<>> /\ routes = <<>>
  BY <1>1 DEF Reading
<1>3. /\ body \in Seq(Byte) /\ Len(body) <= Longest /\ m.withdrawn \in Seq(NLRI)
      /\ Sits(body, PrefixBytes(m.withdrawn), 2)
  BY MessageFacts DEF Message
<1>4. PrefixesRead(withdrawn', m.withdrawn, 2, offset', len')
  <2>1. 2 \in Nat
    OBVIOUS
  <2>2. PrefixesRead(Append(withdrawn, PrefixHere), m.withdrawn, 2, offset', len')
    BY <1>1, <1>2, <1>3, <2>1, PrefixGoes
  <2> QED BY <1>1, <2>2
<1> QED BY <1>1, <1>2, <1>4 DEF Reading

\* A round of the loop over the NLRI reads one that was sent.
LEMMA ReadRouteKeeps ==
  ASSUME NEW m, Message(m), Reading(m), ReadRoute
  PROVE  Reading(m)'
<1>1. /\ phase = "routes" /\ phase' = "routes" /\ len > 0 /\ ~PrefixFails /\ PassPrefix
      /\ routes' = Append(routes, PrefixHere) /\ paths' = paths /\ withdrawn' = withdrawn
  BY DEF ReadRoute
<1>2. /\ PrefixesWhole(withdrawn, m.withdrawn)
      /\ Alike(paths, m.attrs) /\ Len(paths) = Len(m.attrs)
      /\ PrefixesRead(routes, m.routes, RoutesStart(m), offset, len)
  BY <1>1 DEF Reading
<1>3. /\ body \in Seq(Byte) /\ Len(body) <= Longest /\ m.routes \in Seq(NLRI)
      /\ Sits(body, PrefixBytes(m.routes), RoutesStart(m))
  BY MessageFacts DEF Message
<1>4. PrefixesRead(routes', m.routes, RoutesStart(m), offset', len')
  <2>1. RoutesStart(m) \in Nat
    BY MessageFacts
  <2>2. PrefixesRead(Append(routes, PrefixHere), m.routes, RoutesStart(m), offset', len')
    BY <1>1, <1>2, <1>3, <2>1, PrefixGoes
  <2> QED BY <1>1, <2>2
<1> QED BY <1>1, <1>2, <1>4 DEF Reading

\* An error in a prefix returns nothing, and happens only when one was sent that is too short.
LEMMA PrefixErrorIsBad ==
  ASSUME NEW m, Message(m), Reading(m), PrefixError
  PROVE  Reading(m)'
<1>1. /\ phase \in {"withdrawn", "routes"} /\ phase' = "error" /\ len > 0 /\ PrefixFails
      /\ withdrawn' = <<>> /\ paths' = <<>> /\ routes' = <<>>
  BY DEF PrefixError
<1>2. ~(Good(m.withdrawn) /\ Good(m.routes))
  <2>1. /\ body \in Seq(Byte) /\ m.withdrawn \in Seq(NLRI) /\ m.routes \in Seq(NLRI)
        /\ 2 \in Nat /\ Sits(body, PrefixBytes(m.withdrawn), 2)
        /\ RoutesStart(m) \in Nat /\ Sits(body, PrefixBytes(m.routes), RoutesStart(m))
    BY MessageFacts DEF Message
  <2>2. CASE phase = "withdrawn"
    <3>1. PrefixesRead(withdrawn, m.withdrawn, 2, offset, len)
      BY <2>2 DEF Reading
    <3> QED BY <1>1, <2>1, <3>1, FailsIsBad
  <2>3. CASE phase = "routes"
    <3>1. PrefixesRead(routes, m.routes, RoutesStart(m), offset, len)
      BY <2>3 DEF Reading
    <3> QED BY <1>1, <2>1, <3>1, FailsIsBad
  <2> QED BY <1>1, <2>2, <2>3
<1> QED BY <1>1, <1>2 DEF Reading, result

\* A round of the attribute loop reads an attribute that was sent.
LEMMA ReadAttributeKeeps ==
  ASSUME wide \in BOOLEAN, NEW m, Message(m), Reading(m), ReadAttribute
  PROVE  Reading(m)'
<1>1. /\ phase = "attributes" /\ phase' = "attributes"
      /\ withdrawn' = withdrawn /\ routes' = routes
  BY DEF ReadAttribute
<1>2. /\ PrefixesWhole(withdrawn, m.withdrawn)
      /\ AttributesRead(paths, m.attrs, AttrsStart(m), offset, len)
      /\ routes = <<>>
  BY <1>1 DEF Reading
<1>3. /\ body \in Seq(Byte) /\ Len(body) <= Longest /\ Fit(m.attrs)
      /\ Sits(body, PathBytes(m.attrs), AttrsStart(m))
  BY MessageFacts DEF Message
<1>4. AttributesRead(paths', m.attrs, AttrsStart(m), offset', len')
  <2>1. AttrsStart(m) \in Nat
    BY MessageFacts
  <2> QED BY <1>2, <1>3, <2>1, AttributeGoes
<1> QED BY <1>1, <1>2, <1>4 DEF Reading

\* After the withdrawn prefixes, process_update is at the length of the attributes.
LEMMA StartAttributesKeeps ==
  ASSUME NEW m, Message(m), Reading(m), StartAttributes
  PROVE  Reading(m)'
<1> DEFINE w == Len(PrefixBytes(m.withdrawn))
           n == Len(PathBytes(m.attrs))
<1>1. /\ phase = "withdrawn" /\ len = 0 /\ phase' = "attributes"
      /\ len' = U16At(offset) /\ offset' = uint16_t(offset + 2)
      /\ withdrawn' = withdrawn /\ paths' = paths /\ routes' = routes
  BY DEF StartAttributes
<1>2. /\ PrefixesRead(withdrawn, m.withdrawn, 2, offset, len)
      /\ paths = <<>> /\ routes = <<>>
  BY <1>1 DEF Reading
<1>3. /\ body \in Seq(Byte) /\ m.withdrawn \in Seq(NLRI) /\ Fit(m.attrs)
      /\ Sits(body, PrefixBytes(m.withdrawn), 2)
  BY MessageFacts DEF Message
<1>4. PrefixesWhole(withdrawn, m.withdrawn) /\ offset = 2 + w
  <2>1. 2 \in Nat
    OBVIOUS
  <2> QED BY <1>1, <1>2, <1>3, <2>1, PrefixesEnd
<1>5. /\ w \in Nat /\ n \in Nat /\ U16At(2 + w) = n /\ AttrsStart(m) = 4 + w
      /\ 4 + w + n <= Longest
  <2>1. /\ w \in Nat /\ n \in Nat /\ Len(PrefixBytes(m.routes)) \in Nat
        /\ U16At(2 + w) = n /\ AttrsStart(m) = 4 + w
        /\ 4 + w + n + Len(PrefixBytes(m.routes)) <= Longest
    BY MessageFacts
  <2> HIDE DEF w, n
  <2> QED BY <2>1, LongestType
<1> HIDE DEF w, n
<1>6. offset' = AttrsStart(m) /\ len' = n
  <2>1. (offset + 2) % 65536 = 4 + w
    BY <1>4, <1>5 DEF Longest
  <2> QED BY <1>1, <1>4, <1>5, <2>1 DEF uint16_t
<1>7. AttributesRead(paths', m.attrs, AttrsStart(m), offset', len')
  <2>1. Alike(<<>>, m.attrs)
    <3>1. m.attrs \in Seq(path_attr_t)
      BY <1>3 DEF Fit
    <3>2. /\ <<>> \in Seq(path_attr_t) /\ Len(<<>>) <= Len(m.attrs)
          /\ \A i \in 1..Len(<<>>) : SameAttribute(<<>>[i], m.attrs[i])
      BY <3>1
    <3> QED BY <3>2 DEF Alike
  <2>2. Left(AttrsStart(m), n, AttrsStart(m), n)
    BY <1>5 DEF Left
  <2>3. Len(Bytes(PathList(m.attrs), 0, 0)) = 0 /\ Len(<<>>) = 0
    BY BytesNone
  <2>4. AttrsStart(m) = AttrsStart(m) + Len(Bytes(PathList(m.attrs), 0, Len(<<>>)))
    BY <1>5, <2>3
  <2>5. AttributesRead(<<>>, m.attrs, AttrsStart(m), AttrsStart(m), n)
    BY <2>1, <2>2, <2>4 DEF AttributesRead, n
  <2> QED BY <1>1, <1>2, <1>6, <2>5
<1> QED BY <1>1, <1>2, <1>4, <1>7 DEF Reading

\* After the attributes, what is left of the body are the NLRI.
LEMMA StartRoutesKeeps ==
  ASSUME NEW m, Message(m), Reading(m), StartRoutes
  PROVE  Reading(m)'
<1> DEFINE w == Len(PrefixBytes(m.withdrawn))
           n == Len(PathBytes(m.attrs))
           r == Len(PrefixBytes(m.routes))
           k == Len(paths)
<1>1. /\ phase = "attributes" /\ len = 0 /\ phase' = "routes"
      /\ len' = uint16_t(Len(body) - offset) /\ offset' = offset
      /\ withdrawn' = withdrawn /\ paths' = paths /\ routes' = routes
  BY DEF StartRoutes
<1>2. /\ PrefixesWhole(withdrawn, m.withdrawn)
      /\ AttributesRead(paths, m.attrs, AttrsStart(m), offset, len)
      /\ routes = <<>>
  BY <1>1 DEF Reading
<1>3. /\ body \in Seq(Byte) /\ Fit(m.attrs) /\ AttrsStart(m) \in Nat
      /\ Sits(body, PathBytes(m.attrs), AttrsStart(m)) /\ m.routes \in Seq(NLRI)
  BY MessageFacts DEF Message
<1>4. /\ Alike(paths, m.attrs) /\ Left(AttrsStart(m), n, offset, len)
      /\ k <= Len(m.attrs) /\ k \in Nat /\ Len(m.attrs) \in Nat
  BY <1>2, <1>3 DEF AttributesRead, Alike, Fit
<1>5. k = Len(m.attrs)
  <2>1. ASSUME k < Len(m.attrs) PROVE FALSE
    <3>1. Len(to_bytes(m.attrs[k+1])) \in Nat \ {0} /\ Len(to_bytes(m.attrs[k+1])) <= len
      BY <1>2, <1>3, <2>1, AttributeNext
    <3> QED BY <1>1, <3>1
  <2> HIDE DEF k
  <2> QED BY <1>4, <2>1
<1>6. /\ w \in Nat /\ n \in Nat /\ r \in Nat /\ AttrsStart(m) = 4 + w
      /\ RoutesStart(m) = 4 + w + n /\ Len(body) = 4 + w + n + r /\ Len(body) <= Longest
  BY MessageFacts
<1> HIDE DEF w, n, k
<1>7. offset = RoutesStart(m) /\ RoutesStart(m) \in Nat
  BY <1>1, <1>4, <1>6 DEF Left
<1>8. len' = r
  <2> HIDE DEF r
  <2>1. Len(body) - offset = r /\ r <= Longest
    BY <1>6, <1>7, LongestType
  <2>2. r % 65536 = r
    BY <1>6, <2>1 DEF Longest
  <2> QED BY <1>1, <2>1, <2>2 DEF uint16_t
<1>9. PrefixesRead(routes', m.routes, RoutesStart(m), offset', len')
  <2>1. PrefixesRead(<<>>, m.routes, RoutesStart(m), RoutesStart(m), r)
    BY <1>3, <1>7, NothingRead
  <2> HIDE DEF r
  <2> QED BY <1>1, <1>2, <1>7, <1>8, <2>1
<1> QED BY <1>1, <1>2, <1>4, <1>5, <1>9 DEF Reading, k

\* process_update returns when all three lists are complete.
LEMMA ReturnKeeps ==
  ASSUME NEW m, Message(m), Reading(m), Return
  PROVE  Reading(m)'
<1>1. /\ phase = "routes" /\ len = 0 /\ phase' = "done"
      /\ body' = body /\ offset' = offset /\ len' = len
      /\ withdrawn' = withdrawn /\ paths' = paths /\ routes' = routes
  BY DEF Return
<1>2. /\ PrefixesWhole(withdrawn, m.withdrawn)
      /\ Alike(paths, m.attrs) /\ Len(paths) = Len(m.attrs)
      /\ PrefixesRead(routes, m.routes, RoutesStart(m), offset, len)
  BY <1>1 DEF Reading
<1>3. /\ body \in Seq(Byte) /\ m.routes \in Seq(NLRI) /\ RoutesStart(m) \in Nat
      /\ Sits(body, PrefixBytes(m.routes), RoutesStart(m))
      /\ Len(body) = RoutesStart(m) + Len(PrefixBytes(m.routes))
  BY MessageFacts, SMTT(30) DEF Message
<1>4. /\ PrefixesWhole(routes, m.routes)
      /\ offset = RoutesStart(m) + Len(PrefixBytes(m.routes))
  BY <1>1, <1>2, <1>3, PrefixesEnd
<1>5. offset' = Len(body)' /\ len' = 0
  BY <1>1, <1>3, <1>4
<1> QED BY <1>1, <1>2, <1>4, <1>5 DEF Reading

\* Every round of process_update reads on in the message that was sent.
LEMMA ParseStepKeeps ==
  ASSUME wide \in BOOLEAN, NEW m, Message(m), Reading(m), ParseStep
  PROVE  Reading(m)' /\ body' = body /\ wide' = wide
<1>1. body' = body /\ wide' = wide
  BY DEF ParseStep, ReadWithdrawn, StartAttributes, ReadAttribute, StartRoutes,
         ReadRoute, PrefixError, Return
<1>2. Reading(m)'
  BY ReadWithdrawnKeeps, StartAttributesKeeps, ReadAttributeKeeps, StartRoutesKeeps,
     ReadRouteKeeps, PrefixErrorIsBad, ReturnKeeps DEF ParseStep
<1> QED BY <1>1, <1>2

-----------------------------------------------------------------------------
\* The inductive invariant: process_update is somewhere in the message that
\* was sent; a route that is originated has no message.

\* A message of a neighbour that can be sent is laid out as process_update expects.
LEMMA SendableLaidOut ==
  ASSUME NEW m, Sendable(m)
  PROVE  /\ m.withdrawn \in Seq(NLRI) /\ m.routes \in Seq(NLRI) /\ Fit(m.attrs)
         /\ Layout(BodyOf(m), m)
<1>1. /\ m.withdrawn \in Seq(NLRI) /\ m.attrs \in Seq(path_attr_t) /\ m.routes \in Seq(NLRI)
  BY DEF Sendable, Received
<1>2. Len(BodyOf(m)) <= Longest
  BY DEF Sendable, Longest
<1>3. ASSUME NEW i \in 1..Len(m.attrs)
      PROVE  AttributeWritten(m.attrs[i], to_bytes(m.attrs[i]))
  <2> DEFINE a == m.attrs[i]
  <2>1. a \in path_attr_t
    BY <1>1, ElementOfSeq
  <2>2. Len(a.bytes) <= IF "extended_length" \in a.flags THEN 65535 ELSE 255
    BY DEF Sendable
  <2>3. Len(a.bytes) \in Nat
    BY <2>1 DEF path_attr_t
  <2> HIDE DEF a
  <2>4. Len(a.bytes) <= Longest /\ ("extended_length" \notin a.flags => Len(a.bytes) <= 255)
    BY <2>2, <2>3 DEF Longest
  <2>5. AttributeWritten(a, to_bytes(a))
    BY <2>1, <2>4, AttributeRead
  <2> QED BY <2>5 DEF a
<1>4. Fit(m.attrs)
  BY <1>1, <1>3 DEF Fit
<1>5. Layout(BodyOf(m), m)
  BY <1>1, <1>2, <1>4, BodyLaidOut
<1> QED BY <1>1, <1>4, <1>5

\* The bytes on the wire are those of the message that is meant.
LEMMA SendableIsMessage ==
  ASSUME NEW m, Sendable(m), body = BodyOf(m)
  PROVE  Message(m)
BY SendableLaidOut DEF Message

\* So are those of the empty one the run begins with.
LEMMA NoMessageIsMessage ==
  ASSUME body = BodyOf(NoMessage)
  PROVE  Message(NoMessage)
<1>1. NoMessage.withdrawn = <<>> /\ NoMessage.attrs = <<>> /\ NoMessage.routes = <<>>
  BY DEF NoMessage
<1>2. /\ NoMessage.withdrawn \in Seq(NLRI) /\ NoMessage.routes \in Seq(NLRI)
      /\ Fit(NoMessage.attrs)
  BY <1>1 DEF Fit
<1>3. Len(BodyOf(NoMessage)) <= Longest
  <2>1. PrefixBytes(<<>>) = <<>> /\ PathBytes(<<>>) = <<>>
    <3>1. PrefixList(<<>>) = <<>> /\ PathList(<<>>) = <<>>
      BY DEF PrefixList, PathList
    <3>2. PrefixBytes(<<>>) = FlattenSeq(PrefixList(<<>>)) /\ PathBytes(<<>>) = FlattenSeq(PathList(<<>>))
      BY DEF PrefixBytes, PrefixList, PathBytes, PathList
    <3> QED BY <3>1, <3>2, FlattenNone
  <2>2. Counted(<<>>) \in Seq(Byte) /\ Len(Counted(<<>>)) = 2
    <3>1. <<>> \in Seq(Byte) /\ Len(<<>>) = 0
      OBVIOUS
    <3>2. Counted(<<>>) \in Seq(Byte) /\ Len(Counted(<<>>)) = 2 + Len(<<>>)
      BY <3>1, CountedSits
    <3> QED BY <3>1, <3>2
  <2>3. BodyOf(NoMessage) = Counted(<<>>) \o Counted(<<>>) \o <<>>
    BY <1>1, <2>1 DEF BodyOf, UpdateBody
  <2> DEFINE c == Counted(<<>>)
  <2> HIDE DEF c
  <2>4. c \in Seq(Byte) /\ Len(c) = 2
    BY <2>2 DEF c
  <2>5. Len(c \o c \o <<>>) = 4
    <3>1. c \o c \in Seq(Byte) /\ Len(c \o c) = 4
      <4>1. Then(c, c) \in Seq(Byte) /\ Len(Then(c, c)) = Len(c) + Len(c)
        BY <2>4, ThenSits
      <4>2. Len(Then(c, c)) = 4
        BY <2>4, <4>1
      <4> QED BY <4>1, <4>2 DEF Then
    <3>2. (c \o c) \o <<>> = c \o c
      BY <3>1, ConcatEmptySeq, Zenon
    <3> QED BY <3>1, <3>2
  <2> QED BY <2>3, <2>5 DEF c, Longest
<1>4. Layout(body, NoMessage)
  BY <1>2, <1>3, BodyLaidOut
<1> QED BY <1>2, <1>4 DEF Message

\* At the start of a message.
LEMMA StartsReading ==
  ASSUME NEW m, Message(m), phase = "withdrawn", len = 256 * body[1] + body[2], offset = 2,
         withdrawn = <<>>, paths = <<>>, routes = <<>>
  PROVE  Reading(m)
<1>1. m.withdrawn \in Seq(NLRI) /\ 2 \in Nat
  BY DEF Message
<1>2. len = Len(PrefixBytes(m.withdrawn))
  BY DEF Message, Layout
<1>3. PrefixesRead(<<>>, m.withdrawn, 2, 2, Len(PrefixBytes(m.withdrawn)))
  BY <1>1, NothingRead
<1>4. PrefixesRead(withdrawn, m.withdrawn, 2, offset, len)
  BY <1>2, <1>3
<1> QED BY <1>4 DEF Reading

ReadInv ==
  /\ wide \in BOOLEAN
  /\ \/ body = BodyOf(meant) /\ (Sendable(meant) => Reading(meant))
     \/ body = BodyOf(NoMessage) /\ stage # "received" /\ Reading(NoMessage)

\* A width is found in an OPEN or not.
LEMMA WidthType ==
  ASSUME NEW open
  PROVE  FourByteAsn(open) \in BOOLEAN
BY Zenon DEF FourByteAsn

\* At the beginning no message is being read.
LEMMA InitReads == Init => ReadInv
<1> SUFFICES ASSUME Init PROVE ReadInv
  OBVIOUS
<1>1. CASE InitNeighbour
  <2>1. ProcessUpdate(BodyOf(meant), FourByteAsn(OpenOf(from)))
    BY <1>1 DEF InitNeighbour
  <2>2. /\ body = BodyOf(meant) /\ wide = FourByteAsn(OpenOf(from))
        /\ phase = "withdrawn" /\ len = 256 * body[1] + body[2] /\ offset = 2
        /\ withdrawn = <<>> /\ paths = <<>> /\ routes = <<>>
    BY <2>1 DEF ProcessUpdate
  <2>3. wide \in BOOLEAN
    BY <2>2, WidthType
  <2>4. Sendable(meant) => Reading(meant)
    BY <2>2, SendableIsMessage, StartsReading
  <2> QED BY <2>2, <2>3, <2>4 DEF ReadInv
<1>2. CASE InitOriginate
  <2>1. ProcessUpdate(BodyOf(NoMessage), FALSE) /\ stage # "received"
    BY <1>2 DEF InitOriginate
  <2>2. /\ body = BodyOf(NoMessage) /\ wide = FALSE
        /\ phase = "withdrawn" /\ len = 256 * body[1] + body[2] /\ offset = 2
        /\ withdrawn = <<>> /\ paths = <<>> /\ routes = <<>>
    BY <2>1 DEF ProcessUpdate
  <2>3. Reading(NoMessage)
    BY <2>2, NoMessageIsMessage, StartsReading
  <2> QED BY <2>1, <2>2, <2>3 DEF ReadInv
<1> QED BY <1>1, <1>2 DEF Init

\* The steps after process_update, and those of no message, leave it alone.
LEMMA SameReads ==
  ASSUME ReadInv, UNCHANGED update, meant' = meant, stage' # "received"
  PROVE  ReadInv'
<1>1. /\ body' = body /\ wide' = wide /\ phase' = phase /\ offset' = offset /\ len' = len
      /\ withdrawn' = withdrawn /\ paths' = paths /\ routes' = routes
  BY DEF update
<1>2. \A m : Reading(m) <=> Reading(m)'
  BY <1>1 DEF Reading, result
<1>3. wide' \in BOOLEAN
  BY <1>1 DEF ReadInv
<1>4. CASE body = BodyOf(meant) /\ (Sendable(meant) => Reading(meant))
  <2>1. PICK c : c = meant
    OBVIOUS
  <2>2. meant' = c /\ body' = BodyOf(c) /\ (Sendable(c) => Reading(c)')
    BY <1>1, <1>2, <1>4, <2>1
  <2>3. Reading(c)' => Reading(meant)'
    BY <2>2 DEF Reading
  <2> QED BY <1>3, <2>2, <2>3 DEF ReadInv
<1>5. CASE body = BodyOf(NoMessage) /\ stage # "received" /\ Reading(NoMessage)
  <2>1. Reading(NoMessage)'
    BY <1>1, <1>5 DEF Reading, result
  <2> QED BY <1>1, <1>3, <1>5, <2>1 DEF ReadInv
<1> QED BY <1>4, <1>5 DEF ReadInv

\* The rounds of process_update keep the invariant.
LEMMA ParseReads ==
  ASSUME ReadInv, Parse
  PROVE  ReadInv'
<1>1. stage = "received" /\ ParseStep /\ meant' = meant /\ stage' = stage
  BY DEF Parse, relay
<1>2. wide \in BOOLEAN /\ body = BodyOf(meant) /\ (Sendable(meant) => Reading(meant))
  BY <1>1 DEF ReadInv
<1>3. body' = body /\ wide' = wide
  BY <1>1 DEF ParseStep, ReadWithdrawn, StartAttributes, ReadAttribute, StartRoutes,
              ReadRoute, PrefixError, Return
<1>4. PICK c : c = meant
  OBVIOUS
<1>5. Sendable(c) => Reading(c)'
  <2>1. SUFFICES ASSUME Sendable(c) PROVE Reading(c)'
    OBVIOUS
  <2>2. Reading(c) /\ body = BodyOf(c)
    BY <1>2, <1>4, <2>1
  <2>3. Message(c)
    BY <2>1, <2>2, SendableIsMessage
  <2> QED BY <1>1, <1>2, <2>2, <2>3, ParseStepKeeps
<1>6. meant' = c /\ body' = BodyOf(c)
  BY <1>1, <1>2, <1>3, <1>4
<1>7. Reading(c)' => Reading(meant)'
  BY <1>6 DEF Reading
<1> QED BY <1>2, <1>3, <1>5, <1>6, <1>7 DEF ReadInv

\* A new message is read from its beginning.
LEMMA ComesBackReads ==
  ASSUME NEW n, ComesBack(n)
  PROVE  ReadInv'
<1>1. PICK c : meant' = c /\ ProcessNext(BodyOf(c), FourByteAsn(OpenOf(n)))
  BY DEF ComesBack
<1>2. /\ body' = BodyOf(c) /\ wide' = FourByteAsn(OpenOf(n))
      /\ phase' = "withdrawn" /\ len' = 256 * body'[1] + body'[2] /\ offset' = 2
      /\ withdrawn' = <<>> /\ paths' = <<>> /\ routes' = <<>>
  BY <1>1 DEF ProcessNext
<1>3. wide' \in BOOLEAN
  BY <1>2, WidthType
<1>4. ASSUME Sendable(c) PROVE Reading(c)'
  <2>1. c.withdrawn \in Seq(NLRI) /\ Layout(body', c) /\ 2 \in Nat
    BY <1>2, <1>4, SendableLaidOut
  <2>2. len' = Len(PrefixBytes(c.withdrawn))
    BY <1>2, <2>1 DEF Layout
  <2>3. PrefixesRead(<<>>, c.withdrawn, 2, 2, Len(PrefixBytes(c.withdrawn)))
    BY <2>1, NothingRead
  <2>4. PrefixesRead(withdrawn', c.withdrawn, 2, offset', len')
    BY <1>2, <2>2, <2>3
  <2> QED BY <1>2, <2>4 DEF Reading
<1>5. Reading(c)' => Reading(meant)'
  BY <1>1 DEF Reading
<1> QED BY <1>1, <1>2, <1>3, <1>4, <1>5 DEF ReadInv

\* Every step of Relay keeps the invariant of reading.
LEMMA NextReads == ReadInv /\ [Next]_vars => ReadInv'
<1> SUFFICES ASSUME ReadInv, [Next]_vars PROVE ReadInv'
  OBVIOUS
<1>1. CASE Parse
  BY <1>1, ParseReads
<1>2. CASE RxUpdate
  <2>1. UNCHANGED update /\ meant' = meant /\ stage' # "received"
    BY <1>2 DEF RxUpdate
  <2> QED BY <2>1, SameReads
<1>3. ASSUME NEW n \in Neighbour, TxUpdate(n) PROVE ReadInv'
  <2>1. UNCHANGED update /\ meant' = meant /\ stage' # "received"
    BY <1>3 DEF TxUpdate
  <2> QED BY <2>1, SameReads
<1>4. ASSUME NEW n \in Neighbour, ComesBack(n) PROVE ReadInv'
  BY <1>4, ComesBackReads
<1>5. CASE UNCHANGED vars
  <2>1. /\ body' = body /\ wide' = wide /\ phase' = phase /\ offset' = offset /\ len' = len
        /\ withdrawn' = withdrawn /\ paths' = paths /\ routes' = routes
        /\ meant' = meant /\ stage' = stage
    BY <1>5 DEF vars, update, relay
  <2>2. Reading(meant) <=> Reading(meant)'
    BY <2>1 DEF Reading, result
  <2>3. Reading(NoMessage) <=> Reading(NoMessage)'
    BY <2>1 DEF Reading, result
  <2> QED BY <2>1, <2>2, <2>3 DEF ReadInv
<1> QED BY <1>1, <1>2, <1>3, <1>4, <1>5 DEF Next

\* process_update is always somewhere in the message that was sent.
THEOREM Reads == Spec => []ReadInv
BY InitReads, NextReads, PTL DEF Spec

\* Whichever message is read, the invariant has its layout.
LEMMA ReadMessage ==
  ASSUME ReadInv, Sendable(meant)
  PROVE  \E m : /\ Message(m) /\ body = BodyOf(m) /\ Reading(m)
                /\ m = meant \/ stage # "received"
<1>1. CASE body = BodyOf(meant) /\ Reading(meant)
  <2>1. Message(meant)
    BY <1>1, SendableIsMessage
  <2> QED BY <1>1, <2>1
<1>2. CASE body = BodyOf(NoMessage) /\ stage # "received" /\ Reading(NoMessage)
  <2>1. Message(NoMessage)
    BY <1>2, NoMessageIsMessage
  <2> QED BY <1>2, <2>1
<1> QED BY <1>1, <1>2 DEF ReadInv

\* What offset and len add up to is the end of the field.
LEMMA ReadingInField ==
  ASSUME NEW m, Message(m), Reading(m)
  PROVE  LenIsWhatIsLeft
<1> DEFINE w == Len(PrefixBytes(m.withdrawn))
           n == Len(PathBytes(m.attrs))
           r == Len(PrefixBytes(m.routes))
<1>1. /\ w \in Nat /\ n \in Nat /\ r \in Nat /\ Len(body) = 4 + w + n + r
      /\ AttrsStart(m) = 4 + w /\ RoutesStart(m) = 4 + w + n
      /\ U16At(0) = w /\ U16At(2 + w) = n /\ AttrsStart(m) \in Nat
  BY MessageFacts
<1>2. phase = "withdrawn" => offset \in 2 .. 2 + w /\ len = 2 + w - offset
  BY DEF Reading, PrefixesRead
<1>3. phase = "attributes" =>
        offset \in AttrsStart(m) .. AttrsStart(m) + n /\ len = AttrsStart(m) + n - offset
  BY DEF Reading, AttributesRead, Left
<1>4. phase = "routes" =>
        offset \in RoutesStart(m) .. RoutesStart(m) + r /\ len = RoutesStart(m) + r - offset
  BY DEF Reading, PrefixesRead
<1>5. phase = "done" => offset = Len(body) /\ len = 0
  BY DEF Reading
<1> HIDE DEF w, n, r
<1>6. CASE phase = "withdrawn"
  <2>1. offset + len = 2 + w
    BY <1>1, <1>2, <1>6
  <2> QED BY <1>1, <1>6, <2>1 DEF LenIsWhatIsLeft, FieldEnd
<1>7. CASE phase = "attributes"
  <2>1. offset + len = (2 + w) + 2 + n
    BY <1>1, <1>3, <1>7
  <2> QED BY <1>1, <1>7, <2>1 DEF LenIsWhatIsLeft, FieldEnd
<1>8. CASE phase = "routes"
  <2>1. offset + len = Len(body)
    BY <1>1, <1>4, <1>8
  <2> QED BY <1>8, <2>1 DEF LenIsWhatIsLeft, FieldEnd
<1>9. CASE phase = "done"
  <2>1. offset + len = Len(body)
    BY <1>1, <1>5, <1>9
  <2> QED BY <1>9, <2>1 DEF LenIsWhatIsLeft, FieldEnd
<1> QED BY <1>6, <1>7, <1>8, <1>9 DEF LenIsWhatIsLeft

\* A prefix of the configuration that does not throw has at most four bytes.
LEMMA ParsedPrefix ==
  ASSUME NEW text, IsText(text), ~PrefixThrows(text)
  PROVE  ParsePrefix(text) \in NLRI /\ Len(ParsePrefix(text).data) <= 4
<1> DEFINE bits == text.bits % 256
           n == BytesOf(bits)
<1>1. text.address \in Seq(Byte) /\ Len(text.address) = 4 /\ text.bits \in Nat
  BY DEF IsText
<1>2. bits \in Byte
  <2>1. \A v \in Nat : v % 256 \in 0..255
    OBVIOUS
  <2> QED BY <1>1, <2>1 DEF Byte
<1>3. n \in Nat /\ n <= 4
  BY <1>2 DEF BytesOf, PrefixThrows, Byte
<1> HIDE DEF n, bits
<1>4. SubSeq(text.address, 1, n) \in Seq(Byte) /\ Len(SubSeq(text.address, 1, n)) = n
  <2>1. \A i \in 1..n : text.address[i] \in Byte
    BY <1>1, <1>3, ElementOfSeq
  <2> QED BY <1>1, <1>3, <2>1, SubSeqProperties
<1>5. ParsePrefix(text) = [nlri_len |-> bits, data |-> SubSeq(text.address, 1, n)]
  BY Zenon DEF ParsePrefix, bits, n
<1> QED BY <1>2, <1>3, <1>4, <1>5 DEF NLRI

\* What is meant when there is no neighbour: a configured prefix.
LEMMA PrefixIsSendable ==
  ASSUME NEW p \in NLRI, Len(p.data) <= 4
  PROVE  Sendable([NoMessage EXCEPT !.routes = <<p>>])
<1> DEFINE m == [NoMessage EXCEPT !.routes = <<p>>]
           s == PrefixList(<<p>>)
<1>1. m.withdrawn = <<>> /\ m.attrs = <<>> /\ m.routes = <<p>> /\ m \in Received
  <2>1. m = [withdrawn |-> <<>>, attrs |-> <<>>, routes |-> <<p>>]
    BY DEF NoMessage
  <2>2. <<p>> \in Seq(NLRI) /\ <<>> \in Seq(NLRI) /\ <<>> \in Seq(path_attr_t)
    OBVIOUS
  <2> QED BY <2>1, <2>2, Zenon DEF Received
<1>2. <<p>> \in Seq(NLRI) /\ Len(<<p>>) = 1 /\ <<p>>[1] = p
  OBVIOUS
<1>3. /\ s \in Seq(Seq(Byte)) /\ Len(s) = 1 /\ s[1] = Serialize(p)
      /\ PrefixBytes(<<p>>) = FlattenSeq(s) /\ PrefixBytes(<<p>>) \in Seq(Byte)
  <2>0. s[1] = Serialize(<<p>>[1])
    BY <1>2 DEF PrefixList
  <2>1. s \in Seq(Seq(Byte)) /\ Len(s) = Len(<<p>>) /\ s[1] = Serialize(<<p>>[1])
    BY <1>2, <2>0, PrefixListType
  <2>2. PrefixBytes(<<p>>) = FlattenSeq(s) /\ PrefixBytes(<<p>>) \in Seq(Byte)
    BY <1>2, PrefixListType
  <2> QED BY <1>2, <2>1, <2>2, Zenon
<1>4. Len(PrefixBytes(<<p>>)) <= 5
  <2>1. PrefixBytes(<<p>>) = Bytes(s, 0, 1)
    BY <1>3, FlattenIsBytes
  <2>2. Len(Bytes(s, 0, 0+1)) = Len(Bytes(s, 0, 0)) + Len(s[0+1])
    <3> HIDE DEF s
    <3>1. 0 \in Nat /\ 0 < Len(s)
      BY <1>3
    <3> QED BY <1>3, <3>1, PartSits
  <2>3. Bytes(s, 0, 0) = <<>>
    BY BytesNone
  <2>4. Len(Serialize(p)) = 1 + Len(p.data) /\ Len(p.data) \in Nat
    BY PrefixType
  <2> HIDE DEF s
  <2>5. 0 + 1 = 1 /\ Len(<<>>) = 0
    OBVIOUS
  <2>6. Len(Bytes(s, 0, 1)) = 0 + Len(Serialize(p))
    BY <1>3, <2>2, <2>3, <2>5
  <2> QED BY <2>1, <2>4, <2>6
<1> DEFINE c == Counted(<<>>)
           x == PrefixBytes(<<p>>)
<1>5. BodyOf(m) = Then(Then(c, c), x)
  <2>1. PrefixBytes(<<>>) = <<>> /\ PathBytes(<<>>) = <<>>
    <3>1. PrefixList(<<>>) = <<>> /\ PathList(<<>>) = <<>>
      BY DEF PrefixList, PathList
    <3>2. PrefixBytes(<<>>) = FlattenSeq(PrefixList(<<>>)) /\ PathBytes(<<>>) = FlattenSeq(PathList(<<>>))
      BY DEF PrefixBytes, PrefixList, PathBytes, PathList
    <3> QED BY <3>1, <3>2, FlattenNone
  <2>2. BodyOf(m) = Counted(PrefixBytes(m.withdrawn)) \o Counted(PathBytes(m.attrs)) \o PrefixBytes(m.routes)
    BY Zenon DEF BodyOf, UpdateBody
  <2> HIDE DEF m
  <2> QED BY <1>1, <2>1, <2>2, Zenon DEF Then, c, x
<1>6. c \in Seq(Byte) /\ Len(c) = 2
  <2>1. <<>> \in Seq(Byte) /\ Len(<<>>) = 0
    OBVIOUS
  <2>2. Counted(<<>>) \in Seq(Byte) /\ Len(Counted(<<>>)) = 2 + Len(<<>>)
    BY <2>1, CountedSits
  <2> QED BY <2>1, <2>2
<1> HIDE DEF c, x, m, s
<1>7. x \in Seq(Byte) /\ Len(x) <= 5 /\ Len(x) \in Nat
  BY <1>3, <1>4 DEF x
<1>8. Len(BodyOf(m)) <= 9
  <2>1. Then(c, c) \in Seq(Byte) /\ Len(Then(c, c)) = Len(c) + Len(c)
    BY <1>6, ThenSits
  <2>2. Len(Then(Then(c, c), x)) = Len(Then(c, c)) + Len(x)
    BY <1>7, <2>1, ThenSits
  <2> QED BY <1>5, <1>6, <1>7, <2>1, <2>2
<1>9. Len(m.attrs) = 0 /\ 9 <= 65535 /\ Len(BodyOf(m)) \in Nat
  <2>1. Then(Then(c, c), x) \in Seq(Byte)
    BY <1>6, <1>7, ThenSits
  <2> QED BY <1>1, <1>5, <2>1
<1>10. Len(BodyOf(m)) <= 65535
  BY <1>8, <1>9
<1>11. Sendable(m)
  BY <1>1, <1>9, <1>10 DEF Sendable
<1> QED BY <1>11 DEF m

\* A neighbour sends nothing that its bytes cannot say, and keeps to that when
\* a route comes back to us with the ASes it has passed.
THEOREM WhatIsMeantIsSendable == Spec => []Sendable(meant)
<1>1. Init => Sendable(meant)
  <2>1. InitNeighbour => Sendable(meant)
    BY DEF InitNeighbour
  <2>2. ASSUME InitOriginate PROVE Sendable(meant)
    <3>1. PICK r \in Originated : meant = [NoMessage EXCEPT !.routes = <<ParsePrefix(r.prefix)>>]
      <4>1. PICK r \in Originated : \E policy :
              /\ origin = [prefix |-> ParsePrefix(r.prefix), policy |-> policy]
              /\ meant = [NoMessage EXCEPT !.routes = <<origin.prefix>>]
        BY <2>2 DEF InitOriginate
      <4>2. origin.prefix = ParsePrefix(r.prefix)
        BY <4>1
      <4> QED BY <4>1, <4>2
    <3>2. IsText(r.prefix) /\ ~PrefixThrows(r.prefix)
      BY OriginatedAssumption
    <3> QED BY <3>1, <3>2, ParsedPrefix, PrefixIsSendable
  <2> QED BY <2>1, <2>2 DEF Init
<1>2. Sendable(meant) /\ [Next]_vars => Sendable(meant)'
  <2> SUFFICES ASSUME Sendable(meant), [Next]_vars PROVE Sendable(meant)'
    OBVIOUS
  <2>1. CASE meant' = meant
    BY <2>1 DEF Sendable, Received, BodyOf
  <2>2. ASSUME NEW n \in Neighbour, ComesBack(n) PROVE Sendable(meant)'
    <3>1. PICK m : Sendable(m) /\ meant' = m
      BY <2>2 DEF ComesBack
    <3> QED BY <3>1 DEF Sendable, Received, BodyOf
  <2> QED BY <2>1, <2>2 DEF Next, Parse, RxUpdate, TxUpdate, vars, relay
<1> QED BY <1>1, <1>2, PTL DEF Spec

\* For every message that a neighbour can write, with any lengths in its prefixes, the loops of
\* process_update stay in the field they read: no subtraction from the 16 bits
\* of len goes below zero and no byte after the message is read
\* (packet.cpp: the loops subtract without looking).
THEOREM FieldsKept == Spec => []LenIsWhatIsLeft
<1>1. ReadInv => (Sendable(meant) => LenIsWhatIsLeft)
  BY ReadMessage, ReadingInField
<1> QED BY <1>1, Reads, WhatIsMeantIsSendable, PTL

\* Attributes that are alike have the same bytes.
LEMMA AlikeBytes ==
  ASSUME NEW list, NEW attrs, Alike(list, attrs), Len(list) = Len(attrs)
  PROVE  PathBytes(list) = PathBytes(attrs)
<1>1. \A k \in 1..Len(list) : to_bytes(list[k]) = to_bytes(attrs[k])
  <2>1. ASSUME NEW a, NEW b, SameAttribute(a, b) PROVE to_bytes(a) = to_bytes(b)
    BY <2>1, Zenon DEF SameAttribute, to_bytes
  <2> QED BY <2>1 DEF Alike
<1>2. PathList(list) = PathList(attrs)
  BY <1>1 DEF PathList
<1>3. PathBytes(list) = FlattenSeq(PathList(list)) /\ PathBytes(attrs) = FlattenSeq(PathList(attrs))
  BY Zenon DEF PathBytes, PathList
<1> QED BY <1>2, <1>3

\* A message is taken as a whole or not at all: whichever prefix is wrong,
\* after an error nothing is left of it, and without one every byte of it is
\* accounted for.
THEOREM TakenWhole == Spec => []WholeOrNothing
<1>1. ReadInv => (Sendable(meant) => WholeOrNothing)
  <2> SUFFICES ASSUME ReadInv, Sendable(meant) PROVE WholeOrNothing
    OBVIOUS
  <2>1. PICK m : Message(m) /\ body = BodyOf(m) /\ Reading(m)
    BY ReadMessage
  <2>2. phase = "error" => result = <<<<>>, <<>>, <<>>>>
    BY <2>1 DEF Reading
  <2>3. ASSUME phase = "done" PROVE UpdateBody(withdrawn, paths, routes) = body
    <3>1. /\ PrefixBytes(withdrawn) = PrefixBytes(m.withdrawn)
          /\ PrefixBytes(routes) = PrefixBytes(m.routes)
          /\ Alike(paths, m.attrs) /\ Len(paths) = Len(m.attrs)
      BY <2>1, <2>3 DEF Reading, PrefixesWhole
    <3>2. PathBytes(paths) = PathBytes(m.attrs)
      BY <3>1, AlikeBytes
    <3> QED BY <2>1, <3>1, <3>2 DEF BodyOf, UpdateBody
  <2> QED BY <2>2, <2>3 DEF WholeOrNothing
<1> QED BY <1>1, Reads, WhatIsMeantIsSendable, PTL

\* A message whose prefixes have the bytes their lengths ask for is never an
\* error, and what is read of it is what its sender wrote, every prefix and
\* every attribute, with one-byte and two-byte lengths and any flags.
THEOREM ReadAsWritten == Spec => []ReadsWhatWasSent
<1>1. ReadInv => (Sendable(meant) => ReadsWhatWasSent)
  <2> SUFFICES ASSUME ReadInv, Sendable(meant), stage = "received", WellFormed(meant),
                      phase \in {"done", "error"}
               PROVE  /\ phase = "done"
                      /\ withdrawn = meant.withdrawn /\ routes = meant.routes
                      /\ Len(paths) = Len(meant.attrs)
                      /\ \A i \in 1..Len(paths) : SameAttribute(paths[i], meant.attrs[i])
    BY DEF ReadsWhatWasSent
  <2>1. Reading(meant)
    BY DEF ReadInv
  <2>2. Good(meant.withdrawn) /\ Good(meant.routes)
    BY DEF WellFormed, Good, BytesOf
  <2>3. phase = "done"
    BY <2>1, <2>2 DEF Reading
  <2>4. /\ withdrawn = meant.withdrawn /\ routes = meant.routes
        /\ Alike(paths, meant.attrs) /\ Len(paths) = Len(meant.attrs)
    BY <2>1, <2>2, <2>3 DEF Reading, PrefixesWhole
  <2> QED BY <2>3, <2>4 DEF Alike
<1> QED BY <1>1, Reads, WhatIsMeantIsSendable, PTL

-----------------------------------------------------------------------------
\* The capabilities of an OPEN.

Capability == [code : Nat, data : Seq(Nat)]

\* A capability in a parameter of its own.
LEMMA CapWritten ==
  ASSUME NEW c \in Capability
  PROVE  /\ toBytes(c) \in Seq(Nat) /\ c.data \in Seq(Nat)
         /\ Len(toBytes(c)) = 4 + Len(c.data)
         /\ toBytes(c)[1] = CAP /\ toBytes(c)[2] = 2 + Len(c.data)
         /\ toBytes(c)[3] = c.code /\ toBytes(c)[4] = Len(c.data)
         /\ Sits(toBytes(c), c.data, 4)
<1> DEFINE d == c.data
           n == Len(d)
           g == <<CAP, 2 + n>>
           h == <<c.code, n>>
           y == Then(h, d)
           x == Then(g, y)
<1>1. d \in Seq(Nat) /\ c.code \in Nat /\ n \in Nat
  BY DEF Capability
<1>2. toBytes(c) = x
  BY Zenon DEF toBytes, CapBytes, Then
<1>3. g \in Seq(Nat) /\ Len(g) = 2 /\ g[1] = CAP /\ g[2] = 2 + n
  BY <1>1 DEF CAP
<1>4. h \in Seq(Nat) /\ Len(h) = 2 /\ h[1] = c.code /\ h[2] = n
  BY <1>1
<1> HIDE DEF g, h, d
<1>5. y \in Seq(Nat) /\ Len(y) = 2 + n /\ Sits(y, h, 0) /\ Sits(y, d, 2)
  BY <1>1, <1>4, ThenSits
<1> HIDE DEF y
<1>6. x \in Seq(Nat) /\ Len(x) = 2 + Len(y) /\ Sits(x, g, 0) /\ Sits(x, y, 2)
  BY <1>3, <1>5, ThenSits
<1> HIDE DEF x, n
<1>7. Sits(x, h, 2 + 0) /\ Sits(x, d, 2 + 2)
  BY <1>1, <1>4, <1>5, <1>6, SitsIn
<1>8. x[0 + 1] = g[1] /\ x[0 + 2] = g[2] /\ x[2 + 1] = h[1] /\ x[2 + 2] = h[2]
  BY <1>3, <1>4, <1>6, <1>7 DEF Sits
<1>9. /\ x \in Seq(Nat) /\ Len(x) = 4 + n /\ x[1] = CAP /\ x[2] = 2 + n
      /\ x[3] = c.code /\ x[4] = n /\ Sits(x, d, 4)
  BY <1>1, <1>3, <1>4, <1>5, <1>6, <1>7, <1>8
<1> QED BY <1>1, <1>2, <1>9 DEF n, d

\* A round of parse_capabilites reads the capability that stands at its offset.
LEMMA RoundReads ==
  ASSUME NEW params \in Seq(Nat), NEW c \in Capability, NEW o \in Nat, NEW s,
         Sits(params, toBytes(c), o)
  PROVE  ParamRound(params, [offset |-> o, caps |-> s])
           = [offset |-> o + Len(toBytes(c)), caps |-> Append(s, c)]
<1> DEFINE x == toBytes(c)
           d == c.data
           n == Len(d)
<1>1. /\ x \in Seq(Nat) /\ d \in Seq(Nat) /\ Len(x) = 4 + n
      /\ x[1] = CAP /\ x[2] = 2 + n /\ x[3] = c.code /\ x[4] = n /\ Sits(x, d, 4)
  BY CapWritten
<1> HIDE DEF x
<1>2. Sits(params, x, o)
  BY DEF x
<1>3. n \in Nat /\ Len(params) \in Nat
  BY <1>1, SMTT(30)
<1>4. /\ o + Len(x) <= Len(params) /\ params[o + 1] = x[1] /\ params[o + 2] = x[2]
      /\ params[o + 3] = x[3] /\ params[o + 4] = x[4]
  <2>1. 1 \in 1..Len(x) /\ 2 \in 1..Len(x) /\ 3 \in 1..Len(x) /\ 4 \in 1..Len(x)
    <3>1. Len(x) = 4 + n /\ n \in Nat
      BY <1>1, <1>3
    <3> HIDE DEF n
    <3> QED BY <3>1
  <2>2. o + Len(x) <= Len(params) /\ \A k \in 1..Len(x) : params[o + k] = x[k]
    BY <1>2, Zenon DEF Sits
  <2> QED BY <2>1, <2>2, Zenon
<1>5. SubSeq(params, o + 5, o + 4 + n) = d
  <2>1. Sits(params, d, o + 4)
    BY <1>1, <1>2, SitsIn
  <2>2. SubSeq(params, (o + 4) + 1, (o + 4) + n) = d
    <3>1. d \in Seq(Nat) /\ o + 4 \in Nat
      BY <1>1
    <3> QED BY <2>1, <3>1, SitsCut
  <2>3. (o + 4) + 1 = o + 5 /\ (o + 4) + n = o + 4 + n
    BY <1>3
  <2> QED BY <2>2, <2>3
<1>6. Cap(c.code, d) = c
  BY DEF Cap, Capability
<1> HIDE DEF n, d
<1> DEFINE r == [offset |-> o, caps |-> s]
<1>7. /\ r.offset = o /\ r.caps = s /\ (o + 1) + 1 = o + 2 /\ (o + 1) + 2 = o + 3
      /\ (o + 1) + 3 = o + 4 /\ (o + 1) + 4 = o + 5 /\ ((o + 1) + 3) + n = o + 4 + n
      /\ ~(o + 1 > Len(params)) /\ o + (2 + n) + 2 = o + Len(x)
  BY <1>1, <1>3, <1>4
<1> HIDE DEF r
<1>8. ParamRound(params, r) = [offset |-> o + Len(x), caps |-> Append(s, c)]
  BY <1>1, <1>4, <1>5, <1>6, <1>7 DEF ParamRound
<1> QED BY <1>8 DEF r, x

\* The rounds of parse_capabilites.
Rounds(f, params, n) ==
  f = [k \in 0..n |-> IF k = 0 THEN [offset |-> 0, caps |-> <<>>] ELSE ParamRound(params, f[k-1])]

\* They exist, for any parameters.
LEMMA RoundsExist ==
  ASSUME NEW params, NEW n \in Nat
  PROVE  \E f : Rounds(f, params, n)
<1> DEFINE G == {k \in 0..n : \E f : Rounds(f, params, k)}
           start == [offset |-> 0, caps |-> <<>>]
<1>1. 0 \in G
  <2>1. Rounds([k \in 0..0 |-> start], params, 0)
    BY DEF Rounds
  <2> QED BY <2>1
<1>2. ASSUME NEW k \in 1..n, k-1 \in G PROVE k \in G
  <2>1. PICK f : Rounds(f, params, k-1)
    BY <1>2
  <2>2. Rounds([i \in 0..k |-> IF i = k THEN ParamRound(params, f[k-1]) ELSE f[i]], params, k)
    BY <2>1 DEF Rounds
  <2> QED BY <2>2
<1>3. n \in G
  <2> HIDE DEF G
  <2>1. \A k \in 0..n : k \in G
    BY <1>1, <1>2, UpTo
  <2> QED BY <2>1
<1> QED BY <1>3

\* Every round but the first goes on from the one before.
LEMMA RoundsStep ==
  ASSUME NEW f, NEW params, NEW n \in Nat, Rounds(f, params, n), NEW k \in 1..n
  PROVE  f[k] = ParamRound(params, f[k-1])
<1>1. k \in 0..n /\ k # 0
  OBVIOUS
<1>2. f[k] = IF k = 0 THEN [offset |-> 0, caps |-> <<>>] ELSE ParamRound(params, f[k-1])
  BY <1>1, Zenon DEF Rounds
<1> QED BY <1>1, <1>2

\* The parameters with one capability each.
CapList(caps) == [k \in 1..Len(caps) |-> toBytes(caps[k])]

\* They are sequences of bytes, one for every capability.
LEMMA CapListType ==
  ASSUME NEW caps \in Seq(Capability)
  PROVE  /\ CapList(caps) \in Seq(Seq(Nat)) /\ Len(CapList(caps)) = Len(caps)
         /\ \A k \in 1..Len(caps) : caps[k] \in Capability /\ CapList(caps)[k] = toBytes(caps[k])
<1>1. \A k \in 1..Len(caps) : caps[k] \in Capability
  BY ElementOfSeq
<1>2. \A k \in 1..Len(caps) : toBytes(caps[k]) \in Seq(Nat)
  BY <1>1, CapWritten
<1> QED BY <1>1, <1>2 DEF CapList

\* After k rounds the first k capabilities have been read.
Have(f, caps, k) ==
  /\ f[k].offset = Len(Bytes(CapList(caps), 0, k)) /\ f[k].offset >= k
  /\ f[k] = [offset |-> f[k].offset, caps |-> SubSeq(caps, 1, k)]

\* Every round reads one capability, as long as there are any.
LEMMA RoundsRead ==
  ASSUME NEW caps \in Seq(Capability), NEW f,
         Rounds(f, FlattenSeq(CapList(caps)), Len(FlattenSeq(CapList(caps))))
  PROVE  \A k \in 0..Len(caps) : Have(f, caps, k) /\ k <= Len(FlattenSeq(CapList(caps)))
<1> DEFINE list == CapList(caps)
           params == FlattenSeq(list)
           G == {k \in 0..Len(caps) : Have(f, caps, k) /\ k <= Len(params)}
<1>1. /\ list \in Seq(Seq(Nat)) /\ Len(list) = Len(caps) /\ Len(caps) \in Nat
      /\ \A k \in 1..Len(caps) : caps[k] \in Capability /\ list[k] = toBytes(caps[k])
  BY CapListType
<1> HIDE DEF list
<1>2. params \in Seq(Nat) /\ Len(params) \in Nat
  BY <1>1, FlattenIsBytes
<1> HIDE DEF params
<1>3. Rounds(f, params, Len(params))
  BY DEF params, list
<1>4. f[0] = [offset |-> 0, caps |-> <<>>]
  BY <1>2, <1>3 DEF Rounds
<1>5. 0 \in G
  <2>1. Len(Bytes(list, 0, 0)) = 0 /\ SubSeq(caps, 1, 0) = <<>>
    BY BytesNone, SubSeqEmpty
  <2>2. Have(f, caps, 0)
    BY <1>4, <2>1 DEF Have, list
  <2> QED BY <1>1, <1>2, <2>2
<1>6. ASSUME NEW k \in 1..Len(caps), k-1 \in G PROVE k \in G
  <2> DEFINE o == Len(Bytes(list, 0, k-1))
             c == caps[k]
             s == SubSeq(caps, 1, k-1)
  <2>1. Have(f, caps, k-1) /\ k-1 <= Len(params) /\ k-1 \in Nat /\ k-1 < Len(list) /\ (k-1)+1 = k
    BY <1>1, <1>6
  <2>2. /\ Bytes(list, 0, k-1) \in Seq(Nat) /\ Sits(params, list[k], o)
        /\ Len(Bytes(list, 0, k)) = o + Len(list[k])
    BY <1>1, <2>1, PartSits DEF params
  <2>3. c \in Capability /\ list[k] = toBytes(c) /\ Len(toBytes(c)) >= 4 /\ Len(toBytes(c)) \in Nat
    <3>1. c \in Capability /\ list[k] = toBytes(c)
      BY <1>1
    <3> HIDE DEF c
    <3>2. Len(toBytes(c)) = 4 + Len(c.data) /\ c.data \in Seq(Nat)
      BY <3>1, CapWritten
    <3> QED BY <3>1, <3>2
  <2>4. o \in Nat /\ o >= k-1
    BY <2>1, <2>2 DEF Have, list
  <2>5. f[k-1] = [offset |-> o, caps |-> s]
    BY <2>1 DEF Have, list
  <2> HIDE DEF o, s, c
  <2>6. k \in 1..Len(params) /\ o + Len(toBytes(c)) >= k
    <3>1. o + Len(list[k]) <= Len(params)
      BY <2>2 DEF Sits
    <3> QED BY <1>2, <2>3, <2>4, <3>1
  <2>7. f[k] = ParamRound(params, f[k-1])
    BY <1>2, <1>3, <2>6, RoundsStep
  <2>8. ParamRound(params, [offset |-> o, caps |-> s])
          = [offset |-> o + Len(toBytes(c)), caps |-> Append(s, c)]
    <3>1. c \in Capability /\ o \in Nat /\ params \in Seq(Nat) /\ Sits(params, toBytes(c), o)
      BY <1>2, <2>2, <2>3, <2>4
    <3> QED BY <3>1, RoundReads
  <2>9. Append(s, c) = SubSeq(caps, 1, k)
    <3>1. 1 \in 1..Len(caps) /\ k \in 1..Len(caps)
      BY <1>1
    <3>2. SubSeq(caps, 1, k) = s \o <<c>>
      BY <3>1, SubSeqRecursiveSecond DEF s, c
    <3>3. s \in Seq(Capability)
      BY <1>1 DEF s
    <3> QED BY <2>3, <3>2, <3>3, AppendIsConcat
  <2>10. f[k] = [offset |-> o + Len(toBytes(c)), caps |-> SubSeq(caps, 1, k)]
    BY <2>5, <2>7, <2>8, <2>9
  <2>11. Have(f, caps, k)
    BY <2>2, <2>3, <2>6, <2>10 DEF Have, list
  <2> QED BY <2>6, <2>11
<1>7. \A k \in 0..Len(caps) : k \in G
  <2> HIDE DEF G
  <2> QED BY <1>1, <1>5, <1>6, UpTo
<1> QED BY <1>7 DEF params, list

\* A list of capabilities with a parameter each is read as it was written.
LEMMA CapsRead ==
  ASSUME NEW caps \in Seq(Capability), NEW open,
         OpenParams(open) = FlattenSeq(CapList(caps))
  PROVE  parse_capabilites(open) = caps
<1> DEFINE params == OpenParams(open)
           round[k \in 0..Len(params)] ==
             IF k = 0 THEN [offset |-> 0, caps |-> <<>>] ELSE ParamRound(params, round[k-1])
<1>1. params \in Seq(Nat) /\ Len(params) \in Nat
  <2>1. CapList(caps) \in Seq(Seq(Nat))
    BY CapListType
  <2> QED BY <2>1, FlattenIsBytes
<1>2. params = FlattenSeq(CapList(caps))
  OBVIOUS
<1>3. parse_capabilites(open) = round[Len(params)].caps
  BY DEF parse_capabilites
<1> HIDE DEF params
<1>4. Rounds(round, params, Len(params))
  BY <1>1, RoundsExist DEF Rounds
<1> HIDE DEF round
<1> DEFINE m == Len(caps)
           last == Len(params)
           G == {d \in 0..(last - m) : round[m + d] = round[m]}
<1>5. Have(round, caps, m) /\ m <= last /\ m \in Nat
  <2>1. m \in 0..Len(caps)
    OBVIOUS
  <2> QED BY <1>2, <1>4, <2>1, RoundsRead
<1>6. round[m].offset = last /\ round[m].caps = caps
  <2>1. SubSeq(caps, 1, Len(caps)) = caps
    BY SubSeqFull
  <2>2. Len(Bytes(CapList(caps), 0, m)) = last
    <3>1. CapList(caps) \in Seq(Seq(Nat)) /\ Len(CapList(caps)) = m
      BY CapListType
    <3> QED BY <1>2, <3>1, FlattenIsBytes
  <2>3. round[m] = [offset |-> last, caps |-> caps]
    BY <1>5, <2>1, <2>2 DEF Have
  <2> QED BY <2>3
<1>7. last - m \in Nat /\ 0 \in 0..(last - m)
  BY <1>1, <1>5
<1>8. 0 \in G
  BY <1>5, <1>7
<1>9. ASSUME NEW d \in 1..(last - m), d-1 \in G PROVE d \in G
  <2>1. round[m + (d-1)] = round[m] /\ m + d \in 1..last /\ (m + d) - 1 = m + (d-1)
    BY <1>1, <1>5, <1>9
  <2>2. round[m + d] = ParamRound(params, round[m + (d-1)])
    <3>1. round[m + d] = ParamRound(params, round[(m + d) - 1])
      BY <1>1, <1>4, <2>1, RoundsStep
    <3> QED BY <2>1, <3>1
  <2>3. ParamRound(params, round[m]) = round[m]
    BY <1>1, <1>6 DEF ParamRound
  <2> QED BY <2>1, <2>2, <2>3
<1>10. last - m \in G
  <2> HIDE DEF G
  <2>1. \A d \in 0..(last - m) : d \in G
    BY <1>7, <1>8, <1>9, UpTo
  <2> QED BY <1>7, <2>1
<1>11. round[last] = round[m]
  <2>1. m + (last - m) = last
    BY <1>1, <1>5
  <2> QED BY <1>10, <2>1
<1> QED BY <1>3, <1>6, <1>11

\* Bytes are numbers.
LEMMA BytesAreNumbers ==
  ASSUME NEW s \in Seq(Byte)
  PROVE  s \in Seq(Nat)
<1>1. Byte \subseteq Nat
  BY DEF Byte
<1> HIDE DEF Byte
<1>2. Len(s) \in Nat /\ DOMAIN s = 1..Len(s) /\ s = [i \in 1..Len(s) |-> s[i]]
  OBVIOUS
<1>3. \A i \in 1..Len(s) : s[i] \in Nat
  BY <1>1, ElementOfSeq
<1> QED BY <1>2, <1>3

\* The fields of an OPEN, one after the other.
Fields(a, t, r, p) ==
  Then(Then(Then(Then(Then(<<4>>, a), t), r), <<Len(p)>>), p)

\* The parameters have their length before them, in the tenth byte.
LEMMA FieldsCut ==
  ASSUME NEW a \in Seq(Nat), NEW t \in Seq(Nat), NEW r \in Seq(Nat), NEW p \in Seq(Nat),
         Len(a) = 2, Len(t) = 2, Len(r) = 4
  PROVE  OpenParams(Fields(a, t, r, p)) = p
<1> DEFINE l  == <<Len(p)>>
           h0 == <<4>>
           h1 == Then(h0, a)
           h2 == Then(h1, t)
           h3 == Then(h2, r)
           h4 == Then(h3, l)
           x  == Then(h4, p)
<1>1. h0 \in Seq(Nat) /\ Len(h0) = 1
  OBVIOUS
<1>2. l \in Seq(Nat) /\ Len(l) = 1 /\ l[1] = Len(p)
  OBVIOUS
<1> HIDE DEF h0, l
<1>3. h1 \in Seq(Nat) /\ Len(h1) = Len(h0) + Len(a)
  BY <1>1, ThenSits
<1> HIDE DEF h1
<1>4. h2 \in Seq(Nat) /\ Len(h2) = Len(h1) + Len(t)
  BY <1>3, ThenSits
<1> HIDE DEF h2
<1>5. h3 \in Seq(Nat) /\ Len(h3) = Len(h2) + Len(r)
  BY <1>4, ThenSits
<1> HIDE DEF h3
<1>6. /\ h4 \in Seq(Nat) /\ Len(h4) = Len(h3) + Len(l)
      /\ Sits(h4, h3, 0) /\ Sits(h4, l, Len(h3))
  BY <1>2, <1>5, ThenSits
<1> HIDE DEF h4
<1>7. x \in Seq(Nat) /\ Sits(x, h4, 0) /\ Sits(x, p, Len(h4))
  BY <1>6, ThenSits
<1> HIDE DEF x
<1>8. Len(h3) = 9 /\ Len(h4) = 10
  BY <1>1, <1>2, <1>3, <1>4, <1>5, <1>6
<1>9. x[10] = Len(p)
  <2>1. 10 \in 1..Len(h4) /\ 1 \in 1..Len(l) /\ 0 + 10 = 10 /\ 9 + 1 = 10
    BY <1>2, <1>8
  <2>2. x[0 + 10] = h4[10] /\ h4[9 + 1] = l[1]
    BY <1>6, <1>7, <1>8, <2>1, SitsAt
  <2> QED BY <1>2, <2>1, <2>2
<1>10. SubSeq(x, 10 + 1, 10 + Len(p)) = p
  <2>1. 10 \in Nat
    OBVIOUS
  <2> QED BY <1>7, <1>8, <2>1, SitsCut
<1>11. OpenParams(x) = p
  <2>1. 10 + 1 = 11
    OBVIOUS
  <2> QED BY <1>9, <1>10, <2>1 DEF OpenParams
<1>12. x = Fields(a, t, r, p)
  BY Zenon DEF Fields, x, h4, h3, h2, h1, h0, l
<1> QED BY <1>11, <1>12

\* An OPEN has its parameters where its receiver looks for them.
LEMMA ParamsBack ==
  ASSUME NEW own \in Nat, NEW hold \in Nat, NEW params \in Seq(Nat)
  PROVE  OpenParams(OpenWith(own, hold, LocalAddress, params)) = params
<1> DEFINE v == own % 65536
<1>1. v \in Nat /\ OpenWith(own, hold, LocalAddress, params)
                         = Fields(Be16(v), Be16(hold), LocalAddress, params)
  BY SMT DEF OpenWith, Fields, Then
<1> HIDE DEF v
<1>2. /\ Be16(v) \in Seq(Nat) /\ Len(Be16(v)) = 2
      /\ Be16(hold) \in Seq(Nat) /\ Len(Be16(hold)) = 2
  BY <1>1, TwoBytes, BytesAreNumbers
<1>3. LocalAddress \in Seq(Nat) /\ Len(LocalAddress) = 4
  BY AddressAssumption, BytesAreNumbers
<1> QED BY <1>1, <1>2, <1>3, FieldsCut

\* What tx_open writes with a parameter for each capability is read again.
LEMMA OpenRead ==
  ASSUME NEW own \in Nat, NEW hold \in Nat, NEW caps \in Seq(Capability)
  PROVE  parse_capabilites(tx_open(own, hold, LocalAddress, caps)) = caps
<1> DEFINE params == FlattenSeq(CapList(caps))
<1>1. params \in Seq(Nat)
  <2>1. CapList(caps) \in Seq(Seq(Nat))
    BY CapListType
  <2> QED BY <2>1, FlattenIsBytes
<1>2. tx_open(own, hold, LocalAddress, caps) = OpenWith(own, hold, LocalAddress, params)
  BY Zenon DEF tx_open, CapList
<1>3. OpenParams(tx_open(own, hold, LocalAddress, caps)) = params
  BY <1>1, <1>2, ParamsBack
<1> QED BY <1>3, CapsRead

\* Four bytes of a number.
LEMMA FourBytes ==
  ASSUME NEW v \in Nat
  PROVE  Be32(v) \in Seq(Byte) /\ Len(Be32(v)) = 4
<1> DEFINE high == v \div 65536
           low  == v % 65536
<1>1. high \in Nat /\ low \in Nat /\ Be32(v) = Then(Be16(high), Be16(low))
  BY SMT DEF Be32, Then
<1> HIDE DEF high, low
<1>2. /\ Be16(high) \in Seq(Byte) /\ Len(Be16(high)) = 2
      /\ Be16(low) \in Seq(Byte) /\ Len(Be16(low)) = 2
  BY <1>1, TwoBytes
<1>3. /\ Then(Be16(high), Be16(low)) \in Seq(Byte)
      /\ Len(Then(Be16(high), Be16(low))) = Len(Be16(high)) + Len(Be16(low))
  BY <1>2, ThenSits
<1> QED BY <1>1, <1>2, <1>3

\* A capability with bytes is a capability.
LEMMA CapType ==
  ASSUME NEW code \in Nat, NEW data \in Seq(Nat)
  PROVE  Cap(code, data) \in Capability /\ Cap(code, data).code = code
BY DEF Cap, Capability

\* The capabilities every OPEN of the model begins with.
LEMMA FirstCaps ==
  /\ Cap(BGP_CAP_CODE.MPBGP, Be16(1) \o <<0, 1>>) \in Capability
  /\ Cap(BGP_CAP_CODE.ROUTE_REFRESH, <<>>) \in Capability
  /\ BGP_CAP_CODE.MPBGP = 1 /\ BGP_CAP_CODE.ROUTE_REFRESH = 2
  /\ BGP_CAP_CODE.FOUR_OCT_AS = 65 /\ BGP_CAP_CODE.FQDN = 73
<1>1. /\ BGP_CAP_CODE.MPBGP = 1 /\ BGP_CAP_CODE.ROUTE_REFRESH = 2
      /\ BGP_CAP_CODE.FOUR_OCT_AS = 65 /\ BGP_CAP_CODE.FQDN = 73
  BY DEF BGP_CAP_CODE
<1>2. Be16(1) \o <<0, 1>> \in Seq(Nat)
  BY DEF Be16
<1>3. <<>> \in Seq(Nat) /\ 1 \in Nat /\ 2 \in Nat
  OBVIOUS
<1> QED BY <1>1, <1>2, <1>3, CapType

\* A number of four bytes is made of numbers.
LEMMA AsData ==
  ASSUME NEW v \in Nat
  PROVE  Cap(BGP_CAP_CODE.FOUR_OCT_AS, Be32(v)) \in Capability
<1>1. Be32(v) \in Seq(Nat)
  BY FourBytes, BytesAreNumbers
<1>2. BGP_CAP_CODE.FOUR_OCT_AS \in Nat
  BY FirstCaps
<1> QED BY <1>1, <1>2, CapType

\* Ours are capabilities, whatever the AS and the names.
LEMMA OwnCapsType ==
  ASSUME NEW own \in Nat, NEW host \in Seq(Nat), NEW domain \in Seq(Nat)
  PROVE  OwnCaps(own, host, domain) \in Seq(Capability)
<1> DEFINE a == Cap(BGP_CAP_CODE.MPBGP, Be16(1) \o <<0, 1>>)
           b == Cap(BGP_CAP_CODE.ROUTE_REFRESH, <<>>)
           c == Cap(BGP_CAP_CODE.FOUR_OCT_AS, Be32(own))
           names == <<Len(host)>> \o host \o <<Len(domain)>> \o domain
           d == Cap(BGP_CAP_CODE.FQDN, names)
<1>1. a \in Capability /\ b \in Capability /\ c \in Capability
  BY FirstCaps, AsData
<1>2. d \in Capability
  <2>1. names \in Seq(Nat)
    OBVIOUS
  <2>2. BGP_CAP_CODE.FQDN \in Nat
    BY FirstCaps
  <2> HIDE DEF names
  <2> QED BY <2>1, <2>2, CapType
<1>3. OwnCaps(own, host, domain) = <<a, b, c, d>>
  BY Zenon DEF OwnCaps
<1> HIDE DEF a, b, c, d
<1> QED BY <1>1, <1>2, <1>3

\* Those of a neighbour are, and one of them is there for wide AS numbers only.
LEMMA NeighbourCapsType ==
  ASSUME session \in Sessions, NEW n \in Neighbour
  PROVE  /\ NeighbourCaps(n) \in Seq(Capability)
         /\ (\E i \in 1..Len(NeighbourCaps(n)) :
               NeighbourCaps(n)[i].code = BGP_CAP_CODE.FOUR_OCT_AS) <=> session[n].wide
         /\ session[n].as \in Nat /\ session[n].wide \in BOOLEAN
<1> DEFINE a == Cap(BGP_CAP_CODE.MPBGP, Be16(1) \o <<0, 1>>)
           b == Cap(BGP_CAP_CODE.ROUTE_REFRESH, <<>>)
           c == Cap(BGP_CAP_CODE.FOUR_OCT_AS, Be32(session[n].as))
           code == BGP_CAP_CODE.FOUR_OCT_AS
<1>1. session[n].as \in Nat /\ session[n].wide \in BOOLEAN
  BY SessionAssumption
<1>2. a \in Capability /\ b \in Capability /\ c \in Capability
  BY <1>1, FirstCaps, AsData
<1>3. a.code # code /\ b.code # code /\ c.code = code
  <2>1. a.code = BGP_CAP_CODE.MPBGP /\ b.code = BGP_CAP_CODE.ROUTE_REFRESH /\ c.code = code
    BY Zenon DEF Cap
  <2> HIDE DEF a, b, c
  <2> QED BY <2>1, FirstCaps
<1>4. NeighbourCaps(n) = <<a, b>> \o (IF session[n].wide THEN <<c>> ELSE <<>>)
  BY Zenon DEF NeighbourCaps
<1> HIDE DEF a, b, c, code
<1>5. CASE session[n].wide
  <2> DEFINE two  == <<a, b>>
             one  == <<c>>
             caps == Then(two, one)
  <2>1. NeighbourCaps(n) = caps
    BY <1>4, <1>5, Zenon DEF Then
  <2>2. two \in Seq(Capability) /\ Len(two) = 2 /\ one \in Seq(Capability) /\ Len(one) = 1 /\ one[1] = c
    BY <1>2
  <2> HIDE DEF two, one
  <2>3. caps \in Seq(Capability) /\ Joined(caps, two, one)
    BY <2>2, ThenJoins
  <2> HIDE DEF caps
  <2>4. 3 \in 1..Len(caps) /\ caps[2 + 1] = c
    BY <2>2, <2>3 DEF Joined
  <2> QED BY <1>1, <1>3, <1>5, <2>1, <2>3, <2>4 DEF code
<1>6. CASE ~session[n].wide
  <2> DEFINE caps == <<a, b>>
  <2>1. NeighbourCaps(n) = caps
    <3>1. <<a, b>> \o <<>> = <<a, b>>
      OBVIOUS
    <3> QED BY <1>4, <1>6, <3>1, Zenon
  <2>2. caps \in Seq(Capability) /\ \A i \in 1..Len(caps) : caps[i].code # code
    BY <1>2, <1>3
  <2> HIDE DEF caps
  <2> QED BY <1>1, <1>6, <2>1, <2>2 DEF code
<1> QED BY <1>1, <1>5, <1>6

ConfigInv ==
  /\ my_as \in OwnAs /\ session \in Sessions
  /\ \A n \in Neighbour : Configured(session[n].as)

\* The configuration is read once.
THEOREM ConfigKept == Spec => []ConfigInv
<1>1. Init => ConfigInv
  BY DEF Init, ConfigInv
<1>2. ConfigInv /\ [Next]_vars => ConfigInv'
  <2>1. [Next]_vars => UNCHANGED config
    <3>1. UNCHANGED vars => UNCHANGED config
      BY DEF vars, relay
    <3>2. Parse => UNCHANGED config
      BY DEF Parse, relay
    <3>3. RxUpdate => UNCHANGED config
      BY DEF RxUpdate
    <3>4. \A n \in Neighbour : TxUpdate(n) \/ ComesBack(n) => UNCHANGED config
      BY DEF TxUpdate, ComesBack
    <3> QED BY <3>1, <3>2, <3>3, <3>4 DEF Next
  <2> QED BY <2>1 DEF ConfigInv, config
<1> QED BY <1>1, <1>2, PTL DEF Spec

\* The OPEN of a neighbour with a parameter for each capability, and our own,
\* are read as they were written, for all AS numbers and all configurations;
\* a session has four-byte AS numbers just when the neighbour announces them
\* (parse_capabilites; rx_open).
THEOREM CapabilitiesFound == Spec => []CapabilitiesRead
<1>1. ConfigInv => CapabilitiesRead
  <2> SUFFICES ASSUME ConfigInv PROVE CapabilitiesRead
    OBVIOUS
  <2>1. session \in Sessions /\ my_as \in Nat
    BY OwnAsAssumption DEF ConfigInv
  <2>2. ASSUME NEW n \in Neighbour, ~session[n].packed
        PROVE  /\ parse_capabilites(OpenOf(n)) = NeighbourCaps(n)
               /\ FourByteAsn(OpenOf(n)) = session[n].wide
    <3>1. /\ NeighbourCaps(n) \in Seq(Capability)
          /\ session[n].as \in Nat /\ session[n].wide \in BOOLEAN
          /\ (\E i \in 1..Len(NeighbourCaps(n)) :
               NeighbourCaps(n)[i].code = BGP_CAP_CODE.FOUR_OCT_AS) <=> session[n].wide
      BY <2>1, NeighbourCapsType
    <3>2. OpenOf(n) = tx_open(session[n].as, 90, LocalAddress, NeighbourCaps(n))
      BY <2>2, Zenon DEF OpenOf
    <3>3. parse_capabilites(OpenOf(n)) = NeighbourCaps(n)
      <4>1. 90 \in Nat
        OBVIOUS
      <4> QED BY <3>1, <3>2, <4>1, OpenRead
    <3>4. FourByteAsn(OpenOf(n)) <=> session[n].wide
      BY <3>1, <3>3, Zenon DEF FourByteAsn
    <3>5. FourByteAsn(OpenOf(n)) \in BOOLEAN
      BY WidthType
    <3> QED BY <3>1, <3>3, <3>4, <3>5
  <2>3. LET caps == OwnCaps(my_as, <<1, 2>>, <<3>>)
        IN parse_capabilites(tx_open(my_as, 90, LocalAddress, caps)) = caps
    <3>1. 90 \in Nat /\ <<1, 2>> \in Seq(Nat) /\ <<3>> \in Seq(Nat)
      OBVIOUS
    <3>2. OwnCaps(my_as, <<1, 2>>, <<3>>) \in Seq(Capability)
      BY <2>1, <3>1, OwnCapsType
    <3> QED BY <2>1, <3>1, <3>2, OpenRead
  <2> QED BY <2>2, <2>3 DEF CapabilitiesRead
<1> QED BY <1>1, ConfigKept, PTL

-----------------------------------------------------------------------------
\* The policy files.

\* A prefix that is written and read again is the same.
LEMMA PrefixBack ==
  ASSUME NEW text, IsText(text), ~PrefixThrows(text)
  PROVE  LET p == ParsePrefix(text)
         IN ParsePrefix(PrefixText(p)) = p /\ ~PrefixThrows(PrefixText(p))
<1> DEFINE bits == text.bits % 256
           n == BytesOf(bits)
           d == SubSeq(text.address, 1, n)
           zeros == [i \in 1..(4 - Len(d)) |-> 0]
           p == ParsePrefix(text)
           back == PrefixText(p)
<1>1. text.address \in Seq(Byte) /\ Len(text.address) = 4 /\ text.bits \in Nat
  BY DEF IsText
<1>2. bits \in Nat /\ bits % 256 = bits
  BY <1>1
<1>3. p = [nlri_len |-> bits, data |-> d] /\ n <= 4 /\ n \in Nat
  <2>1. ~(n > 4)
    BY DEF PrefixThrows
  <2>2. n \in Nat
    BY <1>2 DEF BytesOf
  <2> QED BY <2>1, <2>2 DEF ParsePrefix
<1> HIDE DEF bits, n, p
<1>4. d \in Seq(Byte) /\ Len(d) = n
  BY <1>1, <1>3
<1> HIDE DEF d
<1>5. zeros \in Seq(Nat) /\ d \in Seq(Nat)
  BY <1>3, <1>4, BytesAreNumbers
<1>6. back = [address |-> Then(d, zeros), bits |-> bits]
  BY <1>3, Zenon DEF PrefixText, Then
<1> HIDE DEF zeros, back
<1>7. SubSeq(Then(d, zeros), 1, n) = d
  <2>1. Then(d, zeros) \in Seq(Nat) /\ Sits(Then(d, zeros), d, 0)
    BY <1>5, ThenSits
  <2>2. SubSeq(Then(d, zeros), 0 + 1, 0 + Len(d)) = d
    BY <1>5, <2>1, SitsCut
  <2>3. 0 + 1 = 1 /\ 0 + Len(d) = n
    BY <1>3, <1>4
  <2> QED BY <2>2, <2>3
<1>8. back.address = Then(d, zeros) /\ back.bits = bits
  BY <1>6
<1>9. ParsePrefix(back) = p
  BY <1>2, <1>3, <1>7, <1>8 DEF ParsePrefix, n
<1>10. ~PrefixThrows(back)
  BY <1>2, <1>3, <1>8 DEF PrefixThrows, n
<1> QED BY <1>9, <1>10 DEF back, p

\* The nodes that do not make the constructor go on without a policy.
ReadableNode(node) ==
  /\ "action" \in DOMAIN node
  /\ "match_prefix_v4" \in DOMAIN node => ~PrefixThrows(node["match_prefix_v4"])

\* An entry that came from a file, with one of the three actions, goes into a file and comes back.
LEMMA EntryBack ==
  ASSUME NEW node, NEW junk, NEW other, IsNode(node), ReadableNode(node),
         DecodeEntry(node, junk)["action"] \in Action
  PROVE  /\ DecodeEntry(EncodeEntry(DecodeEntry(node, junk)), other) = DecodeEntry(node, junk)
         /\ ReadableNode(EncodeEntry(DecodeEntry(node, junk)))
<1> DEFINE e == DecodeEntry(node, junk)
           f == EncodeEntry(e)
           g == DecodeEntry(f, other)
           text == node["match_prefix_v4"]
<1>1. DOMAIN e = Key /\ DOMAIN g = Key
  BY DEF DecodeEntry
<1>2. DOMAIN f = {k \in Optional : e[k] # None} \cup {"action"}
  BY DEF EncodeEntry
<1>3. "action" \notin Optional /\ Key = Optional \cup {"action"} /\ "match_prefix_v4" \in Optional
  BY DEF Optional, Key
<1>4. \A k \in Optional : k \notin DOMAIN node => e[k] = None
  BY <1>3 DEF DecodeEntry
<1>5. "match_prefix_v4" \in DOMAIN node => e["match_prefix_v4"] = ParsePrefix(text)
  BY <1>3 DEF DecodeEntry
<1> HIDE DEF e
<1>6. /\ f["action"] = EncodeAction(e["action"])
      /\ "match_prefix_v4" \in DOMAIN f => f["match_prefix_v4"] = PrefixText(e["match_prefix_v4"])
      /\ \A k \in Optional \ {"match_prefix_v4"} : k \in DOMAIN f => f[k] = e[k]
  BY <1>2, <1>3 DEF EncodeEntry
<1> HIDE DEF f
<1>7. e["action"] \in Action
  BY DEF e
<1>8. "match_prefix_v4" \in DOMAIN f =>
        /\ ParsePrefix(f["match_prefix_v4"]) = e["match_prefix_v4"]
        /\ ~PrefixThrows(f["match_prefix_v4"])
  <2> SUFFICES ASSUME "match_prefix_v4" \in DOMAIN f
               PROVE  /\ ParsePrefix(f["match_prefix_v4"]) = e["match_prefix_v4"]
                      /\ ~PrefixThrows(f["match_prefix_v4"])
    OBVIOUS
  <2>1. "match_prefix_v4" \in DOMAIN node
    BY <1>2, <1>3, <1>4
  <2>2. IsText(text) /\ ~PrefixThrows(text)
    BY <2>1 DEF IsNode, ReadableNode
  <2>3. f["match_prefix_v4"] = PrefixText(ParsePrefix(text)) /\ e["match_prefix_v4"] = ParsePrefix(text)
    BY <1>5, <1>6, <2>1
  <2> HIDE DEF text
  <2> QED BY <2>2, <2>3, PrefixBack
<1>9. ASSUME NEW k \in Key PROVE g[k] = e[k]
  <2>1. CASE k = "action"
    <3>1. g["action"] = DecodeAction(f["action"], other)
      BY <1>2, <1>3 DEF DecodeEntry
    <3> QED BY <1>6, <1>7, <2>1, <3>1 DEF EncodeAction, DecodeAction
  <2>2. CASE k # "action" /\ e[k] = None
    <3>1. k \notin DOMAIN f
      BY <1>2, <2>2
    <3> QED BY <2>2, <3>1 DEF DecodeEntry
  <2>3. CASE k = "match_prefix_v4" /\ e[k] # None
    <3>1. k \in DOMAIN f
      BY <1>2, <1>3, <2>3
    <3>2. g["match_prefix_v4"] = ParsePrefix(f["match_prefix_v4"])
      BY <1>3, <2>3, <3>1 DEF DecodeEntry
    <3> QED BY <1>8, <2>3, <3>1, <3>2
  <2>4. CASE k \notin {"action", "match_prefix_v4"} /\ e[k] # None
    <3>1. k \in DOMAIN f /\ k \in Optional
      BY <1>2, <1>3, <2>4
    <3>2. g[k] = f[k]
      BY <2>4, <3>1 DEF DecodeEntry
    <3> QED BY <1>6, <2>4, <3>1, <3>2
  <2> QED BY <2>1, <2>2, <2>3, <2>4
<1>10. g = e
  <2>1. g = [k \in Key |-> g[k]] /\ e = [k \in Key |-> e[k]]
    BY DEF DecodeEntry, e
  <2> HIDE DEF g
  <2>2. [k \in Key |-> g[k]] = [k \in Key |-> e[k]]
    BY <1>9
  <2> QED BY <2>1, <2>2, Zenon
<1>11. ReadableNode(f)
  BY <1>2, <1>8 DEF ReadableNode
<1> QED BY <1>10, <1>11 DEF e, f

\* A file with one node that may be read has just the entry of that node.
LEMMA OneEntry ==
  ASSUME NEW node, NEW e, ReadableNode(node), \A junk : DecodeEntry(node, junk) = e
  PROVE  ReadPolicy([k \in {"entries"} |-> <<node>>]) = {<<e>>}
<1> DEFINE file == [k \in {"entries"} |-> <<node>>]
           nodes == file["entries"]
           n == Len(nodes)
           J == [1..n -> Action \cup {"other"}]
<1>1. nodes = <<node>> /\ "entries" \in DOMAIN file /\ n = 1 /\ nodes[1] = node
  OBVIOUS
<1>2. Readable(file)
  <2> HIDE DEF file
  <2> QED BY <1>1 DEF Readable, ReadableNode
<1>3. ReadPolicy(file) = {[i \in 1..n |-> DecodeEntry(nodes[i], junk[i])] : junk \in J}
  <2> HIDE DEF file
  <2> QED BY <1>2, Zenon DEF ReadPolicy
<1> HIDE DEF nodes, n
<1>4. ASSUME NEW junk PROVE [i \in 1..n |-> DecodeEntry(nodes[i], junk[i])] = <<e>>
  <2>1. \A i \in 1..n : DecodeEntry(nodes[i], junk[i]) = e
    BY <1>1
  <2>2. [i \in 1..n |-> DecodeEntry(nodes[i], junk[i])] = [i \in 1..n |-> e]
    BY <2>1, Zenon
  <2>3. [i \in 1..n |-> e] = <<e>>
    BY <1>1
  <2> QED BY <2>2, <2>3
<1>5. J # {}
  <2>1. [i \in 1..n |-> "other"] \in J
    OBVIOUS
  <2> QED BY <2>1
<1> HIDE DEF file, J
<1>6. ReadPolicy(file) = {<<e>>}
  BY <1>3, <1>4, <1>5, Zenon
<1> QED BY <1>6 DEF file

\* What can be said of an entry of a policy in use: it has been read from a node that could be.
IsEntry(e) ==
  \E node : /\ IsNode(node) /\ ReadableNode(node)
            /\ \E junk \in Action \cup {"other"} : e = DecodeEntry(node, junk)
IsPolicy(policy) ==
  /\ Len(policy) \in Nat
  /\ \A i \in 1..Len(policy) : IsEntry(policy[i])

\* A policy file that is read is a list of such entries.
LEMMA PolicyRead ==
  ASSUME NEW r \in Originated, NEW policy \in LoadPolicy(r.policy), policy # None
  PROVE  IsPolicy(policy)
<1> DEFINE file == r.policy
           nodes == file["entries"]
           n == Len(nodes)
           J == [1..n -> Action \cup {"other"}]
<1>1. file # None /\ policy \in ReadPolicy(file)
  BY DEF LoadPolicy
<1>2. CASE Readable(file)
  <2>1. "entries" \in DOMAIN file /\ \A i \in 1..n : ReadableNode(nodes[i])
    BY <1>2, Zenon DEF Readable, ReadableNode
  <2>2. n \in Nat /\ \A i \in 1..n : IsNode(nodes[i])
    BY <1>1, <2>1, OriginatedAssumption, Zenon
  <2>3. PICK junk \in J : policy = [i \in 1..n |-> DecodeEntry(nodes[i], junk[i])]
    BY <1>1, <1>2, Zenon DEF ReadPolicy
  <2> HIDE DEF nodes, n, file
  <2>4. ASSUME NEW i \in 1..n PROVE IsEntry(policy[i])
    <3>1. policy[i] = DecodeEntry(nodes[i], junk[i]) /\ junk[i] \in Action \cup {"other"}
      BY <2>3
    <3> QED BY <2>1, <2>2, <3>1 DEF IsEntry
  <2>5. Len(policy) = n
    <3>1. policy \in Seq({policy[i] : i \in 1..n}) /\ DOMAIN policy = 1..n
      BY <2>2, <2>3
    <3> QED BY <2>2, <3>1
  <2> QED BY <2>2, <2>4, <2>5 DEF IsPolicy
<1>3. CASE ~Readable(file)
  <2>1. policy = <<>>
    BY <1>1, <1>3 DEF ReadPolicy
  <2> QED BY <2>1 DEF IsPolicy
<1> QED BY <1>2, <1>3

-----------------------------------------------------------------------------
\* The routes the speaker originates.

OriginInv ==
  origin # None =>
    /\ stage # "received"
    /\ \E r \in Originated, flags \in JunkFlags, w \in JunkWidth :
         \E policy \in LoadPolicy(r.policy) :
           /\ origin = [prefix |-> ParsePrefix(r.prefix), policy |-> policy]
           /\ stored = Originate(origin.prefix, policy, flags, w)

\* What is stored of a configured route is what its policy has made of it, until
\* the route comes back from a neighbour.
THEOREM OriginKept == Spec => []OriginInv
<1>1. Init => OriginInv
  <2>1. InitNeighbour => OriginInv
    BY DEF InitNeighbour, OriginInv
  <2>2. InitOriginate => OriginInv
    <3> SUFFICES ASSUME InitOriginate PROVE OriginInv
      OBVIOUS
    <3>1. stage # "received"
      BY DEF InitOriginate
    <3> QED BY <3>1 DEF InitOriginate, OriginInv
  <2> QED BY <2>1, <2>2 DEF Init
<1>2. OriginInv /\ [Next]_vars => OriginInv'
  <2> SUFFICES ASSUME OriginInv, [Next]_vars PROVE OriginInv'
    OBVIOUS
  <2>1. CASE UNCHANGED <<origin, stored, stage>>
    BY <2>1 DEF OriginInv
  <2>2. CASE Parse
    BY <2>1, <2>2 DEF Parse, relay
  <2>3. CASE RxUpdate
    BY <2>3 DEF RxUpdate, OriginInv
  <2>4. ASSUME NEW n \in Neighbour, TxUpdate(n) PROVE OriginInv'
    <3>1. origin' = origin /\ stored' = stored /\ stage' # "received"
      BY <2>4 DEF TxUpdate
    <3> QED BY <3>1 DEF OriginInv
  <2>5. ASSUME NEW n \in Neighbour, ComesBack(n) PROVE OriginInv'
    BY <2>5 DEF ComesBack, OriginInv
  <2>6. CASE UNCHANGED vars
    BY <2>1, <2>6 DEF vars, relay
  <2> QED BY <2>2, <2>3, <2>4, <2>5, <2>6 DEF Next
<1> QED BY <1>1, <1>2, PTL DEF Spec

\* Every entry that has been read from a file, with one of the three actions,
\* is written to a file such that it is read the same, whatever its prefix and
\* its other keys (the conversions of yaml.cpp).
THEOREM PolicyComesBack == Spec => []PolicyRoundTrips
<1>1. OriginInv => PolicyRoundTrips
  <2> SUFFICES ASSUME OriginInv, origin # None, Entries # None,
                      NEW i \in 1..Len(Entries), Entries[i].action \in Action
               PROVE  ReadPolicy([k \in {"entries"} |-> <<EncodeEntry(Entries[i])>>]) = {<<Entries[i]>>}
    BY DEF PolicyRoundTrips
  <2>1. PICK r \in Originated : Entries \in LoadPolicy(r.policy)
    BY DEF OriginInv, Entries
  <2>2. IsEntry(Entries[i])
    BY <2>1, PolicyRead DEF IsPolicy
  <2>3. PICK e : e = Entries[i]
    OBVIOUS
  <2>4. PICK node, junk : IsNode(node) /\ ReadableNode(node) /\ e = DecodeEntry(node, junk)
    BY <2>2, <2>3 DEF IsEntry
  <2>5. e["action"] \in Action
    BY <2>3
  <2>6. ReadableNode(EncodeEntry(e)) /\ \A other : DecodeEntry(EncodeEntry(e), other) = e
    BY <2>4, <2>5, EntryBack
  <2> QED BY <2>3, <2>6, OneEntry
<1> QED BY <1>1, OriginKept, PTL

-----------------------------------------------------------------------------
\* The decision of a policy.

\* The keys of an entry that the decision may look at have values of their types.
LEMMA EntryKeys ==
  ASSUME NEW e, IsEntry(e)
  PROVE  /\ e.set_localpref # None => e.set_localpref \in Nat
         /\ e.set_nexthop # None => e.set_nexthop \in Seq(Byte)
<1>1. PICK node, junk : IsNode(node) /\ e = DecodeEntry(node, junk)
  BY DEF IsEntry
<1>2. ASSUME NEW k \in {"set_localpref", "set_nexthop"}
      PROVE  e[k] # None => k \in DOMAIN node /\ e[k] = node[k]
  <2>1. k \in Key /\ k # "action" /\ k # "match_prefix_v4"
    BY DEF Key, Optional
  <2> QED BY <1>1, <2>1 DEF DecodeEntry
<1>3. /\ e["set_localpref"] # None => e["set_localpref"] \in Nat
      /\ e["set_nexthop"] # None => e["set_nexthop"] \in Seq(Byte)
  BY <1>1, <1>2 DEF IsNode
<1> QED BY <1>3

\* The route on its way through a policy: three attributes, the second of
\* which no condition looks at, and none of them an AS_PATH.
Three(attrs) ==
  /\ attrs \in Seq(path_attr_t) /\ Len(attrs) = 3 /\ attrs[2].type = PATH_ATTRIBUTE.ORIGIN
  /\ \A i \in 1..3 : attrs[i].type # PATH_ATTRIBUTE.AS_PATH
IsRun(run) ==
  /\ run = [attrs |-> run.attrs, verdict |-> run.verdict]
  /\ Three(run.attrs) /\ run.verdict \in {"accept", "drop", "none"}

\* The types of attributes that the code tells apart.
LEMMA Types ==
  /\ PATH_ATTRIBUTE.ORIGIN = 1 /\ PATH_ATTRIBUTE.NEXT_HOP = 3 /\ PATH_ATTRIBUTE.LOCAL_PREF = 5
  /\ PATH_ATTRIBUTE.AS_PATH = 2
  /\ \A v \in {1, 3, 5} : v \in Byte
BY DEF PATH_ATTRIBUTE, Byte

\* What an entry sets is an attribute and no AS_PATH, and an ORIGIN stays what it is.
LEMMA ChangedType ==
  ASSUME NEW e, IsEntry(e), NEW a \in path_attr_t
  PROVE  /\ Changed(e, a) \in path_attr_t
         /\ a.type = PATH_ATTRIBUTE.ORIGIN => Changed(e, a) = a
         /\ a.type # PATH_ATTRIBUTE.AS_PATH => Changed(e, a).type # PATH_ATTRIBUTE.AS_PATH
<1>1. CASE a.type = PATH_ATTRIBUTE.LOCAL_PREF /\ e.set_localpref # None
  <2>1. Changed(e, a) = make_local_pref(a, e.set_localpref)
    BY <1>1, Types DEF Changed
  <2>2. Be32(e.set_localpref) \in Seq(Byte)
    BY <1>1, EntryKeys, FourBytes
  <2>3. /\ make_local_pref(a, e.set_localpref) \in path_attr_t
        /\ make_local_pref(a, e.set_localpref).type = PATH_ATTRIBUTE.LOCAL_PREF
    BY <2>2, Types DEF make_local_pref, path_attr_t
  <2> QED BY <1>1, <2>1, <2>3, Types
<1>2. CASE a.type = PATH_ATTRIBUTE.NEXT_HOP /\ e.set_nexthop # None
  <2>1. Changed(e, a) = make_nexthop(a, e.set_nexthop)
    BY <1>2, Types DEF Changed
  <2>2. e.set_nexthop \in Seq(Byte)
    BY <1>2, EntryKeys
  <2>3. /\ make_nexthop(a, e.set_nexthop) \in path_attr_t
        /\ make_nexthop(a, e.set_nexthop).type = PATH_ATTRIBUTE.NEXT_HOP
    BY <2>2, Types DEF make_nexthop, path_attr_t
  <2> QED BY <1>2, <2>1, <2>3, Types
<1>3. CASE /\ ~(a.type = PATH_ATTRIBUTE.LOCAL_PREF /\ e.set_localpref # None)
           /\ ~(a.type = PATH_ATTRIBUTE.NEXT_HOP /\ e.set_nexthop # None)
  BY <1>3 DEF Changed
<1> QED BY <1>1, <1>2, <1>3

\* An attribute leaves a decision as it is, and leaves none or the entry's own
\* where there was none; the ORIGIN always leaves the entry's own.
LEMMA AttributeDecides ==
  ASSUME NEW e, IsEntry(e), NEW run, IsRun(run), NEW i \in 1..3
  PROVE  LET next == ApplyToAttribute(run, e, i)
         IN /\ IsRun(next)
            /\ run.verdict # "none" => next.verdict = run.verdict
            /\ run.verdict = "none" => next.verdict \in {"none", Verdict(e)}
            /\ run.verdict = "none" /\ i = 2 => next.verdict = Verdict(e)
<1> DEFINE a == run.attrs[i]
           attrs == [run.attrs EXCEPT ![i] = Changed(e, @)]
           next == ApplyToAttribute(run, e, i)
<1>1. /\ run.attrs \in Seq(path_attr_t) /\ Len(run.attrs) = 3 /\ run.attrs[2].type = PATH_ATTRIBUTE.ORIGIN
      /\ \A j \in 1..3 : run.attrs[j].type # PATH_ATTRIBUTE.AS_PATH
  BY DEF IsRun, Three
<1>2. a \in path_attr_t
  BY <1>1, ElementOfSeq
<1>3. /\ Changed(e, a) \in path_attr_t /\ (i = 2 => Changed(e, a) = a)
      /\ Changed(e, a).type # PATH_ATTRIBUTE.AS_PATH
  BY <1>1, <1>2, ChangedType
<1>4. Three(attrs)
  <2>1. attrs \in Seq(path_attr_t) /\ Len(attrs) = 3
    BY <1>1, <1>3
  <2>2. attrs[2] = run.attrs[2]
    BY <1>1, <1>3
  <2>3. \A j \in 1..3 : attrs[j].type # PATH_ATTRIBUTE.AS_PATH
    BY <1>1, <1>3
  <2> QED BY <1>1, <2>1, <2>2, <2>3 DEF Three
<1>5. Verdict(e) \in {"accept", "drop", "none"}
  BY DEF Verdict
<1>6. i = 2 => ~Mismatch(e, a)
  BY <1>1, Types DEF Mismatch
<1> HIDE DEF a, attrs
<1>7. CASE run.verdict # "none" \/ Mismatch(e, a)
  <2>1. next = run
    BY <1>7 DEF ApplyToAttribute, a
  <2> QED BY <1>6, <1>7, <2>1
<1>8. CASE run.verdict = "none" /\ ~Mismatch(e, a)
  <2>1. next = [attrs |-> attrs, verdict |-> Verdict(e)]
    BY <1>8 DEF ApplyToAttribute, a, attrs
  <2> HIDE DEF next
  <2>2. IsRun(next) /\ next.verdict = Verdict(e)
    BY <1>4, <1>5, <2>1 DEF IsRun
  <2> QED BY <1>8, <2>2 DEF next
<1> QED BY <1>7, <1>8

\* The loop over the attributes.
Applied(f, run, e, n) == f = [i \in 0..n |-> IF i = 0 THEN run ELSE ApplyToAttribute(f[i-1], e, i)]

\* It has its values.
LEMMA AppliedExists ==
  ASSUME NEW run, NEW e, NEW n \in Nat
  PROVE  \E f : Applied(f, run, e, n)
<1> DEFINE G == {k \in 0..n : \E f : Applied(f, run, e, k)}
<1>1. 0 \in G
  <2>1. Applied([k \in 0..0 |-> run], run, e, 0)
    BY DEF Applied
  <2> QED BY <2>1
<1>2. ASSUME NEW k \in 1..n, k-1 \in G PROVE k \in G
  <2>1. PICK f : Applied(f, run, e, k-1)
    BY <1>2
  <2>2. Applied([i \in 0..k |-> IF i = k THEN ApplyToAttribute(f[k-1], e, k) ELSE f[i]], run, e, k)
    BY <2>1 DEF Applied
  <2> QED BY <2>2
<1>3. n \in G
  <2> HIDE DEF G
  <2>1. \A k \in 0..n : k \in G
    BY <1>1, <1>2, UpTo
  <2> QED BY <2>1
<1> QED BY <1>3

\* An entry whose prefix matches decides if it accepts or drops; no other
\* entry changes anything about the decision.
LEMMA EntryDecides ==
  ASSUME NEW e, IsEntry(e), NEW run, IsRun(run), NEW prefix
  PROVE  LET next == ApplyEntry(run, e, prefix)
         IN /\ IsRun(next)
            /\ next.verdict = IF run.verdict # "none" \/ ~PrefixMatches(e, prefix)
                                THEN run.verdict ELSE Verdict(e)
<1> DEFINE next == ApplyEntry(run, e, prefix)
           after[i \in 0..Len(run.attrs)] == IF i = 0 THEN run ELSE ApplyToAttribute(after[i-1], e, i)
<1>1. Len(run.attrs) = 3
  BY DEF IsRun, Three
<1>2. Applied(after, run, e, 3)
  BY <1>1, AppliedExists DEF Applied
<1>3. next = IF PrefixMatches(e, prefix) THEN after[3] ELSE run
  BY <1>1 DEF ApplyEntry
<1> HIDE DEF after, next
<1>4. /\ after[0] = run
      /\ after[1] = ApplyToAttribute(after[0], e, 1)
      /\ after[2] = ApplyToAttribute(after[1], e, 2)
      /\ after[3] = ApplyToAttribute(after[2], e, 3)
  BY <1>2 DEF Applied
<1>5. IsRun(after[1]) /\ IsRun(after[2]) /\ IsRun(after[3])
  BY <1>4, AttributeDecides
<1>6. CASE run.verdict # "none"
  <2>1. after[1].verdict = run.verdict /\ after[2].verdict = run.verdict /\ after[3].verdict = run.verdict
    BY <1>4, <1>5, <1>6, AttributeDecides
  <2> QED BY <1>3, <1>5, <1>6, <2>1 DEF next
<1>7. CASE run.verdict = "none"
  <2>1. after[1].verdict \in {"none", Verdict(e)}
    BY <1>4, <1>7, AttributeDecides
  <2>2. after[2].verdict = Verdict(e)
    BY <1>4, <1>5, <2>1, AttributeDecides
  <2>3. after[3].verdict = Verdict(e)
    BY <1>4, <1>5, <2>2, AttributeDecides
  <2> QED BY <1>3, <1>5, <1>7, <2>3 DEF next
<1> QED BY <1>6, <1>7

\* The loop over the entries.
Entered(f, start, policy, prefix, n) ==
  f = [i \in 0..n |-> IF i = 0 THEN start ELSE ApplyEntry(f[i-1], policy[i], prefix)]

\* It has its values.
LEMMA EnteredExists ==
  ASSUME NEW start, NEW policy, NEW prefix, NEW n \in Nat
  PROVE  \E f : Entered(f, start, policy, prefix, n)
<1> DEFINE G == {k \in 0..n : \E f : Entered(f, start, policy, prefix, k)}
<1>1. 0 \in G
  <2>1. Entered([k \in 0..0 |-> start], start, policy, prefix, 0)
    BY DEF Entered
  <2> QED BY <2>1
<1>2. ASSUME NEW k \in 1..n, k-1 \in G PROVE k \in G
  <2>1. PICK f : Entered(f, start, policy, prefix, k-1)
    BY <1>2
  <2>2. Entered([i \in 0..k |-> IF i = k THEN ApplyEntry(f[k-1], policy[k], prefix) ELSE f[i]],
                start, policy, prefix, k)
    BY <2>1 DEF Entered
  <2> QED BY <2>2
<1>3. n \in G
  <2> HIDE DEF G
  <2>1. \A k \in 0..n : k \in G
    BY <1>1, <1>2, UpTo
  <2> QED BY <2>1
<1> QED BY <1>3

\* The entries that may decide about a prefix.
Deciders(policy, prefix) ==
  {i \in 1..Len(policy) : PrefixMatches(policy[i], prefix) /\ policy[i].action \in {"accept", "drop"}}

\* The verdict after the first k entries.
VerdictOf(policy, prefix, k, v) ==
  /\ (\A j \in Deciders(policy, prefix) : j > k) => v = "none"
  /\ \A j \in Deciders(policy, prefix) :
       (j <= k /\ \A x \in Deciders(policy, prefix) : j <= x) => v = policy[j].action

\* Another entry changes the verdict only if it is the first that may decide.
LEMMA VerdictGoesOn ==
  ASSUME NEW policy, IsPolicy(policy), NEW prefix, NEW k \in 1..Len(policy), NEW run, IsRun(run),
         VerdictOf(policy, prefix, k-1, run.verdict)
  PROVE  /\ IsRun(ApplyEntry(run, policy[k], prefix))
         /\ VerdictOf(policy, prefix, k, ApplyEntry(run, policy[k], prefix).verdict)
<1> DEFINE e == policy[k]
           next == ApplyEntry(run, e, prefix)
           D == Deciders(policy, prefix)
<1>1. IsEntry(e) /\ Len(policy) \in Nat
  BY DEF IsPolicy
<1>2. /\ IsRun(next)
      /\ next.verdict = IF run.verdict # "none" \/ ~PrefixMatches(e, prefix)
                          THEN run.verdict ELSE Verdict(e)
  BY <1>1, EntryDecides
<1>3. k \in D <=> PrefixMatches(e, prefix) /\ e.action \in {"accept", "drop"}
  BY DEF Deciders
<1>4. \A j \in D : j \in 1..Len(policy) /\ policy[j].action \in {"accept", "drop"}
  BY DEF Deciders
<1>5. /\ (\A j \in D : j > k-1) => run.verdict = "none"
      /\ \A j \in D : (j <= k-1 /\ \A x \in D : j <= x) => run.verdict = policy[j].action
  BY DEF VerdictOf
<1>6. Verdict(e) = IF e.action \in {"accept", "drop"} THEN e.action ELSE "none"
  BY DEF Verdict
<1> HIDE DEF e, next, D
<1>7. ASSUME \A j \in D : j > k PROVE next.verdict = "none"
  <2>1. k \notin D /\ \A j \in D : j > k-1
    BY <1>4, <1>7
  <2> QED BY <1>2, <1>3, <1>5, <1>6, <2>1
<1>8. ASSUME NEW j \in D, j <= k, \A x \in D : j <= x PROVE next.verdict = policy[j].action
  <2>1. CASE j <= k-1
    <3>1. run.verdict = policy[j].action /\ policy[j].action \in {"accept", "drop"}
      BY <1>4, <1>5, <1>8, <2>1
    <3> QED BY <1>2, <3>1
  <2>2. CASE j = k
    <3>1. \A x \in D : x > k-1
      BY <1>4, <1>8, <2>2
    <3>2. run.verdict = "none" /\ PrefixMatches(e, prefix) /\ e.action \in {"accept", "drop"}
      BY <1>3, <1>5, <1>8, <2>2, <3>1
    <3> QED BY <1>2, <1>6, <2>2, <3>2 DEF e
  <2> QED BY <1>4, <1>8, <2>1, <2>2
<1>9. VerdictOf(policy, prefix, k, next.verdict)
  BY <1>7, <1>8 DEF VerdictOf, D
<1> QED BY <1>2, <1>9 DEF next, e

\* At the end of the policy the first that may decide has decided.
LEMMA PolicyDecides ==
  ASSUME NEW policy, IsPolicy(policy), NEW prefix, NEW attrs, Three(attrs)
  PROVE  LET done == routePolicyProcess(policy, prefix, attrs)
         IN IsRun(done) /\ VerdictOf(policy, prefix, Len(policy), done.verdict)
<1> DEFINE start == [attrs |-> attrs, verdict |-> "none"]
           n == Len(policy)
           after[i \in 0..Len(policy)] == IF i = 0 THEN start ELSE ApplyEntry(after[i-1], policy[i], prefix)
           G == {k \in 0..n : IsRun(after[k]) /\ VerdictOf(policy, prefix, k, after[k].verdict)}
<1>1. n \in Nat
  BY DEF IsPolicy
<1>2. Entered(after, start, policy, prefix, n)
  BY <1>1, EnteredExists DEF Entered
<1>3. routePolicyProcess(policy, prefix, attrs) = after[n]
  BY Zenon DEF routePolicyProcess
<1> HIDE DEF after
<1>4. 0 \in G
  <2>1. after[0] = start
    BY <1>1, <1>2 DEF Entered
  <2>2. IsRun(start) /\ start.verdict = "none"
    BY DEF IsRun
  <2> HIDE DEF start
  <2>3. \A j \in Deciders(policy, prefix) : ~(j <= 0)
    BY DEF Deciders
  <2> QED BY <1>1, <2>1, <2>2, <2>3 DEF VerdictOf
<1>5. ASSUME NEW k \in 1..n, k-1 \in G PROVE k \in G
  <2>1. after[k] = ApplyEntry(after[k-1], policy[k], prefix) /\ k \in 0..n
    <3>1. k \in 0..n /\ k # 0
      BY <1>1
    <3>2. after[k] = IF k = 0 THEN start ELSE ApplyEntry(after[k-1], policy[k], prefix)
      BY <1>2, <3>1, Zenon DEF Entered
    <3> QED BY <3>1, <3>2
  <2>2. IsRun(after[k-1]) /\ VerdictOf(policy, prefix, k-1, after[k-1].verdict)
    BY <1>5
  <2>3. IsRun(after[k]) /\ VerdictOf(policy, prefix, k, after[k].verdict)
    BY <2>1, <2>2, VerdictGoesOn
  <2> QED BY <2>1, <2>3
<1>6. n \in G
  <2> HIDE DEF G
  <2>1. \A k \in 0..n : k \in G
    BY <1>1, <1>4, <1>5, UpTo
  <2> QED BY <1>1, <2>1
<1> QED BY <1>3, <1>6

\* The attributes a configured route starts with.
LEMMA DefaultsType ==
  ASSUME NEW flags \in JunkFlags, NEW w \in JunkWidth
  PROVE  Three(DefaultAttributes(flags, w))
<1> DEFINE blank == [flags |-> flags, type |-> 0, bytes |-> <<>>, four_byte_asn |-> w]
           pref  == make_local_pref(blank, 100)
           orig  == make_origin(pref, 0)
           hop   == make_nexthop(orig, <<0, 0, 0, 0>>)
<1>1. flags \in SUBSET Flag /\ w \in BOOLEAN /\ "transitive" \in Flag
  BY FlagsAssumption, WidthAssumption DEF Flag, FlagBit
<1>2. blank \in path_attr_t
  BY <1>1 DEF path_attr_t, Byte
<1> HIDE DEF blank
<1>3. pref \in path_attr_t /\ pref.type # PATH_ATTRIBUTE.AS_PATH
  <2>1. 100 \in Nat
    OBVIOUS
  <2>2. Be32(100) \in Seq(Byte)
    BY <2>1, FourBytes
  <2>3. pref \in path_attr_t
    BY <1>2, <2>2, Types DEF make_local_pref, path_attr_t
  <2>4. pref.type = PATH_ATTRIBUTE.LOCAL_PREF
    BY <1>2 DEF make_local_pref, path_attr_t
  <2> QED BY <2>3, <2>4, Types
<1> HIDE DEF pref
<1>4. orig \in path_attr_t /\ orig.type = PATH_ATTRIBUTE.ORIGIN
  <2>1. <<0>> \in Seq(Byte)
    BY DEF Byte
  <2> QED BY <1>1, <1>3, <2>1, Types DEF make_origin, path_attr_t
<1> HIDE DEF orig
<1>5. hop \in path_attr_t /\ hop.type # PATH_ATTRIBUTE.AS_PATH
  <2>1. <<0, 0, 0, 0>> \in Seq(Byte)
    BY DEF Byte
  <2>2. hop \in path_attr_t
    BY <1>4, <2>1, Types DEF make_nexthop, path_attr_t
  <2>3. hop.type = PATH_ATTRIBUTE.NEXT_HOP
    BY <1>4 DEF make_nexthop, path_attr_t
  <2> QED BY <2>2, <2>3, Types
<1> HIDE DEF hop
<1>6. DefaultAttributes(flags, w) = <<pref, orig, hop>>
  BY Zenon DEF DefaultAttributes, hop, orig, pref, blank
<1>7. Three(<<pref, orig, hop>>)
  <2>1. orig.type # PATH_ATTRIBUTE.AS_PATH
    BY <1>4, Types
  <2> QED BY <1>3, <1>4, <1>5, <2>1 DEF Three
<1> QED BY <1>6, <1>7

\* A route is originated just when its policy accepts it.
LEMMA OriginatedOrNot ==
  ASSUME NEW policy, IsPolicy(policy), policy # None, NEW prefix,
         NEW flags \in JunkFlags, NEW w \in JunkWidth
  PROVE  LET d == Deciders(policy, prefix)
         IN Originate(prefix, policy, flags, w) # None <=> d # {} /\ policy[Min(d)].action = "accept"
<1> DEFINE d == Deciders(policy, prefix)
           attrs == DefaultAttributes(flags, w)
           done == routePolicyProcess(policy, prefix, attrs)
<1>1. IsRun(done) /\ VerdictOf(policy, prefix, Len(policy), done.verdict)
  BY DefaultsType, PolicyDecides
<1>2. Originate(prefix, policy, flags, w) = IF done.verdict = "accept" THEN done.attrs ELSE None
  BY DEF Originate
<1> HIDE DEF done
<1>3. done.attrs # None
  BY <1>1, NoneAssumption DEF IsRun, Three
<1>4. Len(policy) \in Nat /\ d \in SUBSET Nat /\ \A j \in d : j <= Len(policy)
  BY DEF Deciders, IsPolicy
<1>5. /\ (\A j \in d : j > Len(policy)) => done.verdict = "none"
      /\ \A j \in d : (j <= Len(policy) /\ \A x \in d : j <= x) => done.verdict = policy[j].action
  BY <1>1 DEF VerdictOf
<1> HIDE DEF d
<1>6. CASE d = {}
  BY <1>2, <1>5, <1>6 DEF d
<1>7. CASE d # {}
  <2>1. Min(d) \in d /\ \A x \in d : Min(d) <= x
    BY <1>4, <1>7, MinIsLeast
  <2>2. done.verdict = policy[Min(d)].action
    BY <1>4, <1>5, <2>1
  <2> QED BY <1>2, <1>3, <1>7, <2>2 DEF d
<1> QED BY <1>6, <1>7

\* Whether a route is originated is decided by the first entry for its prefix
\* that accepts or drops, for every policy file: an entry that does not match
\* the attributes accepts or drops as well, because routePolicyProcess goes on
\* with the next attribute of the same entry.
THEOREM DecidedByPrefix == Spec => []PrefixDecides
<1>1. OriginInv => PrefixDecides
  <2> SUFFICES ASSUME OriginInv, origin # None, Entries # None
               PROVE  stored # None <=> Deciding # {} /\ Entries[Min(Deciding)].action = "accept"
    BY DEF PrefixDecides
  <2>1. PICK r \in Originated, flags \in JunkFlags, w \in JunkWidth :
          Entries \in LoadPolicy(r.policy) /\ stored = Originate(origin.prefix, Entries, flags, w)
    BY DEF OriginInv, Entries
  <2>2. IsPolicy(Entries)
    BY <2>1, PolicyRead
  <2>3. Deciding = Deciders(Entries, origin.prefix)
    BY Zenon DEF Deciding, Deciders
  <2> QED BY <2>1, <2>2, <2>3, OriginatedOrNot
<1> QED BY <1>1, OriginKept, PTL

-----------------------------------------------------------------------------
\* Numbers in network order, read.

\* The loop of Number.
Shifted(v, b)   == 256 * v + b
Counts(f, b, n) == f = [i \in 0..n |-> IF i = 0 THEN 0 ELSE Shifted(f[i-1], b[i])]

\* It has its values.
LEMMA CountsExists ==
  ASSUME NEW b, NEW n \in Nat
  PROVE  \E f : Counts(f, b, n)
<1> DEFINE G == {k \in 0..n : \E f : Counts(f, b, k)}
<1>1. 0 \in G
  <2>1. Counts([k \in 0..0 |-> 0], b, 0)
    BY DEF Counts
  <2> QED BY <2>1
<1>2. ASSUME NEW k \in 1..n, k-1 \in G PROVE k \in G
  <2>1. PICK f : Counts(f, b, k-1)
    BY <1>2
  <2>2. Counts([i \in 0..k |-> IF i = k THEN Shifted(f[k-1], b[k]) ELSE f[i]], b, k)
    BY <2>1 DEF Counts
  <2> QED BY <2>2
<1>3. n \in G
  <2> HIDE DEF G
  <2>1. \A k \in 0..n : k \in G
    BY <1>1, <1>2, UpTo
  <2> QED BY <2>1
<1> QED BY <1>3

\* They are numbers, the last of which is the one that is read.
LEMMA NumberCounts ==
  ASSUME NEW b \in Seq(Nat)
  PROVE  \E f : /\ f[0] = 0 /\ Number(b) = f[Len(b)]
                /\ \A i \in 1..Len(b) : f[i-1] \in Nat /\ f[i] = 256 * f[i-1] + b[i]
                /\ \A i \in 0..Len(b) : f[i] \in Nat
<1> DEFINE n == Len(b)
           value == CHOOSE f : Counts(f, b, n)
<1>1. n \in Nat /\ \A i \in 1..n : b[i] \in Nat
  OBVIOUS
<1> HIDE DEF n
<1>4. Counts(value, b, n)
  BY <1>1, CountsExists
<1>5. Number(b) = value[n]
  BY Zenon DEF Number, Counts, Shifted, n
<1> HIDE DEF value
<1>6. value[0] = 0 /\ \A i \in 1..n : value[i] = Shifted(value[i-1], b[i])
  BY <1>1, <1>4 DEF Counts
<1>7. \A i \in 0..n : value[i] \in Nat
  <2> DEFINE G == {i \in 0..n : value[i] \in Nat}
  <2>1. 0 \in G
    BY <1>1, <1>6
  <2>2. ASSUME NEW i \in 1..n, i-1 \in G PROVE i \in G
    <3>1. i \in 0..n /\ value[i-1] \in Nat /\ b[i] \in Nat
      BY <1>1, <2>2
    <3>2. Shifted(value[i-1], b[i]) \in Nat
      BY <3>1 DEF Shifted
    <3> QED BY <1>6, <3>1, <3>2
  <2> HIDE DEF G
  <2>3. \A i \in 0..n : i \in G
    BY <1>1, <2>1, <2>2, UpTo
  <2> QED BY <2>3 DEF G
<1>8. \A i \in 1..n : value[i-1] \in Nat /\ value[i] = 256 * value[i-1] + b[i]
  BY <1>1, <1>6, <1>7 DEF Shifted
<1>9. Number(b) = value[n] /\ value[0] = 0
  BY <1>5, <1>6
<1> QED BY <1>7, <1>8, <1>9 DEF n

\* A number of bytes is a number.
LEMMA NumberType ==
  ASSUME NEW b \in Seq(Nat)
  PROVE  Number(b) \in Nat
<1>1. PICK f : Number(b) = f[Len(b)] /\ \A i \in 0..Len(b) : f[i] \in Nat
  BY NumberCounts
<1>2. Len(b) \in 0..Len(b)
  OBVIOUS
<1> QED BY <1>1, <1>2

\* The number of two bytes and of four.
LEMMA NumberIs ==
  ASSUME NEW b \in Seq(Nat)
  PROVE  /\ Len(b) = 2 => Number(b) = 256 * b[1] + b[2]
         /\ Len(b) = 4 => Number(b) = 65536 * (256 * b[1] + b[2]) + (256 * b[3] + b[4])
<1>1. PICK f : /\ f[0] = 0 /\ Number(b) = f[Len(b)]
               /\ \A i \in 1..Len(b) : f[i-1] \in Nat /\ f[i] = 256 * f[i-1] + b[i]
               /\ \A i \in 0..Len(b) : f[i] \in Nat
  BY NumberCounts
<1>2. Len(b) \in Nat /\ \A i \in 1..Len(b) : b[i] \in Nat
  OBVIOUS
<1>3. ASSUME Len(b) = 2 PROVE Number(b) = 256 * b[1] + b[2]
  <2>1. 1 \in 1..2 /\ 2 \in 1..2 /\ 1-1 = 0 /\ 2-1 = 1
    OBVIOUS
  <2>2. f[1] = 256 * f[0] + b[1] /\ f[2] = 256 * f[1] + b[2] /\ b[1] \in Nat /\ b[2] \in Nat
    BY <1>1, <1>2, <1>3, <2>1
  <2>3. f[1] = b[1]
    BY <1>1, <2>2
  <2> QED BY <1>1, <1>3, <2>2, <2>3
<1>4. ASSUME Len(b) = 4
      PROVE  Number(b) = 65536 * (256 * b[1] + b[2]) + (256 * b[3] + b[4])
  <2>1. /\ 1 \in 1..4 /\ 2 \in 1..4 /\ 3 \in 1..4 /\ 4 \in 1..4
        /\ 1-1 = 0 /\ 2-1 = 1 /\ 3-1 = 2 /\ 4-1 = 3
    OBVIOUS
  <2>2. /\ f[1] = 256 * f[0] + b[1] /\ f[2] = 256 * f[1] + b[2]
        /\ f[3] = 256 * f[2] + b[3] /\ f[4] = 256 * f[3] + b[4]
        /\ b[1] \in Nat /\ b[2] \in Nat /\ b[3] \in Nat /\ b[4] \in Nat
    BY <1>1, <1>2, <1>4, <2>1
  <2>3. f[1] = b[1]
    BY <1>1, <2>2
  <2>4. f[2] = 256 * b[1] + b[2]
    BY <2>2, <2>3
  <2>5. f[4] = 65536 * (256 * b[1] + b[2]) + (256 * b[3] + b[4])
    <3> DEFINE x == 256 * b[1] + b[2]
    <3>1. x \in Nat
      <4>1. b[1] \in Nat /\ b[2] \in Nat
        BY <2>2
      <4> QED BY <4>1
    <3>2. f[2] = x
      BY <2>4
    <3> HIDE DEF x
    <3> DEFINE c == b[3]
               d == b[4]
    <3>3. c \in Nat /\ d \in Nat
      BY <2>2
    <3>4. f[4] = 256 * (256 * x + b[3]) + b[4]
      <4>1. f[3] = 256 * f[2] + b[3] /\ f[4] = 256 * f[3] + b[4]
        BY <2>2
      <4>2. f[3] = 256 * x + b[3]
        BY <3>2, <4>1
      <4> QED BY <4>1, <4>2
    <3> HIDE DEF c, d
    <3>5. 256 * (256 * x + c) + d = 65536 * x + (256 * c + d)
      BY <3>1, <3>3
    <3>6. f[4] = 256 * (256 * x + c) + d
      BY <3>4 DEF c, d
    <3>7. f[4] = 65536 * x + (256 * c + d)
      BY <3>5, <3>6
    <3> QED BY <3>7 DEF x, c, d
  <2> QED BY <1>1, <1>4, <2>5
<1> QED BY <1>3, <1>4

\* A number of a width: 32 bits or 16.
Fits(v, four) == v \in Nat /\ v \div 65536 < 65536 /\ (four \/ v < 65536)
SizeOf(four)  == IF four THEN 4 ELSE 2

\* The bytes of an AS number.
LEMMA AsBytesType ==
  ASSUME NEW v \in Nat, NEW four \in BOOLEAN
  PROVE  AsBytes(v, four) \in Seq(Byte) /\ Len(AsBytes(v, four)) = SizeOf(four)
BY FourBytes, TwoBytes DEF AsBytes, SizeOf

\* What is written of a number that fits is read as this number.
LEMMA AsNumber ==
  ASSUME NEW four \in BOOLEAN, NEW v, Fits(v, four)
  PROVE  Number(AsBytes(v, four)) = v
<1>1. v \in Nat /\ v \div 65536 < 65536 /\ (four \/ v < 65536)
  BY DEF Fits
<1>2. CASE ~four
  <2>1. AsBytes(v, four) = Be16(v)
    BY <1>2 DEF AsBytes
  <2>2. v <= Longest
    BY <1>1, <1>2 DEF Longest
  <2>3. Be16(v) \in Seq(Byte) /\ Len(Be16(v)) = 2 /\ 256 * Be16(v)[1] + Be16(v)[2] = v
    BY <1>1, <2>2, TwoBytes
  <2>4. Be16(v) \in Seq(Nat)
    BY <2>3, BytesAreNumbers
  <2> QED BY <2>1, <2>3, <2>4, NumberIs
<1>3. CASE four
  <2> DEFINE h == v \div 65536
             l == v % 65536
             x == Be16(h)
             y == Be16(l)
             b == Then(x, y)
  <2>1. /\ h \in Nat /\ l \in Nat /\ h < 65536 /\ l < 65536
        /\ 65536 * h + l = v
    BY <1>1, SMT
  <2>2. AsBytes(v, four) = b
    BY <1>3 DEF AsBytes, Be32, Then
  <2> HIDE DEF h, l
  <2>3. h <= Longest /\ l <= Longest
    BY <2>1 DEF Longest
  <2>4. /\ x \in Seq(Byte) /\ Len(x) = 2 /\ 256 * x[1] + x[2] = h
        /\ y \in Seq(Byte) /\ Len(y) = 2 /\ 256 * y[1] + y[2] = l
    BY <2>1, <2>3, TwoBytes
  <2> HIDE DEF x, y
  <2>5. b \in Seq(Byte) /\ Len(b) = Len(x) + Len(y) /\ Sits(b, x, 0) /\ Sits(b, y, Len(x))
    BY <2>4, ThenSits
  <2> HIDE DEF b
  <2>6. Len(b) = 4 /\ b[1] = x[1] /\ b[2] = x[2] /\ b[3] = y[1] /\ b[4] = y[2]
    <3>1. 1 \in 1..2 /\ 2 \in 1..2 /\ 0+1 = 1 /\ 0+2 = 2 /\ 2+1 = 3 /\ 2+2 = 4
      OBVIOUS
    <3> QED BY <2>4, <2>5, <3>1 DEF Sits
  <2>7. b \in Seq(Nat)
    BY <2>5, BytesAreNumbers
  <2>8. Number(b) = 65536 * (256 * b[1] + b[2]) + (256 * b[3] + b[4])
    BY <2>6, <2>7, NumberIs, SMTT(30)
  <2> QED BY <2>1, <2>2, <2>4, <2>6, <2>8
<1> QED BY <1>2, <1>3
-----------------------------------------------------------------------------
\* AS_PATHs.

\* The segments of an AS_PATH from byte i on, from the ones after them.
AsSize(a)   == SizeOf(a.four_byte_asn)
After(a, i) == i + 2 + AsSize(a) * a.bytes[i+1]
SegmentsFrom(f, a, i) ==
  IF i + 1 > Len(a.bytes) THEN <<>>
  ELSE IF i + 1 + AsSize(a) * a.bytes[i+1] > Len(a.bytes) THEN <<>>
  ELSE Numbers(a.bytes, i + 2, a.bytes[i+1], AsSize(a)) \o f[After(a, i)]
Segments(f, a) == f = [i \in 1..(Len(a.bytes) + 1) |-> SegmentsFrom(f, a, i)]

\* The segments after a whole one start behind it, in the bytes or at their end.
LEMMA AfterIsLater ==
  ASSUME NEW a, a.bytes \in Seq(Byte), NEW i \in Nat \ {0}, i + 1 <= Len(a.bytes),
         ~(i + 1 + AsSize(a) * a.bytes[i+1] > Len(a.bytes))
  PROVE  After(a, i) \in (i+1)..(Len(a.bytes) + 1) /\ AsSize(a) * a.bytes[i+1] \in Nat
<1>1. a.bytes[i+1] \in Nat
  <2>1. i + 1 \in 1..Len(a.bytes)
    OBVIOUS
  <2>2. a.bytes[i+1] \in Byte
    BY <2>1, ElementOfSeq
  <2>3. \A x \in Byte : x \in Nat
    BY DEF Byte
  <2> QED BY <2>2, <2>3
<1> DEFINE n == a.bytes[i+1]
           z == AsSize(a) * n
<1> HIDE DEF n
<1>2. z \in Nat
  BY <1>1 DEF AsSize, SizeOf, n
<1> HIDE DEF z
<1>3. Len(a.bytes) \in Nat /\ ~(i + 1 + z > Len(a.bytes)) /\ After(a, i) = i + 2 + z
  BY DEF After, z, n
<1> QED BY <1>2, <1>3 DEF z, n

\* The recursion goes to later bytes, so it has its values.
LEMMA SegmentsExist ==
  ASSUME NEW a, a.bytes \in Seq(Byte)
  PROVE  \E f : Segments(f, a)
<1> DEFINE last == Len(a.bytes)
           Solves(f, k) == f = [i \in (last + 1 - k)..(last + 1) |-> SegmentsFrom(f, a, i)]
           G == {k \in 0..last : \E f : Solves(f, k)}
<1>1. last \in Nat
  OBVIOUS
<1>2. \A f : SegmentsFrom(f, a, last + 1) = <<>>
  BY <1>1 DEF SegmentsFrom
<1>3. ASSUME NEW i \in 1..(last + 1), NEW f, NEW g,
             \A j \in (i+1)..(last + 1) : f[j] = g[j]
      PROVE  SegmentsFrom(f, a, i) = SegmentsFrom(g, a, i)
  <2>1. CASE \/ i + 1 > Len(a.bytes)
             \/ i + 1 + AsSize(a) * a.bytes[i+1] > Len(a.bytes)
    BY <2>1, Zenon DEF SegmentsFrom
  <2>2. CASE /\ ~(i + 1 > Len(a.bytes))
             /\ ~(i + 1 + AsSize(a) * a.bytes[i+1] > Len(a.bytes))
    <3>1. i \in Nat \ {0} /\ i + 1 <= Len(a.bytes)
      BY <1>1, <2>2
    <3>2. After(a, i) \in (i+1)..(last + 1)
      BY <2>2, <3>1, AfterIsLater
    <3>3. f[After(a, i)] = g[After(a, i)]
      BY <1>3, <3>2
    <3> QED BY <2>2, <3>3, Zenon DEF SegmentsFrom
  <2> QED BY <2>1, <2>2
<1> HIDE DEF last
<1>4. 0 \in G
  <2> DEFINE f == [i \in (last + 1 - 0)..(last + 1) |-> <<>>]
  <2>1. \A i \in (last + 1 - 0)..(last + 1) : SegmentsFrom(f, a, i) = <<>>
    <3>1. \A i \in (last + 1 - 0)..(last + 1) : i = last + 1
      BY <1>1
    <3> QED BY <1>2, <3>1, Zenon
  <2>2. Solves(f, 0)
    BY <2>1
  <2> HIDE DEF Solves
  <2> QED BY <1>1, <2>2
<1>5. ASSUME NEW k \in 1..last, k-1 \in G PROVE k \in G
  <2> DEFINE j == last + 1 - k
  <2>1. PICK f : Solves(f, k-1)
    BY <1>5
  <2> DEFINE g == [i \in j..(last + 1) |-> IF i = j THEN SegmentsFrom(f, a, j) ELSE f[i]]
  <2>2. /\ j \in 1..(last + 1) /\ last + 1 - (k-1) = j + 1 /\ j \in Nat
        /\ \A i \in j..(last + 1) : i = j \/ i \in (j+1)..(last + 1)
        /\ \A i \in j..(last + 1) : i \in 1..(last + 1)
    BY <1>1
  <2>3. \A i \in (j+1)..(last + 1) : f[i] = SegmentsFrom(f, a, i)
    <3> HIDE DEF j
    <3>1. f = [i \in (j + 1)..(last + 1) |-> SegmentsFrom(f, a, i)]
      BY <2>1, <2>2
    <3> QED BY <3>1
  <2>4. \A i \in (j+1)..(last + 1) : g[i] = f[i]
    <3>1. \A i \in (j+1)..(last + 1) : i \in j..(last + 1) /\ i # j
      BY <1>1, <2>2
    <3> HIDE DEF j
    <3> QED BY <3>1
  <2>5. \A i \in j..(last + 1) : SegmentsFrom(g, a, i) = SegmentsFrom(f, a, i)
    <3>1. ASSUME NEW i \in j..(last + 1) PROVE SegmentsFrom(g, a, i) = SegmentsFrom(f, a, i)
      <4>1. \A x \in (i+1)..(last + 1) : x \in (j+1)..(last + 1)
        BY <1>1, <2>2
      <4>2. \A x \in (i+1)..(last + 1) : g[x] = f[x]
        BY <2>4, <4>1
      <4>3. i \in 1..(last + 1)
        BY <2>2
      <4> HIDE DEF g
      <4> QED BY <1>3, <4>2, <4>3
    <3> QED BY <3>1
  <2>6. \A i \in j..(last + 1) : g[i] = SegmentsFrom(g, a, i)
    <3>1. ASSUME NEW i \in j..(last + 1) PROVE g[i] = SegmentsFrom(f, a, i)
      <4> HIDE DEF j
      <4>1. CASE i = j
        BY <4>1
      <4>2. CASE i # j
        BY <2>2, <2>3, <4>2
      <4> QED BY <4>1, <4>2
    <3> HIDE DEF g, j
    <3> QED BY <2>5, <3>1
  <2>7. Solves(g, k)
    <3>1. g = [i \in j..(last + 1) |-> g[i]]
      OBVIOUS
    <3> HIDE DEF g
    <3>2. g = [i \in j..(last + 1) |-> SegmentsFrom(g, a, i)]
      BY <2>6, <3>1
    <3> QED BY <3>2
  <2> HIDE DEF Solves, g
  <2>8. k \in 0..last
    BY <1>1
  <2> QED BY <2>7, <2>8
<1>6. last \in G
  <2> HIDE DEF G
  <2>1. \A k \in 0..last : k \in G
    BY <1>1, <1>4, <1>5, UpTo
  <2> QED BY <1>1, <2>1
<1>7. PICK f : Solves(f, last)
  BY <1>6
<1>8. last + 1 - last = 1
  BY <1>1
<1>9. f = [i \in 1..(last + 1) |-> SegmentsFrom(f, a, i)]
  BY <1>7, <1>8
<1> QED BY <1>9 DEF Segments, last

\* parse_as_path is the segments from the first byte on.
LEMMA ParsedSegments ==
  ASSUME NEW a, a.bytes \in Seq(Byte)
  PROVE  \E f : Segments(f, a) /\ parse_as_path(a) = f[1]
<1> DEFINE segments == CHOOSE f : Segments(f, a)
<1>1. Segments(segments, a)
  BY SegmentsExist
<1>2. parse_as_path(a) = segments[1]
  BY Zenon DEF parse_as_path, Segments, SegmentsFrom, After, AsSize, SizeOf
<1> HIDE DEF segments
<1> QED BY <1>1, <1>2

\* The bytes b have room for n numbers of w bytes from i on, and x are these numbers.
Room(b, i, n, w) == w \in {2, 4} /\ i + w * n - 1 <= Len(b)
NumbersAt(x, b, i, n, w) ==
  /\ x \in Seq(Nat) /\ Len(x) = n
  /\ \A k \in 1..n : x[k] = Number(SubSeq(b, i + w * (k - 1), i + w * k - 1))

\* Numbers are numbers.
LEMMA NumbersType ==
  ASSUME NEW b \in Seq(Nat), NEW i \in Nat \ {0}, NEW n \in Nat, NEW w, Room(b, i, n, w)
  PROVE  NumbersAt(Numbers(b, i, n, w), b, i, n, w)
<1>0. w \in {2, 4} /\ i + w * n - 1 <= Len(b)
  BY DEF Room
<1>1. ASSUME NEW k \in 1..n PROVE Number(SubSeq(b, i + w * (k - 1), i + w * k - 1)) \in Nat
  <2>1. /\ i + w * (k - 1) \in Nat \ {0} /\ i + w * k - 1 \in Nat /\ i + w * k - 1 <= Len(b)
        /\ i + w * (k - 1) <= i + w * k
    <3>1. CASE w = 2
      BY <1>0, <3>1
    <3>2. CASE w = 4
      BY <1>0, <3>2
    <3> QED BY <1>0, <3>1, <3>2
  <2> DEFINE s == i + w * (k - 1)
             t == i + w * k - 1
  <2>2. s \in Nat \ {0} /\ t \in Nat /\ t <= Len(b) /\ s <= t + 1
    <3> DEFINE z == w * k
    <3>1. z \in Nat
      <4>1. CASE w = 2
        BY <4>1
      <4>2. CASE w = 4
        BY <4>2
      <4> QED BY <1>0, <4>1, <4>2
    <3>2. s \in Nat \ {0} /\ i + z - 1 \in Nat /\ i + z - 1 <= Len(b) /\ s <= i + z
      BY <2>1
    <3>3. t = i + z - 1
      OBVIOUS
    <3> HIDE DEF s, t, z
    <3> QED BY <3>1, <3>2, <3>3
  <2> HIDE DEF s, t
  <2>3. SubSeq(b, s, t) \in Seq(Nat)
    <3>1. \A x \in s..t : b[x] \in Nat
      BY <2>2, ElementOfSeq
    <3> QED BY <2>2, <3>1, SubSeqProperties
  <2>4. Number(SubSeq(b, s, t)) \in Nat
    BY <2>3, NumberType
  <2> QED BY <2>4 DEF s, t
<1>2. Numbers(b, i, n, w) = [k \in 1..n |-> Number(SubSeq(b, i + w * (k - 1), i + w * k - 1))]
  BY Zenon DEF Numbers
<1> QED BY <1>1, <1>2 DEF NumbersAt

\* An AS_PATH is read as numbers, whatever its bytes are.
LEMMA ParsedType ==
  ASSUME NEW a, a.bytes \in Seq(Byte)
  PROVE  parse_as_path(a) \in Seq(Nat)
<1> DEFINE last == Len(a.bytes)
<1>1. last \in Nat /\ a.bytes \in Seq(Nat) /\ AsSize(a) \in {2, 4}
  BY BytesAreNumbers DEF AsSize, SizeOf
<1>2. PICK f : Segments(f, a) /\ parse_as_path(a) = f[1]
  BY ParsedSegments
<1> DEFINE G == {k \in 0..last : \A i \in (last + 1 - k)..(last + 1) : f[i] \in Seq(Nat)}
<1>3. \A i \in 1..(last + 1) : f[i] = SegmentsFrom(f, a, i)
  BY <1>2 DEF Segments
<1>4. ASSUME NEW j \in 1..(last + 1), \A i \in (j+1)..(last + 1) : f[i] \in Seq(Nat)
      PROVE  f[j] \in Seq(Nat)
  <2>1. CASE \/ j + 1 > Len(a.bytes)
             \/ j + 1 + AsSize(a) * a.bytes[j+1] > Len(a.bytes)
    <3>1. SegmentsFrom(f, a, j) = <<>>
      BY <2>1, Zenon DEF SegmentsFrom
    <3>2. f[j] = <<>>
      BY <1>3, <3>1, Zenon
    <3>3. <<>> \in Seq(Nat)
      OBVIOUS
    <3> QED BY <3>2, <3>3, Zenon
  <2>2. CASE /\ ~(j + 1 > Len(a.bytes))
             /\ ~(j + 1 + AsSize(a) * a.bytes[j+1] > Len(a.bytes))
    <3>1. j \in Nat \ {0} /\ j + 1 <= Len(a.bytes) /\ j + 2 \in Nat \ {0} /\ j + 1 \in 1..Len(a.bytes)
      BY <1>1, <2>2
    <3>2. After(a, j) \in (j+1)..(last + 1) /\ AsSize(a) * a.bytes[j+1] \in Nat
      BY <2>2, <3>1, AfterIsLater
    <3>3. f[After(a, j)] \in Seq(Nat)
      BY <1>4, <3>2
    <3> DEFINE n == a.bytes[j+1]
               x == Numbers(a.bytes, j + 2, n, AsSize(a))
    <3>4. n \in Nat
      BY <1>1, <3>1, ElementOfSeq
    <3>5. (j + 2) + AsSize(a) * n - 1 <= Len(a.bytes)
      BY <1>1, <2>2, <3>1, <3>2, SMTT(30)
    <3>6. x \in Seq(Nat)
      <4>1. Room(a.bytes, j + 2, n, AsSize(a))
        BY <1>1, <3>5, Zenon DEF Room
      <4> HIDE DEF n
      <4>2. NumbersAt(x, a.bytes, j + 2, n, AsSize(a))
        BY <1>1, <3>1, <3>4, <4>1, NumbersType, Zenon
      <4> QED BY <4>2 DEF NumbersAt
    <3>7. SegmentsFrom(f, a, j) = Then(x, f[After(a, j)])
      BY <2>2, Zenon DEF SegmentsFrom, Then
    <3> HIDE DEF x
    <3>8. Then(x, f[After(a, j)]) \in Seq(Nat)
      BY <3>3, <3>6, ThenJoins
    <3> QED BY <1>3, <3>7, <3>8
  <2> QED BY <2>1, <2>2
<1> HIDE DEF last
<1>5. 0 \in G
  <2>1. last + 1 \in 1..(last + 1) /\ \A i \in (last + 1 - 0)..(last + 1) : i = last + 1
    BY <1>1
  <2>2. \A i \in ((last+1)+1)..(last + 1) : f[i] \in Seq(Nat)
    BY <1>1
  <2>3. f[last + 1] \in Seq(Nat)
    BY <1>4, <2>1, <2>2
  <2> QED BY <1>1, <2>1, <2>3
<1>6. ASSUME NEW k \in 1..last, k-1 \in G PROVE k \in G
  <2> DEFINE j == last + 1 - k
  <2>1. /\ j \in 1..(last + 1) /\ last + 1 - (k-1) = j + 1 /\ k \in 0..last
        /\ \A i \in j..(last + 1) : i = j \/ i \in (j+1)..(last + 1)
    BY <1>1
  <2>2. \A i \in (j+1)..(last + 1) : f[i] \in Seq(Nat)
    BY <1>6, <2>1
  <2>3. f[j] \in Seq(Nat)
    BY <1>4, <2>1, <2>2
  <2>4. \A i \in j..(last + 1) : f[i] \in Seq(Nat)
    BY <2>1, <2>2, <2>3
  <2> QED BY <2>1, <2>4
<1>7. last \in G
  <2> HIDE DEF G
  <2>1. \A k \in 0..last : k \in G
    BY <1>1, <1>5, <1>6, UpTo
  <2> QED BY <1>1, <2>1
<1>8. f[1] \in Seq(Nat)
  <2>1. last + 1 - last = 1 /\ 1 \in 1..(last + 1)
    BY <1>1
  <2> QED BY <1>7, <2>1
<1> QED BY <1>2, <1>8

\* One AS_SEQUENCE.
AsList(path, four) == [k \in 1..Len(path) |-> AsBytes(path[k], four)]
AsSequence(path, four) == <<AS_SEQUENCE, Len(path)>> \o FlattenSeq(AsList(path, four))

\* The bytes of an AS_SEQUENCE: every number where parse_as_path looks for it.
LEMMA SequenceLaidOut ==
  ASSUME NEW path \in Seq(Nat), NEW four \in BOOLEAN
  PROVE  LET s == AsList(path, four)
             w == SizeOf(four)
         IN /\ s \in Seq(Seq(Byte)) /\ Len(s) = Len(path)
            /\ \A k \in 1..Len(path) : s[k] = AsBytes(path[k], four)
            /\ \A k \in 0..Len(path) : Len(Bytes(s, 0, k)) = w * k
            /\ FlattenSeq(s) \in Seq(Byte) /\ Len(FlattenSeq(s)) = w * Len(path)
            /\ \A k \in 1..Len(path) : Sits(FlattenSeq(s), s[k], w * (k - 1))
<1> DEFINE s == AsList(path, four)
           w == SizeOf(four)
           G == {k \in 0..Len(path) : Len(Bytes(s, 0, k)) = w * k}
<1>1. /\ Len(path) \in Nat /\ w \in {2, 4}
      /\ \A k \in 1..Len(path) : path[k] \in Nat
  BY DEF SizeOf
<1>2. \A k \in 1..Len(path) : s[k] = AsBytes(path[k], four)
  BY DEF AsList
<1>3. \A k \in 1..Len(path) : s[k] \in Seq(Byte) /\ Len(s[k]) = w
  BY <1>1, <1>2, AsBytesType
<1>4. s \in Seq(Seq(Byte)) /\ Len(s) = Len(path)
  <2>1. s = [k \in 1..Len(path) |-> s[k]]
    BY DEF AsList
  <2> HIDE DEF s, w
  <2> QED BY <1>1, <1>3, <2>1
<1> HIDE DEF s, w
<1>5. 0 \in G
  <2>1. Bytes(s, 0, 0) = <<>>
    BY BytesNone
  <2>2. w * 0 = 0 /\ Len(<<>>) = 0
    BY <1>1
  <2>3. Len(Bytes(s, 0, 0)) = w * 0
    BY <2>1, <2>2
  <2> QED BY <1>1, <2>3
<1>6. ASSUME NEW k \in 0..Len(path), k < Len(path)
      PROVE  /\ Sits(FlattenSeq(s), s[k+1], Len(Bytes(s, 0, k)))
             /\ Len(Bytes(s, 0, k+1)) = Len(Bytes(s, 0, k)) + w
  <2>1. k \in Nat /\ k < Len(s) /\ k + 1 \in 1..Len(path)
    BY <1>1, <1>4, <1>6
  <2> QED BY <1>3, <1>4, <2>1, PartSits
<1>7. ASSUME NEW k \in 1..Len(path), k-1 \in G PROVE k \in G
  <2>1. k-1 \in 0..Len(path) /\ k-1 < Len(path) /\ (k-1)+1 = k /\ k \in 0..Len(path)
    BY <1>1
  <2>2. Len(Bytes(s, 0, k)) = Len(Bytes(s, 0, k-1)) + w /\ Len(Bytes(s, 0, k-1)) = w * (k-1)
    BY <1>6, <1>7, <2>1
  <2>3. w * (k-1) + w = w * k
    <3>1. CASE w = 2
      BY <3>1
    <3>2. CASE w = 4
      BY <3>2
    <3> QED BY <1>1, <3>1, <3>2
  <2> QED BY <2>1, <2>2, <2>3
<1>8. \A k \in 0..Len(path) : Len(Bytes(s, 0, k)) = w * k
  <2>1. \A k \in 0..Len(path) : k \in G
    <3> HIDE DEF G
    <3> QED BY <1>1, <1>5, <1>7, UpTo
  <2> QED BY <2>1
<1>9. FlattenSeq(s) \in Seq(Byte) /\ Len(FlattenSeq(s)) = w * Len(path)
  <2>1. FlattenSeq(s) = Bytes(s, 0, Len(s)) /\ FlattenSeq(s) \in Seq(Byte)
    BY <1>4, FlattenIsBytes
  <2>2. Len(path) \in 0..Len(path)
    BY <1>1
  <2>3. Len(Bytes(s, 0, Len(path))) = w * Len(path)
    BY <1>8, <2>2
  <2> QED BY <1>4, <2>1, <2>3
<1>10. ASSUME NEW k \in 1..Len(path) PROVE Sits(FlattenSeq(s), s[k], w * (k - 1))
  <2>1. k-1 \in 0..Len(path) /\ k-1 < Len(path) /\ (k-1)+1 = k
    BY <1>1
  <2>2. Sits(FlattenSeq(s), s[(k-1)+1], Len(Bytes(s, 0, k-1))) /\ Len(Bytes(s, 0, k-1)) = w * (k-1)
    BY <1>6, <1>8, <2>1
  <2> QED BY <2>1, <2>2
<1> QED BY <1>2, <1>4, <1>8, <1>9, <1>10 DEF s, w

\* An AS_SEQUENCE as bytes: its type, its count, and its numbers.
LEMMA SequenceType ==
  ASSUME NEW path \in Seq(Nat), NEW four \in BOOLEAN, Len(path) <= 255
  PROVE  LET b == AsSequence(path, four)
             w == SizeOf(four)
         IN /\ b \in Seq(Byte) /\ Len(b) = 2 + w * Len(path)
            /\ b[1] = AS_SEQUENCE /\ b[2] = Len(path)
            /\ \A k \in 1..Len(path) :
                 Sits(b, AsBytes(path[k], four), 2 + w * (k - 1))
<1> DEFINE s == AsList(path, four)
           w == SizeOf(four)
           t == FlattenSeq(s)
           h == <<AS_SEQUENCE, Len(path)>>
           n == Len(path)
<1>1. n \in Nat /\ w \in {2, 4}
  BY DEF SizeOf
<1>2. /\ t \in Seq(Byte) /\ Len(t) = w * n
      /\ \A k \in 1..n : Sits(t, AsBytes(path[k], four), w * (k - 1))
  <2>1. /\ \A k \in 1..n : s[k] = AsBytes(path[k], four)
        /\ t \in Seq(Byte) /\ Len(t) = w * n
        /\ \A k \in 1..n : Sits(t, s[k], w * (k - 1))
    BY SequenceLaidOut
  <2> HIDE DEF s, t, w
  <2> QED BY <2>1
<1>3. h \in Seq(Byte) /\ Len(h) = 2 /\ h[1] = AS_SEQUENCE /\ h[2] = n
  <2>1. AS_SEQUENCE \in Byte /\ n \in Byte
    <3> HIDE DEF s, t, w, h
    <3>1. n <= 255
      OBVIOUS
    <3> HIDE DEF n
    <3>2. \A v \in Nat : v <= 255 => v \in Byte
      BY DEF Byte
    <3>3. 2 \in Nat /\ 2 <= 255 /\ AS_SEQUENCE = 2
      BY DEF AS_SEQUENCE
    <3> QED BY <1>1, <3>1, <3>2, <3>3
  <2> HIDE DEF n
  <2>2. <<AS_SEQUENCE, n>> \in Seq(Byte) /\ Len(<<AS_SEQUENCE, n>>) = 2
    BY <2>1
  <2> QED BY <2>2 DEF n
<1>4. AsSequence(path, four) = Then(h, t)
  BY Zenon DEF AsSequence, Then
<1> HIDE DEF s, t, h, w
<1> DEFINE b == Then(h, t)
<1>5. b \in Seq(Byte) /\ Len(b) = Len(h) + Len(t) /\ Sits(b, h, 0) /\ Sits(b, t, Len(h))
  BY <1>2, <1>3, ThenSits
<1> HIDE DEF b
<1>6. b[1] = AS_SEQUENCE /\ b[2] = n
  <2>1. 1 \in 1..2 /\ 2 \in 1..2 /\ 0+1 = 1 /\ 0+2 = 2
    OBVIOUS
  <2> QED BY <1>3, <1>5, <2>1 DEF Sits
<1>7. ASSUME NEW k \in 1..n PROVE Sits(b, AsBytes(path[k], four), 2 + w * (k - 1))
  <2> DEFINE x == AsBytes(path[k], four)
             o == w * (k - 1)
  <2>1. x \in Seq(Byte)
    <3>1. path[k] \in Nat
      OBVIOUS
    <3> QED BY <3>1, AsBytesType
  <2>2. Sits(t, x, o)
    BY <1>2
  <2>3. o \in Nat
    <3>1. CASE w = 2
      BY <1>1, <3>1
    <3>2. CASE w = 4
      BY <1>1, <3>2
    <3> QED BY <1>1, <3>1, <3>2
  <2> HIDE DEF x, o
  <2>4. Sits(b, x, 2 + o)
    BY <1>2, <1>3, <1>5, <2>1, <2>2, <2>3, SitsIn
  <2> QED BY <2>4 DEF x, o
<1>8. Len(b) = 2 + w * n
  BY <1>2, <1>3, <1>5
<1> QED BY <1>4, <1>5, <1>6, <1>7, <1>8 DEF b, w

\* An AS_SEQUENCE whose numbers fit is read as the ASes it was written from.
LEMMA PathRead ==
  ASSUME NEW path \in Seq(Nat), NEW four \in BOOLEAN, Len(path) <= 255,
         \A k \in 1..Len(path) : Fits(path[k], four),
         NEW a, a.four_byte_asn = four, a.bytes = AsSequence(path, four)
  PROVE  parse_as_path(a) = path
<1> DEFINE b == AsSequence(path, four)
           w == SizeOf(four)
           n == Len(path)
<1>1. /\ b \in Seq(Byte) /\ Len(b) = 2 + w * n /\ b[2] = n
      /\ \A k \in 1..n : Sits(b, AsBytes(path[k], four), 2 + w * (k - 1))
  BY SequenceType
<1>2. n \in Nat /\ w \in {2, 4} /\ AsSize(a) = w /\ a.bytes = b
  BY DEF SizeOf, AsSize
<1>3. PICK f : Segments(f, a) /\ parse_as_path(a) = f[1]
  BY <1>1, <1>2, ParsedSegments
<1> HIDE DEF b, w
<1>4. w * n \in Nat /\ w * 1 = w
  <2>1. CASE w = 2
    BY <1>2, <2>1
  <2>2. CASE w = 4
    BY <1>2, <2>2
  <2> QED BY <1>2, <2>1, <2>2
<1> DEFINE z == w * n
           x == Numbers(b, 3, n, w)
<1>5. f[Len(b) + 1] = <<>> /\ f[1] = x \o f[1 + 2 + z]
  <2> HIDE DEF z, x
  <2>1. \A i \in 1..(Len(b) + 1) : f[i] = SegmentsFrom(f, a, i)
    BY <1>2, <1>3 DEF Segments
  <2>2. z \in Nat /\ Len(b) = 2 + z
    BY <1>1, <1>4 DEF z
  <2>3. /\ 1 \in 1..(Len(b) + 1) /\ Len(b) + 1 \in 1..(Len(b) + 1)
        /\ (Len(b) + 1) + 1 > Len(b) /\ ~(1 + 1 > Len(b)) /\ ~(1 + 1 + z > Len(b))
        /\ 1 + 1 = 2 /\ 1 + 2 = 3
    BY <2>2
  <2>4. SegmentsFrom(f, a, Len(b) + 1) = <<>>
    BY <1>2, <2>3, Zenon DEF SegmentsFrom
  <2>5. SegmentsFrom(f, a, 1) = Numbers(b, 1 + 2, b[1+1], w) \o f[1 + 2 + w * b[1+1]]
    <3>1. ~(1 + 1 > Len(a.bytes)) /\ ~(1 + 1 + AsSize(a) * a.bytes[1+1] > Len(a.bytes))
      BY <1>1, <1>2, <2>3 DEF z
    <3>2. SegmentsFrom(f, a, 1) = Numbers(a.bytes, 1 + 2, a.bytes[1+1], AsSize(a)) \o f[After(a, 1)]
      BY <3>1, Zenon DEF SegmentsFrom
    <3> QED BY <1>2, <3>2, Zenon DEF After
  <2>6. b[1+1] = n
    BY <1>1, <2>3
  <2>7. Numbers(b, 1 + 2, b[1+1], w) = x /\ w * b[1+1] = z
    BY <2>3, <2>6 DEF x, z
  <2> QED BY <2>1, <2>3, <2>4, <2>5, <2>7
<1>6. 1 + 2 + z = Len(b) + 1
  BY <1>1, <1>2, <1>4
<1>7. x = path
  <2>1. b \in Seq(Nat) /\ 3 \in Nat \ {0} /\ 3 + w * n - 1 <= Len(b)
    BY <1>1, <1>4, BytesAreNumbers
  <2>2. /\ x \in Seq(Nat) /\ Len(x) = n
        /\ \A k \in 1..n : x[k] = Number(SubSeq(b, 3 + w * (k - 1), 3 + w * k - 1))
    <3>1. Room(b, 3, n, w)
      BY <1>2, <2>1, Zenon DEF Room
    <3>2. NumbersAt(x, b, 3, n, w)
      BY <1>2, <2>1, <3>1, NumbersType, Zenon
    <3> QED BY <3>2, Zenon DEF NumbersAt
  <2>3. ASSUME NEW k \in 1..n PROVE x[k] = path[k]
    <3> DEFINE y == AsBytes(path[k], four)
               o == 2 + w * (k - 1)
    <3>1. path[k] \in Nat /\ Fits(path[k], four)
      OBVIOUS
    <3>2. y \in Seq(Byte) /\ Len(y) = w /\ Number(y) = path[k]
      BY <3>1, AsBytesType, AsNumber DEF w
    <3>3. Sits(b, y, o)
      BY <1>1
    <3>4. o \in Nat /\ o + 1 = 3 + w * (k - 1) /\ o + w = 3 + w * k - 1
      <4>1. CASE w = 2
        BY <1>2, <4>1
      <4>2. CASE w = 4
        BY <1>2, <4>2
      <4> QED BY <1>2, <4>1, <4>2
    <3> HIDE DEF y, o, x
    <3>5. SubSeq(b, o + 1, o + Len(y)) = y
      BY <1>1, <3>2, <3>3, <3>4, SitsCut
    <3>6. x[k] = Number(SubSeq(b, 3 + w * (k - 1), 3 + w * k - 1))
      BY <2>2
    <3>7. SubSeq(b, 3 + w * (k - 1), 3 + w * k - 1) = y
      BY <3>2, <3>4, <3>5
    <3> QED BY <3>2, <3>6, <3>7
  <2> HIDE DEF x
  <2> QED BY <2>2, <2>3, SeqEqual
<1>8. f[1] = x \o <<>>
  BY <1>5, <1>6
<1>9. path \o <<>> = path
  BY ConcatEmptySeq, Zenon
<1> QED BY <1>3, <1>7, <1>8, <1>9

-----------------------------------------------------------------------------
\* What rx_update and tx_update do to the list of attributes.

\* The AS_PATHs of a list.
AsPathsOf(attrs) == {attrs[i] : i \in OfType(attrs, PATH_ATTRIBUTE.AS_PATH)}

\* A list has an AS_PATH when some attribute has its type; the first one is one of them.
LEMMA FirstPath ==
  ASSUME NEW attrs \in Seq(path_attr_t), NEW type
  PROVE  /\ OfType(attrs, PATH_ATTRIBUTE.AS_PATH) = {} <=> AsPathsOf(attrs) = {}
         /\ OfType(attrs, type) # {} =>
              /\ FirstOfType(attrs, type) \in OfType(attrs, type)
              /\ FirstOfType(attrs, type) \in 1..Len(attrs)
              /\ attrs[FirstOfType(attrs, type)].type = type
              /\ attrs[FirstOfType(attrs, type)] \in path_attr_t
<1>1. OfType(attrs, type) \in SUBSET Nat
  BY DEF OfType
<1>2. OfType(attrs, type) # {} => FirstOfType(attrs, type) \in OfType(attrs, type)
  BY <1>1, MinIsLeast DEF FirstOfType
<1>3. \A i \in OfType(attrs, type) : i \in 1..Len(attrs) /\ attrs[i].type = type
  BY DEF OfType
<1>4. \A i \in 1..Len(attrs) : attrs[i] \in path_attr_t
  BY ElementOfSeq
<1>5. OfType(attrs, PATH_ATTRIBUTE.AS_PATH) = {} <=> AsPathsOf(attrs) = {}
  BY Zenon DEF AsPathsOf
<1> QED BY <1>2, <1>3, <1>4, <1>5

\* One more attribute.
LEMMA PathsAppend ==
  ASSUME NEW attrs \in Seq(path_attr_t), NEW a \in path_attr_t
  PROVE  /\ Append(attrs, a) \in Seq(path_attr_t)
         /\ AsPathsOf(Append(attrs, a)) =
              AsPathsOf(attrs) \cup (IF a.type = PATH_ATTRIBUTE.AS_PATH THEN {a} ELSE {})
         /\ OfType(Append(attrs, a), PATH_ATTRIBUTE.AS_PATH) =
              OfType(attrs, PATH_ATTRIBUTE.AS_PATH)
              \cup (IF a.type = PATH_ATTRIBUTE.AS_PATH THEN {Len(attrs) + 1} ELSE {})
         /\ Append(attrs, a)[Len(attrs) + 1] = a
<1> DEFINE l == Append(attrs, a)
           T == PATH_ATTRIBUTE.AS_PATH
           n == Len(attrs)
<1>1. /\ l \in Seq(path_attr_t) /\ Len(l) = n + 1 /\ n \in Nat
      /\ \A i \in 1..n : l[i] = attrs[i]
      /\ l[n + 1] = a
  BY AppendProperties
<1> HIDE DEF l, T, n
<1>2. 1..Len(l) = (1..n) \cup {n + 1}
  BY <1>1
<1>3. OfType(attrs, T) = {i \in 1..n : attrs[i].type = T} /\ OfType(l, T) = {i \in 1..Len(l) : l[i].type = T}
  BY DEF OfType, n
<1>4. OfType(l, T) = OfType(attrs, T) \cup (IF a.type = T THEN {n + 1} ELSE {})
  BY <1>1, <1>2, <1>3
<1>5. AsPathsOf(attrs) = {attrs[i] : i \in OfType(attrs, T)} /\ AsPathsOf(l) = {l[i] : i \in OfType(l, T)}
  BY DEF AsPathsOf, T
<1>6. \A i \in OfType(attrs, T) : l[i] = attrs[i]
  BY <1>1, <1>3
<1>7. AsPathsOf(l) = AsPathsOf(attrs) \cup (IF a.type = T THEN {a} ELSE {})
  BY <1>1, <1>4, <1>5, <1>6
<1> QED BY <1>1, <1>4, <1>7 DEF l, T, n

\* Another attribute in the place of one, neither of them an AS_PATH.
LEMMA PathsExcept ==
  ASSUME NEW attrs \in Seq(path_attr_t), NEW k \in 1..Len(attrs), NEW a \in path_attr_t,
         attrs[k].type # PATH_ATTRIBUTE.AS_PATH, a.type # PATH_ATTRIBUTE.AS_PATH
  PROVE  /\ [attrs EXCEPT ![k] = a] \in Seq(path_attr_t)
         /\ AsPathsOf([attrs EXCEPT ![k] = a]) = AsPathsOf(attrs)
<1> DEFINE l == [attrs EXCEPT ![k] = a]
           T == PATH_ATTRIBUTE.AS_PATH
<1>1. /\ l \in Seq(path_attr_t) /\ Len(l) = Len(attrs) /\ l[k] = a
      /\ \A i \in 1..Len(attrs) : i # k => l[i] = attrs[i]
  OBVIOUS
<1> HIDE DEF l, T
<1>2. OfType(attrs, T) = {i \in 1..Len(attrs) : attrs[i].type = T} /\ OfType(l, T) = {i \in 1..Len(l) : l[i].type = T}
  BY DEF OfType
<1>3. attrs[k].type # T /\ a.type # T
  BY DEF T
<1>4. OfType(l, T) = OfType(attrs, T) /\ \A i \in OfType(attrs, T) : l[i] = attrs[i]
  BY <1>1, <1>2, <1>3
<1>5. AsPathsOf(attrs) = {attrs[i] : i \in OfType(attrs, T)} /\ AsPathsOf(l) = {l[i] : i \in OfType(l, T)}
  BY DEF AsPathsOf, T
<1>6. AsPathsOf(l) = AsPathsOf(attrs)
  BY <1>4, <1>5
<1> QED BY <1>1, <1>6 DEF l

\* The loop of WithoutLocalPref.
OneKept(list, a)     == IF a.type = PATH_ATTRIBUTE.LOCAL_PREF THEN list ELSE Append(list, a)
Keeps(f, attrs, n)   == f = [i \in 0..n |-> IF i = 0 THEN <<>> ELSE OneKept(f[i-1], attrs[i])]
PathsUpTo(attrs, k)  == {attrs[j] : j \in {i \in 1..k : attrs[i].type = PATH_ATTRIBUTE.AS_PATH}}

\* It has its values.
LEMMA KeepsExists ==
  ASSUME NEW attrs, NEW n \in Nat
  PROVE  \E f : Keeps(f, attrs, n)
<1> DEFINE G == {k \in 0..n : \E f : Keeps(f, attrs, k)}
<1>1. 0 \in G
  <2>1. Keeps([k \in 0..0 |-> <<>>], attrs, 0)
    BY DEF Keeps
  <2> QED BY <2>1
<1>2. ASSUME NEW k \in 1..n, k-1 \in G PROVE k \in G
  <2>1. PICK f : Keeps(f, attrs, k-1)
    BY <1>2
  <2>2. Keeps([i \in 0..k |-> IF i = k THEN OneKept(f[k-1], attrs[k]) ELSE f[i]], attrs, k)
    BY <2>1 DEF Keeps
  <2> QED BY <2>2
<1>3. n \in G
  <2> HIDE DEF G
  <2>1. \A k \in 0..n : k \in G
    BY <1>1, <1>2, UpTo
  <2> QED BY <2>1
<1> QED BY <1>3

\* One more attribute is looked at.
LEMMA OneKeptPaths ==
  ASSUME NEW list \in Seq(path_attr_t), NEW a \in path_attr_t
  PROVE  /\ OneKept(list, a) \in Seq(path_attr_t)
         /\ AsPathsOf(OneKept(list, a)) =
              AsPathsOf(list) \cup (IF a.type = PATH_ATTRIBUTE.AS_PATH THEN {a} ELSE {})
<1>1. CASE a.type = PATH_ATTRIBUTE.LOCAL_PREF
  <2>1. a.type # PATH_ATTRIBUTE.AS_PATH
    BY <1>1 DEF PATH_ATTRIBUTE
  <2>2. OneKept(list, a) = list
    BY <1>1 DEF OneKept
  <2> QED BY <2>1, <2>2
<1>2. CASE a.type # PATH_ATTRIBUTE.LOCAL_PREF
  <2>1. OneKept(list, a) = Append(list, a)
    BY <1>2 DEF OneKept
  <2> QED BY <2>1, PathsAppend
<1> QED BY <1>1, <1>2

\* Without the LOCAL_PREFs the AS_PATHs are the same.
LEMMA PathsWithoutLocalPref ==
  ASSUME NEW attrs \in Seq(path_attr_t)
  PROVE  /\ WithoutLocalPref(attrs) \in Seq(path_attr_t)
         /\ AsPathsOf(WithoutLocalPref(attrs)) = AsPathsOf(attrs)
<1> DEFINE n == Len(attrs)
           kept == CHOOSE f : Keeps(f, attrs, n)
<1>1. n \in Nat /\ \A i \in 1..n : attrs[i] \in path_attr_t
  BY ElementOfSeq
<1>2. WithoutLocalPref(attrs) = kept[n]
  BY Zenon DEF WithoutLocalPref, Keeps, OneKept
<1>3. Keeps(kept, attrs, n)
  BY <1>1, KeepsExists
<1> HIDE DEF kept, n
<1>4. kept[0] = <<>> /\ \A i \in 1..n : kept[i] = OneKept(kept[i-1], attrs[i])
  BY <1>1, <1>3 DEF Keeps
<1> DEFINE G == {k \in 0..n : kept[k] \in Seq(path_attr_t) /\ AsPathsOf(kept[k]) = PathsUpTo(attrs, k)}
<1>5. 0 \in G
  <2>1. OfType(<<>>, PATH_ATTRIBUTE.AS_PATH) = {} /\ <<>> \in Seq(path_attr_t)
    BY DEF OfType
  <2>2. AsPathsOf(<<>>) = {}
    BY <2>1 DEF AsPathsOf
  <2>3. PathsUpTo(attrs, 0) = {}
    BY DEF PathsUpTo
  <2>4. kept[0] \in Seq(path_attr_t) /\ AsPathsOf(kept[0]) = PathsUpTo(attrs, 0)
    BY <1>4, <2>1, <2>2, <2>3, Zenon
  <2>5. 0 \in 0..n
    BY <1>1
  <2> QED BY <2>4, <2>5
<1>6. ASSUME NEW k \in 1..n, k-1 \in G PROVE k \in G
  <2>1. /\ kept[k-1] \in Seq(path_attr_t) /\ AsPathsOf(kept[k-1]) = PathsUpTo(attrs, k-1)
        /\ k \in 0..n /\ 1..k = (1..(k-1)) \cup {k} /\ attrs[k] \in path_attr_t
    BY <1>1, <1>6
  <2>2. PathsUpTo(attrs, k) = PathsUpTo(attrs, k-1)
          \cup (IF attrs[k].type = PATH_ATTRIBUTE.AS_PATH THEN {attrs[k]} ELSE {})
    BY <2>1 DEF PathsUpTo
  <2>3. /\ kept[k] \in Seq(path_attr_t)
        /\ AsPathsOf(kept[k]) = AsPathsOf(kept[k-1])
             \cup (IF attrs[k].type = PATH_ATTRIBUTE.AS_PATH THEN {attrs[k]} ELSE {})
    BY <1>4, <2>1, OneKeptPaths
  <2>4. AsPathsOf(kept[k]) = PathsUpTo(attrs, k)
    BY <2>1, <2>2, <2>3, Zenon
  <2> QED BY <2>1, <2>3, <2>4
<1>7. n \in G
  <2> HIDE DEF G
  <2>1. \A k \in 0..n : k \in G
    BY <1>1, <1>5, <1>6, UpTo
  <2> QED BY <1>1, <2>1
<1>8. PathsUpTo(attrs, n) = AsPathsOf(attrs)
  BY Zenon DEF AsPathsOf, OfType, PathsUpTo, n
<1> QED BY <1>2, <1>7, <1>8

\* With our next hop they are, too.
LEMMA PathsWithNextHop ==
  ASSUME NEW attrs \in Seq(path_attr_t)
  PROVE  /\ WithNextHop(attrs) \in Seq(path_attr_t)
         /\ AsPathsOf(WithNextHop(attrs)) = AsPathsOf(attrs)
<1> DEFINE N == PATH_ATTRIBUTE.NEXT_HOP
           k == FirstOfType(attrs, N)
           a == make_nexthop(attrs[k], LocalAddress)
<1>1. CASE OfType(attrs, N) = {}
  BY <1>1, Zenon DEF WithNextHop
<1>2. CASE OfType(attrs, N) # {}
  <2>1. k \in 1..Len(attrs) /\ attrs[k].type = N /\ attrs[k] \in path_attr_t
    BY <1>2, FirstPath
  <2>2. N # PATH_ATTRIBUTE.AS_PATH /\ N \in Byte
    BY DEF PATH_ATTRIBUTE, Byte
  <2>3. a \in path_attr_t /\ a.type = N
    <3> HIDE DEF N, k
    <3>1. LocalAddress \in Seq(Byte)
      BY AddressAssumption
    <3>2. a = [attrs[k] EXCEPT !.type = N, !.bytes = LocalAddress]
      BY DEF make_nexthop, N
    <3> QED BY <2>1, <2>2, <3>1, <3>2 DEF path_attr_t
  <2>4. WithNextHop(attrs) = [attrs EXCEPT ![k] = a]
    BY <1>2, Zenon DEF WithNextHop
  <2> HIDE DEF N, k, a
  <2>5. attrs[k].type # PATH_ATTRIBUTE.AS_PATH /\ a.type # PATH_ATTRIBUTE.AS_PATH /\ a \in path_attr_t
    BY <2>1, <2>2, <2>3
  <2>6. /\ [attrs EXCEPT ![k] = a] \in Seq(path_attr_t)
        /\ AsPathsOf([attrs EXCEPT ![k] = a]) = AsPathsOf(attrs)
    BY <2>1, <2>5, PathsExcept, Zenon
  <2> QED BY <2>4, <2>6, Zenon
<1> QED BY <1>1, <1>2

\* And with a LOCAL_PREF.
LEMMA PathsWithLocalPref ==
  ASSUME NEW attrs \in Seq(path_attr_t), NEW flags \in SUBSET Flag
  PROVE  /\ WithLocalPref(attrs, flags) \in Seq(path_attr_t)
         /\ AsPathsOf(WithLocalPref(attrs, flags)) = AsPathsOf(attrs)
<1> DEFINE blank == [flags |-> flags, type |-> 0, bytes |-> <<>>, four_byte_asn |-> FALSE]
           a == make_local_pref(blank, 100)
           P == PATH_ATTRIBUTE.LOCAL_PREF
<1>1. CASE OfType(attrs, P) # {}
  BY <1>1, Zenon DEF WithLocalPref
<1>2. CASE OfType(attrs, P) = {}
  <2>1. blank \in path_attr_t
    BY DEF path_attr_t, Byte
  <2>2. P # PATH_ATTRIBUTE.AS_PATH /\ P \in Byte
    BY DEF PATH_ATTRIBUTE, Byte
  <2>3. a \in path_attr_t /\ a.type = P
    <3> HIDE DEF P, blank
    <3>1. Be32(100) \in Seq(Byte)
      <4>1. 100 \in Nat
        OBVIOUS
      <4> QED BY <4>1, FourBytes
    <3> DEFINE v == Be32(100)
    <3>2. a = [blank EXCEPT !.type = P, !.bytes = v]
      BY DEF make_local_pref, P
    <3>3. v \in Seq(Byte)
      BY <3>1
    <3> HIDE DEF v, a
    <3> QED BY <2>1, <2>2, <3>2, <3>3 DEF path_attr_t
  <2>4. WithLocalPref(attrs, flags) = Append(attrs, a)
    BY <1>2, Zenon DEF WithLocalPref
  <2> HIDE DEF a, P, blank
  <2>5. a.type # PATH_ATTRIBUTE.AS_PATH
    BY <2>2, <2>3
  <2>6. /\ Append(attrs, a) \in Seq(path_attr_t)
        /\ AsPathsOf(Append(attrs, a)) = AsPathsOf(attrs)
    <3>1. /\ Append(attrs, a) \in Seq(path_attr_t)
          /\ AsPathsOf(Append(attrs, a)) =
               AsPathsOf(attrs) \cup (IF a.type = PATH_ATTRIBUTE.AS_PATH THEN {a} ELSE {})
      BY <2>3, PathsAppend
    <3> QED BY <2>5, <3>1
  <2> QED BY <2>4, <2>6, Zenon
<1> QED BY <1>1, <1>2

\* make_as_path makes an AS_SEQUENCE in the width the attribute has.
LEMMA MadePath ==
  ASSUME NEW a \in path_attr_t, NEW path \in Seq(Nat)
  PROVE  LET m == make_as_path(a, path)
         IN /\ m \in path_attr_t /\ m.type = PATH_ATTRIBUTE.AS_PATH
            /\ m.four_byte_asn = a.four_byte_asn /\ m.four_byte_asn \in BOOLEAN
            /\ Len(path) <= 255 => m.bytes = AsSequence(path, a.four_byte_asn)
<1> DEFINE four == a.four_byte_asn
           t == FlattenSeq([k \in 1..Len(path) |-> AsBytes(path[k], four)])
           n == Len(path) % 256
           T == PATH_ATTRIBUTE.AS_PATH
           f == a.flags \cup {"transitive", "extended_length"}
           b == Then(<<AS_SEQUENCE, n>>, t)
           m == make_as_path(a, path)
<1>1. four \in BOOLEAN /\ a.flags \in SUBSET Flag
  BY DEF path_attr_t
<1>2. t \in Seq(Byte) /\ t = FlattenSeq(AsList(path, four))
  <2> HIDE DEF four
  <2>1. t = FlattenSeq(AsList(path, four))
    BY DEF AsList
  <2>2. FlattenSeq(AsList(path, four)) \in Seq(Byte)
    BY <1>1, SequenceLaidOut
  <2> QED BY <2>1, <2>2
<1>3. n \in Byte /\ (Len(path) <= 255 => n = Len(path)) /\ AS_SEQUENCE \in Byte
  <2>1. \A v \in Nat : v % 256 \in 0..255 /\ (v <= 255 => v % 256 = v)
    OBVIOUS
  <2>2. Len(path) \in Nat
    OBVIOUS
  <2>3. AS_SEQUENCE \in 0..255
    BY DEF AS_SEQUENCE
  <2> QED BY <2>1, <2>2, <2>3 DEF Byte
<1>4. m = [a EXCEPT !.type = T, !.flags = f, !.bytes = b]
  BY Zenon DEF make_as_path, Then
<1>5. T \in Byte
  BY DEF PATH_ATTRIBUTE, Byte
<1>6. f \in SUBSET Flag
  BY <1>1 DEF Flag, FlagBit
<1> HIDE DEF t, n, T, f, m
<1>7. b \in Seq(Byte)
  <2>1. <<AS_SEQUENCE, n>> \in Seq(Byte)
    BY <1>3
  <2> QED BY <1>2, <2>1, ThenJoins
<1>8. Len(path) <= 255 => b = AsSequence(path, four)
  BY <1>2, <1>3 DEF AsSequence, Then
<1> HIDE DEF b
<1>9. /\ m \in path_attr_t /\ m.type = T /\ m.bytes = b
      /\ m.four_byte_asn = four /\ m.four_byte_asn \in BOOLEAN
  BY <1>1, <1>4, <1>5, <1>6, <1>7 DEF path_attr_t
<1> QED BY <1>8, <1>9 DEF m, T

-----------------------------------------------------------------------------
\* Types.

\* What process_update has made of the message so far.
ReadTypes ==
  /\ body \in Seq(Byte) /\ wide \in BOOLEAN
  /\ withdrawn \in Seq(NLRI) /\ paths \in Seq(path_attr_t) /\ routes \in Seq(NLRI)
  /\ phase # "error" => offset \in 0..Longest /\ len \in 0..Longest

\* Inside of a message offset and len have 16 bits, because the message has.
LEMMA ReadingRanges ==
  ASSUME NEW m, Message(m), Reading(m), phase # "error"
  PROVE  offset \in 0..Longest /\ len \in 0..Longest
<1> DEFINE w == Len(PrefixBytes(m.withdrawn))
           n == Len(PathBytes(m.attrs))
           r == Len(PrefixBytes(m.routes))
<1>1. /\ w \in Nat /\ n \in Nat /\ r \in Nat /\ Len(body) = 4 + w + n + r
      /\ AttrsStart(m) = 4 + w /\ RoutesStart(m) = 4 + w + n
      /\ Len(body) \in Nat /\ Len(body) <= Longest
  BY MessageFacts
<1>2. phase = "withdrawn" => offset \in 2 .. 2 + w /\ len = 2 + w - offset
  BY DEF Reading, PrefixesRead
<1>3. phase = "attributes" =>
        offset \in AttrsStart(m) .. AttrsStart(m) + n /\ len = AttrsStart(m) + n - offset
  BY DEF Reading, AttributesRead, Left
<1>4. phase = "routes" =>
        offset \in RoutesStart(m) .. RoutesStart(m) + r /\ len = RoutesStart(m) + r - offset
  BY DEF Reading, PrefixesRead
<1>5. phase = "done" => offset = Len(body) /\ len = 0
  BY DEF Reading
<1>6. phase \in {"withdrawn", "attributes", "routes", "done"}
  BY DEF Reading
<1>7. Longest \in Nat
  BY LongestType
<1> HIDE DEF w, n, r
<1>8. CASE phase = "withdrawn"
  BY <1>1, <1>2, <1>7, <1>8
<1>9. CASE phase = "attributes"
  BY <1>1, <1>3, <1>7, <1>9
<1>10. CASE phase = "routes"
  BY <1>1, <1>4, <1>7, <1>10
<1>11. CASE phase = "done"
  BY <1>1, <1>5, <1>7, <1>11
<1> QED BY <1>6, <1>8, <1>9, <1>10, <1>11

\* Its lists are lists of prefixes and of attributes, empty ones after an error.
LEMMA ReadingLists ==
  ASSUME NEW m, Message(m), Reading(m)
  PROVE  withdrawn \in Seq(NLRI) /\ paths \in Seq(path_attr_t) /\ routes \in Seq(NLRI)
<1>1. <<>> \in Seq(NLRI) /\ <<>> \in Seq(path_attr_t)
  OBVIOUS
<1>2. phase \in {"withdrawn", "attributes", "routes", "done", "error"}
  BY DEF Reading
<1>3. CASE phase = "withdrawn"
  BY <1>1, <1>3 DEF Reading, PrefixesRead
<1>4. CASE phase = "attributes"
  BY <1>1, <1>4 DEF Reading, PrefixesWhole, AttributesRead, Alike
<1>5. CASE phase = "routes"
  BY <1>5 DEF Reading, PrefixesWhole, PrefixesRead, Alike
<1>6. CASE phase = "done"
  BY <1>6 DEF Reading, PrefixesWhole, Alike
<1>7. CASE phase = "error"
  <2>1. <<withdrawn, paths, routes>> = <<<<>>, <<>>, <<>>>>
    BY <1>7 DEF Reading, result
  <2>2. withdrawn = <<>> /\ paths = <<>> /\ routes = <<>>
    BY <2>1
  <2> QED BY <1>1, <2>2
<1> QED BY <1>2, <1>3, <1>4, <1>5, <1>6, <1>7

\* So it is in every message that is read.
LEMMA ReadsTypes == ReadInv /\ Sendable(meant) => ReadTypes
<1> SUFFICES ASSUME ReadInv, Sendable(meant) PROVE ReadTypes
  OBVIOUS
<1>1. PICK m : Message(m) /\ Reading(m)
  BY ReadMessage
<1>2. body \in Seq(Byte)
  BY <1>1, MessageFacts
<1>3. wide \in BOOLEAN
  BY DEF ReadInv
<1>4. withdrawn \in Seq(NLRI) /\ paths \in Seq(path_attr_t) /\ routes \in Seq(NLRI)
  BY <1>1, ReadingLists
<1>5. phase # "error" => offset \in 0..Longest /\ len \in 0..Longest
  BY <1>1, ReadingRanges
<1> QED BY <1>2, <1>3, <1>4, <1>5 DEF ReadTypes

\* A configured route enters the table with attributes, none of them an AS_PATH, or not at all.
LEMMA OriginateType ==
  ASSUME NEW r \in Originated, NEW policy \in LoadPolicy(r.policy), NEW prefix,
         NEW flags \in JunkFlags, NEW w \in JunkWidth
  PROVE  LET attrs == Originate(prefix, policy, flags, w)
         IN attrs = None \/ (attrs \in Seq(path_attr_t) /\ AsPathsOf(attrs) = {})
<1> DEFINE start == DefaultAttributes(flags, w)
           done  == routePolicyProcess(policy, prefix, start)
           attrs == Originate(prefix, policy, flags, w)
<1>1. attrs = CASE policy = None -> start
                [] policy # None /\ done.verdict = "accept" -> done.attrs
                [] OTHER -> None
  BY Zenon DEF Originate
<1>2. Three(start)
  BY DefaultsType
<1>3. ASSUME policy # None PROVE Three(done.attrs)
  <2>1. IsPolicy(policy)
    BY <1>3, PolicyRead
  <2>2. IsRun(done)
    BY <1>2, <2>1, PolicyDecides
  <2> QED BY <2>2 DEF IsRun
<1> HIDE DEF start, done, attrs
<1>4. attrs = None \/ Three(attrs)
  BY <1>1, <1>2, <1>3
<1>5. ASSUME Three(attrs) PROVE attrs \in Seq(path_attr_t) /\ AsPathsOf(attrs) = {}
  <2>1. attrs \in Seq(path_attr_t) /\ OfType(attrs, PATH_ATTRIBUTE.AS_PATH) = {}
    BY <1>5 DEF Three, OfType
  <2> QED BY <2>1 DEF AsPathsOf
<1> QED BY <1>4, <1>5 DEF attrs

\* An AS_PATH that tx_update makes for a list of attributes: a new one, or one
\* of the list and our AS.
MadeFor(x, attrs, four) ==
  \E a \in path_attr_t, p \in Seq(Nat) :
    /\ x = make_as_path(a, p)
    /\ \/ AsPathsOf(attrs) = {} /\ a.four_byte_asn = four /\ p = <<my_as>>
       \/ a \in AsPathsOf(attrs) /\ p = Append(parse_as_path(a), my_as)

\* The attributes of the UPDATE that tx_update writes, and the first AS_PATH in it.
LEMMA OurAsAdded ==
  ASSUME my_as \in Nat, NEW attrs \in Seq(path_attr_t), NEW four \in BOOLEAN, NEW flags \in SUBSET Flag
  PROVE  LET l == WithOurAs(attrs, four, flags)
             k == FirstOfType(l, PATH_ATTRIBUTE.AS_PATH)
         IN l \in Seq(path_attr_t) /\ k \in 1..Len(l) /\ MadeFor(l[k], attrs, four)
<1> DEFINE T == PATH_ATTRIBUTE.AS_PATH
           l == WithOurAs(attrs, four, flags)
<1>1. CASE OfType(attrs, T) # {}
  <2> DEFINE k == FirstOfType(attrs, T)
             a == attrs[k]
             p == Append(parse_as_path(a), my_as)
             m == make_as_path(a, p)
  <2>1. k \in OfType(attrs, T) /\ k \in 1..Len(attrs) /\ a \in path_attr_t /\ a.type = T
    BY <1>1, FirstPath
  <2>2. a \in AsPathsOf(attrs)
    BY <2>1 DEF AsPathsOf
  <2>3. p \in Seq(Nat)
    <3> HIDE DEF a
    <3>1. a.bytes \in Seq(Byte)
      BY <2>1 DEF path_attr_t
    <3>2. parse_as_path(a) \in Seq(Nat)
      BY <3>1, ParsedType
    <3> QED BY <3>2
  <2>4. l = [attrs EXCEPT ![k] = m]
    BY <1>1, Zenon DEF WithOurAs
  <2> HIDE DEF l, a, p
  <2>5. m \in path_attr_t /\ m.type = T
    BY <2>1, <2>3, MadePath
  <2> HIDE DEF m, k
  <2>6. /\ l \in Seq(path_attr_t) /\ Len(l) = Len(attrs) /\ l[k] = m
        /\ \A i \in 1..Len(attrs) : i # k => l[i] = attrs[i]
    BY <2>1, <2>4, <2>5
  <2>7. OfType(l, T) = OfType(attrs, T)
    <3>1. attrs[k].type = T
      BY <2>1 DEF a
    <3>2. \A i \in 1..Len(attrs) : l[i].type = T <=> attrs[i].type = T
      BY <2>5, <2>6, <3>1
    <3> QED BY <2>6, <3>2 DEF OfType
  <2>8. FirstOfType(l, T) = k
    BY <2>7, Zenon DEF FirstOfType, k
  <2>9. l[k] = make_as_path(a, p) /\ p = Append(parse_as_path(a), my_as)
    BY <2>6 DEF m, p
  <2>10. MadeFor(l[k], attrs, four)
    BY <2>1, <2>2, <2>3, <2>9 DEF MadeFor
  <2>11. k \in 1..Len(l)
    BY <2>1, <2>6
  <2> QED BY <2>6, <2>8, <2>10, <2>11 DEF l
<1>2. CASE OfType(attrs, T) = {}
  <2> DEFINE a == [flags |-> flags, type |-> 0, bytes |-> <<>>, four_byte_asn |-> four]
             p == <<my_as>>
             m == make_as_path(a, p)
             n == Len(attrs) + 1
  <2>1. a \in path_attr_t /\ a.four_byte_asn = four
    BY DEF path_attr_t, Byte
  <2>2. p \in Seq(Nat)
    OBVIOUS
  <2>3. l = Append(attrs, m)
    BY <1>2, Zenon DEF WithOurAs
  <2>4. AsPathsOf(attrs) = {}
    BY <1>2 DEF AsPathsOf
  <2> HIDE DEF l, a, p
  <2>5. m \in path_attr_t /\ m.type = T
    BY <2>1, <2>2, MadePath
  <2> HIDE DEF m
  <2>6. /\ l \in Seq(path_attr_t) /\ l[n] = m
        /\ OfType(l, T) = OfType(attrs, T) \cup (IF m.type = T THEN {n} ELSE {})
    BY <2>3, <2>5, PathsAppend
  <2>7. OfType(l, T) = {n}
    BY <1>2, <2>5, <2>6
  <2>8. FirstOfType(l, T) = n /\ n \in 1..Len(l)
    <3>1. FirstOfType(l, T) \in OfType(l, T) /\ FirstOfType(l, T) \in 1..Len(l)
      BY <2>6, <2>7, FirstPath
    <3> QED BY <2>7, <3>1
  <2>9. l[n] = make_as_path(a, p) /\ p = <<my_as>>
    BY <2>6 DEF m, p
  <2>10. MadeFor(l[n], attrs, four)
    BY <2>1, <2>2, <2>4, <2>9 DEF MadeFor
  <2> QED BY <2>6, <2>8, <2>10 DEF l
<1> QED BY <1>1, <1>2

\* The types that the steps keep, and what a stage says of them.
FlowInv ==
  /\ offset \in 0..Longest /\ len \in 0..Longest
  /\ stage \in {"received", "kept", "dropped", "sent"}
  /\ from \in Neighbour \cup {None} /\ to \in Neighbour \cup {None}
  /\ stage = "received" => from \in Neighbour
  /\ stage = "sent" => to \in Neighbour
  /\ stored = None \/ stored \in Seq(path_attr_t)
  /\ stage = "kept" => stored \in Seq(path_attr_t)
  /\ sent \in Seq(path_attr_t)
  /\ trace \in Seq(Nat) /\ hops \in 0..MaxHops

\* The ASes of the configuration are numbers.
LEMMA AsTypes ==
  ASSUME ConfigInv
  PROVE  /\ my_as \in Nat /\ my_as \div 65536 < 65536
         /\ \A n \in Neighbour : session[n].as \in Nat /\ session[n].as < 65536
                                 /\ session[n].wide \in BOOLEAN
<1>1. my_as \in Nat /\ my_as \div 65536 < 65536
  BY OwnAsAssumption DEF ConfigInv
<1>2. session \in [Neighbour -> [as : Nat, wide : BOOLEAN, ext : BOOLEAN, packed : BOOLEAN]]
  BY SessionAssumption DEF ConfigInv
<1>3. \A n \in Neighbour : Configured(session[n].as)
  BY DEF ConfigInv
<1>4. \A n \in Neighbour : session[n].as < 65536
  BY <1>3 DEF Configured
<1> QED BY <1>1, <1>2, <1>4

\* The values the run begins with have their types.
LEMMA InitFlows == Init /\ ReadTypes /\ ConfigInv => FlowInv
<1> SUFFICES ASSUME Init, ReadTypes, ConfigInv PROVE FlowInv
  OBVIOUS
<1>1. to = None /\ sent = <<>> /\ sent \in Seq(path_attr_t)
  BY DEF Init
<1>2. MaxHops \in Nat \ {0}
  BY HopsAssumption
<1>3. CASE InitNeighbour
  <2>1. PICK n \in Neighbour : from = n /\ trace = <<session[n].as>>
    BY <1>3 DEF InitNeighbour
  <2>2. stage = "received" /\ stored = None /\ hops = 1 /\ phase = "withdrawn"
    BY <1>3 DEF InitNeighbour, ProcessUpdate
  <2>3. session[n].as \in Nat
    BY AsTypes
  <2>4. trace \in Seq(Nat)
    BY <2>1, <2>3
  <2>5. offset \in 0..Longest /\ len \in 0..Longest
    BY <2>2 DEF ReadTypes
  <2> QED BY <1>1, <1>2, <2>1, <2>2, <2>4, <2>5 DEF FlowInv
<1>4. CASE InitOriginate
  <2>1. /\ stage = IF stored = None THEN "dropped" ELSE "kept"
        /\ from = None /\ trace = <<>> /\ hops = 0 /\ phase = "withdrawn"
    BY <1>4 DEF InitOriginate, ProcessUpdate
  <2>2. stored = None \/ stored \in Seq(path_attr_t)
    <3>1. PICK r \in Originated, flags \in JunkFlags, w \in JunkWidth : \E policy :
            /\ policy \in LoadPolicy(r.policy)
            /\ stored = Originate(origin.prefix, policy, flags, w)
      BY <1>4 DEF InitOriginate
    <3> QED BY <3>1, OriginateType
  <2>3. offset \in 0..Longest /\ len \in 0..Longest
    BY <2>1 DEF ReadTypes
  <2>4. trace \in Seq(Nat)
    BY <2>1
  <2> QED BY <1>1, <1>2, <2>1, <2>2, <2>3, <2>4 DEF FlowInv
<1> QED BY <1>3, <1>4 DEF Init

\* offset and len are left alone by an error, and have 16 bits before it.
LEMMA RangesKept ==
  ASSUME [Next]_vars, ReadTypes', offset \in 0..Longest, len \in 0..Longest
  PROVE  offset' \in 0..Longest /\ len' \in 0..Longest
<1>1. CASE phase' # "error"
  BY <1>1 DEF ReadTypes
<1>2. CASE phase' = "error"
  <2>1. CASE Parse
    <3>1. CASE PrefixError
      BY <3>1 DEF PrefixError
    <3>2. CASE ReadWithdrawn \/ StartAttributes \/ ReadAttribute \/ StartRoutes \/ ReadRoute \/ Return
      <4>1. phase' # "error"
        BY <3>2 DEF ReadWithdrawn, StartAttributes, ReadAttribute, StartRoutes, ReadRoute, Return
      <4> QED BY <1>2, <4>1
    <3> QED BY <2>1, <3>1, <3>2 DEF Parse, ParseStep
  <2>2. CASE RxUpdate
    BY <2>2 DEF RxUpdate, update
  <2>3. ASSUME NEW n \in Neighbour, TxUpdate(n) PROVE offset' = offset /\ len' = len
    BY <2>3 DEF TxUpdate, update
  <2>4. ASSUME NEW n \in Neighbour, ComesBack(n) PROVE FALSE
    <3>1. phase' = "withdrawn"
      BY <2>4 DEF ComesBack, ProcessNext
    <3> QED BY <1>2, <3>1
  <2>5. CASE UNCHANGED vars
    BY <2>5 DEF vars, update
  <2> QED BY <2>1, <2>2, <2>3, <2>4, <2>5 DEF Next
<1> QED BY <1>1, <1>2

\* Every step keeps the types.
LEMMA NextFlows == FlowInv /\ ReadTypes /\ ReadTypes' /\ ConfigInv /\ [Next]_vars => FlowInv'
<1> SUFFICES ASSUME FlowInv, ReadTypes, ReadTypes', ConfigInv, [Next]_vars PROVE FlowInv'
  OBVIOUS
<1>1. offset' \in 0..Longest /\ len' \in 0..Longest
  BY RangesKept DEF FlowInv
<1>2. CASE UNCHANGED <<stage, from, to, stored, sent, trace, hops>>
  BY <1>1, <1>2 DEF FlowInv
<1>3. CASE Parse
  BY <1>2, <1>3 DEF Parse, relay
<1>4. CASE UNCHANGED vars
  BY <1>2, <1>4 DEF vars, relay
<1>5. CASE RxUpdate
  <2>1. /\ from' = from /\ to' = to /\ sent' = sent /\ trace' = trace /\ hops' = hops
        /\ \/ stage' = "dropped" /\ stored' = stored
           \/ stage' = "kept" /\ \E flags \in JunkFlags : stored' = WithLocalPref(paths, flags)
    BY <1>5 DEF RxUpdate
  <2>2. CASE stage' = "dropped" /\ stored' = stored
    BY <1>1, <2>1, <2>2 DEF FlowInv
  <2>3. CASE stage' = "kept" /\ \E flags \in JunkFlags : stored' = WithLocalPref(paths, flags)
    <3>1. PICK flags \in JunkFlags : stored' = WithLocalPref(paths, flags)
      BY <2>3
    <3>2. flags \in SUBSET Flag /\ paths \in Seq(path_attr_t)
      BY FlagsAssumption DEF ReadTypes
    <3>3. stored' \in Seq(path_attr_t)
      BY <3>1, <3>2, PathsWithLocalPref
    <3> QED BY <1>1, <2>1, <2>3, <3>3 DEF FlowInv
  <2> QED BY <2>1, <2>2, <2>3
<1>6. ASSUME NEW n \in Neighbour, TxUpdate(n) PROVE FlowInv'
  <2>1. /\ stage = "kept" /\ stage' = "sent" /\ to' = n /\ trace' = Append(trace, my_as)
        /\ from' = from /\ stored' = stored /\ hops' = hops
    BY <1>6 DEF TxUpdate
  <2>2. PICK flags \in JunkFlags :
          sent' = WithOurAs(WithNextHop(WithoutLocalPref(stored)), FourByteAsn(OpenOf(n)), flags)
    BY <1>6 DEF TxUpdate
  <2>3. flags \in SUBSET Flag /\ my_as \in Nat /\ stored \in Seq(path_attr_t)
    BY <2>1, FlagsAssumption, AsTypes DEF FlowInv
  <2>4. FourByteAsn(OpenOf(n)) \in BOOLEAN
    BY WidthType
  <2>5. WithNextHop(WithoutLocalPref(stored)) \in Seq(path_attr_t)
    BY <2>3, PathsWithoutLocalPref, PathsWithNextHop
  <2>6. sent' \in Seq(path_attr_t)
    BY <2>2, <2>3, <2>4, <2>5, OurAsAdded
  <2>7. trace' \in Seq(Nat)
    BY <2>1, <2>3 DEF FlowInv
  <2> QED BY <1>1, <2>1, <2>6, <2>7 DEF FlowInv
<1>7. ASSUME NEW n \in Neighbour, ComesBack(n) PROVE FlowInv'
  <2> DEFINE passed == IF n = to THEN <<session[n].as>> ELSE <<session[n].as, session[to].as>>
  <2>1. /\ stage = "sent" /\ hops < MaxHops /\ trace' = trace \o passed
        /\ from' = n /\ stage' = "received" /\ hops' = hops + 1
        /\ stored' = None /\ to' = None /\ sent' = <<>>
    BY <1>7 DEF ComesBack
  <2>2. to \in Neighbour
    BY <2>1 DEF FlowInv
  <2>3. session[n].as \in Nat /\ session[to].as \in Nat
    BY <2>2, AsTypes
  <2>4. passed \in Seq(Nat)
    BY <2>3
  <2> HIDE DEF passed
  <2>5. trace' \in Seq(Nat)
    BY <2>1, <2>4 DEF FlowInv
  <2>6. hops' \in 0..MaxHops
    BY <2>1, HopsAssumption DEF FlowInv
  <2>7. <<>> \in Seq(path_attr_t)
    OBVIOUS
  <2> QED BY <1>1, <2>1, <2>5, <2>6, <2>7 DEF FlowInv
<1> QED BY <1>3, <1>4, <1>5, <1>6, <1>7 DEF Next

\* A number up to the largest one that 16 bits hold.
LEMMA SixteenBits ==
  ASSUME NEW v \in Nat, v <= Longest
  PROVE  v < 65536
BY DEF Longest

\* Every variable keeps its type on the way of a route: the 16 bits of offset
\* and len, the lists that are read, written and stored, and every message
\* that is meant can be written.
THEOREM Typed == Spec => []TypeOK
<1>1. ReadTypes /\ FlowInv /\ ConfigInv /\ OriginInv /\ Sendable(meant) => TypeOK
  <2> SUFFICES ASSUME ReadTypes, FlowInv, ConfigInv, OriginInv, Sendable(meant) PROVE TypeOK
    OBVIOUS
  <2>1. [withdrawn |-> withdrawn, attrs |-> paths, routes |-> routes] \in Received
    BY DEF ReadTypes, Received
  <2>2. offset \in Nat /\ offset < 65536 /\ len \in Nat /\ len < 65536
    <3>1. offset \in 0..Longest /\ len \in 0..Longest
      BY DEF FlowInv
    <3>2. offset \in Nat /\ offset <= Longest /\ len \in Nat /\ len <= Longest
      BY <3>1, LongestType
    <3> QED BY <3>2, SixteenBits
  <2>3. origin = None \/ origin.prefix \in NLRI
    <3>1. ASSUME origin # None PROVE origin.prefix \in NLRI
      <4>1. PICK r \in Originated : \E policy : origin = [prefix |-> ParsePrefix(r.prefix), policy |-> policy]
        BY <3>1 DEF OriginInv
      <4>2. IsText(r.prefix) /\ ~PrefixThrows(r.prefix)
        BY OriginatedAssumption
      <4>3. origin.prefix = ParsePrefix(r.prefix)
        BY <4>1
      <4> QED BY <4>2, <4>3, ParsedPrefix
    <3> QED BY <3>1
  <2>4. body \in Seq(Byte) /\ wide \in BOOLEAN /\ my_as \in OwnAs /\ session \in Sessions
    BY DEF ReadTypes, ConfigInv
  <2>5. /\ stage \in {"received", "kept", "dropped", "sent"}
        /\ from \in Neighbour \cup {None} /\ to \in Neighbour \cup {None}
        /\ stored = None \/ stored \in Seq(path_attr_t)
        /\ sent \in Seq(path_attr_t)
        /\ trace \in Seq(Nat) /\ hops \in 0..MaxHops
    BY DEF FlowInv
  <2> QED BY <2>1, <2>2, <2>3, <2>4, <2>5 DEF TypeOK
<1> QED BY <1>1, ReadsTypes, InitFlows, NextFlows, Reads, WhatIsMeantIsSendable, ConfigKept,
           OriginKept, PTL DEF Spec

-----------------------------------------------------------------------------
\* The ASes of a list.

\* A member of the list is one of its ASes; one more AS, and one list after another.
LEMMA AsesAppend ==
  ASSUME NEW s \in Seq(Nat), NEW v \in Nat
  PROVE  ToSet(Append(s, v)) = ToSet(s) \cup {v} /\ (Contains(s, v) <=> v \in ToSet(s))
<1> DEFINE l == Append(s, v)
<1>1. /\ l \in Seq(Nat) /\ Len(l) = Len(s) + 1 /\ Len(s) \in Nat
      /\ \A i \in 1..Len(s) : l[i] = s[i]
      /\ l[Len(s) + 1] = v
  BY AppendProperties
<1> HIDE DEF l
<1>2. DOMAIN l = (1..Len(s)) \cup {Len(s) + 1} /\ DOMAIN s = 1..Len(s)
  BY <1>1
<1>3. ToSet(l) = {l[i] : i \in DOMAIN l} /\ ToSet(s) = {s[i] : i \in DOMAIN s}
  BY DEF ToSet
<1>4. ToSet(l) = ToSet(s) \cup {v}
  BY <1>1, <1>2, <1>3
<1>5. Contains(s, v) <=> v \in ToSet(s)
  BY <1>2, <1>3 DEF Contains
<1> QED BY <1>4, <1>5 DEF l

\* One list after another.
LEMMA AsesThen ==
  ASSUME NEW s \in Seq(Nat), NEW t \in Seq(Nat)
  PROVE  ToSet(Then(s, t)) = ToSet(s) \cup ToSet(t)
<1> DEFINE l == Then(s, t)
<1>1. l \in Seq(Nat) /\ Joined(l, s, t)
  BY ThenJoins
<1> HIDE DEF l
<1>2. /\ Len(l) = Len(s) + Len(t) /\ Len(s) \in Nat /\ Len(t) \in Nat
      /\ \A i \in 1..Len(s) : l[i] = s[i]
      /\ \A i \in 1..Len(t) : l[Len(s) + i] = t[i]
  BY <1>1 DEF Joined
<1>3. DOMAIN l = 1..Len(l) /\ DOMAIN s = 1..Len(s) /\ DOMAIN t = 1..Len(t)
  BY <1>1
<1>4. /\ ToSet(l) = {l[i] : i \in DOMAIN l} /\ ToSet(s) = {s[i] : i \in DOMAIN s}
      /\ ToSet(t) = {t[i] : i \in DOMAIN t}
  BY DEF ToSet
<1>5. ASSUME NEW x \in ToSet(l) PROVE x \in ToSet(s) \cup ToSet(t)
  <2>1. PICK i \in 1..Len(l) : x = l[i]
    BY <1>3, <1>4
  <2>2. CASE i <= Len(s)
    <3>1. i \in 1..Len(s)
      BY <1>2, <2>2
    <3> QED BY <1>2, <1>3, <1>4, <2>1, <3>1
  <2>3. CASE ~(i <= Len(s))
    <3>1. i - Len(s) \in 1..Len(t) /\ Len(s) + (i - Len(s)) = i
      BY <1>2, <2>3
    <3>2. x = t[i - Len(s)]
      BY <1>2, <2>1, <3>1
    <3> QED BY <1>3, <1>4, <3>1, <3>2
  <2> QED BY <2>2, <2>3
<1>6. ASSUME NEW x \in ToSet(s) PROVE x \in ToSet(l)
  <2>1. PICK i \in 1..Len(s) : x = s[i]
    BY <1>3, <1>4
  <2>2. i \in 1..Len(l) /\ x = l[i]
    BY <1>2, <2>1
  <2> QED BY <1>3, <1>4, <2>2
<1>7. ASSUME NEW x \in ToSet(t) PROVE x \in ToSet(l)
  <2>1. PICK i \in 1..Len(t) : x = t[i]
    BY <1>3, <1>4
  <2>2. Len(s) + i \in 1..Len(l) /\ x = l[Len(s) + i]
    BY <1>2, <2>1
  <2> QED BY <1>3, <1>4, <2>2
<1> QED BY <1>5, <1>6, <1>7 DEF l

\* A list of the ASes that a route has passed, each as often, whatever their order.
SameAses(p, passed) == p \in Seq(Nat) /\ Len(p) = Len(passed) /\ ToSet(p) = ToSet(passed)

\* One more AS at the end of both, and more at the ends of each.
LEMMA SameLonger ==
  ASSUME NEW t \in Seq(Nat), NEW p, SameAses(p, t)
  PROVE  /\ \A v \in Nat : SameAses(Append(p, v), Append(t, v))
         /\ \A q \in Seq(Nat) : SameAses(q \o p, t \o q)
<1>1. p \in Seq(Nat) /\ Len(p) = Len(t) /\ ToSet(p) = ToSet(t)
  BY DEF SameAses
<1>2. ASSUME NEW v \in Nat PROVE SameAses(Append(p, v), Append(t, v))
  <2>1. ToSet(Append(p, v)) = ToSet(p) \cup {v} /\ ToSet(Append(t, v)) = ToSet(t) \cup {v}
    BY <1>1, AsesAppend
  <2>2. /\ Append(p, v) \in Seq(Nat) /\ Len(Append(p, v)) = Len(p) + 1
        /\ Len(Append(t, v)) = Len(t) + 1
    BY <1>1, AppendProperties
  <2> QED BY <1>1, <2>1, <2>2 DEF SameAses
<1>3. ASSUME NEW q \in Seq(Nat) PROVE SameAses(q \o p, t \o q)
  <2>1. ToSet(Then(q, p)) = ToSet(q) \cup ToSet(p) /\ ToSet(Then(t, q)) = ToSet(t) \cup ToSet(q)
    BY <1>1, AsesThen
  <2>2. Then(q, p) \in Seq(Nat) /\ Joined(Then(q, p), q, p) /\ Joined(Then(t, q), t, q)
    BY <1>1, ThenJoins
  <2>3. Len(Then(q, p)) = Len(Then(t, q))
    BY <1>1, <2>2 DEF Joined
  <2>4. SameAses(Then(q, p), Then(t, q))
    BY <1>1, <2>1, <2>2, <2>3 DEF SameAses
  <2> QED BY <2>4 DEF Then
<1> QED BY <1>2, <1>3

-----------------------------------------------------------------------------
\* The AS_PATHs of a network with AS numbers of one width.

\* The ASes there are.
OnTheWay == {my_as} \cup {session[n].as : n \in Neighbour}

\* They fit the width of every session.
LEMMA WayFits ==
  ASSUME ConfigInv, Uniform, NEW n \in Neighbour, NEW v \in OnTheWay
  PROVE  /\ Fits(v, session[n].wide) /\ session[n].wide \in BOOLEAN
         /\ ~(~session[n].wide /\ v > 65535)
<1>1. session[n].wide \in BOOLEAN
  BY AsTypes
<1>2. v \in Nat /\ v \div 65536 < 65536 /\ (v > 65535 => session[n].wide)
  <2>1. CASE v = my_as
    <3>1. my_as > 65535 => session[n].wide
      BY DEF Uniform
    <3>2. my_as \in Nat /\ my_as \div 65536 < 65536
      BY AsTypes
    <3> QED BY <2>1, <3>1, <3>2
  <2>2. ASSUME NEW m \in Neighbour, v = session[m].as
        PROVE  v \in Nat /\ v \div 65536 < 65536 /\ (v > 65535 => session[n].wide)
    <3>1. v \in Nat /\ v < 65536
      BY <2>2, AsTypes
    <3> QED BY <3>1, SMT
  <2> QED BY <2>1, <2>2 DEF OnTheWay
<1>3. v < 65536 \/ session[n].wide
  BY <1>2
<1> QED BY <1>1, <1>2, <1>3 DEF Fits

\* A list of them fits it too.
LEMMA WayListFits ==
  ASSUME ConfigInv, Uniform, NEW n \in Neighbour, NEW p \in Seq(Nat), ToSet(p) \subseteq OnTheWay
  PROVE  /\ \A k \in 1..Len(p) : Fits(p[k], session[n].wide) /\ ~(~session[n].wide /\ p[k] > 65535)
         /\ session[n].wide \in BOOLEAN
<1>1. ASSUME NEW k \in 1..Len(p) PROVE p[k] \in OnTheWay
  <2>1. p[k] \in ToSet(p)
    BY DEF ToSet
  <2> QED BY <2>1
<1> QED BY <1>1, WayFits, AsTypes

\* What a neighbour writes of such a list is one AS_SEQUENCE in the width of its session.
LEMMA NeighbourWrites ==
  ASSUME ConfigInv, Uniform, NEW n \in Neighbour, NEW p \in Seq(Nat), ToSet(p) \subseteq OnTheWay
  PROVE  LET a == NeighbourPath(n, p)
         IN /\ a.type = PATH_ATTRIBUTE.AS_PATH /\ "extended_length" \notin a.flags
            /\ a.bytes = AsSequence(p, session[n].wide)
<1> DEFINE four == session[n].wide
           s == [k \in 1..Len(p) |-> AsField(n, p[k])]
           f == {"transitive"} \cup (IF session[n].ext THEN {"extended_length"} ELSE {})
           b == <<AS_SEQUENCE, Len(p)>> \o FlattenSeq(s)
<1>1. NeighbourPath(n, p) = [flags |-> f, type |-> PATH_ATTRIBUTE.AS_PATH, bytes |-> b, four_byte_asn |-> four]
  BY Zenon DEF NeighbourPath
<1>2. "extended_length" \notin f
  <2>1. ~session[n].ext
    BY DEF Uniform
  <2> QED BY <2>1
<1>3. s = AsList(p, four)
  <2>1. ASSUME NEW k \in 1..Len(p) PROVE AsField(n, p[k]) = AsBytes(p[k], four)
    <3>1. ~(~session[n].wide /\ p[k] > 65535)
      BY WayListFits
    <3> QED BY <3>1 DEF AsField
  <2> QED BY <2>1, Zenon DEF AsList
<1>4. b = AsSequence(p, four)
  BY <1>3, Zenon DEF AsSequence
<1> HIDE DEF f, b, s, four
<1>5. /\ NeighbourPath(n, p).flags = f /\ NeighbourPath(n, p).type = PATH_ATTRIBUTE.AS_PATH
      /\ NeighbourPath(n, p).bytes = b
  BY <1>1
<1> QED BY <1>2, <1>4, <1>5 DEF four

\* And it is read as this list.
LEMMA NeighbourIsRead ==
  ASSUME ConfigInv, Uniform, NEW n \in Neighbour, NEW p \in Seq(Nat), ToSet(p) \subseteq OnTheWay,
         Len(p) <= 255,
         NEW a, a.four_byte_asn = session[n].wide, a.bytes = AsSequence(p, session[n].wide)
  PROVE  parse_as_path(a) = p
<1>1. /\ \A k \in 1..Len(p) : Fits(p[k], session[n].wide)
      /\ session[n].wide \in BOOLEAN
  BY WayListFits
<1> QED BY <1>1, PathRead

\* An AS_SEQUENCE in an attribute with a length of one byte has not more than
\* 126 ASes, in either width.
LEMMA SequenceFits ==
  ASSUME NEW p \in Seq(Nat), NEW four \in BOOLEAN, Len(AsSequence(p, four)) <= 255
  PROVE  Len(p) <= 126
<1> DEFINE t == FlattenSeq(AsList(p, four))
           h == <<AS_SEQUENCE, Len(p)>>
           w == SizeOf(four)
           n == Len(p)
<1>1. t \in Seq(Byte) /\ Len(t) = w * n /\ n \in Nat /\ w \in {2, 4}
  BY SequenceLaidOut DEF SizeOf
<1>2. AsSequence(p, four) = Then(h, t)
  BY Zenon DEF AsSequence, Then
<1>3. h \in Seq(Nat) /\ Len(h) = 2
  BY DEF AS_SEQUENCE
<1> HIDE DEF h, t, w
<1>4. t \in Seq(Nat)
  BY <1>1, BytesAreNumbers
<1>5. Len(Then(h, t)) = Len(h) + Len(t)
  BY <1>3, <1>4, ThenSits
<1>6. 2 + w * n <= 255
  BY <1>1, <1>2, <1>3, <1>5
<1>7. CASE w = 2
  BY <1>1, <1>6, <1>7
<1>8. CASE w = 4
  BY <1>1, <1>6, <1>8
<1> QED BY <1>1, <1>7, <1>8

\* The types of all states, for the proofs that follow.
THEOREM Flows == Spec => [](ReadTypes /\ FlowInv)
BY ReadsTypes, InitFlows, NextFlows, Reads, WhatIsMeantIsSendable, ConfigKept, PTL DEF Spec

\* The route has only passed ASes of the network.
PassedInv == ToSet(trace) \subseteq OnTheWay

\* The speaker and the neighbours leave only their own AS in the history.
THEOREM Passed == Spec => []PassedInv
<1>1. Init /\ ConfigInv => PassedInv
  <2> SUFFICES ASSUME Init, ConfigInv PROVE PassedInv
    OBVIOUS
  <2>1. CASE InitNeighbour
    <3>1. PICK n \in Neighbour : trace = <<session[n].as>>
      BY <2>1 DEF InitNeighbour
    <3>2. ToSet(trace) = {session[n].as}
      BY <3>1 DEF ToSet
    <3> QED BY <3>2 DEF PassedInv, OnTheWay
  <2>2. CASE InitOriginate
    <3>1. trace = <<>>
      BY <2>2 DEF InitOriginate
    <3>2. ToSet(trace) = {}
      BY <3>1 DEF ToSet
    <3> QED BY <3>2 DEF PassedInv
  <2> QED BY <2>1, <2>2 DEF Init
<1>2. PassedInv /\ FlowInv /\ ConfigInv /\ [Next]_vars => PassedInv'
  <2> SUFFICES ASSUME PassedInv, FlowInv, ConfigInv, [Next]_vars PROVE PassedInv'
    OBVIOUS
  <2>1. trace \in Seq(Nat)
    BY DEF FlowInv
  <2>2. my_as \in Nat /\ \A n \in Neighbour : session[n].as \in Nat
    BY AsTypes
  <2>3. CASE UNCHANGED <<trace, config>>
    BY <2>3 DEF PassedInv, OnTheWay, config
  <2>4. ASSUME NEW n \in Neighbour, TxUpdate(n) PROVE PassedInv'
    <3>1. trace' = Append(trace, my_as) /\ my_as' = my_as /\ session' = session
      BY <2>4 DEF TxUpdate, config
    <3>2. ToSet(trace') = ToSet(trace) \cup {my_as}
      BY <2>1, <2>2, <3>1, AsesAppend
    <3>3. OnTheWay' = OnTheWay
      BY <3>1 DEF OnTheWay
    <3> QED BY <3>2, <3>3 DEF PassedInv, OnTheWay
  <2>5. ASSUME NEW n \in Neighbour, ComesBack(n) PROVE PassedInv'
    <3> DEFINE passed == IF n = to THEN <<session[n].as>> ELSE <<session[n].as, session[to].as>>
    <3>1. /\ stage = "sent" /\ trace' = Then(trace, passed)
          /\ my_as' = my_as /\ session' = session
      BY <2>5 DEF ComesBack, Then, config
    <3>2. to \in Neighbour
      BY <3>1 DEF FlowInv
    <3>3. passed \in Seq(Nat) /\ ToSet(passed) \subseteq {session[n].as, session[to].as}
      BY <2>2, <3>2 DEF ToSet
    <3> HIDE DEF passed
    <3>4. ToSet(trace') = ToSet(trace) \cup ToSet(passed)
      BY <2>1, <3>1, <3>3, AsesThen
    <3>5. OnTheWay' = OnTheWay /\ {session[n].as, session[to].as} \subseteq OnTheWay
      BY <3>1, <3>2 DEF OnTheWay
    <3> QED BY <3>3, <3>4, <3>5 DEF PassedInv
  <2>6. [Next]_vars => \/ UNCHANGED <<trace, config>>
                       \/ \E n \in Neighbour : TxUpdate(n) \/ ComesBack(n)
    BY DEF Next, Parse, RxUpdate, vars, relay
  <2> QED BY <2>3, <2>4, <2>5, <2>6
<1> QED BY <1>1, <1>2, Flows, ConfigKept, PTL DEF Spec

\* The width an UPDATE is read in is the one its sender writes, if its OPEN
\* has one capability per parameter, and is the
\* width of every attribute that has a length of one byte.
WidthInv ==
  /\ stage = "received" /\ ~session[from].packed => wide = session[from].wide
  /\ \A i \in 1..Len(paths) :
       "extended_length" \notin paths[i].flags => paths[i].four_byte_asn = wide

\* A step of process_update adds attributes of the width it was called with.
LEMMA WidthStep ==
  ASSUME ParseStep, WidthInv, ReadTypes
  PROVE  /\ wide' = wide
         /\ \A i \in 1..Len(paths') :
              "extended_length" \notin paths'[i].flags => paths'[i].four_byte_asn = wide
<1>1. CASE ReadAttribute
  <2>1. PICK a : /\ paths' = Append(paths, a)
                 /\ "extended_length" \notin a.flags => a.four_byte_asn = wide
    <3> DEFINE flags == FlagsOf(At(offset))
               data  == offset + HeaderSize(flags)
               count == IF "extended_length" \in flags THEN U16At(offset + 2) ELSE At(offset + 2)
    <3>1. PICK w \in (IF "extended_length" \in flags THEN JunkWidth ELSE {wide}) :
            paths' = Append(paths, [flags |-> flags, type |-> At(offset + 1),
                                    bytes |-> Slice(data, count), four_byte_asn |-> w])
      BY <1>1, Zenon DEF ReadAttribute
    <3> HIDE DEF flags, data, count
    <3> QED BY <3>1
  <2>2. wide' = wide
    BY <1>1 DEF ReadAttribute
  <2>3. paths \in Seq(path_attr_t)
    BY DEF ReadTypes
  <2>4. ASSUME NEW i \in 1..Len(paths'), "extended_length" \notin paths'[i].flags
        PROVE  paths'[i].four_byte_asn = wide
    <3>1. CASE i \in 1..Len(paths)
      <4>1. paths'[i] = paths[i]
        BY <2>1, <2>3, <3>1
      <4> QED BY <2>4, <3>1, <4>1 DEF WidthInv
    <3>2. CASE i \notin 1..Len(paths)
      <4>1. paths'[i] = a
        BY <2>1, <2>3, <3>2
      <4> QED BY <2>1, <2>4, <4>1
    <3> QED BY <3>1, <3>2
  <2> QED BY <2>2, <2>4
<1>2. CASE PrefixError
  <2>1. wide' = wide /\ paths' = <<>>
    BY <1>2 DEF PrefixError
  <2> QED BY <2>1
<1>3. CASE ReadWithdrawn \/ StartAttributes \/ StartRoutes \/ ReadRoute \/ Return
  <2>1. wide' = wide /\ paths' = paths
    BY <1>3 DEF ReadWithdrawn, StartAttributes, StartRoutes, ReadRoute, Return
  <2> QED BY <2>1 DEF WidthInv
<1> QED BY <1>1, <1>2, <1>3 DEF ParseStep

\* rx_update reads the AS_PATH of a neighbour in the width its OPEN has
\* announced, if the OPEN has one capability per parameter.
THEOREM WidthsRead == Spec => []WidthInv
<1>1. Init /\ CapabilitiesRead => WidthInv
  <2> SUFFICES ASSUME Init, CapabilitiesRead PROVE WidthInv
    OBVIOUS
  <2>1. CASE InitNeighbour
    <3>1. from \in Neighbour /\ paths = <<>> /\ wide = FourByteAsn(OpenOf(from))
      BY <2>1 DEF InitNeighbour, ProcessUpdate
    <3> QED BY <3>1 DEF WidthInv, CapabilitiesRead
  <2>2. CASE InitOriginate
    <3>1. stage # "received" /\ paths = <<>>
      BY <2>2 DEF InitOriginate, ProcessUpdate
    <3> QED BY <3>1 DEF WidthInv
  <2> QED BY <2>1, <2>2 DEF Init
<1>2. WidthInv /\ ReadTypes /\ CapabilitiesRead /\ [Next]_vars => WidthInv'
  <2> SUFFICES ASSUME WidthInv, ReadTypes, CapabilitiesRead, [Next]_vars PROVE WidthInv'
    OBVIOUS
  <2>1. CASE Parse
    <3>1. ParseStep /\ stage' = stage /\ from' = from /\ session' = session
      BY <2>1 DEF Parse, relay, config
    <3> QED BY <3>1, WidthStep DEF WidthInv
  <2>2. CASE UNCHANGED vars
    <3>1. stage' = stage /\ from' = from /\ session' = session /\ wide' = wide /\ paths' = paths
      BY <2>2 DEF vars, relay, config, update
    <3> QED BY <3>1 DEF WidthInv
  <2>3. CASE RxUpdate
    <3>1. stage' # "received" /\ wide' = wide /\ paths' = paths
      BY <2>3 DEF RxUpdate, update
    <3> QED BY <3>1 DEF WidthInv
  <2>4. ASSUME NEW n \in Neighbour, TxUpdate(n) PROVE WidthInv'
    <3>1. stage' # "received" /\ wide' = wide /\ paths' = paths
      BY <2>4 DEF TxUpdate, update
    <3> QED BY <3>1 DEF WidthInv
  <2>5. ASSUME NEW n \in Neighbour, ComesBack(n) PROVE WidthInv'
    <3>1. /\ from' = n /\ session' = session /\ paths' = <<>>
          /\ wide' = FourByteAsn(OpenOf(n))
      BY <2>5 DEF ComesBack, ProcessNext, config
    <3>2. ~session[n].packed => wide' = session[n].wide
      BY <3>1 DEF CapabilitiesRead
    <3> QED BY <3>1, <3>2 DEF WidthInv
  <2> QED BY <2>1, <2>2, <2>3, <2>4, <2>5 DEF Next
<1> QED BY <1>1, <1>2, Flows, CapabilitiesFound, PTL DEF Spec

-----------------------------------------------------------------------------
\* The AS_PATH of a route in the speaker and between the speakers.

\* An AS_PATH that has the ASes of the route, as neighbour n writes it.
SentBy(n, a) ==
  /\ "extended_length" \notin a.flags
  /\ \E p : SameAses(p, trace) /\ a.bytes = AsSequence(p, session[n].wide)

\* An AS_PATH that is read as the ASes of the route in any session.
Held(a) ==
  /\ \A n \in Neighbour : a.four_byte_asn = session[n].wide
  /\ SameAses(parse_as_path(a), trace)

\* What the table holds when a route has been taken.
Kept(attrs) ==
  /\ \A a \in AsPathsOf(attrs) : Held(a)
  /\ AsPathsOf(attrs) = {} => trace = <<>>
  /\ Len(trace) <= 126
  /\ my_as \notin ToSet(trace)

\* The ASes of the route are in its AS_PATH wherever it is, and ours is not
\* when it is in the table.
PathInv ==
  Uniform =>
    /\ stage = "received" =>
         /\ AsPathsOf(meant.attrs) # {}
         /\ \A a \in AsPathsOf(meant.attrs) : SentBy(from, a)
    /\ stage = "kept" => Kept(stored)
    /\ stage = "sent" => SameAses(PathAsRead, trace)

\* The list with one AS has that AS.
LEMMA OneAs ==
  ASSUME NEW v \in Nat
  PROVE  <<v>> \in Seq(Nat) /\ ToSet(<<v>>) = {v} /\ Len(<<v>>) = 1 /\ <<v>> = Append(<<>>, v)
BY DEF ToSet

\* What rx_update takes has the AS_PATH that the neighbour has written, in the
\* width of the sessions, without our AS.
LEMMA TakenPath ==
  ASSUME PathInv, WidthInv, PassedInv, ReadInv, Sendable(meant), ReadTypes, FlowInv, ConfigInv,
         Uniform, stage = "received", phase \in {"done", "error"},
         ~OurAsFound(paths), routes # <<>>
  PROVE  Kept(paths)
<1>1. Reading(meant)
  BY DEF ReadInv
<1>2. phase = "done"
  <2>1. phase = "error" => routes = <<>>
    BY <1>1 DEF Reading, result
  <2> QED BY <2>1
<1>3. Len(paths) = Len(meant.attrs) /\ \A i \in 1..Len(paths) : SameAttribute(paths[i], meant.attrs[i])
  BY <1>1, <1>2 DEF Reading, Alike
<1>4. /\ from \in Neighbour /\ wide = session[from].wide /\ trace \in Seq(Nat)
      /\ \A n \in Neighbour : session[n].wide = session[from].wide
  BY DEF FlowInv, WidthInv, Uniform
<1>5. /\ AsPathsOf(meant.attrs) # {}
      /\ \A a \in AsPathsOf(meant.attrs) : SentBy(from, a)
  BY DEF PathInv
<1>6. ASSUME NEW i \in OfType(paths, PATH_ATTRIBUTE.AS_PATH)
      PROVE  Held(paths[i]) /\ Len(trace) <= 126 /\ my_as \notin ToSet(trace)
  <2>1. i \in 1..Len(paths) /\ paths[i].type = PATH_ATTRIBUTE.AS_PATH
    BY DEF OfType
  <2>2. /\ paths[i].flags = meant.attrs[i].flags /\ paths[i].type = meant.attrs[i].type
        /\ paths[i].bytes = meant.attrs[i].bytes
    BY <1>3, <2>1 DEF SameAttribute
  <2>3. meant.attrs[i] \in AsPathsOf(meant.attrs)
    BY <1>3, <2>1, <2>2 DEF AsPathsOf, OfType
  <2>4. PICK p : SameAses(p, trace) /\ meant.attrs[i].bytes = AsSequence(p, session[from].wide)
    BY <1>5, <2>3 DEF SentBy
  <2>5. "extended_length" \notin paths[i].flags
    BY <1>5, <2>2, <2>3 DEF SentBy
  <2>6. p \in Seq(Nat) /\ Len(p) = Len(trace) /\ ToSet(p) = ToSet(trace)
    BY <2>4 DEF SameAses
  <2>7. Len(meant.attrs[i].bytes) <= 255
    BY <1>3, <2>1, <2>2, <2>5 DEF Sendable
  <2>8. session[from].wide \in BOOLEAN /\ my_as \in Nat
    BY <1>4, AsTypes
  <2>9. Len(p) <= 126 /\ Len(p) <= 255
    <3>1. Len(p) <= 126
      BY <2>4, <2>6, <2>7, <2>8, SequenceFits
    <3> QED BY <2>6, <3>1
  <2>10. paths[i].four_byte_asn = session[from].wide
    BY <1>4, <2>1, <2>5 DEF WidthInv
  <2>11. parse_as_path(paths[i]) = p
    <3>1. ToSet(p) \subseteq OnTheWay
      BY <2>6 DEF PassedInv
    <3>2. paths[i].bytes = AsSequence(p, session[from].wide)
      BY <2>2, <2>4
    <3> QED BY <1>4, <2>6, <2>9, <2>10, <3>1, <3>2, NeighbourIsRead
  <2>12. my_as \notin ToSet(p)
    <3>1. ~Contains(p, my_as)
      BY <2>11 DEF OurAsFound
    <3> QED BY <2>6, <2>8, <3>1, AsesAppend
  <2>13. Held(paths[i])
    BY <1>4, <2>4, <2>10, <2>11 DEF Held
  <2> QED BY <2>6, <2>9, <2>12, <2>13
<1>7. AsPathsOf(paths) # {}
  <2>1. PICK i \in 1..Len(meant.attrs) : meant.attrs[i].type = PATH_ATTRIBUTE.AS_PATH
    BY <1>5 DEF AsPathsOf, OfType
  <2>2. i \in OfType(paths, PATH_ATTRIBUTE.AS_PATH)
    BY <1>3, <2>1 DEF OfType, SameAttribute
  <2> QED BY <2>2 DEF AsPathsOf
<1>8. PICK i : i \in OfType(paths, PATH_ATTRIBUTE.AS_PATH)
  BY <1>7 DEF AsPathsOf
<1>9. \A a \in AsPathsOf(paths) : Held(a)
  BY <1>6 DEF AsPathsOf
<1> QED BY <1>6, <1>7, <1>8, <1>9 DEF Kept

\* What add_path stores has the AS_PATHs of the message.
LEMMA StoredPath ==
  ASSUME NEW attrs \in Seq(path_attr_t), NEW flags \in SUBSET Flag, Kept(attrs)
  PROVE  Kept(WithLocalPref(attrs, flags))
BY PathsWithLocalPref DEF Kept

\* What tx_update makes of the table is read by the neighbour as the ASes of
\* the route and ours.
LEMMA GivenPath ==
  ASSUME PassedInv, FlowInv, ConfigInv, CapabilitiesRead, Uniform, stored \in Seq(path_attr_t),
         Kept(stored), NEW n \in Neighbour, NEW flags \in SUBSET Flag
  PROVE  LET l == WithOurAs(WithNextHop(WithoutLocalPref(stored)), FourByteAsn(OpenOf(n)), flags)
             a == l[FirstOfType(l, PATH_ATTRIBUTE.AS_PATH)]
         IN SameAses(parse_as_path([a EXCEPT !.four_byte_asn = session[n].wide]),
                     Append(trace, my_as))
<1> DEFINE attrs == WithNextHop(WithoutLocalPref(stored))
           four == FourByteAsn(OpenOf(n))
           l == WithOurAs(attrs, four, flags)
           x == l[FirstOfType(l, PATH_ATTRIBUTE.AS_PATH)]
<1>1. attrs \in Seq(path_attr_t) /\ AsPathsOf(attrs) = AsPathsOf(stored)
  BY PathsWithoutLocalPref, PathsWithNextHop
<1>2. four = session[n].wide /\ four \in BOOLEAN /\ my_as \in Nat /\ trace \in Seq(Nat)
  BY AsTypes, WidthType DEF CapabilitiesRead, Uniform, FlowInv
<1> HIDE DEF attrs, four
<1>3. PICK a \in path_attr_t, p \in Seq(Nat) :
        /\ x = make_as_path(a, p)
        /\ \/ AsPathsOf(attrs) = {} /\ a.four_byte_asn = four /\ p = <<my_as>>
           \/ a \in AsPathsOf(attrs) /\ p = Append(parse_as_path(a), my_as)
  <2>1. my_as \in Nat /\ attrs \in Seq(path_attr_t) /\ four \in BOOLEAN
    BY <1>1, <1>2
  <2>2. MadeFor(x, attrs, four)
    BY <2>1, OurAsAdded, Zenon
  <2> QED BY <2>2, Zenon DEF MadeFor
<1> HIDE DEF l, x
<1>4. SameAses(p, Append(trace, my_as)) /\ a.four_byte_asn = session[n].wide
  <2>1. CASE AsPathsOf(attrs) = {} /\ a.four_byte_asn = four /\ p = <<my_as>>
    <3>1. trace = <<>>
      BY <1>1, <2>1 DEF Kept
    <3>2. p = Append(trace, my_as)
      BY <1>2, <2>1, <3>1, OneAs
    <3> QED BY <1>2, <2>1, <3>2 DEF SameAses
  <2>2. CASE a \in AsPathsOf(attrs) /\ p = Append(parse_as_path(a), my_as)
    <3>1. a.four_byte_asn = session[n].wide /\ SameAses(parse_as_path(a), trace)
      BY <1>1, <2>2 DEF Kept, Held
    <3> QED BY <1>2, <2>2, <3>1, SameLonger
  <2> QED BY <1>3, <2>1, <2>2
<1>5. ToSet(p) \subseteq OnTheWay /\ Len(p) <= 255
  <2>1. Len(trace) <= 126
    BY DEF Kept
  <2>2. ToSet(Append(trace, my_as)) = ToSet(trace) \cup {my_as}
    BY <1>2, AsesAppend
  <2>3. Len(Append(trace, my_as)) = Len(trace) + 1
    BY <1>2
  <2>4. ToSet(trace) \subseteq OnTheWay /\ my_as \in OnTheWay
    BY DEF PassedInv, OnTheWay
  <2>5. ToSet(p) = ToSet(Append(trace, my_as)) /\ Len(p) = Len(Append(trace, my_as))
    BY <1>4 DEF SameAses
  <2>6. Len(p) <= 255
    BY <1>2, <2>1, <2>3, <2>5
  <2> QED BY <2>2, <2>4, <2>5, <2>6
<1>6. x \in path_attr_t /\ x.bytes = AsSequence(p, session[n].wide)
  BY <1>3, <1>4, <1>5, MadePath
<1> DEFINE y == [x EXCEPT !.four_byte_asn = session[n].wide]
<1>7. y.four_byte_asn = session[n].wide /\ y.bytes = AsSequence(p, session[n].wide)
  BY <1>6 DEF path_attr_t
<1> HIDE DEF y
<1>8. parse_as_path(y) = p
  BY <1>5, <1>7, NeighbourIsRead
<1>9. SameAses(parse_as_path(y), Append(trace, my_as))
  BY <1>4, <1>8
<1> QED BY <1>9, Zenon DEF y, x, l, attrs, four

\* The message of a neighbour that has only this AS_PATH.
LEMMA OnlyPath ==
  ASSUME NEW a, a.type = PATH_ATTRIBUTE.AS_PATH
  PROVE  AsPathsOf(<<a>>) = {a}
<1>1. OfType(<<a>>, PATH_ATTRIBUTE.AS_PATH) = {1}
  BY DEF OfType
<1> QED BY <1>1 DEF AsPathsOf

\* A route begins with an AS_PATH of its neighbour's AS, or without one and
\* without any AS it has passed.
LEMMA InitPaths == Init /\ Sendable(meant) /\ ConfigInv => PathInv
<1> SUFFICES ASSUME Init, Sendable(meant), ConfigInv, Uniform PROVE
      /\ stage = "received" =>
           /\ AsPathsOf(meant.attrs) # {}
           /\ \A a \in AsPathsOf(meant.attrs) : SentBy(from, a)
      /\ stage = "kept" => Kept(stored)
      /\ stage # "sent"
  BY DEF PathInv
<1>1. CASE InitNeighbour
  <2>1. PICK n \in Neighbour, m \in Announced :
          /\ from = n /\ trace = <<session[n].as>>
          /\ meant = [m EXCEPT !.attrs = Append(@, NeighbourPath(n, <<session[n].as>>))]
    BY <1>1 DEF InitNeighbour
  <2> DEFINE p == <<session[n].as>>
             a == NeighbourPath(n, p)
  <2>2. m \in Received /\ OfType(m.attrs, PATH_ATTRIBUTE.AS_PATH) = {}
    BY AnnouncedAssumption
  <2>3. p \in Seq(Nat) /\ ToSet(p) = {session[n].as}
    BY AsTypes, OneAs
  <2>4. ToSet(p) \subseteq OnTheWay
    BY <2>3 DEF OnTheWay
  <2>5. p = trace
    BY <2>1
  <2> HIDE DEF p
  <2>6. /\ a.type = PATH_ATTRIBUTE.AS_PATH /\ "extended_length" \notin a.flags
        /\ a.bytes = AsSequence(p, session[n].wide)
    BY <2>3, <2>4, NeighbourWrites
  <2>7. meant.attrs = Append(m.attrs, a)
    BY <2>1, <2>2 DEF Received, p
  <2> HIDE DEF a
  <2>8. AsPathsOf(meant.attrs) = {a}
    <3>1. m.attrs \in Seq(path_attr_t) /\ meant.attrs \in Seq(path_attr_t)
      BY <2>2 DEF Received, Sendable
    <3>2. a \in path_attr_t
      <4>1. meant.attrs[Len(m.attrs) + 1] = a /\ Len(meant.attrs) = Len(m.attrs) + 1
        BY <2>7, <3>1
      <4> QED BY <3>1, <4>1
    <3>3. AsPathsOf(m.attrs) = {}
      BY <2>2, <3>1, FirstPath
    <3> QED BY <2>6, <2>7, <3>1, <3>2, <3>3, PathsAppend
  <2>9. SentBy(from, a)
    <3>1. SameAses(p, trace)
      BY <2>3, <2>5 DEF SameAses
    <3> QED BY <2>1, <2>6, <3>1 DEF SentBy
  <2>10. stage = "received"
    BY <1>1 DEF InitNeighbour
  <2> QED BY <2>8, <2>9, <2>10
<1>2. CASE InitOriginate
  <2>1. stage = (IF stored = None THEN "dropped" ELSE "kept") /\ trace = <<>>
    BY <1>2 DEF InitOriginate
  <2>2. stored # None => stored \in Seq(path_attr_t) /\ AsPathsOf(stored) = {}
    <3>1. PICK r \in Originated, flags \in JunkFlags, w \in JunkWidth : \E policy :
            /\ policy \in LoadPolicy(r.policy)
            /\ stored = Originate(origin.prefix, policy, flags, w)
      BY <1>2 DEF InitOriginate
    <3> QED BY <3>1, OriginateType
  <2>3. Len(trace) <= 126 /\ ToSet(trace) = {}
    BY <2>1 DEF ToSet
  <2>4. stage = "kept" => Kept(stored)
    BY <2>1, <2>2, <2>3 DEF Kept
  <2>5. stage # "received" /\ stage # "sent"
    BY <2>1
  <2> QED BY <2>4, <2>5
<1> QED BY <1>1, <1>2 DEF Init

\* The configuration decides whether all sessions are alike.
LEMMA SameUniform ==
  ASSUME session' = session, my_as' = my_as
  PROVE  Uniform' = Uniform
BY DEF Uniform

\* Every step keeps the ASes of the route in its AS_PATH.
LEMMA NextPaths ==
  ASSUME PathInv, WidthInv, PassedInv, ReadInv, Sendable(meant), ReadTypes, FlowInv, ConfigInv,
         CapabilitiesRead, PassedInv', Sendable(meant)', [Next]_vars
  PROVE  PathInv'
<1> SUFFICES ASSUME Uniform PROVE
      /\ stage' = "received" =>
           /\ AsPathsOf(meant'.attrs) # {}
           /\ \A a \in AsPathsOf(meant'.attrs) : SentBy(from, a)'
      /\ stage' = "kept" => Kept(stored)'
      /\ stage' = "sent" => SameAses(PathAsRead', trace')
  <2>1. my_as' = my_as /\ session' = session
    BY DEF Next, Parse, RxUpdate, TxUpdate, ComesBack, vars, relay, config
  <2>2. Uniform' => Uniform
    BY <2>1, SameUniform
  <2> QED BY <2>2 DEF PathInv, SameAses, SentBy, AsPathsOf, OfType
<1>1. CASE UNCHANGED relay
  <2>1. /\ stage' = stage /\ meant' = meant /\ from' = from /\ stored' = stored /\ trace' = trace
        /\ my_as' = my_as /\ session' = session /\ sent' = sent /\ to' = to
    BY <1>1 DEF relay, config
  <2>2. PathAsRead' = PathAsRead
    BY <2>1, Zenon DEF PathAsRead
  <2>3. Kept(stored) => Kept(stored)'
    BY <2>1, Zenon DEF Kept, Held
  <2>4. \A a \in AsPathsOf(meant.attrs) : SentBy(from, a) => SentBy(from, a)'
    BY <2>1, Zenon DEF SentBy
  <2>5. /\ stage = "received" =>
             /\ AsPathsOf(meant.attrs) # {}
             /\ \A a \in AsPathsOf(meant.attrs) : SentBy(from, a)
        /\ stage = "kept" => Kept(stored)
        /\ stage = "sent" => SameAses(PathAsRead, trace)
    BY DEF PathInv
  <2> QED BY <2>1, <2>2, <2>3, <2>4, <2>5
<1>2. CASE RxUpdate
  <2>1. CASE stage' = "dropped"
    BY <2>1
  <2>2. CASE stage' # "dropped"
    <3>1. /\ stage = "received" /\ phase \in {"done", "error"}
          /\ ~OurAsFound(paths) /\ routes # <<>> /\ stage' = "kept"
          /\ trace' = trace /\ my_as' = my_as /\ session' = session
      BY <1>2, <2>2 DEF RxUpdate, config
    <3>2. PICK flags \in JunkFlags : stored' = WithLocalPref(paths, flags)
      BY <1>2, <2>2 DEF RxUpdate
    <3>3. flags \in SUBSET Flag /\ paths \in Seq(path_attr_t)
      BY FlagsAssumption DEF ReadTypes
    <3>4. Kept(paths)
      BY <3>1, TakenPath
    <3>5. Kept(stored')
      BY <3>2, <3>3, <3>4, StoredPath
    <3>6. Kept(stored)'
      BY <3>1, <3>5, Zenon DEF Kept, Held
    <3> QED BY <3>1, <3>6
  <2> QED BY <2>1, <2>2
<1>3. ASSUME NEW n \in Neighbour, TxUpdate(n)
      PROVE  stage' = "sent" /\ SameAses(PathAsRead', trace')
  <2>1. /\ stage = "kept" /\ stage' = "sent" /\ to' = n /\ trace' = Append(trace, my_as)
        /\ session' = session
    BY <1>3 DEF TxUpdate, config
  <2>2. PICK flags \in JunkFlags :
          sent' = WithOurAs(WithNextHop(WithoutLocalPref(stored)), FourByteAsn(OpenOf(n)), flags)
    BY <1>3 DEF TxUpdate
  <2>3. flags \in SUBSET Flag /\ stored \in Seq(path_attr_t) /\ Kept(stored)
    BY <2>1, FlagsAssumption DEF FlowInv, PathInv
  <2> DEFINE l == WithOurAs(WithNextHop(WithoutLocalPref(stored)), FourByteAsn(OpenOf(n)), flags)
             a == l[FirstOfType(l, PATH_ATTRIBUTE.AS_PATH)]
  <2>4. SameAses(parse_as_path([a EXCEPT !.four_byte_asn = session[n].wide]), Append(trace, my_as))
    BY <2>3, GivenPath
  <2>5. sent' = l
    BY <2>2
  <2>6. PathAsRead' = parse_as_path([sent'[FirstOfType(sent', PATH_ATTRIBUTE.AS_PATH)] EXCEPT
                                       !.four_byte_asn = session'[to'].wide])
    BY Zenon DEF PathAsRead
  <2> HIDE DEF l
  <2>7. PathAsRead' = parse_as_path([a EXCEPT !.four_byte_asn = session[n].wide])
    BY <2>1, <2>5, <2>6, Zenon
  <2> QED BY <2>1, <2>4, <2>7
<1>4. ASSUME NEW n \in Neighbour, ComesBack(n)
      PROVE  /\ stage' = "received"
             /\ AsPathsOf(meant'.attrs) # {}
             /\ \A a \in AsPathsOf(meant'.attrs) : SentBy(from, a)'
  <2> DEFINE passed == IF n = to THEN <<session[n].as>> ELSE <<session[n].as, session[to].as>>
             p == Then(passed, PathAsRead)
             a == NeighbourPath(n, p)
  <2>1. /\ stage = "sent" /\ stage' = "received" /\ from' = n
        /\ trace' = trace \o passed
        /\ meant' = [withdrawn |-> <<>>, routes |-> meant.routes, attrs |-> <<a>>]
        /\ session' = session /\ my_as' = my_as
    BY <1>4 DEF ComesBack, Then, config
  <2>2. to \in Neighbour /\ trace \in Seq(Nat) /\ SameAses(PathAsRead, trace)
    BY <2>1 DEF FlowInv, PathInv
  <2>3. passed \in Seq(Nat)
    BY <2>2, AsTypes
  <2> HIDE DEF passed
  <2>4. SameAses(p, trace')
    <3>1. SameAses(passed \o PathAsRead, trace \o passed)
      BY <2>2, <2>3, SameLonger
    <3> QED BY <2>1, <3>1 DEF Then
  <2>5. p \in Seq(Nat) /\ ToSet(p) \subseteq OnTheWay
    <3>1. OnTheWay' = OnTheWay
      BY <2>1 DEF OnTheWay
    <3> QED BY <2>4, <3>1 DEF SameAses, PassedInv
  <2> HIDE DEF p
  <2>6. /\ a.type = PATH_ATTRIBUTE.AS_PATH /\ "extended_length" \notin a.flags
        /\ a.bytes = AsSequence(p, session[n].wide)
    BY <2>5, NeighbourWrites
  <2> HIDE DEF a
  <2>7. AsPathsOf(meant'.attrs) = {a}
    BY <2>1, <2>6, OnlyPath
  <2>8. ASSUME NEW x, x = a PROVE SentBy(n, x)'
    <3>1. \E q : SameAses(q, trace') /\ x.bytes = AsSequence(q, session'[n].wide)
      BY <2>1, <2>4, <2>6, <2>8, Zenon
    <3>2. "extended_length" \notin x.flags
      BY <2>6, <2>8
    <3> QED BY <3>1, <3>2 DEF SentBy, SameAses
  <2>9. \A x \in AsPathsOf(meant'.attrs) : SentBy(from, x)'
    BY <2>1, <2>7, <2>8
  <2> QED BY <2>1, <2>7, <2>9
<1>5. UNCHANGED vars \/ Parse => UNCHANGED relay
  BY DEF vars, Parse
<1> QED BY <1>1, <1>2, <1>3, <1>4, <1>5 DEF Next

\* The AS_PATH of a route and the ASes it has passed go together in every
\* state, where all sessions have AS numbers of one width in which ours fits,
\* one capability per parameter in their OPENs and AS_PATHs with a one-byte
\* length (Uniform).
THEOREM PathsKept == Spec => []PathInv
BY InitPaths, NextPaths, Flows, Reads, WhatIsMeantIsSendable, ConfigKept, CapabilitiesFound,
   Passed, WidthsRead, PTL DEF Spec

\* A route that has been with us is never taken again, with any neighbours and
\* AS numbers, whatever way it comes back: where all sessions have AS numbers
\* of one width in which ours fits, one capability per parameter and AS_PATHs
\* with a one-byte length (Uniform), the AS that tx_update puts at the end of
\* the AS_PATH is found by rx_update behind those of the neighbours.
THEOREM LoopsAreDropped == Spec => []LoopDropped
<1>1. PathInv /\ FlowInv /\ ConfigInv => LoopDropped
  <2> SUFFICES ASSUME PathInv, FlowInv, ConfigInv, Uniform, stage = "kept"
               PROVE  ~Contains(trace, my_as)
    BY DEF LoopDropped
  <2>1. trace \in Seq(Nat) /\ my_as \in Nat /\ my_as \notin ToSet(trace)
    BY AsTypes DEF FlowInv, PathInv, Kept
  <2> QED BY <2>1, AsesAppend
<1> QED BY <1>1, PathsKept, Flows, ConfigKept, PTL

\* What tx_update sends is read by the neighbour as the ASes that the route
\* has passed, all of them and no other, however often it has come round,
\* under the same condition (Uniform).
THEOREM TraceIsRead == Spec => []PathIsTrace
<1>1. PathInv => PathIsTrace
  BY DEF PathInv, PathIsTrace, SameAses
<1> QED BY <1>1, PathsKept, PTL
=============================================================================
