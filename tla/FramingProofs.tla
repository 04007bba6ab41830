---------------------------- MODULE FramingProofs ----------------------------
(***************************************************************************)
(* Proofs about Framing for any messages, any marker and any buffer: what  *)
(* on_receive finds in the buffer is what the peer has sent, as long as no *)
(* receive ends inside a message.                                          *)
(***************************************************************************)
EXTENDS Framing, NumbersAndLists

-----------------------------------------------------------------------------
\* The inductive invariant.

\* A byte is a number, and the marker's is one.
LEMMA ByteFacts == Byte \subseteq Nat /\ 255 \in Byte
BY DEF Byte

\* What the arithmetic of on_receive needs of the sizes of marker and header.
LEMMA HeaderFacts ==
  /\ MarkerLen \in Nat /\ MarkerLen > 0 /\ HeaderLen \in Nat /\ HeaderLen = MarkerLen + 1
  /\ BufLen \in Nat /\ MaxSent \in Nat
BY LengthAssumption DEF HeaderLen

\* A message begins with a marker and its length.
LEMMA MessageBytes ==
  ASSUME NEW m \in Message
  PROVE  /\ m \in Seq(Byte) /\ Len(m) \in Nat /\ Len(m) >= HeaderLen
         /\ \A i \in 1..MarkerLen : m[i] = 255
         /\ m[HeaderLen] = Len(m)
<1>1. PICK c \in Content : m = Packet(c)
  BY DEF Message
<1> DEFINE mark == [i \in 1..MarkerLen |-> 255]
           len  == <<HeaderLen + Len(c)>>
           head == Then(mark, len)
<1>2. c \in Seq(Byte) /\ HeaderLen + Len(c) \in Byte
  BY ByteAssumption
<1>3. mark \in Seq(Byte) /\ Len(mark) = MarkerLen /\ \A i \in 1..MarkerLen : mark[i] = 255
  BY HeaderFacts, ByteFacts
<1>4. len \in Seq(Byte) /\ Len(len) = 1 /\ len[1] = HeaderLen + Len(c)
  BY <1>2
<1> HIDE DEF mark, len
<1>5. head \in Seq(Byte) /\ Joined(head, mark, len)
  BY <1>3, <1>4, ThenJoins
<1>6. m = Then(head, c)
  BY <1>1 DEF Packet, mark, len, Then
<1> HIDE DEF head
<1>7. Len(head) = HeaderLen /\ head[HeaderLen] = HeaderLen + Len(c)
      /\ \A i \in 1..MarkerLen : head[i] = 255
  <2>1. 1 \in 1..1
    OBVIOUS
  <2> QED BY <1>3, <1>4, <1>5, <2>1, HeaderFacts DEF Joined
<1>8. m \in Seq(Byte) /\ Joined(m, head, c)
  BY <1>2, <1>5, <1>6, ThenJoins
<1> QED BY <1>7, <1>8, HeaderFacts DEF Joined

\* The bytes of a packet that the first loop has found.
Found(pkt) == SubSeq(buffer, pkt[1] + 1, pkt[1] + pkt[2])

\* The part of the receive that the first loop has not looked at.
Ahead == IF phase = "splitting" THEN SubSeq(buffer, pos + 1, length) ELSE <<>>

Shape ==
  /\ TypeOK
  /\ \A j \in 1..Len(pkts) : pkts[j][1] + pkts[j][2] <= BufLen
  /\ phase = "receiving" => pkts = <<>>

\* What is handled, what is found and what is yet to be found or received
\* are, one after the other, the messages that were sent.
Ordered ==
  /\ phase \in {"receiving", "splitting", "handling"}
  /\ AtBoundary(stream)
  /\ Len(handled) + Len(pkts) <= Len(sent)
  /\ \A i \in 1..Len(handled) : handled[i] = sent[i]
  /\ \A j \in 1..Len(pkts) : Found(pkts[j]) = sent[Len(handled) + j]
  /\ Ahead \o stream = Bytes(sent, Len(handled) + Len(pkts), Len(sent))

FramingInv == Shape /\ (~cut => Ordered)

\* What the variables hold, without the literals.
LEMMA TypeFacts ==
  ASSUME TypeOK
  PROVE  /\ sent \in Seq(Message) /\ sent \in Seq(Seq(Byte)) /\ Len(sent) \in Nat
         /\ stream \in Seq(Byte) /\ Len(stream) \in Nat
         /\ buffer \in Seq(Byte) /\ Len(buffer) = BufLen
         /\ \A i \in 1..BufLen : buffer[i] \in Byte
         /\ length \in Nat /\ length <= BufLen /\ pos \in Nat /\ pos <= length
         /\ Len(pkts) \in Nat /\ Len(handled) \in Nat
         /\ handled \in Seq(Seq(Byte))
         /\ \A j \in 1..Len(pkts) : /\ pkts[j][1] \in Nat /\ pkts[j][2] \in Nat
                                    /\ pkts[j][2] > 0
<1>1. \A m \in Message : m \in Seq(Byte)
  BY MessageBytes
<1>2. sent \in Seq(Message) /\ sent \in Seq(Seq(Byte)) /\ Len(sent) \in Nat
  BY <1>1 DEF TypeOK
<1>3. buffer \in Seq(Byte) /\ Len(buffer) = BufLen /\ \A i \in 1..BufLen : buffer[i] \in Byte
  BY HeaderFacts DEF TypeOK
<1>4. length \in Nat /\ length <= BufLen /\ pos \in Nat /\ pos <= length
  BY HeaderFacts DEF TypeOK
<1>5. \A e \in (0..BufLen) \X (1..BufLen) : e[1] \in Nat /\ e[2] \in Nat /\ e[2] > 0
  BY HeaderFacts
<1>6. Len(pkts) \in Nat /\ \A j \in 1..Len(pkts) : pkts[j] \in (0..BufLen) \X (1..BufLen)
  BY DEF TypeOK
<1> QED BY <1>2, <1>3, <1>4, <1>5, <1>6 DEF TypeOK

\* Where sequences of bytes are equal: a part of the buffer and what it holds.
LEMMA PartOfBuffer ==
  ASSUME NEW b \in Seq(Byte), NEW p \in Nat, NEW q \in Nat, p <= q, q <= Len(b)
  PROVE  /\ SubSeq(b, p + 1, q) \in Seq(Byte)
         /\ Len(SubSeq(b, p + 1, q)) = q - p
         /\ \A i \in 1 .. q - p : SubSeq(b, p + 1, q)[i] = b[p + i]
<1>1. p + 1 \in Int /\ q \in Int /\ \A i \in (p + 1)..q : b[i] \in Byte
  BY ElementOfSeq
<1>2. SubSeq(b, p + 1, q) \in Seq(Byte)
  BY <1>1, SubSeqProperties
<1> QED BY <1>2

\* As long as nothing is cut, the first loop stands at the beginning of a
\* message that is there as a whole: its length field is in the buffer and
\* says where the next one begins.
LEMMA NextMessage ==
  ASSUME Shape, Ordered, phase = "splitting", pos < length,
         NEW g, g = Len(handled) + Len(pkts), NEW m, m = sent[g+1]
  PROVE  /\ g + 1 <= Len(sent) /\ g \in Nat /\ m \in Message
         /\ pos + Len(m) <= length
         /\ LengthField = {Len(m)}
         /\ SubSeq(buffer, pos + 1, pos + Len(m)) = m
         /\ SubSeq(buffer, (pos + Len(m)) + 1, length) \o stream
              = Bytes(sent, g + 1, Len(sent))
<1> DEFINE n == Len(sent)
           A == SubSeq(buffer, pos + 1, length)
<1>1. /\ sent \in Seq(Seq(Byte)) /\ sent \in Seq(Message) /\ n \in Nat /\ g \in Nat /\ g <= n
      /\ stream \in Seq(Byte) /\ Len(stream) \in Nat
      /\ buffer \in Seq(Byte) /\ Len(buffer) = BufLen
      /\ pos \in Nat /\ length \in Nat /\ length <= BufLen /\ BufLen \in Nat
  BY TypeFacts, HeaderFacts DEF Shape, Ordered
<1>2. Then(A, stream) = Bytes(sent, g, n)
  BY DEF Ordered, Ahead, Then
<1>3. PICK k \in 0..n : stream = Bytes(sent, k, n)
  BY DEF Ordered, AtBoundary, Bytes
<1>4. /\ A \in Seq(Byte) /\ Len(A) = length - pos
      /\ \A i \in 1 .. length - pos : A[i] = buffer[pos + i]
  BY <1>1, PartOfBuffer
<1> HIDE DEF A, n
<1>5. Joined(Then(A, stream), A, stream)
  BY <1>1, <1>4, ThenJoins
<1>6. g < k
  <2> SUFFICES ASSUME k <= g PROVE FALSE
    BY <1>1
  <2>1. k \in Nat /\ k <= n /\ g <= n /\ g \in Nat /\ n \in Nat
    BY <1>1
  <2>2. Bytes(sent, k, g) \in Seq(Byte) /\ Bytes(sent, g, n) \in Seq(Byte)
    BY <1>1, <2>1, BytesType DEF n
  <2>3. Bytes(sent, k, n) = Then(Bytes(sent, k, g), Bytes(sent, g, n))
    BY <1>1, <2>1, BytesSplit DEF n
  <2>4. Joined(stream, Bytes(sent, k, g), Bytes(sent, g, n))
    BY <1>3, <2>2, <2>3, ThenJoins
  <2> QED BY <1>1, <1>2, <1>4, <1>5, <2>4 DEF Joined
<1> DEFINE R == Bytes(sent, g + 1, k)
<1>7. /\ g + 1 \in Nat /\ g + 1 <= k /\ g < n /\ g + 1 <= n /\ k \in Nat /\ k <= n
      /\ g + 1 \in 1..n
  BY <1>1, <1>6
<1>8. m \in Message
  BY <1>1, <1>7, ElementOfSeq DEF n
<1>9. /\ m \in Seq(Byte) /\ Len(m) \in Nat /\ Len(m) >= HeaderLen /\ m[HeaderLen] = Len(m)
  BY <1>8, MessageBytes
<1>10. Bytes(sent, g, n) = Then(m, Bytes(sent, g + 1, n))
  BY <1>1, <1>7, BytesFirst DEF n
<1>11. R \in Seq(Byte) /\ Bytes(sent, g + 1, n) = Then(R, stream)
  <2>1. R \in Seq(Byte)
    BY <1>1, <1>7, BytesType DEF n
  <2>2. Bytes(sent, g + 1, n) = Then(R, Bytes(sent, k, n))
    BY <1>1, <1>7, BytesSplit DEF n
  <2> QED BY <1>3, <2>1, <2>2
<1> HIDE DEF R
<1>12. A = Then(m, R)
  <2>1. Then(m, R) \in Seq(Byte)
    BY <1>9, <1>11, ThenJoins
  <2>2. Then(A, stream) = Then(Then(m, R), stream)
    BY <1>1, <1>2, <1>9, <1>10, <1>11, ThenAgain
  <2> QED BY <1>1, <1>4, <2>1, <2>2, ThenCancels
<1>13. Joined(A, m, R)
  BY <1>9, <1>11, <1>12, ThenJoins
<1>14. Len(R) \in Nat
  BY <1>11
<1>15. pos + Len(m) <= length /\ Len(R) = length - (pos + Len(m))
  <2>1. Len(A) = Len(m) + Len(R)
    BY <1>13 DEF Joined
  <2>2. Len(A) = length - pos /\ length \in Nat /\ pos \in Nat /\ Len(m) \in Nat /\ Len(R) \in Nat
    BY <1>1, <1>4, <1>9, <1>14
  <2> QED BY <2>1, <2>2
<1>16. \A i \in 1..Len(m) : buffer[pos + i] = m[i]
  BY <1>1, <1>4, <1>9, <1>13, <1>14, <1>15, SMTT(30) DEF Joined
<1>17. SubSeq(buffer, pos + 1, pos + Len(m)) = m
  <2> DEFINE M == SubSeq(buffer, pos + 1, pos + Len(m))
  <2>0. /\ pos \in Nat /\ length \in Nat /\ Len(m) \in Nat /\ Len(buffer) \in Nat
        /\ length <= Len(buffer) /\ pos + Len(m) <= length
    BY <1>1, <1>9, <1>15
  <2>1. pos + Len(m) \in Nat /\ pos <= pos + Len(m) /\ pos + Len(m) <= Len(buffer)
        /\ (pos + Len(m)) - pos = Len(m)
    BY <2>0
  <2>2. /\ M \in Seq(Byte) /\ Len(M) = (pos + Len(m)) - pos
        /\ \A i \in 1 .. (pos + Len(m)) - pos : M[i] = buffer[pos + i]
    BY <1>1, <2>1, PartOfBuffer, SMTT(30)
  <2> HIDE DEF M
  <2>3. Len(M) = Len(m) /\ \A i \in 1..Len(M) : M[i] = m[i]
    BY <1>16, <2>1, <2>2
  <2>4. M = m
    BY <1>9, <2>2, <2>3, SeqEqual
  <2> QED BY <2>4 DEF M
<1>18. SubSeq(buffer, (pos + Len(m)) + 1, length) = R
  <2> DEFINE q == pos + Len(m)
             M == SubSeq(buffer, q + 1, length)
  <2>1. q \in Nat /\ q <= length /\ length <= Len(buffer)
    BY <1>1, <1>9, <1>15
  <2> HIDE DEF q
  <2>2. /\ M \in Seq(Byte) /\ Len(M) = length - q
        /\ \A i \in 1 .. length - q : M[i] = buffer[q + i]
    BY <1>1, <2>1, PartOfBuffer
  <2> HIDE DEF M
  <2>3. \A i \in 1 .. Len(R) : buffer[q + i] = R[i]
    <3> TAKE i \in 1 .. Len(R)
    <3>1. /\ Len(m) + i \in 1 .. length - pos
          /\ pos + (Len(m) + i) = q + i
      BY <1>1, <1>9, <1>14, <1>15 DEF q
    <3>2. A[Len(m) + i] = R[i]
      BY <1>13 DEF Joined
    <3>3. A[Len(m) + i] = buffer[pos + (Len(m) + i)]
      BY <1>4, <3>1
    <3> QED BY <3>1, <3>2, <3>3
  <2>4. Len(M) = Len(R) /\ \A i \in 1..Len(M) : M[i] = R[i]
    BY <1>15, <2>2, <2>3 DEF q
  <2>5. M = R
    BY <1>11, <2>2, <2>4, SeqEqual
  <2> QED BY <2>5 DEF M, q
<1>19. LengthField = {Len(m)}
  <2>1. HeaderLen \in 1..Len(m) /\ pos + HeaderLen <= BufLen
    BY <1>1, <1>9, <1>15, HeaderFacts, SMTT(30)
  <2>2. buffer[pos + HeaderLen] = Len(m)
    BY <1>9, <1>16, <2>1
  <2> QED BY <2>1, <2>2 DEF LengthField
<1> QED BY <1>1, <1>7, <1>8, <1>11, <1>15, <1>17, <1>18, <1>19 DEF n, Then

-----------------------------------------------------------------------------
\* What the variables hold, and that no packet found reaches past the buffer.

\* With nothing sent and nothing received, the shape is right.
LEMMA InitShape == Init => Shape
<1> SUFFICES ASSUME Init PROVE Shape
  OBVIOUS
<1>1. buffer \in [1..BufLen -> Byte]
  BY ByteAssumption DEF Init
<1>2. /\ sent \in Seq(Message) /\ stream \in Seq(Byte)
      /\ length \in 0..BufLen /\ pos \in 0..length
      /\ pkts \in Seq((0..BufLen) \X (1..BufLen)) /\ handled \in Seq(Seq(Byte))
      /\ phase \in Phase /\ cut \in BOOLEAN
  <2>1. 0 \in 0..BufLen /\ 0 \in 0..0
    BY HeaderFacts
  <2>2. \A S : <<>> \in Seq(S)
    BY EmptySeq
  <2> QED BY <2>1, <2>2 DEF Init, Phase
<1>3. pkts = <<>> /\ Len(pkts) = 0
  BY DEF Init
<1> QED BY <1>1, <1>2, <1>3 DEF Shape, TypeOK

\* A message the peer sends is one more; the receive buffer is not touched.
LEMMA SendShape ==
  ASSUME Shape, NEW m \in Message, Send(m)
  PROVE  Shape'
<1>1. sent \in Seq(Message) /\ stream \in Seq(Byte) /\ m \in Seq(Byte)
  BY TypeFacts, MessageBytes DEF Shape
<1>2. sent' \in Seq(Message) /\ stream' \in Seq(Byte)
  <2>1. sent' = Append(sent, m) /\ stream' = Then(stream, m)
    BY DEF Send, Then
  <2> QED BY <1>1, <2>1, ThenJoins, AppendProperties
<1>3. UNCHANGED <<buffer, length, pos, pkts, phase, handled, cut>>
  BY DEF Send
<1> QED BY <1>2, <1>3 DEF Shape, TypeOK

\* A receive of any number of bytes leaves a buffer of the same size.
LEMMA ReceiveShape ==
  ASSUME Shape, NEW k \in 1..BufLen, k <= Len(stream), Receive(k)
  PROVE  Shape'
<1>1. stream \in Seq(Byte) /\ Len(stream) \in Nat /\ k \in Nat
  BY TypeFacts, HeaderFacts DEF Shape
<1>2. stream' \in Seq(Byte)
  <2>1. Len(stream) <= Len(stream)
    BY <1>1
  <2>2. stream' = SubSeq(stream, k + 1, Len(stream))
    BY DEF Receive
  <2> QED BY <1>1, <2>1, <2>2, PartOfBuffer
<1>3. buffer' \in [1..BufLen -> Byte]
  <2>1. \A i \in 1..BufLen : i <= k => stream[i] \in Byte
    BY <1>1, HeaderFacts, ElementOfSeq
  <2>2. \A i \in 1..BufLen : buffer[i] \in Byte
    BY TypeFacts DEF Shape
  <2> QED BY <2>1, <2>2 DEF Receive
<1>4. /\ length' \in 0..BufLen /\ pos' \in 0..length' /\ pkts' = <<>>
      /\ phase' \in Phase /\ phase' # "receiving"
  BY HeaderFacts DEF Receive, Phase
<1>5. cut' \in BOOLEAN
  BY DEF Receive, Shape, TypeOK
<1>6. UNCHANGED <<sent, handled>>
  BY DEF Receive
<1>7. pkts' \in Seq((0..BufLen) \X (1..BufLen)) /\ Len(pkts') = 0
  BY <1>4
<1> QED BY <1>2, <1>3, <1>4, <1>5, <1>6, <1>7 DEF Shape, TypeOK

\* What the length field holds.
LEMMA LengthIsByte ==
  ASSUME Shape, NEW len \in LengthField
  PROVE  len \in Nat
<1>1. pos + HeaderLen <= BufLen => pos + HeaderLen \in 1..BufLen
  BY TypeFacts, HeaderFacts DEF Shape
<1>2. LengthField \subseteq Byte
  BY <1>1, TypeFacts DEF LengthField, Shape
<1> QED BY <1>2, ByteFacts

\* A round of the first loop of on_receive appends a packet that ends inside what was received.
LEMMA SplitShape ==
  ASSUME Shape, NEW len \in LengthField, Split(len)
  PROVE  Shape'
<1> DEFINE Pair == (0..BufLen) \X (1..BufLen)
           e == <<pos, len>>
<1>1. /\ len \in Nat /\ len > 0 /\ pos \in Nat /\ length \in Nat
      /\ pos + len <= length /\ length <= BufLen /\ BufLen \in Nat
  BY LengthIsByte, TypeFacts, HeaderFacts DEF Shape, Split, CutShort
<1>2. e \in Pair /\ e[1] + e[2] <= BufLen
  BY <1>1
<1>3. pkts \in Seq(Pair) /\ \A j \in 1..Len(pkts) : pkts[j][1] + pkts[j][2] <= BufLen
  BY DEF Shape, TypeOK
<1>4. pkts' = Append(pkts, e) /\ pos' = pos + len
  BY DEF Split, NextPos
<1> HIDE DEF Pair, e
<1>5. /\ pkts' \in Seq(Pair) /\ Len(pkts') = Len(pkts) + 1
      /\ \A j \in 1..Len(pkts) : pkts'[j] = pkts[j]
      /\ pkts'[Len(pkts) + 1] = e /\ Len(pkts) \in Nat
  BY <1>2, <1>3, <1>4, AppendProperties
<1>6. \A j \in 1..Len(pkts') : pkts'[j][1] + pkts'[j][2] <= BufLen
  BY <1>2, <1>3, <1>5
<1>7. pos' \in 0..length
  BY <1>1, <1>4
<1>8. UNCHANGED <<sent, stream, buffer, length, phase, handled, cut>> /\ phase = "splitting"
  BY DEF Split
<1> QED BY <1>5, <1>6, <1>7, <1>8 DEF Shape, TypeOK, Pair

\* A packet that is handled lies in the buffer.
LEMMA FoundType ==
  ASSUME Shape, NEW j \in 1..Len(pkts)
  PROVE  /\ Found(pkts[j]) \in Seq(Byte) /\ Len(Found(pkts[j])) = pkts[j][2]
         /\ \A i \in 1..pkts[j][2] : Found(pkts[j])[i] = buffer[pkts[j][1] + i]
<1> DEFINE p == pkts[j][1]
           l == pkts[j][2]
<1>1. /\ p \in Nat /\ l \in Nat /\ p + l \in Nat /\ p <= p + l /\ p + l <= Len(buffer)
      /\ (p + l) - p = l /\ buffer \in Seq(Byte)
  BY TypeFacts, SMTT(30) DEF Shape
<1> HIDE DEF p, l
<1>2. /\ SubSeq(buffer, p + 1, p + l) \in Seq(Byte)
      /\ Len(SubSeq(buffer, p + 1, p + l)) = l
      /\ \A i \in 1..l : SubSeq(buffer, p + 1, p + l)[i] = buffer[p + i]
  BY <1>1, PartOfBuffer
<1> QED BY <1>2 DEF Found, p, l

\* A round of the second loop hands on the first packet and keeps the others.
LEMMA HandleShape ==
  ASSUME Shape, HandlePacket
  PROVE  /\ Shape'
         /\ Len(pkts) > 0 /\ Len(pkts') = Len(pkts) - 1
         /\ \A j \in 1..Len(pkts') : pkts'[j] = pkts[j+1]
         /\ handled' = Append(handled, Found(pkts[1]))
         /\ Len(handled') = Len(handled) + 1
         /\ \A i \in 1..Len(handled) : handled'[i] = handled[i]
         /\ handled'[Len(handled) + 1] = Found(pkts[1])
<1> DEFINE Pair == (0..BufLen) \X (1..BufLen)
<1>1. /\ pkts \in Seq(Pair) /\ pkts # <<>>
      /\ \A j \in 1..Len(pkts) : pkts[j][1] + pkts[j][2] <= BufLen
  BY DEF Shape, TypeOK, HandlePacket
<1>2. pkts' = Tail(pkts) /\ Head(pkts) = pkts[1]
  BY <1>1 DEF HandlePacket
<1> HIDE DEF Pair
<1>3. /\ pkts' \in Seq(Pair) /\ Len(pkts') = Len(pkts) - 1 /\ Len(pkts) \in Nat /\ Len(pkts) > 0
      /\ \A j \in 1..Len(pkts') : pkts'[j] = pkts[j+1]
  BY <1>1, <1>2, HeadTailProperties
<1>4. \A j \in 1..Len(pkts') : pkts'[j][1] + pkts'[j][2] <= BufLen
  BY <1>1, <1>3
<1>5. 1 \in 1..Len(pkts)
  BY <1>3
<1>6. Found(pkts[1]) \in Seq(Byte)
  BY <1>5, FoundType
<1>7. handled' = Append(handled, Found(pkts[1]))
  BY <1>2 DEF HandlePacket, Found
<1>8. handled \in Seq(Seq(Byte))
  BY TypeFacts DEF Shape
<1>9. /\ handled' \in Seq(Seq(Byte)) /\ Len(handled') = Len(handled) + 1
      /\ \A i \in 1..Len(handled) : handled'[i] = handled[i]
      /\ handled'[Len(handled) + 1] = Found(pkts[1])
  BY <1>6, <1>7, <1>8, AppendProperties
<1>10. UNCHANGED <<sent, stream, buffer, length, pos, phase, cut>> /\ phase = "handling"
  BY DEF HandlePacket
<1>11. Shape'
  BY <1>3, <1>4, <1>9, <1>10 DEF Shape, TypeOK, Pair
<1> QED BY <1>3, <1>7, <1>9, <1>11

\* The steps that only move phase.
LEMMA PhaseShape ==
  ASSUME Shape, UNCHANGED <<sent, stream, buffer, length, pos, pkts, handled, cut>>,
         phase' \in Phase, phase' = "receiving" => pkts = <<>>
  PROVE  Shape'
BY DEF Shape, TypeOK

\* Every step of the peer, the network and on_receive keeps the shape.
LEMMA NextShape == Shape /\ [Next]_vars => Shape'
<1> SUFFICES ASSUME Shape, [Next]_vars PROVE Shape'
  OBVIOUS
<1>1. ASSUME NEW m \in Message, Send(m) PROVE Shape'
  BY <1>1, SendShape
<1>2. ASSUME ReceiveSome PROVE Shape'
  BY <1>2, ReceiveShape DEF ReceiveSome
<1>3. ASSUME NEW len \in LengthField, Split(len) PROVE Shape'
  BY <1>3, SplitShape
<1>4. ASSUME NEW len \in LengthField, SplitNothing(len) PROVE Shape'
  BY <1>4, PhaseShape DEF SplitNothing, Phase
<1>5. ASSUME NEW len \in LengthField, SplitDone(len) PROVE Shape'
  BY <1>5, PhaseShape DEF SplitDone, Phase
<1>6. ASSUME HandlePacket PROVE Shape'
  BY <1>6, HandleShape
<1>7. ASSUME WrongMarker PROVE Shape'
  BY <1>7, PhaseShape DEF WrongMarker, Phase
<1>8. ASSUME DoRead PROVE Shape'
  BY <1>8, PhaseShape DEF DoRead, Phase
<1>9. ASSUME UNCHANGED vars PROVE Shape'
  BY <1>9 DEF vars, Shape, TypeOK
<1> QED BY <1>1, <1>2, <1>3, <1>4, <1>5, <1>6, <1>7, <1>8, <1>9 DEF Next, OnReceive

-----------------------------------------------------------------------------
\* As long as no receive has ended inside a message, nothing is lost, doubled
\* or invented.

\* At the beginning nothing is sent, received or handled.
LEMMA InitOrdered == Init => Ordered
<1> SUFFICES ASSUME Init PROVE Ordered
  OBVIOUS
<1>1. /\ sent = <<>> /\ stream = <<>> /\ pkts = <<>> /\ handled = <<>>
      /\ phase = "receiving" /\ Len(sent) = 0 /\ Len(pkts) = 0 /\ Len(handled) = 0
  BY DEF Init
<1>2. Bytes(sent, 0, 0) = <<>>
  BY BytesNone
<1>3. AtBoundary(stream)
  <2>1. 0 \in 0..Len(sent) /\ stream = Bytes(sent, 0, Len(sent))
    BY <1>1, <1>2
  <2> QED BY <2>1 DEF AtBoundary, Bytes
<1>4. Ahead \o stream = <<>>
  BY <1>1 DEF Ahead
<1>5. Len(handled) + Len(pkts) = 0
  BY <1>1
<1> QED BY <1>1, <1>2, <1>3, <1>4, <1>5 DEF Ordered

\* What is still to be handled is a sequence of bytes.
LEMMA AheadType ==
  ASSUME Shape
  PROVE  Ahead \in Seq(Byte)
<1>1. /\ buffer \in Seq(Byte) /\ pos \in Nat /\ length \in Nat /\ pos <= length
      /\ length <= Len(buffer)
  BY TypeFacts DEF Shape
<1>2. SubSeq(buffer, pos + 1, length) \in Seq(Byte)
  BY <1>1, PartOfBuffer
<1> QED BY <1>2 DEF Ahead

\* The peer's next message comes after all bytes there are.
LEMMA SendOrdered ==
  ASSUME Shape, Ordered, NEW m \in Message, Send(m)
  PROVE  Ordered'
<1> DEFINE g == Len(handled) + Len(pkts)
           n == Len(sent)
<1>1. /\ sent \in Seq(Seq(Byte)) /\ m \in Seq(Byte) /\ stream \in Seq(Byte) /\ n \in Nat
      /\ Len(handled) \in Nat /\ Len(pkts) \in Nat /\ g \in Nat /\ g <= n
      /\ Ahead \in Seq(Byte)
  BY TypeFacts, MessageBytes, AheadType DEF Shape, Ordered
<1>2. /\ sent' = Append(sent, m) /\ stream' = Then(stream, m)
      /\ UNCHANGED <<buffer, length, pos, pkts, phase, handled>>
  BY DEF Send, Then
<1>3. Len(sent') = n + 1 /\ \A i \in 1..n : sent'[i] = sent[i]
  BY <1>1, <1>2, AppendProperties
<1>4. \A i \in Nat : i <= n => Bytes(sent', i, n + 1) = Then(Bytes(sent, i, n), m)
  BY <1>1, <1>2, BytesAppend
<1>5. AtBoundary(stream)'
  <2>1. PICK i \in 0..n : stream = Bytes(sent, i, n)
    BY DEF Ordered, AtBoundary, Bytes
  <2>2. i \in 0..Len(sent') /\ stream' = Bytes(sent', i, Len(sent'))
    BY <1>1, <1>2, <1>3, <1>4, <2>1
  <2> QED BY <2>2 DEF AtBoundary, Bytes
<1>6. Ahead' \o stream' = Bytes(sent', g, n + 1)
  <2>1. Then(Ahead, stream) = Bytes(sent, g, n)
    BY DEF Ordered, Then
  <2>2. Then(Ahead, Then(stream, m)) = Bytes(sent', g, n + 1)
    BY <1>1, <1>4, <2>1, ThenAgain
  <2>3. Ahead' = Ahead
    BY <1>2 DEF Ahead
  <2> QED BY <1>2, <2>2, <2>3 DEF Then
<1>7. \A j \in 1..Len(pkts) : Found(pkts[j])' = sent'[Len(handled) + j]
  <2>1. \A j \in 1..Len(pkts) : Len(handled) + j \in 1..n
    BY <1>1
  <2> QED BY <1>2, <1>3, <2>1 DEF Ordered, Found
<1>8. \A i \in 1..Len(handled) : handled[i] = sent'[i]
  BY <1>1, <1>3 DEF Ordered
<1>9. Ahead' \o stream' = Bytes(sent', Len(handled') + Len(pkts'), Len(sent'))
  BY <1>2, <1>3, <1>6
<1>10. Len(handled') + Len(pkts') <= Len(sent')
  BY <1>1, <1>2, <1>3
<1>11. \A j \in 1..Len(pkts') : Found(pkts[j])' = sent'[Len(handled') + j]
  BY <1>2, <1>7
<1>12. phase' \in {"receiving", "splitting", "handling"}
  BY <1>2 DEF Ordered
<1>13. \A i \in 1..Len(handled') : handled'[i] = sent'[i]
  BY <1>2, <1>8
<1> QED BY <1>5, <1>9, <1>10, <1>11, <1>12, <1>13 DEF Ordered

\* A receive that ends with a message moves bytes from the stream into the
\* buffer.
LEMMA ReceiveOrdered ==
  ASSUME Shape, Ordered, NEW k \in 1..BufLen, k <= Len(stream), Receive(k), ~cut'
  PROVE  Ordered'
<1> DEFINE a == SubSeq(stream, 1, k)
           b == SubSeq(stream, k + 1, Len(stream))
<1>1. /\ stream \in Seq(Byte) /\ Len(stream) \in Nat /\ k \in Nat /\ k <= BufLen
      /\ BufLen \in Nat /\ Len(handled) \in Nat
  BY TypeFacts, HeaderFacts DEF Shape
<1>2. /\ phase = "receiving" /\ phase' = "splitting" /\ stream' = b
      /\ pos' = 0 /\ length' = k /\ pkts' = <<>> /\ sent' = sent /\ handled' = handled
      /\ buffer' = [i \in 1..BufLen |-> IF i <= k THEN stream[i] ELSE buffer[i]]
      /\ AtBoundary(stream')
  BY DEF Receive
<1>3. pkts = <<>> /\ Ahead = <<>>
  BY <1>2 DEF Shape, Ahead
<1>4. stream = Bytes(sent, Len(handled), Len(sent))
  <2>1. Then(<<>>, stream) = stream
    BY <1>1, ThenNothing
  <2>2. Len(pkts) = 0 /\ Len(handled) + 0 = Len(handled)
    BY <1>1, <1>3
  <2> QED BY <1>3, <2>1, <2>2 DEF Ordered, Then
<1>5. /\ a \in Seq(Byte) /\ Len(a) = k /\ \A i \in 1..k : a[i] = stream[i]
  <2>1. 0 \in Nat /\ 0 + 1 = 1 /\ k - 0 = k /\ \A i \in 1..k : 0 + i = i
    BY <1>1
  <2> QED BY <1>1, <2>1, PartOfBuffer
<1>6. a \o b = stream
  <2>1. /\ 1 \in 1 .. Len(stream) + 1 /\ k \in 1-1 .. Len(stream)
        /\ Len(stream) \in k .. Len(stream)
    BY <1>1
  <2>2. SubSeq(stream, 1, k) \o SubSeq(stream, k + 1, Len(stream)) = SubSeq(stream, 1, Len(stream))
    BY <1>1, <2>1, ConcatAdjacentSubSeq
  <2>3. SubSeq(stream, 1, Len(stream)) = stream
    BY <1>1, SubSeqFull
  <2> QED BY <2>2, <2>3
<1>7. Ahead' = a
  <2>1. Ahead' = SubSeq(buffer', 0 + 1, k)
    BY <1>2 DEF Ahead
  <2>2. Shape'
    BY ReceiveShape
  <2>3. buffer' \in Seq(Byte) /\ Len(buffer') = BufLen
    <3>1. buffer' \in [1..BufLen -> Byte]
      BY <2>2 DEF Shape, TypeOK
    <3> QED BY <1>1, <3>1
  <2>4. /\ SubSeq(buffer', 0 + 1, k) \in Seq(Byte)
        /\ Len(SubSeq(buffer', 0 + 1, k)) = k - 0
        /\ \A i \in 1 .. k - 0 : SubSeq(buffer', 0 + 1, k)[i] = buffer'[0 + i]
    BY <1>1, <2>3, PartOfBuffer
  <2>5. \A i \in 1..k : buffer'[0 + i] = stream[i]
    BY <1>1, <1>2
  <2> HIDE DEF a
  <2>6. Len(Ahead') = Len(a) /\ \A i \in 1..Len(Ahead') : Ahead'[i] = a[i]
    BY <1>1, <1>5, <2>1, <2>4, <2>5
  <2> QED BY <1>5, <2>1, <2>4, <2>6, SeqEqual
<1>8. Len(handled) <= Len(sent)
  BY <1>1, <1>3 DEF Ordered
<1>9. AtBoundary(stream)'
  BY <1>2 DEF AtBoundary
<1>10. Ahead' \o stream' = Bytes(sent', Len(handled') + Len(pkts'), Len(sent'))
  <2>1. Len(handled') + Len(pkts') = Len(handled) /\ sent' = sent
    BY <1>1, <1>2
  <2> HIDE DEF a, b
  <2>2. Ahead' \o stream' = stream
    BY <1>2, <1>6, <1>7
  <2> QED BY <1>4, <2>1, <2>2
<1>11. /\ Len(pkts') = 0
       /\ \A i \in 1..Len(handled') : handled'[i] = sent'[i]
  BY <1>2 DEF Ordered
<1>12. Len(handled') + Len(pkts') <= Len(sent')
  BY <1>1, <1>2, <1>8
<1> HIDE DEF a, b
<1> QED BY <1>2, <1>9, <1>10, <1>11, <1>12 DEF Ordered

\* The first loop takes the next message as it is.
LEMMA SplitOrdered ==
  ASSUME Shape, Ordered, NEW len \in LengthField, Split(len)
  PROVE  Ordered'
<1> DEFINE g == Len(handled) + Len(pkts)
           m == sent[g+1]
<1>1. phase = "splitting" /\ pos < length
  BY DEF Split
<1>2. /\ g + 1 <= Len(sent) /\ g \in Nat /\ m \in Message
      /\ LengthField = {Len(m)}
      /\ SubSeq(buffer, pos + 1, pos + Len(m)) = m
      /\ SubSeq(buffer, (pos + Len(m)) + 1, length) \o stream = Bytes(sent, g + 1, Len(sent))
  BY <1>1, NextMessage
<1>3. len = Len(m)
  BY <1>2
<1>4. /\ pkts' = Append(pkts, <<pos, len>>) /\ pos' = pos + len
      /\ UNCHANGED <<sent, stream, buffer, length, phase, handled>>
  BY DEF Split, NextPos
<1> HIDE DEF m
<1>5. /\ Len(pkts') = Len(pkts) + 1
      /\ \A j \in 1..Len(pkts) : pkts'[j] = pkts[j]
      /\ pkts'[Len(pkts) + 1] = <<pos, len>>
      /\ Len(pkts) \in Nat /\ Len(handled) \in Nat
  <2>1. pkts \in Seq((0..BufLen) \X (1..BufLen))
    BY DEF Shape, TypeOK
  <2>2. Len(pkts) \in Nat /\ Len(handled) \in Nat
    BY TypeFacts DEF Shape
  <2> QED BY <1>4, <2>1, <2>2
<1>6. Ahead' \o stream' = Bytes(sent', Len(handled') + Len(pkts'), Len(sent'))
  <2>1. Ahead' = SubSeq(buffer, (pos + Len(m)) + 1, length)
    BY <1>1, <1>3, <1>4 DEF Ahead
  <2>2. Len(handled') + Len(pkts') = g + 1 /\ sent' = sent /\ stream' = stream
    BY <1>4, <1>5
  <2> HIDE DEF g
  <2> QED BY <1>2, <2>1, <2>2
<1>7. \A j \in 1..Len(pkts') : Found(pkts[j])' = sent'[Len(handled') + j]
  <2> TAKE j \in 1..Len(pkts')
  <2>1. CASE j \in 1..Len(pkts)
    BY <1>4, <1>5, <2>1 DEF Ordered, Found
  <2>2. CASE j = Len(pkts) + 1
    <3>1. Found(pkts[j])' = SubSeq(buffer, pos + 1, pos + len)
      <4>1. pkts'[j] = <<pos, len>>
        BY <1>5, <2>2
      <4>2. pkts'[j][1] = pos /\ pkts'[j][2] = len
        BY <4>1
      <4> QED BY <1>4, <4>2 DEF Found
    <3>2. Len(handled') + j = g + 1
      BY <1>4, <1>5, <2>2
    <3> QED BY <1>2, <1>3, <1>4, <3>1, <3>2 DEF m
  <2> QED BY <1>5, <2>1, <2>2
<1>8. AtBoundary(stream)'
  BY <1>4 DEF Ordered, AtBoundary
<1>9. Len(handled') + Len(pkts') <= Len(sent')
  BY <1>2, <1>4, <1>5
<1> QED BY <1>4, <1>6, <1>7, <1>8, <1>9 DEF Ordered

\* The first loop neither stops nor hangs before a message.
LEMMA NoStop ==
  ASSUME Shape, Ordered, NEW len \in LengthField
  PROVE  /\ ~SplitNothing(len)
         /\ SplitDone(len) => pos >= length
<1> DEFINE g == Len(handled) + Len(pkts)
           m == sent[g+1]
<1>1. ASSUME phase = "splitting", pos < length
      PROVE  len > 0 /\ pos + len <= length
  <2>1. /\ m \in Message /\ pos + Len(m) <= length /\ LengthField = {Len(m)}
    BY <1>1, NextMessage
  <2>2. len = Len(m) /\ Len(m) \in Nat /\ Len(m) >= HeaderLen
    BY <2>1, MessageBytes
  <2> HIDE DEF m
  <2> QED BY <2>1, <2>2, HeaderFacts
<1>2. len \in Nat /\ pos \in Nat /\ length \in Nat
  BY LengthIsByte, TypeFacts DEF Shape
<1> QED BY <1>1, <1>2 DEF SplitNothing, SplitDone, CutShort

\* When the first loop ends without a cut it has found every message of the receive.
LEMMA SplitDoneOrdered ==
  ASSUME Shape, Ordered, NEW len \in LengthField, SplitDone(len)
  PROVE  Ordered'
<1>1. pos >= length
  BY NoStop
<1>2. phase = "splitting" /\ phase' = "handling"
      /\ UNCHANGED <<sent, stream, buffer, length, pos, pkts, handled>>
  BY DEF SplitDone
<1>3. Ahead = <<>> /\ Ahead' = <<>>
  <2>1. pos + 1 \in Int /\ length \in Int /\ length < pos + 1
    BY <1>1, TypeFacts DEF Shape
  <2>2. SubSeq(buffer, pos + 1, length) = <<>>
    BY <2>1, SubSeqEmpty
  <2> QED BY <1>2, <2>2 DEF Ahead
<1> QED BY <1>2, <1>3 DEF Ordered, AtBoundary, Found

\* The second loop hands over what was sent.
LEMMA HandleOrdered ==
  ASSUME Shape, Ordered, HandlePacket
  PROVE  /\ Ordered'
         /\ Len(handled) < Len(sent)
         /\ handled' = Append(handled, sent[Len(handled) + 1])
<1>1. /\ Len(pkts) > 0 /\ Len(pkts') = Len(pkts) - 1
      /\ \A j \in 1..Len(pkts') : pkts'[j] = pkts[j+1]
      /\ handled' = Append(handled, Found(pkts[1]))
      /\ Len(handled') = Len(handled) + 1
      /\ \A i \in 1..Len(handled) : handled'[i] = handled[i]
      /\ handled'[Len(handled) + 1] = Found(pkts[1])
  BY HandleShape
<1>2. Len(pkts) \in Nat /\ Len(handled) \in Nat /\ Len(sent) \in Nat
  BY TypeFacts DEF Shape
<1>3. UNCHANGED <<sent, stream, buffer, length, pos, phase>> /\ phase = "handling"
  BY DEF HandlePacket
<1>4. Found(pkts[1]) = sent[Len(handled) + 1]
  BY <1>1, <1>2 DEF Ordered
<1>5. Len(handled') + Len(pkts') = Len(handled) + Len(pkts)
  BY <1>1, <1>2
<1>6. Ahead' = <<>> /\ Ahead = <<>>
  BY <1>3 DEF Ahead
<1>7. \A i \in 1..Len(handled') : handled'[i] = sent'[i]
  BY <1>1, <1>2, <1>3, <1>4 DEF Ordered
<1>8. \A j \in 1..Len(pkts') : Found(pkts[j])' = sent'[Len(handled') + j]
  <2> TAKE j \in 1..Len(pkts')
  <2>1. /\ j + 1 \in 1..Len(pkts) /\ pkts'[j] = pkts[j+1]
        /\ Len(handled') + j = Len(handled) + (j + 1)
    BY <1>1, <1>2
  <2>2. Found(pkts[j+1]) = sent[Len(handled) + (j + 1)]
    BY <2>1 DEF Ordered
  <2> QED BY <1>3, <2>1, <2>2 DEF Found
<1>9. Ahead' \o stream' = Bytes(sent', Len(handled') + Len(pkts'), Len(sent'))
  BY <1>3, <1>5, <1>6 DEF Ordered
<1>10. AtBoundary(stream)' /\ phase' \in {"receiving", "splitting", "handling"}
  BY <1>3 DEF Ordered, AtBoundary
<1>11. Len(handled') + Len(pkts') <= Len(sent') /\ Len(handled) < Len(sent)
  BY <1>1, <1>2, <1>3, <1>5 DEF Ordered
<1> QED BY <1>1, <1>4, <1>7, <1>8, <1>9, <1>10, <1>11 DEF Ordered

\* The marker of a message that was sent is right.
LEMMA MarkerIsRight == Shape /\ Ordered => ~WrongMarker
<1> SUFFICES ASSUME Shape, Ordered, WrongMarker PROVE FALSE
  OBVIOUS
<1> DEFINE m == sent[Len(handled) + 1]
           p == pkts[1][1]
           l == pkts[1][2]
<1>1. /\ Len(pkts) \in Nat /\ Len(handled) \in Nat /\ Len(sent) \in Nat
      /\ sent \in Seq(Message)
  BY TypeFacts DEF Shape
<1>2. pkts # <<>> /\ MayBeNoMarker(Head(pkts)[1]) /\ Head(pkts) = pkts[1]
  BY DEF WrongMarker
<1>3. 1 \in 1..Len(pkts)
  <2>1. pkts \in Seq((0..BufLen) \X (1..BufLen))
    BY DEF Shape, TypeOK
  <2> QED BY <1>1, <1>2, <2>1
<1>4. Len(handled) + 1 \in 1..Len(sent)
  BY <1>1, <1>3 DEF Ordered
<1>5. m \in Message /\ Found(pkts[1]) = m
  <2>1. m \in Message
    BY <1>1, <1>4, ElementOfSeq
  <2> QED BY <1>3, <2>1 DEF Ordered
<1> HIDE DEF m
<1>6. /\ Len(m) >= HeaderLen /\ \A i \in 1..MarkerLen : m[i] = 255
  BY <1>5, MessageBytes
<1>7. /\ Len(m) = l /\ \A i \in 1..l : m[i] = buffer[p + i]
      /\ p \in Nat /\ l \in Nat /\ p + l <= BufLen
  BY <1>3, <1>5, FoundType, TypeFacts DEF Shape
<1>8. PICK i \in 1..MarkerLen : p + i <= BufLen => buffer[p + i] # 255
  BY <1>2 DEF MayBeNoMarker
<1> HIDE DEF p, l
<1>9. i \in 1..l /\ p + i <= BufLen
  BY <1>6, <1>7, HeaderFacts
<1> QED BY <1>6, <1>7, <1>8, <1>9

\* do_read starts the next receive where the last one ended: it moves no byte.
LEMMA DoReadOrdered ==
  ASSUME Ordered, DoRead
  PROVE  Ordered'
<1>1. phase = "handling" /\ phase' = "receiving"
      /\ UNCHANGED <<sent, stream, buffer, length, pos, pkts, handled>>
  BY DEF DoRead
<1>2. Ahead' = Ahead
  BY <1>1 DEF Ahead
<1> QED BY <1>1, <1>2 DEF Ordered, AtBoundary, Found

\* As long as nothing is cut, every step keeps the messages whole and in order.
LEMMA NextOrdered == FramingInv /\ [Next]_vars /\ ~cut' => Ordered'
<1> SUFFICES ASSUME FramingInv, [Next]_vars, ~cut' PROVE Ordered'
  OBVIOUS
<1>1. Shape /\ Ordered
  <2>1. Shape /\ cut \in BOOLEAN
    BY DEF FramingInv, Shape, TypeOK
  <2>2. cut => cut'
    BY <2>1 DEF Next, Send, ReceiveSome, Receive, OnReceive, Split, SplitNothing, SplitDone,
                HandlePacket, WrongMarker, DoRead, vars
  <2> QED BY <2>1, <2>2 DEF FramingInv
<1>2. ASSUME NEW m \in Message, Send(m) PROVE Ordered'
  BY <1>1, <1>2, SendOrdered
<1>3. ASSUME ReceiveSome PROVE Ordered'
  BY <1>1, <1>3, ReceiveOrdered DEF ReceiveSome
<1>4. ASSUME NEW len \in LengthField, Split(len) PROVE Ordered'
  BY <1>1, <1>4, SplitOrdered
<1>5. ASSUME NEW len \in LengthField, SplitNothing(len) PROVE Ordered'
  BY <1>1, <1>5, NoStop
<1>6. ASSUME NEW len \in LengthField, SplitDone(len) PROVE Ordered'
  BY <1>1, <1>6, SplitDoneOrdered
<1>7. ASSUME HandlePacket PROVE Ordered'
  BY <1>1, <1>7, HandleOrdered
<1>8. ASSUME WrongMarker PROVE Ordered'
  BY <1>1, <1>8, MarkerIsRight
<1>9. ASSUME DoRead PROVE Ordered'
  BY <1>1, <1>9, DoReadOrdered
<1>10. ASSUME UNCHANGED vars PROVE Ordered'
  BY <1>1, <1>10 DEF vars, Ordered, AtBoundary, Found, Ahead
<1> QED BY <1>2, <1>3, <1>4, <1>5, <1>6, <1>7, <1>8, <1>9, <1>10 DEF Next, OnReceive

\* The inductive invariant holds of every behaviour.
THEOREM FramingInvariant == Spec => []FramingInv
<1>1. Init => FramingInv
  BY InitShape, InitOrdered DEF FramingInv
<1>2. FramingInv /\ [Next]_vars => FramingInv'
  BY NextShape, NextOrdered DEF FramingInv
<1> QED BY <1>1, <1>2, PTL DEF Spec

\* Every variable of on_receive keeps its type: no packet found lies, even in
\* part, outside what the receive got, however the bytes were cut.
THEOREM TypeCorrect == Spec => []TypeOK
<1>1. FramingInv => TypeOK
  BY DEF FramingInv, Shape
<1> QED BY <1>1, FramingInvariant, PTL

\* on_receive hangs or stops reading only after a receive that ended inside
\* a message.
THEOREM OnlyCutStops == Spec => []LostOnlyByCut
<1>1. FramingInv => LostOnlyByCut
  BY DEF FramingInv, Ordered, LostOnlyByCut
<1> QED BY <1>1, FramingInvariant, PTL

\* A packet that is handled after a cut makes handled longer, whatever it is.
LEMMA HandleAfterCut ==
  ASSUME Shape, HandlePacket
  PROVE  IsStrictPrefix(handled, handled')
<1>1. /\ Len(handled') = Len(handled) + 1
      /\ \A i \in 1..Len(handled) : handled'[i] = handled[i]
  BY HandleShape
<1>2. handled \in Seq(Seq(Byte)) /\ Len(handled) \in Nat
  BY TypeFacts DEF Shape
<1>3. SubSeq(handled, 1, Len(handled)) = SubSeq(handled', 1, Len(handled))
  BY <1>1, <1>2
<1>4. handled # handled'
  BY <1>1, <1>2
<1> QED BY <1>1, <1>2, <1>3, <1>4 DEF IsStrictPrefix, IsPrefix

\* Every step of on_receive and of the network is one the promise of a
\* channel allows, or changes nothing of it: until a receive ends inside a
\* message, what is handled is what was sent, in order and once.  (That
\* everything sent is handled in the end, the rest of KeepsPromise, is left
\* to the run.)
THEOREM FramingKeepsOrder == Spec => Promise!Init /\ [][Promise!Next]_(Promise!vars)
<1>1. Init => Promise!Init
  BY DEF Init, Promise!Init
<1>2. FramingInv /\ [Next]_vars => [Promise!Next]_(Promise!vars)
  <2> SUFFICES ASSUME FramingInv, [Next]_vars PROVE [Promise!Next]_(Promise!vars)
    OBVIOUS
  <2>0. Shape /\ cut \in BOOLEAN /\ (~cut => Ordered)
    BY DEF FramingInv, Shape, TypeOK
  <2>a. ASSUME UNCHANGED <<sent, handled, cut>> PROVE [Promise!Next]_(Promise!vars)
    BY <2>a DEF Promise!vars
  <2>1. ASSUME NEW m \in Message, Send(m) PROVE [Promise!Next]_(Promise!vars)
    BY <2>1 DEF Send, Promise!Send, Promise!Next
  <2>2. ASSUME ReceiveSome PROVE [Promise!Next]_(Promise!vars)
    <3>1. /\ UNCHANGED <<sent, handled>>
          /\ cut' = cut \/ cut' = TRUE
      BY <2>0, <2>2 DEF ReceiveSome, Receive
    <3>2. CASE cut' = cut
      BY <2>a, <3>1, <3>2
    <3>3. CASE cut' = TRUE
      BY <3>1, <3>3 DEF Promise!Spoil, Promise!Next
    <3> QED BY <3>1, <3>2, <3>3
  <2>3. ASSUME NEW len \in LengthField, Split(len) \/ SplitNothing(len) \/ SplitDone(len)
        PROVE  [Promise!Next]_(Promise!vars)
    BY <2>a, <2>3 DEF Split, SplitNothing, SplitDone
  <2>4. ASSUME HandlePacket PROVE [Promise!Next]_(Promise!vars)
    <3>1. UNCHANGED <<sent, cut>>
      BY <2>4 DEF HandlePacket
    <3>2. CASE ~cut
      <4>1. /\ Len(handled) < Len(sent)
            /\ handled' = Append(handled, sent[Len(handled) + 1])
        BY <2>0, <2>4, <3>2, HandleOrdered
      <4> QED BY <3>1, <3>2, <4>1 DEF Promise!Handle, Promise!Next
    <3>3. CASE cut
      <4>1. IsStrictPrefix(handled, handled')
        BY <2>0, <2>4, HandleAfterCut
      <4> QED BY <3>1, <3>3, <4>1 DEF Promise!HandleAnything, Promise!Next,
             Promise!IsStrictPrefix, Promise!IsPrefix, IsStrictPrefix, IsPrefix
    <3> QED BY <3>2, <3>3
  <2>5. ASSUME WrongMarker \/ DoRead PROVE [Promise!Next]_(Promise!vars)
    BY <2>a, <2>5 DEF WrongMarker, DoRead
  <2>6. ASSUME UNCHANGED vars PROVE [Promise!Next]_(Promise!vars)
    BY <2>a, <2>6 DEF vars
  <2> QED BY <2>1, <2>2, <2>3, <2>4, <2>5, <2>6 DEF Next, OnReceive
<1> QED BY <1>1, <1>2, FramingInvariant, PTL DEF Spec
=============================================================================
