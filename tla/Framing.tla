------------------------------- MODULE Framing -------------------------------
(***************************************************************************)
(* How on_receive (fsm.cpp) finds the messages in the bytes of a           *)
(* connection: it splits what one receive got by the length fields, checks *)
(* the markers, hands the messages to their handlers and starts the next   *)
(* receive, at the beginning of the buffer.                                *)
(*                                                                         *)
(* The network delivers the bytes in order, cut wherever it likes.  A byte *)
(* is a number; a header is MarkerLen bytes 255 and one byte of length     *)
(* here (16 and two bytes in the code); the type of a message is the first *)
(* byte of what follows.                                                   *)
(***************************************************************************)
EXTENDS Integers, Sequences, SequencesExt

CONSTANTS
  MarkerLen,   \* bytes of the marker
  Content,     \* what follows the header of a message
  BufLen,      \* bytes of the buffer
  JunkByte,    \* what the buffer may hold before it is written
  MaxSent      \* bound: messages the peer sends

ASSUME LengthAssumption == MarkerLen \in Nat \ {0} /\ BufLen \in Nat /\ MaxSent \in Nat

Byte      == 0..255
HeaderLen == MarkerLen + 1

\* The length of a message fits the length field.
ASSUME ByteAssumption ==
  /\ Content \subseteq Seq(Byte) /\ JunkByte \subseteq Byte
  /\ \A c \in Content : HeaderLen + Len(c) \in Byte

Packet(c) == [i \in 1..MarkerLen |-> 255] \o <<HeaderLen + Len(c)>> \o c
Message   == {Packet(c) : c \in Content}

VARIABLES
  sent,       \* the messages the peer has sent
  stream,     \* their bytes that are not received yet
  buffer,     \* the receive buffer of the session
  length,     \* the bytes of the receive that is being handled
  pos, pkts,  \* the variables of on_receive: how far it is, what it found
  phase,      \* where it is
  handled,    \* the messages given to a handler
  cut         \* history: a receive has ended inside a message

vars == <<sent, stream, buffer, length, pos, pkts, phase, handled, cut>>

Phase == {"receiving", "splitting", "handling", "deaf", "endless"}

TypeOK ==
  /\ sent \in Seq(Message) /\ stream \in Seq(Byte)
  /\ buffer \in [1..BufLen -> Byte]
  /\ length \in 0..BufLen /\ pos \in 0..length
  /\ pkts \in Seq((0..BufLen) \X (1..BufLen)) /\ handled \in Seq(Seq(Byte))
  /\ phase \in Phase /\ cut \in BOOLEAN

Init ==
  /\ sent = <<>> /\ stream = <<>>
  /\ \E b \in JunkByte : buffer = [i \in 1..BufLen |-> b]
  /\ length = 0 /\ pos = 0 /\ pkts = <<>>
  /\ phase = "receiving"
  /\ handled = <<>> /\ cut = FALSE

Send(m) ==
  /\ Len(sent) < MaxSent
  /\ sent' = Append(sent, m)
  /\ stream' = stream \o m
  /\ UNCHANGED <<buffer, length, pos, pkts, phase, handled, cut>>

\* What is left of the stream begins with a message.
AtBoundary(rest) ==
  \E i \in 0..Len(sent) : rest = FlattenSeq(SubSeq(sent, i + 1, Len(sent)))

\* The receive under way gets k bytes.  What the buffer held after them stays.
Receive(k) ==
  /\ phase = "receiving"
  /\ buffer' = [i \in 1..BufLen |-> IF i <= k THEN stream[i] ELSE buffer[i]]
  /\ stream' = SubSeq(stream, k + 1, Len(stream))
  /\ length' = k /\ pos' = 0 /\ pkts' = <<>>
  /\ phase' = "splitting"
  /\ cut' = (cut \/ ~AtBoundary(stream'))
  /\ UNCHANGED <<sent, handled>>

-----------------------------------------------------------------------------
\* The first loop of on_receive.

\* What the length field of the packet at pos may read, received or not: past
\* the buffer it is whatever the memory holds.
LengthField == IF pos + HeaderLen <= BufLen THEN {buffer[pos + HeaderLen]} ELSE Byte

\* Variants: a message that ends with the receive is left out; the next
\* message is looked for after the header.
EndsInside(len) == pos + len >= length

AfterHeader(len) == pos + HeaderLen

CutShort(len) == pos + len > length

NextPos(len) == pos + len

Split(len) ==
  /\ phase = "splitting" /\ pos < length /\ ~CutShort(len) /\ len > 0
  /\ pkts' = Append(pkts, <<pos, len>>)
  /\ pos' = NextPos(len)
  /\ UNCHANGED <<sent, stream, buffer, length, phase, handled, cut>>

\* A length of zero is found again and again; pkts grows as long as there is
\* memory.
SplitNothing(len) ==
  /\ phase = "splitting" /\ pos < length /\ len = 0
  /\ phase' = "endless"
  /\ UNCHANGED <<sent, stream, buffer, length, pos, pkts, handled, cut>>

\* The bytes of a message that is not complete are given up.
SplitDone(len) ==
  /\ phase = "splitting" /\ (pos >= length \/ CutShort(len))
  /\ phase' = "handling"
  /\ UNCHANGED <<sent, stream, buffer, length, pos, pkts, handled, cut>>

-----------------------------------------------------------------------------
\* The second loop, and do_read.

\* The marker is read from the buffer, and past it where the packet found is
\* shorter than a header; a byte past the buffer may have any value.
MayBeMarker(p)    == \A i \in 1..MarkerLen : p + i <= BufLen => buffer[p + i] = 255
MayBeNoMarker(p)  == \E i \in 1..MarkerLen : p + i <= BufLen => buffer[p + i] # 255

HandlePacket ==
  /\ phase = "handling" /\ pkts # <<>> /\ MayBeMarker(Head(pkts)[1])
  /\ LET p == Head(pkts)[1]
          l == Head(pkts)[2]
     IN  handled' = Append(handled, SubSeq(buffer, p + 1, p + l))
  /\ pkts' = Tail(pkts)
  /\ UNCHANGED <<sent, stream, buffer, length, pos, phase, cut>>

\* A wrong marker leaves the handler without another receive.
WrongMarker ==
  /\ phase = "handling" /\ pkts # <<>> /\ MayBeNoMarker(Head(pkts)[1])
  /\ phase' = "deaf"
  /\ UNCHANGED <<sent, stream, buffer, length, pos, pkts, handled, cut>>

DoRead ==
  /\ phase = "handling" /\ pkts = <<>>
  /\ phase' = "receiving"
  /\ UNCHANGED <<sent, stream, buffer, length, pos, pkts, handled, cut>>

ReceiveSome == \E k \in 1..BufLen : k <= Len(stream) /\ Receive(k)
OnReceive   == \/ \E len \in LengthField : Split(len) \/ SplitNothing(len) \/ SplitDone(len)
               \/ HandlePacket \/ WrongMarker \/ DoRead

Next == (\E m \in Message : Send(m)) \/ ReceiveSome \/ OnReceive

\* Bytes that were sent arrive, and a handler that has begun goes on.
Spec == Init /\ [][Next]_vars /\ WF_vars(ReceiveSome) /\ WF_vars(OnReceive)

-----------------------------------------------------------------------------
\* Properties

\* As long as no receive ends inside a message, on_receive keeps the promise
\* of a channel: nothing is left out, doubled or invented, whatever number
\* of messages comes with one receive, and everything is handled.
Promise == INSTANCE Channel WITH spoilt <- cut
KeepsPromise == Promise!Spec

\* The speaker only hangs in on_receive, or stops reading, after a receive
\* that ended inside a message: what an earlier receive left in the buffer
\* is never taken for a header otherwise.
LostOnlyByCut == phase \in {"deaf", "endless"} => cut
=============================================================================
