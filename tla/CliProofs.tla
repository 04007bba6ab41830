----------------------------- MODULE CliProofs -----------------------------
(***************************************************************************)
(* Proofs about Cli: its types, that answers stay in step with commands,   *)
(* and that the event loop waits only for a response that did not fit.     *)
(*                                                                         *)
(* Neither side numbers its messages.  What keeps them in step, as long as *)
(* the responses to a client fit, is that its two sockets never hold more  *)
(* than one thing: nothing, the request it waits for, or the whole answer. *)
(***************************************************************************)
EXTENDS Cli, NumbersAndLists

\* A whole response, as it is in the stream.
Response(cont, of) == [i \in 1..of |-> [cont |-> cont, part |-> i, of |-> of]]

InStep(c) ==
  /\ pc[c] = "connecting" =>
       requests[c] = <<>> /\ stream[c] = <<>> /\ asked[c] = None
  /\ pc[c] = "prompt" =>
       /\ requests[c] = <<>> /\ stream[c] = <<>>
       /\ asked[c] = None \/ shown[c] = asked[c]
  /\ pc[c] = "waiting" =>
       /\ asked[c] \in CONTENT
       /\ \/ requests[c] = <<asked[c]>> /\ stream[c] = <<>>
          \/ /\ requests[c] = <<>>
             /\ \E of \in 1..BufLen : stream[c] = Response(asked[c], of)

CliInv ==
  /\ TypeOK /\ BlockedByOverrun
  /\ \A c \in Client : ~overrun[c] => InStep(c)

-----------------------------------------------------------------------------
\* A line that is not rejected stands for a command.
LEMMA FoundType ==
  ASSUME NEW line \in Line, ~Invalid(line)
  PROVE  Found(line) \in CONTENT
<1> DEFINE S == {i \in 1..3 : Command[i] \in line.starts}
<1>1. line.starts # {} /\ line.starts \subseteq CONTENT
  BY LinesAssumption DEF Invalid, Found
<1>2. S # {} /\ S \in SUBSET Nat
  BY <1>1 DEF CONTENT, Command
<1>3. Min(S) \in 1..3
  <2> HIDE DEF S
  <2>1. Min(S) \in S
    BY <1>2, MinIsLeast
  <2> QED BY <2>1 DEF S
<1>4. Command[Min(S)] \in CONTENT
  <2> HIDE DEF S
  <2> QED BY <1>3 DEF Command, CONTENT
<1> QED BY <1>1, <1>4 DEF Found

\* A response of units is a sequence of them.
LEMMA ResponseType ==
  ASSUME NEW cont \in CONTENT, NEW n \in Nat, NEW of \in Nat
  PROVE  LET r == [i \in 1..n |-> [cont |-> cont, part |-> i, of |-> of]]
         IN r \in Seq(Unit) /\ Len(r) = n
<1> DEFINE r == [i \in 1..n |-> [cont |-> cont, part |-> i, of |-> of]]
<1>1. \A i \in 1..n : r[i] \in Unit
  BY DEF Unit
<1> QED BY <1>1

\* A send adds to the stream of its client, and never more than fits.
LEMMA WrittenType ==
  ASSUME TypeOK, NEW c \in Client, NEW cont \in CONTENT, NEW of \in Nat, Written(c, cont, of)
  PROVE  /\ stream' \in [Client -> Seq(Unit)]
         /\ \A d \in Client : Len(stream'[d]) <= SockBuf
         /\ \A d \in Client \ {c} : stream'[d] = stream[d]
<1> DEFINE n == Min({of, Room(c)})
           r == [i \in 1..n |-> [cont |-> cont, part |-> i, of |-> of]]
<1>1. /\ stream \in [Client -> Seq(Unit)] /\ Len(stream[c]) \in Nat /\ SockBuf \in Nat
      /\ Len(stream[c]) <= SockBuf
  BY RoomAssumption DEF TypeOK
<1>2. n \in Nat /\ n <= SockBuf - Len(stream[c])
  BY <1>1, MinOfTwo DEF Room
<1>3. r \in Seq(Unit) /\ Len(r) = n
  <2> HIDE DEF n
  <2> QED BY <1>2, ResponseType
<1>4. stream' = [stream EXCEPT ![c] = stream[c] \o r]
  BY DEF Written
<1>5. stream[c] \o r \in Seq(Unit) /\ Len(stream[c] \o r) <= SockBuf
  <2> HIDE DEF r, n
  <2>1. Len(stream[c] \o r) = Len(stream[c]) + n /\ stream[c] \o r \in Seq(Unit)
    BY <1>1, <1>3, ConcatProperties, ZenonT(30)
  <2> QED BY <1>1, <1>2, <2>1
<1> HIDE DEF r
<1>6. stream'[c] = stream[c] \o r /\ \A d \in Client \ {c} : stream'[d] = stream[d]
  BY <1>1, <1>4
<1> QED BY <1>1, <1>4, <1>5, <1>6 DEF TypeOK

\* Of a response that fits, an empty socket takes the whole.
LEMMA WrittenWhole ==
  ASSUME TypeOK, NEW c \in Client, NEW cont \in CONTENT, NEW of \in 1..BufLen,
         stream[c] = <<>>, Written(c, cont, of)
  PROVE  stream'[c] = Response(cont, of)
<1>1. Min({of, Room(c)}) = of
  <2>1. Room(c) = SockBuf
    BY RoomAssumption DEF Room
  <2> QED BY <2>1, RoomAssumption, MinOfTwo
<1>2. stream'[c] = stream[c] \o Response(cont, of)
  BY <1>1 DEF Written, TypeOK, Response
<1>3. Response(cont, of) \in Seq(Unit)
  <2>1. of \in Nat
    BY RoomAssumption
  <2> QED BY <2>1, ResponseType DEF Response
<1> QED BY <1>2, <1>3, ConcatEmptySeq

\* One receive of a whole response shows it and leaves nothing.
LEMMA WholeIsReadable ==
  ASSUME NEW cont \in CONTENT, NEW of \in 1..BufLen, NEW r, r = Response(cont, of)
  PROVE  LET count == Min({BufLen, Len(r)})
             units == SubSeq(r, 1, count)
         IN /\ Readable(units) /\ units[1].cont = cont
            /\ SubSeq(r, count + 1, Len(r)) = <<>>
<1>1. r \in Seq(Unit) /\ Len(r) = of /\ of \in Nat /\ BufLen \in Nat /\ 1 <= of /\ of <= BufLen
  <2>1. of \in Nat /\ BufLen \in Nat /\ 1 <= of /\ of <= BufLen
    BY RoomAssumption
  <2> QED BY <2>1, ResponseType DEF Response
<1>2. Min({BufLen, Len(r)}) = of
  BY <1>1, MinOfTwo
<1>3. SubSeq(r, 1, of) = r /\ SubSeq(r, of + 1, Len(r)) = <<>>
  BY <1>1, SubSeqFull, SubSeqEmpty
<1>4. \A i \in 1..of : r[i] = [cont |-> cont, part |-> i, of |-> of]
  BY <1>1 DEF Response
<1>5. r[1].of = of /\ r[1].cont = cont
  BY <1>1, <1>4
<1>6. \A i \in 1..of : r[i] = [r[1] EXCEPT !.part = i]
  BY <1>1, <1>4
<1>7. Readable(r)
  BY <1>1, <1>5, <1>6 DEF Readable
<1> QED BY <1>2, <1>3, <1>5, <1>7

\* Lines are counted up to their bound.
LEMMA TypedType ==
  ASSUME TypeOK, NEW c \in Client, Typed(c)
  PROVE  lines' \in [Client -> Nat] /\ \A d \in Client : lines'[d] <= MaxLines[d]
<1>1. lines \in [Client -> Nat] /\ (\A d \in Client : lines[d] <= MaxLines[d])
      /\ MaxLines \in [Client -> Nat]
  BY LinesAssumption DEF TypeOK
<1>2. lines[c] < MaxLines[c] /\ lines' = [lines EXCEPT ![c] = lines[c] + 1]
  BY DEF Typed
<1>3. lines[c] + 1 \in Nat /\ lines[c] + 1 <= MaxLines[c]
  <2>1. lines[c] \in Nat /\ MaxLines[c] \in Nat
    BY <1>1
  <2> QED BY <1>2, <2>1
<1> QED BY <1>1, <1>2, <1>3

-----------------------------------------------------------------------------
\* The invariant holds at the start and each action keeps it.
LEMMA InitInv == Init => CliInv
<1> SUFFICES ASSUME Init PROVE CliInv
  OBVIOUS
<1>1. TypeOK
  <2>1. lines \in [Client -> Nat] /\ \A c \in Client : lines[c] <= MaxLines[c]
    BY LinesAssumption DEF Init
  <2>2. requests \in [Client -> Seq(CONTENT)] /\ stream \in [Client -> Seq(Unit)]
        /\ \A c \in Client : Len(stream[c]) <= SockBuf
    BY RoomAssumption DEF Init
  <2> QED BY <2>1, <2>2 DEF Init, TypeOK
<1>2. \A c \in Client : InStep(c)
  BY DEF Init, InStep
<1> QED BY <1>1, <1>2 DEF Init, CliInv, BlockedByOverrun

\* A client that an action does not concern stays in step.
LEMMA OtherInStep ==
  ASSUME NEW d \in Client, ~overrun[d] => InStep(d),
         /\ pc'[d] = pc[d] /\ asked'[d] = asked[d] /\ shown'[d] = shown[d]
         /\ requests'[d] = requests[d] /\ stream'[d] = stream[d]
         /\ overrun'[d] = overrun[d]
  PROVE  (~overrun[d] => InStep(d))'
BY DEF InStep

\* What a client does.
LEMMA ClientStep ==
  ASSUME CliInv, NEW c \in Client,
         \/ OnConnect(c) \/ Exit(c) \/ ReceiveResponse(c)
         \/ \E line \in Line : NotSent(c, line) \/ SendRequest(c, line)
  PROVE  CliInv'
<1>1. TypeOK /\ BlockedByOverrun
  BY DEF CliInv
<1>2. blocked' = blocked /\ overrun' = overrun
  BY DEF OnConnect, Exit, ReceiveResponse, NotSent, SendRequest, server
<1>3. BlockedByOverrun'
  BY <1>1, <1>2 DEF BlockedByOverrun
<1>4. \A d \in Client \ {c} :
        /\ pc'[d] = pc[d] /\ asked'[d] = asked[d] /\ shown'[d] = shown[d]
        /\ requests'[d] = requests[d] /\ stream'[d] = stream[d]
  BY <1>1 DEF OnConnect, Exit, ReceiveResponse, NotSent, SendRequest, server, TypeOK
<1>5. \A d \in Client \ {c} : (~overrun[d] => InStep(d))'
  BY <1>2, <1>4, OtherInStep DEF CliInv
<1>6. SUFFICES TypeOK' /\ (~overrun[c] => InStep(c))'
  BY <1>3, <1>5 DEF CliInv
<1>7. ~overrun[c] => InStep(c)
  BY DEF CliInv
<1>8. CASE OnConnect(c)
  <2>1. TypeOK'
    BY <1>1, <1>8 DEF OnConnect, TypeOK
  <2>2. (~overrun[c] => InStep(c))'
    BY <1>1, <1>7, <1>8 DEF OnConnect, TypeOK, InStep
  <2> QED BY <2>1, <2>2
<1>9. CASE Exit(c)
  <2>1. TypeOK'
    BY <1>1, <1>9 DEF Exit, server, TypeOK
  <2>2. (~overrun[c] => InStep(c))'
    BY <1>1, <1>9 DEF Exit, TypeOK, InStep
  <2> QED BY <2>1, <2>2
<1>10. CASE ReceiveResponse(c)
  <2> DEFINE count == Min({BufLen, Len(stream[c])})
             units == SubSeq(stream[c], 1, count)
             rest  == SubSeq(stream[c], count + 1, Len(stream[c]))
  <2>1. /\ pc[c] = "waiting" /\ stream[c] # <<>>
        /\ stream' = [stream EXCEPT ![c] = rest]
        /\ shown' = [shown EXCEPT ![c] = IF Readable(units) THEN units[1].cont ELSE None]
        /\ pc' = [pc EXCEPT ![c] = "prompt"]
        /\ UNCHANGED <<lines, asked, requests, backlog, session, blocked, overrun>>
    BY <1>10 DEF ReceiveResponse, server
  <2>2. /\ stream[c] \in Seq(Unit) /\ Len(stream[c]) \in Nat /\ Len(stream[c]) > 0
        /\ Len(stream[c]) <= SockBuf
    BY <1>1, <2>1 DEF TypeOK
  <2>3. count \in 1..Len(stream[c])
    BY <2>2, RoomAssumption, MinOfTwo
  <2>4. rest \in Seq(Unit) /\ Len(rest) <= SockBuf
    <3> HIDE DEF count
    <3>1. \A i \in (count+1)..Len(stream[c]) : stream[c][i] \in Unit
      BY <2>2, <2>3, ElementOfSeq
    <3>2. /\ rest \in Seq(Unit)
          /\ Len(rest) = IF count+1 <= Len(stream[c]) THEN Len(stream[c]) - (count+1) + 1 ELSE 0
      BY <2>2, <2>3, <3>1, SubSeqProperties
    <3> QED BY <2>2, <2>3, <3>2, RoomAssumption
  <2>5. units[1].cont \in CONTENT
    <3> HIDE DEF count
    <3>1. units[1] = stream[c][1]
      BY <2>2, <2>3
    <3>2. stream[c][1] \in Unit
      BY <2>2, ElementOfSeq
    <3> QED BY <3>1, <3>2 DEF Unit
  <2>6. TypeOK'
    <3> HIDE DEF rest, units
    <3> QED BY <1>1, <2>1, <2>4, <2>5 DEF TypeOK
  <2>7. ASSUME ~overrun[c] PROVE InStep(c)'
    <3>1. asked[c] \in CONTENT /\ requests[c] = <<>>
          /\ \E of \in 1..BufLen : stream[c] = Response(asked[c], of)
      BY <1>7, <2>1, <2>7 DEF InStep
    <3>2. PICK of \in 1..BufLen : stream[c] = Response(asked[c], of)
      BY <3>1
    <3>3. Readable(units) /\ units[1].cont = asked[c] /\ rest = <<>>
      BY <3>1, <3>2, WholeIsReadable
    <3>4. stream'[c] = <<>> /\ shown'[c] = asked[c] /\ pc'[c] = "prompt"
          /\ asked'[c] = asked[c] /\ requests'[c] = <<>>
      <4> HIDE DEF rest, units
      <4> QED BY <1>1, <2>1, <3>1, <3>3 DEF TypeOK
    <3> QED BY <3>4 DEF InStep
  <2> QED BY <1>2, <2>6, <2>7
<1>11. CASE \E line \in Line : NotSent(c, line)
  <2>1. PICK line \in Line : NotSent(c, line)
    BY <1>11
  <2>2. TypeOK'
    <3>1. lines' \in [Client -> Nat] /\ \A d \in Client : lines'[d] <= MaxLines[d]
      BY <1>1, <2>1, TypedType DEF NotSent
    <3> QED BY <1>1, <2>1, <3>1 DEF NotSent, server, TypeOK
  <2>3. (~overrun[c] => InStep(c))'
    BY <1>1, <1>7, <2>1 DEF NotSent, Typed, server, TypeOK, InStep
  <2> QED BY <2>2, <2>3
<1>12. CASE \E line \in Line : SendRequest(c, line)
  <2>1. PICK line \in Line : SendRequest(c, line)
    BY <1>12
  <2> DEFINE cont == Found(line)
  <2>2. cont \in CONTENT
    BY <2>1, FoundType DEF SendRequest
  <2>3. /\ pc[c] = "prompt" /\ lines[c] < MaxLines[c] /\ lines' = [lines EXCEPT ![c] = lines[c] + 1]
        /\ requests' = [requests EXCEPT ![c] = Append(requests[c], cont)]
        /\ asked' = [asked EXCEPT ![c] = cont]
        /\ shown' = [shown EXCEPT ![c] = None]
        /\ pc' = [pc EXCEPT ![c] = "waiting"]
        /\ UNCHANGED <<stream, backlog, session, blocked, overrun>>
    BY <2>1 DEF SendRequest, Typed, server
  <2> HIDE DEF cont
  <2>4. TypeOK'
    <3>1. lines' \in [Client -> Nat] /\ \A d \in Client : lines'[d] <= MaxLines[d]
      BY <1>1, <2>1, TypedType DEF SendRequest
    <3>2. Append(requests[c], cont) \in Seq(CONTENT)
      BY <1>1, <2>2, AppendProperties DEF TypeOK
    <3>3. requests' \in [Client -> Seq(CONTENT)]
      BY <1>1, <2>3, <3>2 DEF TypeOK
    <3> QED BY <1>1, <2>2, <2>3, <3>1, <3>3 DEF TypeOK
  <2>5. ASSUME ~overrun[c] PROVE InStep(c)'
    <3>1. requests[c] = <<>> /\ stream[c] = <<>>
      BY <1>7, <2>3, <2>5 DEF InStep
    <3>2. requests'[c] = <<cont>> /\ asked'[c] = cont /\ pc'[c] = "waiting" /\ stream'[c] = <<>>
      BY <1>1, <2>3, <3>1 DEF TypeOK
    <3> QED BY <2>2, <3>2 DEF InStep
  <2> QED BY <1>2, <2>4, <2>5
<1> QED BY <1>8, <1>9, <1>10, <1>11, <1>12

\* The server answers a client that is in step with the whole of the answer,
\* and waits for one only after a response that did not fit.
LEMMA OnReceiveStep ==
  ASSUME CliInv, NEW c \in Client, OnReceive(c)
  PROVE  CliInv'
<1> DEFINE cont == Head(requests[c])
<1>1. TypeOK /\ BlockedByOverrun /\ (~overrun[c] => InStep(c))
  BY DEF CliInv
<1>2. /\ blocked = None /\ requests[c] # <<>> /\ pc[c] # "exited"
      /\ requests' = [requests EXCEPT ![c] = <<>>]
      /\ UNCHANGED <<pc, lines, asked, shown, backlog, session>>
  BY DEF OnReceive, client
<1>3. PICK of \in Size[cont] :
        /\ overrun' = [overrun EXCEPT ![c] = overrun[c] \/ of > BufLen]
        /\ \/ Room(c) > 0 /\ Written(c, cont, of) /\ UNCHANGED blocked
           \/ /\ Room(c) = 0 /\ UNCHANGED stream
              /\ blocked' = [to |-> c, cont |-> cont, of |-> of]
  BY DEF OnReceive
<1>4. cont \in CONTENT /\ of \in Nat \ {0}
  BY <1>1, <1>2, SizeAssumption, HeadTailProperties DEF TypeOK
<1>5. /\ stream' \in [Client -> Seq(Unit)]
      /\ \A d \in Client : Len(stream'[d]) <= SockBuf
      /\ \A d \in Client \ {c} : stream'[d] = stream[d]
  <2> HIDE DEF cont
  <2> QED BY <1>1, <1>3, <1>4, WrittenType DEF TypeOK
<1>6. /\ overrun' \in [Client -> BOOLEAN]
      /\ overrun'[c] = (overrun[c] \/ of > BufLen)
      /\ \A d \in Client \ {c} : overrun'[d] = overrun[d]
  BY <1>1, <1>3 DEF TypeOK
<1>7. /\ requests' \in [Client -> Seq(CONTENT)] /\ requests'[c] = <<>>
      /\ \A d \in Client \ {c} : requests'[d] = requests[d]
  BY <1>1, <1>2 DEF TypeOK
<1>8. TypeOK'
  <2>1. blocked' = None \/ blocked' \in [to : Client, cont : CONTENT, of : Nat]
    <3> HIDE DEF cont
    <3> QED BY <1>1, <1>3, <1>4 DEF TypeOK
  <2> QED BY <1>1, <1>2, <1>5, <1>6, <1>7, <2>1 DEF TypeOK
<1>9. ASSUME ~overrun'[c] PROVE InStep(c)' /\ blocked' = None
  <2>1. of \in 1..BufLen /\ ~overrun[c]
    BY <1>4, <1>6, <1>9, RoomAssumption
  <2>2. pc[c] = "waiting" /\ requests[c] = <<asked[c]>> /\ stream[c] = <<>> /\ asked[c] \in CONTENT
    BY <1>1, <1>2, <2>1 DEF InStep, TypeOK
  <2>3. cont = asked[c]
    BY <2>2
  <2>4. Room(c) > 0
    BY <2>2, RoomAssumption DEF Room
  <2>5. Written(c, cont, of) /\ UNCHANGED blocked
    BY <1>3, <2>4
  <2>6. stream'[c] = Response(asked[c], of)
    <3> HIDE DEF cont
    <3> QED BY <1>1, <1>4, <2>1, <2>2, <2>3, <2>5, WrittenWhole
  <2> QED BY <1>2, <1>7, <2>1, <2>2, <2>5, <2>6 DEF InStep
<1>10. \A d \in Client \ {c} : (~overrun[d] => InStep(d))'
  BY <1>2, <1>5, <1>6, <1>7, OtherInStep DEF CliInv
<1>11. BlockedByOverrun'
  <2>1. CASE blocked' = blocked
    BY <1>2, <2>1 DEF BlockedByOverrun
  <2>2. CASE blocked' = [to |-> c, cont |-> cont, of |-> of]
    <3>1. blocked'.to = c
      BY <2>2
    <3> QED BY <1>9, <3>1 DEF BlockedByOverrun
  <2> QED BY <1>3, <2>1, <2>2
<1> QED BY <1>8, <1>9, <1>10, <1>11 DEF CliInv

\* The send that the loop waited in ends: it was to a client that is overrun.
LEMMA SendGoesOnStep ==
  ASSUME CliInv, SendGoesOn
  PROVE  CliInv'
<1> DEFINE c == blocked.to
<1>1. TypeOK /\ blocked # None /\ overrun[c]
  BY DEF CliInv, SendGoesOn, BlockedByOverrun
<1>2. c \in Client /\ blocked.cont \in CONTENT /\ blocked.of \in Nat
  BY <1>1 DEF TypeOK
<1>3. /\ Written(c, blocked.cont, blocked.of) /\ blocked' = None
      /\ UNCHANGED <<pc, lines, asked, shown, requests, backlog, session, overrun>>
  BY DEF SendGoesOn, client
<1> HIDE DEF c
<1>4. /\ stream' \in [Client -> Seq(Unit)]
      /\ \A d \in Client : Len(stream'[d]) <= SockBuf
      /\ \A d \in Client \ {c} : stream'[d] = stream[d]
  BY <1>1, <1>2, <1>3, WrittenType
<1>5. TypeOK'
  BY <1>1, <1>3, <1>4 DEF TypeOK
<1>6. \A d \in Client : (~overrun[d] => InStep(d))'
  <2>1. \A d \in Client \ {c} : (~overrun[d] => InStep(d))'
    BY <1>3, <1>4, OtherInStep DEF CliInv
  <2> QED BY <1>1, <1>3, <2>1
<1> QED BY <1>3, <1>5, <1>6 DEF CliInv, BlockedByOverrun

\* The other handlers of the server leave a client that is there alone.
LEMMA OtherHandlerStep ==
  ASSUME CliInv, NEW c \in Client, OnAccept(c) \/ SendThrows(c) \/ OnReceiveError(c)
  PROVE  CliInv'
<1>1. TypeOK /\ BlockedByOverrun
  BY DEF CliInv
<1>2. /\ UNCHANGED <<pc, lines, asked, shown, stream, overrun>>
      /\ blocked' \in {blocked, None}
      /\ \A d \in Client \ {c} : requests'[d] = requests[d]
      /\ requests' = requests \/ pc[c] = "exited"
  BY <1>1 DEF OnAccept, SendThrows, OnReceiveError, client, TypeOK
<1>3. TypeOK'
  <2>1. CASE OnAccept(c)
    BY <1>1, <2>1 DEF OnAccept, client, TypeOK
  <2>2. CASE SendThrows(c)
    BY <1>1, <2>2 DEF SendThrows, client, TypeOK
  <2>3. CASE OnReceiveError(c)
    BY <1>1, <2>3 DEF OnReceiveError, client, TypeOK
  <2> QED BY <2>1, <2>2, <2>3
<1>4. \A d \in Client : (~overrun[d] => InStep(d))'
  <2>1. \A d \in Client \ {c} : (~overrun[d] => InStep(d))'
    BY <1>2, OtherInStep DEF CliInv
  <2>2. (~overrun[c] => InStep(c))'
    BY <1>2 DEF CliInv, InStep
  <2> QED BY <2>1, <2>2
<1>5. BlockedByOverrun'
  BY <1>1, <1>2 DEF BlockedByOverrun
<1> QED BY <1>3, <1>4, <1>5 DEF CliInv

\* Every handler of the daemon and every step of a client keeps CliInv.
LEMMA NextInv == CliInv /\ [Next]_vars => CliInv'
<1> SUFFICES ASSUME CliInv, [Next]_vars PROVE CliInv'
  OBVIOUS
<1>1. CASE UNCHANGED vars
  BY <1>1 DEF vars, client, server, CliInv, TypeOK, BlockedByOverrun, InStep, Response
<1>2. CASE \E c \in Client : OnConnect(c) \/ Exit(c) \/ ReceiveResponse(c)
  BY <1>2, ClientStep
<1>3. CASE \E c \in Client, line \in Line : NotSent(c, line) \/ SendRequest(c, line)
  BY <1>3, ClientStep
<1>4. CASE \E c \in Client : Handler(c)
  BY <1>4, OnReceiveStep, OtherHandlerStep DEF Handler
<1>5. CASE SendGoesOn
  BY <1>5, SendGoesOnStep
<1> QED BY <1>1, <1>2, <1>3, <1>4, <1>5 DEF Next

\* In every state the clients whose responses fit are in step.
THEOREM CliInvariant == Spec => []CliInv
<1> QED BY InitInv, NextInv, PTL DEF Spec

\* The types hold for any clients, sizes and buffers.
THEOREM TypeCorrect == Spec => []TypeOK
<1>1. CliInv => TypeOK
  BY DEF CliInv
<1> QED BY <1>1, CliInvariant, PTL

\* What a client prints answers the command before it, as long as its
\* responses fit one receive (CLI_Client, CLI_Session::on_receive).
THEOREM AnswersInStep == Spec => []AnswerMatches
<1>1. CliInv => AnswerMatches
  BY DEF CliInv, AnswerMatches, InStep
<1> QED BY <1>1, CliInvariant, PTL

\* The event loop waits in a send only after a response that did not fit.
THEOREM LoopWaitsForOverrun == Spec => []BlockedByOverrun
<1>1. CliInv => BlockedByOverrun
  BY DEF CliInv
<1> QED BY <1>1, CliInvariant, PTL
=============================================================================
