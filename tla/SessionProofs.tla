--------------------------- MODULE SessionProofs ---------------------------
(***************************************************************************)
(* Proofs about Session: its types, its safety properties, and that it     *)
(* moves as module Peer says.                                              *)
(*                                                                         *)
(* A handler of a receive is a loop over messages.  MessageStep says what  *)
(* one message may do to a session, Handled what any number of them may    *)
(* have done since the handler began; SessionInv says of the state between *)
(* two handlers what that needs.                                           *)
(***************************************************************************)
EXTENDS Session, NumbersAndLists

UpF(f) == f.state = "ESTABLISHED" /\ Connected(f)

\* The session keeps to the hold time of the OPENs that were accepted.
KeepsTo(f, ms) ==
  \A m \in ms : m.type = "open" /\ m.rightAs =>
                  f.HoldTime <= m.hold /\ 3 * f.KeepaliveTime <= m.hold

HandlerType ==
  [fsm : Fsm, answers : Int, next : {"go", "throw", "return"}, got : SUBSET Message]

\* A session may get from f to g while its handler runs: only one that
\* answers gets on, and no new receive is started.
MayBecome(f, g) ==
  /\ g.receives <= f.receives
  /\ Connected(g) => Connected(f)
  /\ \/ g.state = f.state
     \/ Connected(f) /\ g.state \in {"OPENCONFIRM", "ESTABLISHED"}

\* What message m may make of handler h.
MessageStep(h, m, d) ==
  /\ d \in HandlerType /\ d.got = h.got
  /\ MayBecome(h.fsm, d.fsm)
  /\ UpF(d.fsm) => d.fsm = h.fsm \/ (m.type = "keepalive" /\ d.fsm.wait /\ d.next = "go")
  /\ d.next = "throw" => ~Connected(d.fsm)
  /\ d.fsm.HoldTime <= h.fsm.HoldTime
  /\ \/ d.fsm.KeepaliveTime = h.fsm.KeepaliveTime
     \/ 3 * d.fsm.KeepaliveTime <= d.fsm.HoldTime
  /\ d.next = "go" => KeepsTo(d.fsm, {m})

\* What the messages handled so far may have made of the session.
Handled(h) ==
  /\ h \in HandlerType
  /\ MayBecome(fsm, h.fsm)
  /\ UpF(h.fsm) => h.fsm.wait \/ fired > 0
  /\ UpF(h.fsm) => UpF(fsm) \/ \E m \in h.got : m.type = "keepalive"
  /\ h.next = "throw" => ~Connected(h.fsm)
  /\ KeepsTo(h.fsm, got \cup h.got)

-----------------------------------------------------------------------------
\* The handlers of the messages.

\* Three times a third is not more than the whole, and a third of a hold
\* time is a time (rx_open divides the hold time).
LEMMA ThirdOf ==
  \A t \in Seconds : t \div 3 \in Seconds /\ 3 * (t \div 3) <= t
<1>1. MaxTime \in Nat
  BY DEF MaxTime
<1> QED BY <1>1 DEF Seconds

\* Seconds are numbers.
LEMMA SecondsAreInts == \A t \in Seconds : t \in Int /\ t <= t
<1>1. MaxTime \in Nat
  BY DEF MaxTime
<1> QED BY <1>1 DEF Seconds

\* Closing keeps the state and the times, and ends the receives.
LEMMA CloseType ==
  ASSUME NEW f \in Fsm, NEW how \in Sock \ {"open", "eof"}
  PROVE  LET g == Close(f, how)
         IN /\ g \in Fsm /\ ~Connected(g)
            /\ g.receives <= f.receives /\ g.state = f.state
            /\ g.HoldTime = f.HoldTime /\ g.KeepaliveTime = f.KeepaliveTime
<1> DEFINE g == Close(f, how)
<1>1. g = [f EXCEPT !.sock = how, !.receives = 0]
  BY DEF Close
<1> HIDE DEF g
<1>2. g \in Fsm
  BY <1>1 DEF Fsm
<1>3. g.sock = how /\ g.receives = 0 /\ f.receives \in Nat
  BY <1>1 DEF Fsm
<1>4. g.state = f.state /\ g.HoldTime = f.HoldTime /\ g.KeepaliveTime = f.KeepaliveTime
  BY <1>1 DEF Fsm
<1> QED BY <1>2, <1>3, <1>4 DEF Connected, g

\* Negotiation takes the smaller hold time, and a third of it.
LEMMA NegotiateType ==
  ASSUME NEW f \in Fsm, NEW hold \in Seconds
  PROVE  LET g == Negotiate(f, hold)
         IN /\ g \in Fsm
            /\ g.HoldTime <= hold /\ g.HoldTime <= f.HoldTime
            /\ 3 * g.KeepaliveTime <= g.HoldTime
            /\ g.state = f.state /\ g.sock = f.sock
            /\ g.receives = f.receives /\ g.wait = f.wait
<1> DEFINE a == Min({hold, f.HoldTime})
<1>1. f.HoldTime \in Seconds
  BY DEF Fsm
<1>2. a \in Seconds /\ a <= hold /\ a <= f.HoldTime
  BY <1>1, MinOfTwo DEF Seconds
<1>3. a \div 3 \in Seconds /\ 3 * (a \div 3) <= a
  BY <1>2, ThirdOf
<1>4. Negotiate(f, hold) = [f EXCEPT !.HoldTime = a, !.KeepaliveTime = a \div 3]
  BY DEF Negotiate
<1> HIDE DEF a
<1> QED BY <1>2, <1>3, <1>4 DEF Fsm

\* An exception leaves the session without a connection (remote_endpoint).
LEMMA ThrowStep ==
  ASSUME NEW h \in HandlerType
  PROVE  LET d == Throw(h)
         IN /\ d \in HandlerType /\ d.got = h.got /\ d.next = "throw"
            /\ ~Connected(d.fsm)
            /\ d.fsm.receives <= h.fsm.receives
            /\ d.fsm.state = h.fsm.state
            /\ d.fsm.HoldTime = h.fsm.HoldTime
            /\ d.fsm.KeepaliveTime = h.fsm.KeepaliveTime
<1> DEFINE f == h.fsm
           g == IF Connected(f) THEN Close(f, "reset") ELSE f
<1>1. f \in Fsm
  BY DEF HandlerType
<1>2. /\ g \in Fsm /\ ~Connected(g) /\ g.receives <= f.receives
      /\ g.state = f.state /\ g.HoldTime = f.HoldTime
      /\ g.KeepaliveTime = f.KeepaliveTime
  <2>1. CASE Connected(f)
    <3> HIDE DEF f
    <3> QED BY <1>1, <2>1, CloseType DEF Sock
  <2>2. CASE ~Connected(f)
    <3> HIDE DEF f
    <3> QED BY <1>1, <2>2 DEF Fsm
  <2> QED BY <2>1, <2>2
<1>3. Throw(h) = [h EXCEPT !.next = "throw", !.fsm = g]
  BY DEF Throw
<1> HIDE DEF g
<1> QED BY <1>2, <1>3 DEF HandlerType

\* remote_endpoint() was asked once.
LEMMA AskedType ==
  ASSUME NEW h \in HandlerType
  PROVE  LET d == Asked(h)
         IN d \in HandlerType /\ d.got = h.got /\ d.next = h.next /\ d.fsm = h.fsm
BY DEF HandlerType, Asked

\* rx_open keeps to the hold time of the OPEN, or it closes the socket.
LEMMA OpenStep ==
  ASSUME NEW h \in HandlerType, h.next = "go", NEW m \in Open
  PROVE  MessageStep(h, m, RxOpen(h, m))
<1> DEFINE f == h.fsm
           g == Negotiate(f, m.hold)
           agreed == [Asked(h) EXCEPT !.fsm = g]
<1>1. f \in Fsm /\ m.hold \in Seconds /\ m.rightAs \in BOOLEAN /\ m.type = "open"
  BY DEF HandlerType, Open
<1>2. /\ g \in Fsm
      /\ g.HoldTime <= m.hold /\ g.HoldTime <= f.HoldTime
      /\ 3 * g.KeepaliveTime <= g.HoldTime
      /\ g.state = f.state /\ g.sock = f.sock
      /\ g.receives = f.receives /\ g.wait = f.wait
  BY <1>1, NegotiateType DEF f
<1>3. Asked(h) \in HandlerType /\ Asked(h).got = h.got /\ Asked(h).next = "go" /\ Asked(h).fsm = f
  BY AskedType
<1>4. /\ agreed \in HandlerType /\ agreed.fsm = g
      /\ agreed.got = h.got /\ agreed.next = "go"
  <2> HIDE DEF g
  <2> QED BY <1>2, <1>3 DEF HandlerType
<1>9. RxOpen(h, m) =
        CASE ~Answers(h)                   -> Throw(h)
          [] Answers(h) /\ ~m.rightAs      -> [Asked(h) EXCEPT !.fsm = Close(f, "closed")]
          [] Answers(h) /\ m.rightAs /\ ~Answers(agreed) -> Throw(agreed)
          [] OTHER -> [Asked(agreed) EXCEPT !.fsm.state = "OPENCONFIRM"]
  BY <1>3, Zenon DEF RxOpen
<1>5. CASE ~Answers(h)
  <2>1. RxOpen(h, m) = Throw(h)
    BY <1>5, <1>9
  <2> QED BY <1>1, <2>1, ThrowStep DEF MessageStep, MayBecome, UpF, Fsm, Seconds
<1>6. CASE Answers(h) /\ ~m.rightAs
  <2> DEFINE c == Close(f, "closed")
             d == [Asked(h) EXCEPT !.fsm = c]
  <2>1. RxOpen(h, m) = d
    BY <1>6, <1>9
  <2>2. /\ c \in Fsm /\ ~Connected(c) /\ c.receives <= f.receives /\ c.state = f.state
        /\ c.HoldTime <= f.HoldTime /\ c.KeepaliveTime = f.KeepaliveTime
    <3>1. f.HoldTime <= f.HoldTime
      BY <1>1, SecondsAreInts DEF Fsm
    <3> QED BY <1>1, <3>1, CloseType DEF Sock
  <2>3. d \in HandlerType /\ d.got = h.got /\ d.next = "go" /\ d.fsm = c
    <3> HIDE DEF c
    <3> QED BY <1>3, <2>2 DEF HandlerType
  <2> HIDE DEF d, c
  <2> QED BY <1>6, <2>1, <2>2, <2>3 DEF MessageStep, MayBecome, UpF, KeepsTo
<1>7. CASE Answers(h) /\ m.rightAs /\ ~Answers(agreed)
  <2>1. RxOpen(h, m) = Throw(agreed)
    <3> HIDE DEF agreed
    <3> QED BY <1>7, <1>9
  <2> HIDE DEF agreed, g
  <2> QED BY <1>1, <1>2, <1>4, <2>1, ThrowStep DEF MessageStep, MayBecome, UpF, Fsm, Seconds
<1>8. CASE Answers(h) /\ m.rightAs /\ Answers(agreed)
  <2> DEFINE e == [g EXCEPT !.state = "OPENCONFIRM"]
             d == [Asked(agreed) EXCEPT !.fsm = e]
  <2>1. RxOpen(h, m) = d
    <3>1. RxOpen(h, m) = [Asked(agreed) EXCEPT !.fsm.state = "OPENCONFIRM"]
      <4> HIDE DEF agreed
      <4> QED BY <1>8, <1>9
    <3>2. Asked(agreed) \in HandlerType /\ Asked(agreed).fsm = g
      <4> HIDE DEF agreed, g
      <4> QED BY <1>4, AskedType
    <3> HIDE DEF agreed, g
    <3> QED BY <3>1, <3>2 DEF HandlerType
  <2>2. e \in Fsm /\ e.sock = g.sock /\ e.receives = g.receives /\ e.state = "OPENCONFIRM"
        /\ e.HoldTime = g.HoldTime /\ e.KeepaliveTime = g.KeepaliveTime
    <3> HIDE DEF g
    <3> QED BY <1>2 DEF Fsm, FsmState
  <2>3. d \in HandlerType /\ d.got = h.got /\ d.next = "go" /\ d.fsm = e
    <3> HIDE DEF e, agreed
    <3>1. Asked(agreed) \in HandlerType /\ Asked(agreed).got = h.got /\ Asked(agreed).next = "go"
      BY <1>4, AskedType
    <3> QED BY <2>2, <3>1 DEF HandlerType
  <2>4. Connected(f)
    BY <1>8 DEF Answers
  <2> HIDE DEF d, e, g
  <2> QED BY <1>1, <1>2, <2>1, <2>2, <2>3, <2>4
          DEF MessageStep, MayBecome, UpF, KeepsTo, Fsm, Connected, Seconds
<1> QED BY <1>5, <1>6, <1>7, <1>8

\* rx_keepalive brings up only a session that answers.
LEMMA KeepaliveStep ==
  ASSUME NEW h \in HandlerType, h.next = "go", NEW m \in Message, m.type = "keepalive"
  PROVE  MessageStep(h, m, RxKeepalive(h))
<1> DEFINE f == h.fsm
           d == RxKeepalive(h)
<1> SUFFICES MessageStep(h, m, d)
  OBVIOUS
<1>1. /\ f \in Fsm /\ f.receives <= f.receives /\ f.HoldTime <= f.HoldTime
      /\ f.HoldTime \in Int
  BY SecondsAreInts DEF HandlerType, Fsm
<1>2. CASE d = h
  BY <1>1, <1>2 DEF MessageStep, MayBecome, KeepsTo
<1>3. CASE d = Throw(h)
  BY <1>1, <1>3, ThrowStep DEF MessageStep, MayBecome, UpF
<1>4. CASE d = [h EXCEPT !.fsm = Close(@, "closed")]
  <2> DEFINE c == Close(f, "closed")
  <2>1. /\ c \in Fsm /\ ~Connected(c) /\ c.receives <= f.receives /\ c.state = f.state
        /\ c.HoldTime = f.HoldTime /\ c.KeepaliveTime = f.KeepaliveTime
    BY <1>1, CloseType DEF Sock
  <2>2. d \in HandlerType /\ d.fsm = c /\ d.got = h.got /\ d.next = "go"
    <3> HIDE DEF c
    <3> QED BY <1>4, <2>1 DEF HandlerType, c
  <2> HIDE DEF c, d
  <2> QED BY <1>1, <2>1, <2>2 DEF MessageStep, MayBecome, UpF, KeepsTo
<1>5. CASE Answers(h) /\ d = [Asked(h) EXCEPT
             !.fsm = [start_keepalive_timer(@) EXCEPT !.state = "ESTABLISHED"]]
  <2> DEFINE e == [f EXCEPT !.wait = TRUE, !.state = "ESTABLISHED"]
  <2>1. Asked(h) \in HandlerType /\ Asked(h).got = h.got /\ Asked(h).next = "go" /\ Asked(h).fsm = f
    BY AskedType
  <2>2. d = [Asked(h) EXCEPT !.fsm = e]
    BY <1>5, <2>1 DEF start_keepalive_timer
  <2>3. e \in Fsm
    <3> HIDE DEF f
    <3> QED BY <1>1 DEF Fsm, FsmState
  <2>4. e.state = "ESTABLISHED" /\ e.wait
    <3> HIDE DEF f
    <3> QED BY <1>1 DEF Fsm
  <2>5. e.receives = f.receives /\ e.HoldTime = f.HoldTime /\ e.KeepaliveTime = f.KeepaliveTime
    <3> HIDE DEF f
    <3> QED BY <1>1 DEF Fsm
  <2>6. d \in HandlerType /\ d.fsm = e /\ d.got = h.got /\ d.next = "go"
    <3> HIDE DEF e
    <3> QED BY <2>1, <2>2, <2>3 DEF HandlerType
  <2>7. Connected(f)
    BY <1>5 DEF Answers
  <2> HIDE DEF e, d
  <2> QED BY <1>1, <2>3, <2>4, <2>5, <2>6, <2>7 DEF MessageStep, MayBecome, KeepsTo
<1> QED BY <1>2, <1>3, <1>4, <1>5 DEF RxKeepalive

\* What Handle does with one message, before it is noted in got.
LEMMA HandleStep ==
  ASSUME NEW h \in HandlerType, h.next = "go", NEW m \in Message
  PROVE  \E d : /\ MessageStep(h, m, d)
                /\ Handle(h, m) = IF d.next = "go" THEN [d EXCEPT !.got = @ \cup {m}] ELSE d
<1>1. /\ h.fsm \in Fsm /\ h.fsm.receives <= h.fsm.receives
      /\ h.fsm.HoldTime <= h.fsm.HoldTime
  BY SecondsAreInts DEF HandlerType, Fsm
<1>2. CASE m.type = "open"
  <2>1. m \in Open
    BY <1>2 DEF Message, OtherMessage
  <2> QED BY <1>2, <2>1, OpenStep DEF Handle
<1>3. CASE m.type = "keepalive"
  BY <1>3, KeepaliveStep DEF Handle
<1>4. CASE m.type = "update"
  <2>1. MessageStep(h, m, h)
    BY <1>1, <1>4 DEF MessageStep, MayBecome, KeepsTo
  <2> QED BY <1>4, <2>1 DEF Handle
<1>5. CASE m.type = "notification"
  <2> DEFINE c == Close(h.fsm, "none")
             d == RxNotification(h)
  <2>1. /\ c \in Fsm /\ ~Connected(c) /\ c.receives <= h.fsm.receives /\ c.state = h.fsm.state
        /\ c.HoldTime = h.fsm.HoldTime /\ c.KeepaliveTime = h.fsm.KeepaliveTime
    BY <1>1, CloseType DEF Sock
  <2>2. d = [h EXCEPT !.fsm = c]
    BY DEF RxNotification
  <2>3. d \in HandlerType /\ d.fsm = c /\ d.got = h.got /\ d.next = "go"
    <3> HIDE DEF c, d
    <3> QED BY <2>1, <2>2 DEF HandlerType
  <2>4. MessageStep(h, m, d)
    <3> HIDE DEF c, d
    <3> QED BY <1>1, <1>5, <2>1, <2>3 DEF MessageStep, MayBecome, UpF, KeepsTo
  <2> QED BY <1>5, <2>4 DEF Handle
<1>6. CASE m.type = "garbage"
  <2> DEFINE d == [h EXCEPT !.next = "return"]
  <2>1. d \in HandlerType /\ d.fsm = h.fsm /\ d.got = h.got /\ d.next = "return"
    BY DEF HandlerType
  <2>2. MessageStep(h, m, d)
    <3> HIDE DEF d
    <3> QED BY <1>1, <1>6, <2>1 DEF MessageStep, MayBecome, KeepsTo
  <2> QED BY <1>6, <2>2 DEF Handle
<1>7. m.type \in {"open", "keepalive", "update", "notification", "garbage"}
  BY DEF Message, Open, OtherMessage
<1> QED BY <1>2, <1>3, <1>4, <1>5, <1>6, <1>7

-----------------------------------------------------------------------------
\* The loop over the messages of a receive.

\* One more message keeps to what the messages may do.
LEMMA HandleHandled ==
  ASSUME TypeOK, NEW h, Handled(h), h.next = "go", NEW m \in Message
  PROVE  Handled(Handle(h, m))
<1>1. PICK d : /\ MessageStep(h, m, d)
               /\ Handle(h, m) = IF d.next = "go" THEN [d EXCEPT !.got = @ \cup {m}] ELSE d
  BY HandleStep DEF Handled
<1> DEFINE e == Handle(h, m)
<1>2. /\ e \in HandlerType /\ e.fsm = d.fsm /\ e.next = d.next
      /\ e.got = IF d.next = "go" THEN h.got \cup {m} ELSE h.got
  BY <1>1 DEF MessageStep, HandlerType
<1> HIDE DEF e
<1>3. /\ fsm.receives \in Nat /\ h.fsm.receives \in Nat /\ d.fsm.receives \in Nat
      /\ h.fsm \in Fsm /\ d.fsm \in Fsm
  BY <1>1 DEF TypeOK, Handled, MessageStep, HandlerType, Fsm
<1>4. MayBecome(fsm, d.fsm)
  BY <1>1, <1>3 DEF Handled, MessageStep, MayBecome
<1>5. UpF(d.fsm) => d.fsm.wait \/ fired > 0
  BY <1>1 DEF Handled, MessageStep
<1>6. UpF(d.fsm) => UpF(fsm) \/ \E x \in e.got : x.type = "keepalive"
  BY <1>1, <1>2 DEF Handled, MessageStep
<1>7. KeepsTo(d.fsm, got \cup h.got)
  <2> SUFFICES ASSUME NEW x \in got \cup h.got, x.type = "open", x.rightAs
               PROVE  d.fsm.HoldTime <= x.hold /\ 3 * d.fsm.KeepaliveTime <= x.hold
    BY DEF KeepsTo
  <2>1. x.hold \in Int
    <3>1. x \in Message
      BY DEF TypeOK, Handled, HandlerType
    <3> QED BY <3>1, SecondsAreInts DEF Message, Open, OtherMessage
  <2>2. h.fsm.HoldTime <= x.hold /\ 3 * h.fsm.KeepaliveTime <= x.hold
    BY DEF Handled, KeepsTo
  <2>3. /\ d.fsm.HoldTime \in Int /\ d.fsm.KeepaliveTime \in Int
        /\ h.fsm.HoldTime \in Int /\ h.fsm.KeepaliveTime \in Int
    BY <1>3, SecondsAreInts DEF Fsm
  <2>4. /\ d.fsm.HoldTime <= h.fsm.HoldTime
        /\ \/ d.fsm.KeepaliveTime = h.fsm.KeepaliveTime
           \/ 3 * d.fsm.KeepaliveTime <= d.fsm.HoldTime
    BY <1>1 DEF MessageStep
  <2> QED BY <2>1, <2>2, <2>3, <2>4
<1>8. d.next = "go" => KeepsTo(d.fsm, {m})
  BY <1>1 DEF MessageStep
<1>9. KeepsTo(e.fsm, got \cup e.got)
  BY <1>2, <1>7, <1>8 DEF KeepsTo
<1>10. e.next = "throw" => ~Connected(e.fsm)
  BY <1>1, <1>2 DEF MessageStep
<1>11. Handled(e)
  BY <1>2, <1>4, <1>5, <1>6, <1>9, <1>10 DEF Handled
<1> QED BY <1>11 DEF e

\* What the handler of a receive makes of the session.
LEMMA HandleAllHandled ==
  ASSUME TypeOK, NEW h, Handled(h), NEW msgs \in Seq(Message)
  PROVE  Handled(HandleAll(h, msgs))
<1> DEFINE n == Len(msgs)
           D == {d \in HandlerType : Handled(d)}
           next(d, i) == IF d.next = "go" THEN Handle(d, msgs[i]) ELSE d
           step == [i \in 1..n |-> [d \in D |-> next(d, i)]]
           run == CHOOSE f : f = [i \in 0..n |-> IF i = 0 THEN h ELSE next(f[i-1], i)]
<1>1. n \in Nat /\ h \in D
  BY DEF Handled
<1>2. ASSUME NEW i \in 1..n, NEW d \in D PROVE next(d, i) \in D
  <2>1. msgs[i] \in Message
    OBVIOUS
  <2>2. Handled(next(d, i))
    BY <2>1, HandleHandled
  <2> QED BY <2>2 DEF Handled
<1>3. step \in [1..n -> [D -> D]]
  <2> HIDE DEF D, next
  <2> QED BY <1>2
<1>4. PICK f \in [0..n -> D] : Iterates(f, n, h, step)
  <2> HIDE DEF D, step, n
  <2> QED BY <1>1, <1>3, LoopExists
<1>5. f = [i \in 0..n |-> IF i = 0 THEN h ELSE next(f[i-1], i)]
  <2>1. \A i \in 1..n : step[i][f[i-1]] = next(f[i-1], i)
    <3> HIDE DEF D, next
    <3> QED BY <1>1, <1>4
  <2> HIDE DEF D, step, next, n
  <2> QED BY <1>1, <1>4, <2>1 DEF Iterates
<1>6. run = [i \in 0..n |-> IF i = 0 THEN h ELSE next(run[i-1], i)]
  <2> HIDE DEF next, n
  <2> QED BY <1>5
<1> HIDE DEF run
<1>7. \A i \in 0..n : i \in {k \in 0..n : run[k] \in D}
  <2> DEFINE G == {k \in 0..n : run[k] \in D}
  <2>1. 0 \in G
    BY <1>1, <1>6
  <2>2. ASSUME NEW i \in 1..n, i-1 \in G PROVE i \in G
    <3>1. run[i] = next(run[i-1], i)
      <4> HIDE DEF next, n
      <4> QED BY <1>1, <1>6
    <3>2. next(run[i-1], i) \in D
      <4> HIDE DEF next, D
      <4> QED BY <1>2, <2>2
    <3> HIDE DEF next, D
    <3> QED BY <3>1, <3>2
  <2> HIDE DEF G, n, D
  <2> QED BY <1>1, <2>1, <2>2, UpTo DEF G
<1>8. run[n] \in D
  <2> HIDE DEF D
  <2> QED BY <1>1, <1>7
<1>9. HandleAll(h, msgs) = run[n]
  BY DEF HandleAll, run
<1> QED BY <1>8, <1>9

-----------------------------------------------------------------------------
\* The inductive invariant.  A receive that is still to be handled has no
\* more than the buffer has ever had, and the last one is still there whole;
\* OwnBytes follows, because with one receive the last is the first.
\* KeepsTo also bounds the hold time, which the next OPEN makes smaller.
Filled ==
  /\ \A i \in 1..Len(ready) : Len(ready[i].chunk) <= Len(buffer)
  /\ ready # <<>> =>
       LET last == ready[Len(ready)].chunk IN SubSeq(buffer, 1, Len(last)) = last

SessionInv ==
  /\ TypeOK /\ Filled
  /\ KeepaliveArmed /\ StillListening /\ EstablishedByPeer
  /\ KeepsTo(fsm, got)

\* A session that has just been constructed is in the invariant.
LEMMA InitInv == Init => SessionInv
<1> SUFFICES ASSUME Init PROVE SessionInv
  OBVIOUS
<1>1. /\ fsm \in Fsm /\ fsm.state = "IDLE" /\ fsm.sock = "none" /\ fsm.receives = 0
  BY TimeAssumption DEF Init, Fsm, FsmState, Sock
<1>2. TypeOK
  <2>1. /\ buffer \in Seq(Message)
        /\ ready \in Seq([conn : 0..MaxConn, chunk : Chunk])
    BY DEF Init
  <2>2. /\ fired \in 0..MaxFired /\ conn \in 0..MaxConn
    BY BoundAssumption DEF Init
  <2>3. got \in SUBSET Message
    BY DEF Init
  <2> QED BY <1>1, <2>1, <2>2, <2>3 DEF Init, TypeOK
<1> QED BY <1>1, <1>2 DEF Init, SessionInv, Filled, KeepaliveArmed, StillListening,
                          EstablishedByPeer, Up, KeepsTo

\* The handler of a receive ends in a session Handled allows; only when every
\* message was handled is the next receive started.
LEMMA ReceiveHandled ==
  ASSUME SessionInv, OnReceive
  PROVE  \E h : /\ Handled(h)
                /\ fsm' = IF h.next = "go" THEN do_read(h.fsm) ELSE h.fsm
                /\ got' = got \cup h.got
                /\ mixed' = (mixed \/ Head(ready).conn # conn)
                /\ deaf' = (deaf \/ h.next = "return")
<1> DEFINE job == Head(ready)
           msgs == SubSeq(buffer, 1, Len(job.chunk))
<1>1. PICK answers \in 0..(2 * Len(msgs)) :
        LET h == HandleAll(Handler(fsm, answers), msgs)
        IN /\ fsm' = IF h.next = "go" THEN do_read(h.fsm) ELSE h.fsm
           /\ got' = got \cup h.got
           /\ mixed' = (mixed \/ job.conn # conn)
           /\ deaf' = (deaf \/ h.next = "return")
  BY DEF OnReceive
<1>2. msgs \in Seq(Message) /\ Len(msgs) \in Nat
  <2>1. ready # <<>> /\ job = ready[1] /\ 1 \in 1..Len(ready)
    BY DEF OnReceive, SessionInv, TypeOK
  <2>2. Len(job.chunk) <= Len(buffer)
    BY <2>1 DEF SessionInv, Filled
  <2>3. job.chunk \in Seq(Message)
    <3>1. ready \in Seq([conn : 0..MaxConn, chunk : Chunk])
      BY DEF SessionInv, TypeOK
    <3>2. ready[1] \in [conn : 0..MaxConn, chunk : Chunk]
      BY <2>1, <3>1, ElementOfSeq
    <3>3. job.chunk \in Chunk
      BY <2>1, <3>2
    <3> QED BY <3>3, ChunkAssumption
  <2> HIDE DEF job
  <2> QED BY <2>2, <2>3 DEF SessionInv, TypeOK
<1> DEFINE h == Handler(fsm, answers)
<1>3. Handled(h)
  <2>1. h \in HandlerType /\ h.fsm = fsm /\ h.next = "go" /\ h.got = {}
    BY <1>2 DEF Handler, HandlerType, SessionInv, TypeOK
  <2>2. MayBecome(fsm, fsm)
    BY DEF MayBecome, SessionInv, TypeOK, Fsm
  <2> HIDE DEF h
  <2> QED BY <2>1, <2>2 DEF Handled, SessionInv, KeepaliveArmed, Up, UpF, KeepsTo
<1>4. Handled(HandleAll(h, msgs))
  <2> HIDE DEF h, msgs
  <2> QED BY <1>2, <1>3, HandleAllHandled DEF SessionInv
<1> HIDE DEF msgs
<1> QED BY <1>1, <1>4

\* do_read starts at most one receive, and one on an open connection.
LEMMA DoReadType ==
  ASSUME NEW f \in Fsm
  PROVE  LET g == do_read(f)
         IN /\ g \in Fsm /\ g.state = f.state /\ g.sock = f.sock /\ g.wait = f.wait
            /\ g.HoldTime = f.HoldTime /\ g.KeepaliveTime = f.KeepaliveTime
            /\ g.receives = IF f.sock = "open" THEN f.receives + 1 ELSE f.receives
<1>1. CASE f.sock = "open"
  <2> DEFINE g == [f EXCEPT !.receives = f.receives + 1]
  <2>1. do_read(f) = g
    BY <1>1 DEF do_read
  <2>2. f.receives + 1 \in Nat
    BY DEF Fsm
  <2>3. g \in Fsm
    BY <2>2 DEF Fsm
  <2>4. /\ g.state = f.state /\ g.sock = f.sock /\ g.wait = f.wait
        /\ g.HoldTime = f.HoldTime /\ g.KeepaliveTime = f.KeepaliveTime
        /\ g.receives = f.receives + 1
    BY <2>2 DEF Fsm
  <2> HIDE DEF g
  <2> QED BY <1>1, <2>1, <2>3, <2>4
<1>2. CASE f.sock # "open"
  BY <1>2 DEF do_read
<1> QED BY <1>1, <1>2

\* on_receive keeps the invariant, whatever messages it handles and wherever it throws.
LEMMA OnReceiveInv == SessionInv /\ OnReceive => SessionInv'
<1> SUFFICES ASSUME SessionInv, OnReceive PROVE SessionInv'
  OBVIOUS
<1>1. PICK h : /\ Handled(h)
               /\ fsm' = IF h.next = "go" THEN do_read(h.fsm) ELSE h.fsm
               /\ got' = got \cup h.got
               /\ mixed' = (mixed \/ Head(ready).conn # conn)
               /\ deaf' = (deaf \/ h.next = "return")
  BY ReceiveHandled
<1>2. h.fsm \in Fsm /\ h.got \subseteq Message /\ h.next \in {"go", "throw", "return"}
  BY <1>1 DEF Handled, HandlerType
<1>3. /\ fsm' \in Fsm /\ fsm'.state = h.fsm.state /\ fsm'.sock = h.fsm.sock
      /\ fsm'.wait = h.fsm.wait
      /\ fsm'.HoldTime = h.fsm.HoldTime /\ fsm'.KeepaliveTime = h.fsm.KeepaliveTime
      /\ h.next = "go" /\ h.fsm.sock = "open" => fsm'.receives > 0
  <2>1. h.fsm.receives \in Nat
    BY <1>2 DEF Fsm
  <2>2. CASE h.next = "go"
    BY <1>1, <1>2, <2>1, <2>2, DoReadType
  <2>3. CASE h.next # "go"
    BY <1>1, <1>2, <2>3
  <2> QED BY <2>2, <2>3
<1>4. ready # <<>> /\ ready' = Tail(ready) /\ UNCHANGED <<buffer, fired, accepting, conn>>
  BY DEF OnReceive
<1>5. TypeOK'
  <2>1. ready' \in Seq([conn : 0..MaxConn, chunk : Chunk])
    BY <1>4 DEF SessionInv, TypeOK
  <2>2. got' \in SUBSET Message
    BY <1>1, <1>2 DEF SessionInv, TypeOK
  <2>3. mixed' \in BOOLEAN /\ deaf' \in BOOLEAN
    BY <1>1 DEF SessionInv, TypeOK
  <2> QED BY <1>3, <1>4, <2>1, <2>2, <2>3 DEF SessionInv, TypeOK
<1>6. Filled'
  <2>1. /\ ready \in Seq([conn : 0..MaxConn, chunk : Chunk])
        /\ \A i \in 1..Len(ready') : ready'[i] = ready[i+1] /\ i+1 \in 1..Len(ready)
        /\ ready' # <<>> => Len(ready')+1 = Len(ready) /\ Len(ready') \in 1..Len(ready')
    BY <1>4 DEF SessionInv, TypeOK
  <2> QED BY <1>4, <2>1 DEF SessionInv, Filled
<1>7. KeepaliveArmed'
  BY <1>1, <1>3, <1>4 DEF Handled, KeepaliveArmed, Up, UpF, Connected
<1>8. StillListening'
  BY <1>1, <1>2, <1>3 DEF Handled, StillListening, Connected
<1>9. EstablishedByPeer'
  BY <1>1, <1>3 DEF Handled, SessionInv, EstablishedByPeer, Up, UpF, Connected
<1>10. KeepsTo(fsm, got)'
  BY <1>1, <1>3 DEF Handled, KeepsTo
<1> QED BY <1>5, <1>6, <1>7, <1>8, <1>9, <1>10 DEF SessionInv

\* A receive puts its chunk at the front of the buffer and keeps the rest.
LEMMA OverwriteType ==
  ASSUME NEW old \in Seq(Message), NEW new \in Seq(Message)
  PROVE  LET b == Overwrite(old, new)
         IN /\ b \in Seq(Message)
            /\ Len(old) <= Len(b) /\ Len(new) <= Len(b)
            /\ SubSeq(b, 1, Len(new)) = new
<1> DEFINE n == IF Len(old) >= Len(new) THEN Len(old) ELSE Len(new)
           b == [i \in 1..n |-> IF i <= Len(new) THEN new[i] ELSE old[i]]
<1>1. Overwrite(old, new) = b
  BY MaxOfTwo DEF Overwrite
<1>2. n \in Nat /\ Len(old) <= n /\ Len(new) <= n
  OBVIOUS
<1>3. b \in Seq(Message) /\ Len(b) = n
  <2>1. \A i \in 1..n : b[i] \in Message
    OBVIOUS
  <2> QED BY <1>2, <2>1
<1>4. SubSeq(b, 1, Len(new)) = new
  <2>1. \A i \in 1..Len(new) : b[i] = new[i]
    BY <1>2
  <2> HIDE DEF b, n
  <2> QED BY <1>2, <1>3, <2>1
<1> HIDE DEF b, n
<1> QED BY <1>1, <1>2, <1>3, <1>4

\* So does the completion of a receive, which overwrites the buffer.
LEMMA ReceiveInv ==
  ASSUME SessionInv, NEW c \in Chunk, Receive(c)
  PROVE  SessionInv'
<1> DEFINE Job == [conn : 0..MaxConn, chunk : Chunk]
           job == [conn |-> conn, chunk |-> c]
<1>1. /\ fsm.receives > 0 /\ fsm' = [fsm EXCEPT !.receives = fsm.receives - 1]
      /\ buffer' = Overwrite(buffer, c) /\ ready' = Append(ready, job)
      /\ UNCHANGED <<fired, accepting, conn, got, mixed, deaf>>
  BY DEF Receive
<1>2. c \in Seq(Message) /\ buffer \in Seq(Message) /\ ready \in Seq(Job) /\ job \in Job
  BY ChunkAssumption DEF SessionInv, TypeOK
<1>3. /\ fsm' \in Fsm /\ fsm'.state = fsm.state /\ fsm'.sock = fsm.sock
      /\ fsm'.wait = fsm.wait
      /\ fsm'.HoldTime = fsm.HoldTime /\ fsm'.KeepaliveTime = fsm.KeepaliveTime
  <2>1. fsm \in Fsm
    BY DEF SessionInv, TypeOK
  <2>2. fsm.receives - 1 \in Nat
    BY <1>1, <2>1 DEF Fsm
  <2> QED BY <1>1, <2>1, <2>2 DEF Fsm
<1>4. /\ buffer' \in Seq(Message)
      /\ Len(buffer) <= Len(buffer') /\ Len(c) <= Len(buffer')
      /\ SubSeq(buffer', 1, Len(c)) = c
  BY <1>1, <1>2, OverwriteType
<1>5. /\ ready' \in Seq(Job) /\ Len(ready') = Len(ready) + 1
      /\ ready'[Len(ready')] = job /\ ready' # <<>>
      /\ \A i \in 1..Len(ready) : ready'[i] = ready[i]
  <2> HIDE DEF job, Job
  <2>1. /\ ready' \in Seq(Job) /\ ready' # <<>> /\ Len(ready') = Len(ready) + 1
        /\ ready'[Len(ready)+1] = job
        /\ \A i \in 1..Len(ready) : ready'[i] = ready[i]
    BY <1>1, <1>2, AppendProperties
  <2> QED BY <2>1
<1>6. TypeOK'
  BY <1>1, <1>3, <1>4, <1>5 DEF SessionInv, TypeOK
<1>7. Filled'
  <2>1. ASSUME NEW i \in 1..Len(ready') PROVE Len(ready'[i].chunk) <= Len(buffer')
    <3>1. CASE i = Len(ready')
      BY <1>4, <1>5, <3>1
    <3>2. CASE i # Len(ready')
      <4>1. i \in 1..Len(ready) /\ ready'[i] = ready[i]
        BY <1>2, <1>5, <3>2
      <4>2. Len(ready[i].chunk) <= Len(buffer)
        BY <4>1 DEF SessionInv, Filled
      <4>3. Len(ready[i].chunk) \in Nat
        <5>1. ready[i] \in Job
          BY <1>2, <4>1, ElementOfSeq
        <5> QED BY <5>1, ChunkAssumption
      <4> QED BY <1>2, <1>4, <4>1, <4>2, <4>3
    <3> QED BY <3>1, <3>2
  <2>2. LET last == ready'[Len(ready')].chunk IN SubSeq(buffer', 1, Len(last)) = last
    BY <1>4, <1>5
  <2> QED BY <2>1, <2>2 DEF Filled
<1>8. KeepaliveArmed' /\ StillListening' /\ EstablishedByPeer' /\ KeepsTo(fsm, got)'
  BY <1>1, <1>3, <1>5
     DEF SessionInv, KeepaliveArmed, StillListening, EstablishedByPeer, Up, Connected, KeepsTo
<1> QED BY <1>6, <1>7, <1>8 DEF SessionInv

\* The other actions leave the buffer and what was received alone.
LEMMA SameFilled ==
  ASSUME Filled, UNCHANGED <<buffer, ready>>
  PROVE  Filled'
BY DEF Filled

\* So does the loss of the connection.
LEMMA DisconnectInv ==
  ASSUME SessionInv, NEW how \in {"eof", "reset"}, Disconnect(how)
  PROVE  SessionInv'
<1>1. /\ fsm \in Fsm /\ fsm' = [fsm EXCEPT !.sock = how, !.receives = 0]
      /\ UNCHANGED <<buffer, ready, fired, accepting, conn, got, mixed, deaf>>
  BY DEF Disconnect, Close, SessionInv, TypeOK
<1>2. /\ fsm' \in Fsm /\ fsm'.state = fsm.state /\ fsm'.sock = how /\ fsm'.wait = fsm.wait
      /\ fsm'.HoldTime = fsm.HoldTime /\ fsm'.KeepaliveTime = fsm.KeepaliveTime
  BY <1>1 DEF Fsm, Sock
<1>3. Connected(fsm)
  BY DEF Disconnect, Connected
<1>4. TypeOK' /\ Filled'
  BY <1>1, <1>2, SameFilled DEF SessionInv, TypeOK
<1> QED BY <1>1, <1>2, <1>3, <1>4
        DEF SessionInv, KeepaliveArmed, StillListening, EstablishedByPeer, Up, KeepsTo

\* So does the end of a wait.
LEMMA TimerExpiresInv == SessionInv /\ TimerExpires => SessionInv'
<1> SUFFICES ASSUME SessionInv, TimerExpires PROVE SessionInv'
  OBVIOUS
<1>1. /\ fsm \in Fsm /\ fsm' = [fsm EXCEPT !.wait = FALSE]
      /\ fired \in 0..MaxFired /\ fired < MaxFired /\ fired' = fired + 1
      /\ UNCHANGED <<buffer, ready, accepting, conn, got, mixed, deaf>>
  BY DEF TimerExpires, SessionInv, TypeOK
<1>2. /\ fsm' \in Fsm /\ fsm'.state = fsm.state /\ fsm'.sock = fsm.sock
      /\ fsm'.receives = fsm.receives
      /\ fsm'.HoldTime = fsm.HoldTime /\ fsm'.KeepaliveTime = fsm.KeepaliveTime
  BY <1>1 DEF Fsm
<1>3. fired' \in 0..MaxFired /\ fired' > 0
  BY <1>1, BoundAssumption
<1>4. TypeOK' /\ Filled'
  BY <1>1, <1>2, <1>3, SameFilled DEF SessionInv, TypeOK
<1> QED BY <1>1, <1>2, <1>3, <1>4
        DEF SessionInv, KeepaliveArmed, StillListening, EstablishedByPeer, Up, Connected, KeepsTo

\* So does on_keepalive_timer, also when tx_keepalive throws.
LEMMA OnKeepaliveTimerInv == SessionInv /\ OnKeepaliveTimer => SessionInv'
<1> SUFFICES ASSUME SessionInv, OnKeepaliveTimer PROVE SessionInv'
  OBVIOUS
<1>1. /\ fsm \in Fsm /\ fired \in 0..MaxFired /\ fired > 0 /\ fired' = fired - 1
      /\ UNCHANGED <<buffer, ready, accepting, conn, got, mixed, deaf>>
  BY DEF OnKeepaliveTimer, SessionInv, TypeOK
<1>2. fired' \in 0..MaxFired
  BY <1>1, BoundAssumption
<1>3. PICK answers \in 0..1 :
        LET h == Handler(fsm, answers)
        IN fsm' = IF Answers(h) THEN start_keepalive_timer(fsm) ELSE Throw(h).fsm
  BY DEF OnKeepaliveTimer
<1>4. CASE fsm' = [fsm EXCEPT !.wait = TRUE]
  <2>1. /\ fsm' \in Fsm /\ fsm'.state = fsm.state /\ fsm'.sock = fsm.sock
        /\ fsm'.receives = fsm.receives /\ fsm'.wait
        /\ fsm'.HoldTime = fsm.HoldTime /\ fsm'.KeepaliveTime = fsm.KeepaliveTime
    BY <1>1, <1>4 DEF Fsm
  <2>2. TypeOK' /\ Filled'
    BY <1>1, <1>2, <2>1, SameFilled DEF SessionInv, TypeOK
  <2> QED BY <1>1, <2>1, <2>2
          DEF SessionInv, KeepaliveArmed, StillListening, EstablishedByPeer, Up, Connected, KeepsTo
<1>5. CASE fsm' = Throw(Handler(fsm, answers)).fsm
  <2>1. Handler(fsm, answers) \in HandlerType /\ Handler(fsm, answers).fsm = fsm
    BY <1>1 DEF Handler, HandlerType
  <2>2. /\ fsm' \in Fsm /\ ~Connected(fsm')
        /\ fsm'.HoldTime = fsm.HoldTime /\ fsm'.KeepaliveTime = fsm.KeepaliveTime
    <3>1. Throw(Handler(fsm, answers)).fsm \in Fsm
      BY <2>1, ThrowStep DEF HandlerType
    <3> QED BY <1>5, <2>1, <3>1, ThrowStep
  <2>3. TypeOK' /\ Filled'
    BY <1>1, <1>2, <2>2, SameFilled DEF SessionInv, TypeOK
  <2> QED BY <1>1, <2>2, <2>3
          DEF SessionInv, KeepaliveArmed, StillListening, EstablishedByPeer, Up, Connected, KeepsTo
<1> QED BY <1>3, <1>4, <1>5 DEF start_keepalive_timer

\* What a connection displaces is closed, with its timer (place_connection).
LEMMA DisplacedType ==
  ASSUME NEW f \in Fsm
  PROVE  Displaced(f) \in Fsm
<1>1. CASE f.sock = "none"
  BY <1>1 DEF Displaced
<1>2. CASE f.sock # "none"
  <2>1. Close(f, "none") \in Fsm
    BY CloseType DEF Sock
  <2>2. [Close(f, "none") EXCEPT !.wait = FALSE] \in Fsm
    <3> DEFINE c == Close(f, "none")
    <3> HIDE DEF c
    <3> QED BY <2>1 DEF Fsm, c
  <2> QED BY <1>2, <2>2 DEF Displaced
<1> QED BY <1>1, <1>2

\* A connection is placed with a receive under way, or it was reset meanwhile.
LEMMA Accepted ==
  ASSUME TypeOK, OnAccept
  PROVE  /\ fsm' \in Fsm
         /\ \/ fsm'.sock = "open" /\ fsm'.state = "OPENSENT" /\ fsm'.receives > 0
            \/ ~Connected(fsm') /\ fsm'.state = fsm.state /\ fsm'.sock # "open"
<1> DEFINE f == Displaced(fsm)
<1>1. f \in Fsm /\ f.state = fsm.state
  <2>1. f.state = fsm.state
    BY DEF Displaced, TypeOK, Close, Fsm
  <2> QED BY <2>1, DisplacedType DEF TypeOK
<1>2. CASE fsm' = do_read([f EXCEPT !.sock = "open", !.state = "OPENSENT"])
  <2> DEFINE g == [f EXCEPT !.sock = "open", !.state = "OPENSENT"]
  <2>1. g \in Fsm /\ g.sock = "open" /\ g.state = "OPENSENT" /\ g.receives \in Nat
    <3> HIDE DEF f
    <3> QED BY <1>1 DEF Fsm, FsmState, Sock
  <2>2. fsm' = do_read(g)
    BY <1>2
  <2> HIDE DEF g
  <2> QED BY <2>1, <2>2, DoReadType
<1>3. CASE fsm' = [f EXCEPT !.sock = "reset"]
  <2> HIDE DEF f
  <2> QED BY <1>1, <1>3 DEF Fsm, Sock, Connected
<1> QED BY <1>2, <1>3 DEF OnAccept

\* So does on_accept, with the takeover in place_connection.
LEMMA OnAcceptInv == SessionInv /\ OnAccept => SessionInv'
<1> SUFFICES ASSUME SessionInv, OnAccept PROVE SessionInv'
  OBVIOUS
<1>1. /\ accepting' \in BOOLEAN /\ conn \in 0..MaxConn /\ conn < MaxConn /\ conn' = conn + 1
      /\ got' = {} /\ mixed' = FALSE /\ deaf' = FALSE
      /\ UNCHANGED <<buffer, ready, fired>>
  BY DEF OnAccept, SessionInv, TypeOK
<1>2. conn' \in 0..MaxConn
  BY <1>1, BoundAssumption
<1>3. /\ fsm' \in Fsm
      /\ \/ fsm'.sock = "open" /\ fsm'.state = "OPENSENT" /\ fsm'.receives > 0
         \/ ~Connected(fsm') /\ fsm'.sock # "open"
  BY Accepted DEF SessionInv
<1>4. TypeOK' /\ Filled'
  BY <1>1, <1>2, <1>3, SameFilled DEF SessionInv, TypeOK
<1> QED BY <1>1, <1>3, <1>4
        DEF SessionInv, KeepaliveArmed, StillListening, EstablishedByPeer, Up, KeepsTo

\* Every handler and every completion keeps SessionInv.
LEMMA NextInv == SessionInv /\ [Next]_vars => SessionInv'
<1> SUFFICES ASSUME SessionInv, [Next]_vars PROVE SessionInv'
  OBVIOUS
<1>1. CASE OnReceive
  BY <1>1, OnReceiveInv
<1>2. CASE \E c \in Chunk : Receive(c)
  BY <1>2, ReceiveInv
<1>3. CASE \E how \in {"eof", "reset"} : Disconnect(how)
  BY <1>3, DisconnectInv
<1>4. CASE TimerExpires
  BY <1>4, TimerExpiresInv
<1>5. CASE OnKeepaliveTimer
  BY <1>5, OnKeepaliveTimerInv
<1>6. CASE OnAcceptThrows \/ UNCHANGED vars
  <2>1. UNCHANGED <<fsm, buffer, ready, fired, conn, got, mixed, deaf>>
        /\ accepting' \in BOOLEAN
    BY <1>6 DEF OnAcceptThrows, vars, SessionInv, TypeOK
  <2>2. TypeOK' /\ Filled'
    BY <2>1, SameFilled DEF SessionInv, TypeOK
  <2> QED BY <2>1, <2>2
          DEF SessionInv, KeepaliveArmed, StillListening, EstablishedByPeer, Up, Connected, KeepsTo
<1>7. CASE OnAccept
  BY <1>7, OnAcceptInv
<1> QED BY <1>1, <1>2, <1>3, <1>4, <1>5, <1>6, <1>7 DEF Next

\* Whatever is received, and in whatever order completions, exceptions and
\* connections come, the state of the session stays within SessionInv.
THEOREM SessionInvariant == Spec => []SessionInv
<1> QED BY InitInv, NextInv, PTL DEF Spec

\* The types hold for any chunks and bounds.
THEOREM TypeCorrect == Spec => []TypeOK
<1>1. SessionInv => TypeOK
  BY DEF SessionInv
<1> QED BY <1>1, SessionInvariant, PTL

\* A session that is up is never without its next KEEPALIVE
\* (start_keepalive_timer, place_connection).
THEOREM EstablishedIsArmed == Spec => []KeepaliveArmed
<1>1. SessionInv => KeepaliveArmed
  BY DEF SessionInv
<1> QED BY <1>1, SessionInvariant, PTL

\* No path of on_receive leaves an open connection unread, but for the wrong
\* marker.
THEOREM OpenIsRead == Spec => []StillListening
<1>1. SessionInv => StillListening
  BY DEF SessionInv
<1> QED BY <1>1, SessionInvariant, PTL

\* What makes a session established is a KEEPALIVE of its own connection,
\* unless a receive of the connection before was handled on it.
THEOREM PeerEstablishes == Spec => []EstablishedByPeer
<1>1. SessionInv => EstablishedByPeer
  BY DEF SessionInv
<1> QED BY <1>1, SessionInvariant, PTL

\* A handler reads the bytes its own receive got, as long as there is one
\* receive (on_receive reads the one buffer of the session).
THEOREM OneReceiveOwnsBuffer == Spec => []OwnBytes
<1>1. SessionInv => OwnBytes
  <2> SUFFICES ASSUME SessionInv, Readers = 1, ready # <<>>
               PROVE  SubSeq(buffer, 1, Len(ready[1].chunk)) = ready[1].chunk
    BY DEF OwnBytes
  <2>1. Len(ready) = 1
    <3>1. fsm.receives \in Nat /\ Len(ready) \in Nat /\ Len(ready) # 0
      BY DEF SessionInv, TypeOK, Fsm
    <3>2. \A r, n \in Nat : r + n = 1 /\ n # 0 => n = 1
      OBVIOUS
    <3> QED BY <3>1, <3>2, Zenon DEF Readers
  <2> QED BY <2>1 DEF SessionInv, Filled
<1> QED BY <1>1, SessionInvariant, PTL

\* Three KEEPALIVEs fit in the hold time of every OPEN that was accepted:
\* rx_open only ever makes the hold time smaller.
THEOREM HoldTimeKept == Spec => []KeepaliveInTime
<1>1. SessionInv => KeepaliveInTime
  BY DEF SessionInv, KeepsTo, KeepaliveInTime
<1> QED BY <1>1, SessionInvariant, PTL

-----------------------------------------------------------------------------
\* Action properties: what a step may never do.

\* On one connection the receives of the session never get more: a handler
\* starts one receive at most, and has used up one (do_read).
LEMMA ReadersStep ==
  SessionInv /\ [Next]_vars => (conn' = conn => Readers' <= Readers)
<1> SUFFICES ASSUME SessionInv, [Next]_vars, conn' = conn PROVE Readers' <= Readers
  OBVIOUS
<1>1. fsm \in Fsm /\ fsm.receives \in Nat /\ Len(ready) \in Nat
  BY DEF SessionInv, TypeOK, Fsm
<1>2. CASE OnReceive
  <2>1. PICK h : /\ Handled(h)
                 /\ fsm' = IF h.next = "go" THEN do_read(h.fsm) ELSE h.fsm
    BY <1>2, ReceiveHandled
  <2>2. h.fsm \in Fsm /\ h.fsm.receives \in Nat /\ h.fsm.receives <= fsm.receives
    BY <2>1 DEF Handled, HandlerType, MayBecome, Fsm
  <2>3. fsm'.receives \in Nat /\ fsm'.receives <= fsm.receives + 1
    <3>1. CASE h.next = "go"
      BY <1>1, <2>1, <2>2, <3>1, DoReadType
    <3>2. CASE h.next # "go"
      BY <1>1, <2>1, <2>2, <3>2
    <3> QED BY <3>1, <3>2
  <2>4. Len(ready') = Len(ready) - 1
    <3>1. ready # <<>> /\ ready' = Tail(ready)
      BY <1>2 DEF OnReceive
    <3> QED BY <3>1, HeadTailProperties DEF SessionInv, TypeOK
  <2> QED BY <1>1, <2>3, <2>4 DEF Readers
<1>3. CASE \E c \in Chunk : Receive(c)
  <2>1. PICK c \in Chunk : Receive(c)
    BY <1>3
  <2>2. fsm'.receives = fsm.receives - 1
    BY <1>1, <2>1 DEF Receive, Fsm
  <2>3. Len(ready') = Len(ready) + 1
    <3>1. ready' = Append(ready, [conn |-> conn, chunk |-> c])
      BY <2>1 DEF Receive
    <3>2. ready \in Seq([conn : 0..MaxConn, chunk : Chunk])
          /\ [conn |-> conn, chunk |-> c] \in [conn : 0..MaxConn, chunk : Chunk]
      BY DEF SessionInv, TypeOK
    <3> QED BY <3>1, <3>2, AppendProperties
  <2> QED BY <1>1, <2>2, <2>3 DEF Readers
<1>4. CASE \E how \in {"eof", "reset"} : Disconnect(how)
  <2>1. fsm'.receives = 0 /\ ready' = ready
    BY <1>1, <1>4 DEF Disconnect, Close, Fsm
  <2> QED BY <1>1, <2>1 DEF Readers
<1>5. CASE TimerExpires
  <2>1. fsm'.receives = fsm.receives /\ ready' = ready
    BY <1>1, <1>5 DEF TimerExpires, Fsm
  <2> QED BY <1>1, <2>1 DEF Readers
<1>6. CASE OnKeepaliveTimer
  <2>1. PICK answers \in 0..1 :
          LET h == Handler(fsm, answers)
          IN fsm' = IF Answers(h) THEN start_keepalive_timer(fsm) ELSE Throw(h).fsm
    BY <1>6 DEF OnKeepaliveTimer
  <2>2. /\ Handler(fsm, answers) \in HandlerType /\ Handler(fsm, answers).fsm = fsm
    BY <1>1 DEF Handler, HandlerType
  <2>3. start_keepalive_timer(fsm).receives = fsm.receives
    BY <1>1 DEF start_keepalive_timer, Fsm
  <2>4. /\ Throw(Handler(fsm, answers)).fsm.receives <= fsm.receives
        /\ Throw(Handler(fsm, answers)).fsm \in Fsm
    BY <2>2, ThrowStep DEF HandlerType
  <2>5. fsm'.receives <= fsm.receives /\ fsm'.receives \in Nat
    BY <1>1, <2>1, <2>3, <2>4 DEF Fsm
  <2>6. ready' = ready
    BY <1>6 DEF OnKeepaliveTimer
  <2> QED BY <1>1, <2>5, <2>6 DEF Readers
<1>7. CASE OnAcceptThrows \/ UNCHANGED vars
  <2>1. fsm' = fsm /\ ready' = ready
    BY <1>7 DEF OnAcceptThrows, vars
  <2> QED BY <1>1, <2>1 DEF Readers
<1>8. CASE OnAccept
  BY <1>1, <1>8 DEF OnAccept, SessionInv, TypeOK
<1> QED BY <1>2, <1>3, <1>4, <1>5, <1>6, <1>7, <1>8 DEF Next

\* No step but a takeover with a queued completion adds a chain of receives: do_read is called once by a receive,
\* and by place_connection.
THEOREM ReadersNeverMore == Spec => ReadersKept
<1>1. SessionInv /\ [Next]_vars => [conn' = conn => Readers' <= Readers]_vars
  BY ReadersStep
<1> QED BY <1>1, SessionInvariant, PTL DEF Spec, ReadersKept

-----------------------------------------------------------------------------
\* The refinement of Peer: a session moves as the table takes it to move.

\* A set of sessions, and where one more move takes one of them.
LEMMA OneMove ==
  ASSUME NEW S, NEW p \in S, NEW q \in Seen!After(p)
  PROVE  q \in Seen!AfterAll(S)
BY DEF Seen!AfterAll

\* A session may stay what it is.
LEMMA AfterSame ==
  ASSUME NEW p
  PROVE  p \in Seen!After(p)
BY DEF Seen!After

At(s, a) == [state |-> s, alive |-> a]

\* A session as the table sees it, with one of its two parts changed.
LEMMA AtFields ==
  ASSUME NEW s, NEW a, NEW x
  PROVE  /\ [At(s, a) EXCEPT !.state = x] = At(x, a)
         /\ [At(s, a) EXCEPT !.alive = x] = At(s, x)
         /\ At(s, a).state = s /\ At(s, a).alive = a
BY DEF At

\* From where p is, to where it may be after a message.
LEMMA AfterAt ==
  ASSUME NEW s, NEW a
  PROVE  /\ At(s, FALSE) \in Seen!After(At(s, a))
         /\ a => At("OPENCONFIRM", a) \in Seen!After(At(s, a))
         /\ a /\ s = "OPENCONFIRM" => At("ESTABLISHED", a) \in Seen!After(At(s, a))
<1> DEFINE p == At(s, a)
<1>1. /\ \A x : At(s, x) = [p EXCEPT !.alive = x]
      /\ At("OPENCONFIRM", a) = [p EXCEPT !.state = "OPENCONFIRM"]
      /\ At("ESTABLISHED", a) = [p EXCEPT !.state = "ESTABLISHED"]
  BY AtFields
<1>2. p.state = s /\ p.alive = a
  BY AtFields, Zenon
<1> HIDE DEF p
<1>3. At(s, FALSE) \in Seen!After(p)
  BY <1>1, Zenon DEF Seen!After
<1>4. ASSUME a PROVE At("OPENCONFIRM", a) \in Seen!After(p)
  <2>1. p.alive
    BY <1>2, <1>4, Zenon
  <2> QED BY <1>1, <2>1, Zenon DEF Seen!After
<1>5. ASSUME a, s = "OPENCONFIRM" PROVE At("ESTABLISHED", a) \in Seen!After(p)
  <2>1. p.alive
    BY <1>2, <1>5, Zenon
  <2>2. p.state \in {"OPENSENT", "OPENCONFIRM"}
    BY <1>2, <1>5
  <2> QED BY <1>1, <2>1, <2>2, Zenon DEF Seen!After
<1> QED BY <1>3, <1>4, <1>5 DEF p

\* Three moves take a session that answers anywhere but to OPENSENT, and one
\* that does not answer nowhere.
LEMMA ThreeMoves ==
  ASSUME NEW s, NEW a \in BOOLEAN, NEW t, NEW b \in BOOLEAN,
         b => a, t = s \/ (a /\ t \in {"OPENCONFIRM", "ESTABLISHED"})
  PROVE  At(t, b) \in Seen!AfterAll(Seen!AfterAll(Seen!AfterAll({At(s, a)})))
<1> DEFINE S0 == {At(s, a)}
           S1 == Seen!AfterAll(S0)
           S2 == Seen!AfterAll(S1)
<1>1. At(s, a) \in S0 /\ At(s, a) \in S1 /\ At(s, a) \in S2
  <2>1. At(s, a) \in S1
    BY OneMove, AfterSame
  <2> HIDE DEF S1
  <2> QED BY <2>1, OneMove, AfterSame
<1>2. \A x : At(x, b) \in Seen!After(At(x, a))
  <2>1. b = a \/ b = FALSE
    OBVIOUS
  <2> QED BY <2>1, AfterAt, AfterSame
<1>3. CASE t = s
  <2> HIDE DEF S2
  <2>1. At(t, b) \in Seen!AfterAll(S2)
    BY <1>1, <1>2, <1>3, OneMove
  <2> QED BY <2>1 DEF S2
<1>4. CASE a /\ t = "OPENCONFIRM"
  <2> HIDE DEF S1
  <2>1. At(t, a) \in S2
    BY <1>1, <1>4, AfterAt, OneMove
  <2> HIDE DEF S2
  <2>2. At(t, b) \in Seen!AfterAll(S2)
    BY <1>2, <2>1, OneMove
  <2> QED BY <2>2 DEF S1, S2
<1>5. CASE a /\ t = "ESTABLISHED"
  <2>1. At("OPENCONFIRM", a) \in S1
    BY <1>1, <1>5, AfterAt, OneMove
  <2> HIDE DEF S1
  <2>2. At(t, a) \in S2
    BY <1>5, <2>1, AfterAt, OneMove
  <2> HIDE DEF S2
  <2>3. At(t, b) \in Seen!AfterAll(S2)
    BY <1>2, <2>2, OneMove
  <2> QED BY <2>3 DEF S1, S2
<1> QED BY <1>3, <1>4, <1>5

\* A step that gets on only when connected, to no state but these, is one of Peer.
LEMMA MovesBy ==
  ASSUME Connected(fsm') => Connected(fsm),
         \/ fsm'.state = fsm.state
         \/ Connected(fsm) /\ fsm'.state \in {"OPENCONFIRM", "ESTABLISHED"}
  PROVE  Seen!Move
<1>1. Connected(fsm) \in BOOLEAN /\ Connected(fsm') \in BOOLEAN
  BY DEF Connected
<1> QED BY <1>1, ThreeMoves DEF Seen!Move, At

\* Every step is a move of Peer or leaves it where it is.
LEMMA SeenStep == SessionInv /\ [Next]_vars => [Seen!Next]_(Seen!vars)
<1> SUFFICES ASSUME SessionInv, [Next]_vars PROVE Seen!Next \/ UNCHANGED Seen!vars
  OBVIOUS
<1>1. fsm \in Fsm
  BY DEF SessionInv, TypeOK
<1>2. CASE OnReceive
  <2>1. PICK h : /\ Handled(h)
                 /\ fsm' = IF h.next = "go" THEN do_read(h.fsm) ELSE h.fsm
    BY <1>2, ReceiveHandled
  <2>2. h.fsm \in Fsm /\ MayBecome(fsm, h.fsm)
    BY <2>1 DEF Handled, HandlerType
  <2>3. fsm'.state = h.fsm.state /\ fsm'.sock = h.fsm.sock
    BY <2>1, <2>2, DoReadType
  <2>4. /\ Connected(fsm') => Connected(fsm)
        /\ \/ fsm'.state = fsm.state
           \/ Connected(fsm) /\ fsm'.state \in {"OPENCONFIRM", "ESTABLISHED"}
    BY <2>2, <2>3 DEF MayBecome, Connected
  <2>5. Seen!Move
    BY <2>4, MovesBy
  <2> QED BY <2>5 DEF Seen!Next
<1>3. CASE OnAccept
  <2>1. CASE fsm'.sock = "open" /\ fsm'.state = "OPENSENT"
    BY <2>1 DEF Seen!Next, Seen!PlaceConnection, Connected
  <2>2. CASE ~Connected(fsm') /\ fsm'.state = fsm.state
    BY <2>2, MovesBy DEF Seen!Next
  <2> QED BY <1>3, <2>1, <2>2, Accepted DEF SessionInv
<1>4. CASE \/ \E c \in Chunk : Receive(c)
           \/ \E how \in {"eof", "reset"} : Disconnect(how)
           \/ TimerExpires \/ OnKeepaliveTimer
           \/ OnAcceptThrows \/ UNCHANGED vars
  <2>1. fsm'.state = fsm.state /\ (Connected(fsm') => Connected(fsm))
    <3>1. CASE \E c \in Chunk : Receive(c)
      BY <1>1, <3>1 DEF Receive, Fsm, Connected
    <3>2. CASE \E how \in {"eof", "reset"} : Disconnect(how)
      BY <1>1, <3>2 DEF Disconnect, Close, Fsm, Connected
    <3>3. CASE TimerExpires
      BY <1>1, <3>3 DEF TimerExpires, Fsm, Connected
    <3>4. CASE OnKeepaliveTimer
      <4>1. PICK answers \in 0..1 :
              LET h == Handler(fsm, answers)
              IN fsm' = IF Answers(h) THEN start_keepalive_timer(fsm) ELSE Throw(h).fsm
        BY <3>4 DEF OnKeepaliveTimer
      <4>2. /\ Handler(fsm, answers) \in HandlerType /\ Handler(fsm, answers).fsm = fsm
        BY <1>1 DEF Handler, HandlerType
      <4>3. /\ start_keepalive_timer(fsm).state = fsm.state
            /\ start_keepalive_timer(fsm).sock = fsm.sock
        BY <1>1 DEF start_keepalive_timer, Fsm
      <4>4. /\ ~Connected(Throw(Handler(fsm, answers)).fsm)
            /\ Throw(Handler(fsm, answers)).fsm.state = fsm.state
        BY <4>2, ThrowStep
      <4> QED BY <4>1, <4>3, <4>4 DEF Connected
    <3>5. CASE OnAcceptThrows \/ UNCHANGED vars
      BY <3>5 DEF OnAcceptThrows, vars
    <3> QED BY <1>4, <3>1, <3>2, <3>3, <3>4, <3>5
  <2> QED BY <2>1, MovesBy DEF Seen!Next
<1> QED BY <1>2, <1>3, <1>4 DEF Next

\* Session implements Peer, for any messages and connections: what module Rib
\* takes of its sessions is what they do.
THEOREM SessionImplementsPeer == Spec => SeenByTable
<1>1. Init => Seen!Init
  BY DEF Init, Seen!Init, Connected
<1>2. SessionInv /\ [Next]_vars => [Seen!Next]_(Seen!vars)
  BY SeenStep
<1> QED BY <1>1, <1>2, SessionInvariant, PTL DEF Spec, SeenByTable, Seen!Spec
=============================================================================
