------------------------------ MODULE Session ------------------------------
(***************************************************************************)
(* The session with one neighbour (class bgp_fsm, fsm.cpp), and the accept *)
(* loop that gives it connections (class EVLoop, evloop.cpp).              *)
(*                                                                         *)
(* One thread runs the handlers, one after the other; what happens between *)
(* two handlers is that operations complete: a receive has filled the      *)
(* buffer, a wait of the timer has run out.  A completion that is queued   *)
(* is not undone when the socket is closed or the timer is cancelled: its  *)
(* handler runs later, without an error.  A completion with an error only  *)
(* logs, and is left out; so are on_send and the bytes of the messages.    *)
(*                                                                         *)
(* remote_endpoint() throws when the connection has been reset; so does,   *)
(* in the builds we know, any use of the empty sock, which is undefined.   *)
(* main() catches the exception: the rest of the handler does not run.     *)
(***************************************************************************)
EXTENDS Integers, Sequences, SequencesExt, FiniteSetsExt

CONSTANTS
  Chunk,       \* what one receive may get: sequences of messages
  OwnHold,     \* the configured hold time
  JunkTime,    \* what KeepaliveTime, never initialised, may hold
  MaxConn,     \* bound: connections
  MaxReady,    \* bound: completed receives whose handler has not run
  MaxFired     \* bound: completed waits whose handler has not run

\* Times are seconds, in 16 bits.
MaxTime == 65535
Seconds == 0..MaxTime

Open         == [type : {"open"}, rightAs : BOOLEAN, hold : Seconds]
OtherMessage == [type : {"keepalive", "update", "notification", "garbage"}]
Message      == Open \cup OtherMessage

ASSUME ChunkAssumption == Chunk \subseteq Seq(Message)
ASSUME TimeAssumption  == OwnHold \in Seconds /\ JunkTime \subseteq Seconds
ASSUME BoundAssumption ==
  MaxConn \in Nat /\ MaxReady \in Nat \ {0} /\ MaxFired \in Nat \ {0}

VARIABLES
  fsm,        \* the members of bgp_fsm, and the operations it has started
  buffer,     \* the bytes of the receive buffer that were ever written
  ready,      \* completed receives: the connection, and what was received
  fired,      \* completed waits of KeepaliveTimer
  accepting,  \* an async_accept is under way
  conn,       \* history: the number of the connection
  got,        \* history: the messages handled since the last connection
  mixed,      \* history: some of them came from the connection before
  deaf        \* history: a wrong marker ended the handler of a receive

vars == <<fsm, buffer, ready, fired, accepting, conn, got, mixed, deaf>>

FsmState == {"IDLE", "OPENSENT", "OPENCONFIRM", "ESTABLISHED"}

\* none: no value; eof: the peer has shut down its side; reset: the
\* connection is gone; closed: closed here, the value is still there.
Sock == {"none", "open", "eof", "reset", "closed"}
Connected(f) == f.sock \in {"open", "eof"}

Fsm == [state : FsmState, sock : Sock, HoldTime : Seconds, KeepaliveTime : Seconds,
        receives : Nat,   \* async_receives under way
        wait : BOOLEAN]   \* a wait of KeepaliveTimer is under way

TypeOK ==
  /\ fsm \in Fsm
  /\ buffer \in Seq(Message)
  /\ ready \in Seq([conn : 0..MaxConn, chunk : Chunk])
  /\ fired \in 0..MaxFired
  /\ accepting \in BOOLEAN
  /\ conn \in 0..MaxConn
  /\ got \in SUBSET Message
  /\ mixed \in BOOLEAN /\ deaf \in BOOLEAN

Init ==
  /\ \E t \in JunkTime :
       fsm = [state |-> "IDLE", sock |-> "none", HoldTime |-> OwnHold,
              KeepaliveTime |-> t, receives |-> 0, wait |-> FALSE]
  /\ buffer = <<>> /\ ready = <<>> /\ fired = 0
  /\ accepting = TRUE
  /\ conn = 0 /\ got = {} /\ mixed = FALSE /\ deaf = FALSE

-----------------------------------------------------------------------------
\* Operations on the socket and the timer.

Close(f, how) == [f EXCEPT !.sock = how, !.receives = 0]

do_read(f) == IF f.sock = "open" THEN [f EXCEPT !.receives = @ + 1] ELSE f

\* A variant: the expiry time is set and nothing waits for it.
start_without_wait(f) == f

\* expires_from_now cancels the wait under way: there is one afterwards.
start_keepalive_timer(f) == [f EXCEPT !.wait = TRUE]

\* A handler under way: answers counts the calls of remote_endpoint() that
\* succeed before the connection is reset.
Handler(f, answers) == [fsm |-> f, answers |-> answers, next |-> "go", got |-> {}]

Answers(h) == Connected(h.fsm) /\ h.answers > 0
Asked(h)   == [h EXCEPT !.answers = @ - 1]
Throw(h)   == [h EXCEPT !.next = "throw",
                        !.fsm = IF Connected(@) THEN Close(@, "reset") ELSE @]

-----------------------------------------------------------------------------
\* The handlers of the messages.

\* Variants: the last OPEN decides the hold time; the KEEPALIVE is sent
\* three seconds before the hold time ends.
NegotiateLast(f, hold) == [f EXCEPT !.HoldTime = hold, !.KeepaliveTime = hold \div 3]

NegotiateLate(f, hold) ==
  LET agreed == Min({hold, f.HoldTime})
  IN [f EXCEPT !.HoldTime = agreed, !.KeepaliveTime = agreed - 3]

\* rx_open: no state is excluded.  HoldTime is the smallest ever agreed: no
\* connection resets it.  tx_keepalive may throw before state is set.
Negotiate(f, hold) ==
  LET agreed == Min({hold, f.HoldTime})
  IN [f EXCEPT !.HoldTime = agreed, !.KeepaliveTime = agreed \div 3]

\* A variant: the session is up with the OPEN.
RxOpenUp(h, m) ==
  IF ~Answers(h) THEN Throw(h)
  ELSE [Asked(h) EXCEPT
          !.fsm = [start_keepalive_timer(Negotiate(@, m.hold)) EXCEPT !.state = "ESTABLISHED"]]

RxOpen(h, m) ==
  LET agreed == [Asked(h) EXCEPT !.fsm = Negotiate(@, m.hold)]
  IN CASE ~Answers(h)                   -> Throw(h)
       [] Answers(h) /\ ~m.rightAs      -> [Asked(h) EXCEPT !.fsm = Close(@, "closed")]
       [] Answers(h) /\ m.rightAs /\ ~Answers(agreed) -> Throw(agreed)
       [] OTHER -> [Asked(agreed) EXCEPT !.fsm.state = "OPENCONFIRM"]

\* A variant: the state is set without a look at the socket.
RxKeepaliveFirst(h) ==
  CASE h.fsm.state \in {"OPENSENT", "OPENCONFIRM"} -> [h EXCEPT !.fsm.state = "ESTABLISHED"]
    [] OTHER -> h

\* rx_keepalive: OPENSENT is enough, without any OPEN.
RxKeepalive(h) ==
  CASE h.fsm.state = "ESTABLISHED" -> h
    [] h.fsm.state = "IDLE" /\ h.fsm.sock # "none" ->
         [h EXCEPT !.fsm = Close(@, "closed")]
    [] h.fsm.state \in {"OPENSENT", "OPENCONFIRM"} /\ Answers(h) ->
         [Asked(h) EXCEPT !.fsm = [start_keepalive_timer(@) EXCEPT !.state = "ESTABLISHED"]]
    [] OTHER -> Throw(h)

\* rx_notification: state stays, and so does the wait of the timer.
RxNotification(h) == [h EXCEPT !.fsm = Close(@, "none")]

\* Variants: a receive is started for each message; an exception leaves the
\* handler of an UPDATE.
HandleAndRead(h, m) == [h EXCEPT !.fsm = do_read(@)]

HandleThrows(h, m) == IF m.type = "update" THEN [h EXCEPT !.next = "throw"] ELSE h

\* One message.  An UPDATE and a ROUTE_REFRESH change nothing here.
Handle(h, m) ==
  LET done == CASE m.type = "open"         -> RxOpen(h, m)
                [] m.type = "keepalive"    -> RxKeepalive(h)
                [] m.type = "update"       -> h
                [] m.type = "notification" -> RxNotification(h)
                [] m.type = "garbage"      -> [h EXCEPT !.next = "return"]
  IN IF done.next = "go" THEN [done EXCEPT !.got = @ \cup {m}] ELSE done

HandleAll(h, msgs) ==
  LET run[i \in 0..Len(msgs)] ==
        IF i = 0 THEN h
        ELSE IF run[i-1].next = "go" THEN Handle(run[i-1], msgs[i]) ELSE run[i-1]
  IN run[Len(msgs)]

\* on_receive: the handler reads the buffer as it is now.  The next receive
\* is started at the end of the handler and nowhere else.
OnReceive ==
  /\ ready # <<>>
  /\ LET job  == Head(ready)
         msgs == SubSeq(buffer, 1, Len(job.chunk))
     IN \E answers \in 0..(2 * Len(msgs)) :
          LET h == HandleAll(Handler(fsm, answers), msgs)
          IN /\ fsm' = IF h.next = "go" THEN do_read(h.fsm) ELSE h.fsm
             /\ got' = got \cup h.got
             /\ mixed' = (mixed \/ job.conn # conn)
             /\ deaf' = (deaf \/ h.next = "return")
  /\ ready' = Tail(ready)
  /\ UNCHANGED <<buffer, fired, accepting, conn>>

-----------------------------------------------------------------------------
\* What the peer and the network do.

\* A variant: the buffer keeps what it has.
AddToBuffer(old, new) == old \o new

Overwrite(old, new) ==
  [i \in 1..Max({Len(old), Len(new)}) |-> IF i <= Len(new) THEN new[i] ELSE old[i]]

\* A receive completes: it fills the one buffer of the session.
Receive(c) ==
  /\ fsm.receives > 0 /\ Len(ready) < MaxReady
  /\ fsm' = [fsm EXCEPT !.receives = @ - 1]
  /\ buffer' = Overwrite(buffer, c)
  /\ ready' = Append(ready, [conn |-> conn, chunk |-> c])
  /\ UNCHANGED <<fired, accepting, conn, got, mixed, deaf>>

\* The peer shuts down (eof) or resets the connection: a receive under way
\* completes with an error, and no handler changes the state.
Disconnect(how) ==
  /\ \/ fsm.sock = "open"
     \/ fsm.sock = "eof" /\ how = "reset"
  /\ fsm' = Close(fsm, how)
  /\ UNCHANGED <<buffer, ready, fired, accepting, conn, got, mixed, deaf>>

-----------------------------------------------------------------------------
\* The timer.

TimerExpires ==
  /\ fsm.wait /\ fired < MaxFired
  /\ fsm' = [fsm EXCEPT !.wait = FALSE]
  /\ fired' = fired + 1
  /\ UNCHANGED <<buffer, ready, accepting, conn, got, mixed, deaf>>

\* A variant: the timer is not started again.
OnKeepaliveTimerOnce ==
  /\ fired > 0
  /\ fired' = fired - 1
  /\ UNCHANGED <<fsm, buffer, ready, accepting, conn, got, mixed, deaf>>

\* on_keepalive_timer: an exception of tx_keepalive ends the periodic
\* KEEPALIVEs.
OnKeepaliveTimer ==
  /\ fired > 0
  /\ fired' = fired - 1
  /\ \E answers \in 0..1 :
       LET h == Handler(fsm, answers)
       IN fsm' = IF Answers(h) THEN start_keepalive_timer(fsm) ELSE Throw(h).fsm
  /\ UNCHANGED <<buffer, ready, accepting, conn, got, mixed, deaf>>

-----------------------------------------------------------------------------
\* The accept loop.

\* on_accept throws when the accept has failed or the new connection is
\* already reset: no other accept is started.
OnAcceptThrows ==
  /\ accepting
  /\ accepting' = FALSE
  /\ UNCHANGED <<fsm, buffer, ready, fired, conn, got, mixed, deaf>>

\* on_accept of a connection from the neighbour, and place_connection: the
\* timer is cancelled only together with a socket that is still there.  The
\* connection may be reset when place_connection asks for its endpoint.
\* (A connection from elsewhere is closed, and changes nothing.)
Displaced(f) == IF f.sock = "none" THEN f ELSE [Close(f, "none") EXCEPT !.wait = FALSE]

OnAccept ==
  /\ accepting /\ conn < MaxConn
  /\ \/ /\ fsm' = do_read([Displaced(fsm) EXCEPT !.sock = "open", !.state = "OPENSENT"])
        /\ accepting' = TRUE
     \/ /\ fsm' = [Displaced(fsm) EXCEPT !.sock = "reset"]
        /\ accepting' = FALSE
  /\ conn' = conn + 1
  /\ got' = {} /\ mixed' = FALSE /\ deaf' = FALSE
  /\ UNCHANGED <<buffer, ready, fired>>

Next ==
  \/ OnReceive
  \/ \E c \in Chunk : Receive(c)
  \/ \E how \in {"eof", "reset"} : Disconnect(how)
  \/ TimerExpires
  \/ OnKeepaliveTimer
  \/ OnAcceptThrows
  \/ OnAccept

Spec == Init /\ [][Next]_vars

\* The wait runs out, and the loop runs its completion.
Fairness == WF_vars(TimerExpires) /\ WF_vars(OnKeepaliveTimer)

FairSpec == Spec /\ Fairness

-----------------------------------------------------------------------------
\* Properties

Up == fsm.state = "ESTABLISHED" /\ Connected(fsm)

\* While the session is up the next KEEPALIVE is on its way: no exception,
\* displaced connection or late completion leaves an established session
\* without its timer (start_keepalive_timer, place_connection).
KeepaliveArmed == Up => fsm.wait \/ fired > 0

\* A session that stays up sends KEEPALIVEs for ever.
KeepalivesGoOn == <>[]Up => []<><<OnKeepaliveTimer>>_vars

\* As long as no wrong marker was met on it, an open connection has a
\* receive under way or a handler that will start one: do_read is reached on
\* every path of on_receive that leaves the socket open.
StillListening == fsm.sock = "open" /\ ~deaf => fsm.receives > 0 \/ ready # <<>>

\* Unless a receive of the connection before was still to be handled when a
\* new one took over, the peer itself has sent a KEEPALIVE on the connection
\* that is up.
EstablishedByPeer ==
  Up /\ ~mixed => \E m \in got : m.type = "keepalive"

\* The receives of the session, handled or not, never get more on one
\* connection: what adds one is the takeover by the next connection.
Readers == fsm.receives + Len(ready)
ReadersKept == [][conn' = conn => Readers' <= Readers]_vars

\* A session that has one receive finds in the buffer what that receive got.
\* With two of them, after a takeover, one may overwrite the other.
OwnBytes ==
  Readers = 1 /\ ready # <<>> =>
    SubSeq(buffer, 1, Len(ready[1].chunk)) = ready[1].chunk

\* Three KEEPALIVEs fit in the hold time of every OPEN that was accepted on
\* this connection, also after several of them and when rx_open threw
\* half-way.
KeepaliveInTime ==
  \A m \in got : m.type = "open" /\ m.rightAs => 3 * fsm.KeepaliveTime <= m.hold

\* The table sees of a session what module Rib assumes (Peer): a session
\* whose connection is lost does not change its state, whatever messages and
\* completions are left, until the next connection takes over.
Seen == INSTANCE Peer WITH state <- fsm.state, alive <- Connected(fsm)
SeenByTable == Seen!Spec
=============================================================================
