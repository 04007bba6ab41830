--------------------------------- MODULE Cli ---------------------------------
(***************************************************************************)
(* The command line of the daemon: CLI_Server and CLI_Session (cli.cpp) in *)
(* its event loop, and CLI_Client processes (clicl.cpp), over unix stream  *)
(* sockets.  A client sends one request and takes one receive of its       *)
(* buffer for the response.                                                *)
(*                                                                         *)
(* A response is a row of units of bytes, [cont, part, of]; a request is   *)
(* small.  asio has made the server's sockets non-blocking, so its send    *)
(* writes what the socket has room for, waits only when that is nothing,   *)
(* and on_receive does not look at how much it was.                        *)
(***************************************************************************)
EXTENDS Integers, Sequences, FiniteSetsExt

CONSTANTS
  Client,      \* the client processes
  Line,        \* what may be typed: [starts, whole], see Found
  Size,        \* [CONTENT -> sizes that a response may have, in units]
  BufLen,      \* units of the client's buffer
  SockBuf,     \* units of a socket's buffer
  MaxLines,    \* bound: lines typed, by client
  None

CONTENT == {"SHOW_VER", "SHOW_TABLE", "SHOW_NEI"}

ASSUME SizeAssumption == \A cont \in CONTENT : Size[cont] \subseteq Nat \ {0}
ASSUME RoomAssumption == BufLen \in Nat \ {0} /\ SockBuf \in Nat /\ SockBuf >= BufLen
ASSUME LinesAssumption ==
  /\ Line \subseteq [starts : SUBSET CONTENT, whole : BOOLEAN]
  /\ MaxLines \in [Client -> Nat]

VARIABLES
  pc,          \* where a client is
  lines,       \* lines typed at it
  asked,       \* the request of the last line, if one was sent
  shown,       \* the response printed for it
  requests,    \* requests a session has not received
  stream,      \* units a client has not received
  backlog,     \* connections the acceptor has not seen
  session,     \* the sessions of the server, by their clients
  blocked,     \* the response whose send the event loop waits in: [to, cont, of]
  overrun      \* history: a response was more than one receive can get

client == <<pc, lines, asked, shown>>
server == <<backlog, session, blocked, overrun>>
vars   == <<client, requests, stream, server>>

Unit == [cont : CONTENT, part : Nat, of : Nat]

TypeOK ==
  /\ pc \in [Client -> {"connecting", "prompt", "waiting", "exited"}]
  /\ lines \in [Client -> Nat] /\ \A c \in Client : lines[c] <= MaxLines[c]
  /\ asked \in [Client -> CONTENT \cup {None}] /\ shown \in [Client -> CONTENT \cup {None}]
  /\ requests \in [Client -> Seq(CONTENT)]
  /\ stream \in [Client -> Seq(Unit)] /\ \A c \in Client : Len(stream[c]) <= SockBuf
  /\ backlog \subseteq Client
  /\ session \in [Client -> {"none", "receiving", "failing", "gone"}]
  /\ blocked = None \/ blocked \in [to : Client, cont : CONTENT, of : Nat]
  /\ overrun \in [Client -> BOOLEAN]

Init ==
  /\ pc = [c \in Client |-> "connecting"] /\ lines = [c \in Client |-> 0]
  /\ asked = [c \in Client |-> None] /\ shown = [c \in Client |-> None]
  /\ requests = [c \in Client |-> <<>>] /\ stream = [c \in Client |-> <<>>]
  /\ backlog = {} /\ session = [c \in Client |-> "none"]
  /\ blocked = None /\ overrun = [c \in Client |-> FALSE]

-----------------------------------------------------------------------------
\* The client.

OnConnect(c) ==
  /\ pc[c] = "connecting"
  /\ pc' = [pc EXCEPT ![c] = "prompt"]
  /\ backlog' = backlog \cup {c}
  /\ UNCHANGED <<lines, asked, shown, requests, stream, session, blocked, overrun>>

\* No daemon, the end of the input, or a signal that ends the process.
Exit(c) ==
  /\ pc[c] # "exited"
  /\ pc' = [pc EXCEPT ![c] = "exited"]
  /\ UNCHANGED <<lines, asked, shown, requests, stream, server>>

\* The commands in the order of the client's map.  A line stands for the
\* first of those it is the beginning of (line.starts; line.whole when it is
\* all of one), so an empty line stands for "show neighbour".
Command == <<"SHOW_NEI", "SHOW_TABLE", "SHOW_VER">>

Found(line) ==
  IF line.starts = {} THEN None
  ELSE Command[Min({i \in 1..3 : Command[i] \in line.starts})]

\* A variant: the end of the map is not looked for.
NeverInvalid(line) == FALSE

Invalid(line) == Found(line) = None

\* The arguments are looked for after the whole name: substr throws.
Throws(line) == Found(line) \in {"SHOW_NEI", "SHOW_TABLE"} /\ ~line.whole

Typed(c) == pc[c] = "prompt" /\ lines[c] < MaxLines[c] /\ lines' = [lines EXCEPT ![c] = @ + 1]

NotSent(c, line) ==
  /\ Typed(c)
  /\ Invalid(line) \/ Throws(line)
  /\ asked' = [asked EXCEPT ![c] = None] /\ shown' = [shown EXCEPT ![c] = None]
  /\ UNCHANGED <<pc, requests, stream, server>>

\* A variant: "show version", which has no answer to print, is not waited for.
SendAndForget(c, line) ==
  /\ Typed(c)
  /\ ~Invalid(line) /\ ~Throws(line)
  /\ requests' = [requests EXCEPT ![c] = Append(@, Found(line))]
  /\ asked' = [asked EXCEPT ![c] = Found(line)]
  /\ shown' = [shown EXCEPT ![c] = IF Found(line) = "SHOW_VER" THEN "SHOW_VER" ELSE None]
  /\ pc' = [pc EXCEPT ![c] = IF Found(line) = "SHOW_VER" THEN "prompt" ELSE "waiting"]
  /\ UNCHANGED <<stream, server>>

SendRequest(c, line) ==
  /\ Typed(c)
  /\ ~Invalid(line) /\ ~Throws(line)
  /\ requests' = [requests EXCEPT ![c] = Append(@, Found(line))]
  /\ asked' = [asked EXCEPT ![c] = Found(line)]
  /\ shown' = [shown EXCEPT ![c] = None]
  /\ pc' = [pc EXCEPT ![c] = "waiting"]
  /\ UNCHANGED <<stream, server>>

\* The units begin with a whole response.
Readable(units) ==
  /\ Len(units) >= units[1].of
  /\ \A i \in 1..units[1].of : units[i] = [units[1] EXCEPT !.part = i]

\* One receive.  What is no whole response throws, and the next command is
\* read; what follows in the socket is left for the next response.
ReceiveResponse(c) ==
  /\ pc[c] = "waiting" /\ stream[c] # <<>>
  /\ LET count == Min({BufLen, Len(stream[c])})
         units == SubSeq(stream[c], 1, count)
     IN /\ stream' = [stream EXCEPT ![c] = SubSeq(@, count + 1, Len(@))]
        /\ shown' = [shown EXCEPT ![c] = IF Readable(units) THEN units[1].cont ELSE None]
  /\ pc' = [pc EXCEPT ![c] = "prompt"]
  /\ UNCHANGED <<lines, asked, requests, server>>

-----------------------------------------------------------------------------
\* The server, in the event loop.

\* A variant: the next accept is not started.
OnAcceptOnce(c) ==
  /\ blocked = None /\ c \in backlog
  /\ \A d \in Client : session[d] = "none"
  /\ backlog' = backlog \ {c}
  /\ session' = [session EXCEPT ![c] = "receiving"]
  /\ UNCHANGED <<client, requests, stream, blocked, overrun>>

\* An accept that fails is started again and changes nothing.
OnAccept(c) ==
  /\ blocked = None /\ c \in backlog
  /\ backlog' = backlog \ {c}
  /\ session' = [session EXCEPT ![c] = "receiving"]
  /\ UNCHANGED <<client, requests, stream, blocked, overrun>>

Room(c) == SockBuf - Len(stream[c])

\* sock.send writes the units that there is room for.
Written(c, cont, of) ==
  stream' = [stream EXCEPT ![c] = @ \o [i \in 1..Min({of, Room(c)}) |->
                                          [cont |-> cont, part |-> i, of |-> of]]]

\* Of all that was received the first request is answered; what came with it
\* is lost.  The next receive follows the send.
OnReceive(c) ==
  /\ blocked = None /\ session[c] = "receiving"
  /\ requests[c] # <<>> /\ pc[c] # "exited"
  /\ \E of \in Size[Head(requests[c])] :
       /\ overrun' = [overrun EXCEPT ![c] = @ \/ of > BufLen]
       /\ \/ Room(c) > 0 /\ Written(c, Head(requests[c]), of) /\ UNCHANGED blocked
          \/ Room(c) = 0 /\ UNCHANGED stream
             /\ blocked' = [to |-> c, cont |-> Head(requests[c]), of |-> of]
  /\ requests' = [requests EXCEPT ![c] = <<>>]
  /\ UNCHANGED <<client, backlog, session>>

\* The client has made room, and the handler that waited for it ends.
SendGoesOn ==
  /\ blocked # None
  /\ LET c == blocked.to
     IN /\ pc[c] # "exited" /\ Room(c) > 0
        /\ Written(c, blocked.cont, blocked.of)
  /\ blocked' = None
  /\ UNCHANGED <<client, requests, backlog, session, overrun>>

\* The client has gone: the send throws, to the loop in main, and the session
\* ends with its handler.
SendThrows(c) ==
  /\ pc[c] = "exited"
  /\ \/ blocked = None /\ session[c] = "receiving" /\ requests[c] # <<>> /\ UNCHANGED blocked
     \/ blocked # None /\ blocked.to = c /\ blocked' = None
  /\ session' = [session EXCEPT ![c] = "gone"]
  /\ requests' = [requests EXCEPT ![c] = <<>>]
  /\ UNCHANGED <<client, stream, backlog, overrun>>

\* The client has gone: the receive fails, and the one that is started for it
\* fails again, for ever.
OnReceiveError(c) ==
  /\ blocked = None /\ session[c] \in {"receiving", "failing"}
  /\ requests[c] = <<>> /\ pc[c] = "exited"
  /\ session' = [session EXCEPT ![c] = "failing"]
  /\ UNCHANGED <<client, requests, stream, backlog, blocked, overrun>>

Handler(c) == OnAccept(c) \/ OnReceive(c) \/ SendThrows(c) \/ OnReceiveError(c)

Next ==
  \/ \E c \in Client : OnConnect(c) \/ Exit(c) \/ ReceiveResponse(c) \/ Handler(c)
  \/ \E c \in Client, line \in Line : NotSent(c, line) \/ SendRequest(c, line)
  \/ SendGoesOn

\* The loop runs what has completed, whichever session it is of, and a client
\* takes what has arrived.  Nobody has to type.
Fairness ==
  /\ \A c \in Client : WF_vars(Handler(c)) /\ WF_vars(ReceiveResponse(c))
  /\ WF_vars(SendGoesOn)

Spec == Init /\ [][Next]_vars /\ Fairness

-----------------------------------------------------------------------------
\* Properties

\* As long as every response fits, the response a client prints is the one
\* to the command before it, and there is one: requests and responses do not
\* get out of step, although neither side numbers them.
AnswerMatches ==
  \A c \in Client :
    pc[c] = "prompt" /\ asked[c] # None /\ ~overrun[c] => shown[c] = asked[c]

\* The event loop, and with it every BGP session, only waits for a client
\* that was sent a response which did not fit its buffer: requests that are
\* in step never fill a socket.
BlockedByOverrun == blocked # None => overrun[blocked.to]

\* Every command is answered, next to sessions that fail for ever or end by
\* an exception, while all responses fit.
Fits == \A c \in Client : ~overrun[c]
Answered == \A c \in Client : (pc[c] = "waiting" /\ Fits) ~> (pc[c] # "waiting" \/ ~Fits)
=============================================================================
