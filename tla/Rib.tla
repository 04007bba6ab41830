-------------------------------- MODULE Rib --------------------------------
(***************************************************************************)
(* The routing table of the speaker and everything that changes or reads   *)
(* it: the UPDATE and NOTIFICATION handlers of the sessions (fsm.cpp), and *)
(* the delayed advertisement (table.cpp: schedule_updates and              *)
(* on_send_updates).                                                       *)
(*                                                                         *)
(* The program runs one handler at a time, from one io_context: a handler  *)
(* is one action.  Of a session this module keeps only what the table      *)
(* handlers look at: state, and whether the socket still answers           *)
(* remote_endpoint(), which throws on a closed or reset connection.        *)
(* Module Session has the rest.                                            *)
(*                                                                         *)
(* said, told and served are history variables: no action depends on them, *)
(* except the guard that restricts the inputs to tidy peers.               *)
(***************************************************************************)
EXTENDS Paths

CONSTANTS
  External,    \* the neighbours with another AS than ours
  Looped,      \* the attribute lists with our AS in their AS_PATH
  Message,     \* the UPDATEs that are received
  AttrOf,      \* [Source -> SUBSET Attr]: the lists each source may send
  Originate,   \* the routes the configuration originates, policies applied
  TidyPeers,   \* peers withdraw only what the table has taken from them
  MaxPaths,    \* bound: entries per prefix
  MaxExpired   \* bound: completed waits of send_updates not yet run

ASSUME ExternalAssumption == External \subseteq Peer
ASSUME LoopedAssumption   == Looped \subseteq Attr
ASSUME MessageAssumption  ==
  Message \subseteq [withdrawn : Seq(Prefix), routes : Seq(Prefix), attr : Attr]
ASSUME AttrOfAssumption   == AttrOf \in [Source -> SUBSET Attr]
ASSUME OriginateAssumption ==
  Originate \in Seq([prefix : Prefix, attr : AttrOf[Local]])
ASSUME TidyAssumption     == TidyPeers \in BOOLEAN
ASSUME BoundAssumption    == MaxPaths \in Nat /\ MaxExpired \in Nat \ {0}

VARIABLES
  table,              \* the multimap
  scheduled_updates,  \* prefixes changed at some time; nothing removes any
  timer,              \* the pending wait of send_updates, 1 or 2, or 0 if there
                      \* is none; a wait that replaces one has the other number
  expired,            \* completions of waits that ran out, not yet run
  state,              \* FSM_STATE of each session
  alive,              \* the socket of the session answers
  said,               \* what a source announced last and did not withdraw
  told,               \* what a peer was sent since it connected last
  served              \* the peers that got all of the last advertisement

vars == <<table, scheduled_updates, timer, expired, state, alive, said, told, served>>
sessionVars == <<state, alive, told, served>>

FsmState == {"IDLE", "OPENSENT", "OPENCONFIRM", "ESTABLISHED"}
Nothing  == [p \in Prefix |-> None]

TypeOK ==
  /\ table \in Table
  /\ scheduled_updates \in SUBSET Prefix
  /\ timer \in 0..2
  /\ expired \in 0..MaxExpired
  /\ state \in [Peer -> FsmState]
  /\ alive \in [Peer -> BOOLEAN]
  /\ said \in [Source -> [Prefix -> Attr \cup {None}]]
  /\ told \in [Peer -> [Prefix -> Attrs \cup {None}]]
  /\ served \in SUBSET Peer

-----------------------------------------------------------------------------
\* An UPDATE as the calls rx_update makes, in their order.  add_path gets
\* its own copy of the attributes, so every call meets its own junk.

DelCall(p)       == [call |-> "del_path", prefix |-> p]
AddCall(p, a, j) == [call |-> "add_path", prefix |-> p,
                     attrs |-> [attr |-> a, junk |-> j]]

Calls(m, js) ==
  [i \in 1..Len(m.withdrawn) |-> DelCall(m.withdrawn[i])]
  \o [i \in 1..Len(m.routes) |-> AddCall(m.routes[i], m.attr, js[i])]

\* One call by source n, on the table and on what n has said.
Call(r, c, n) ==
  IF c.call = "del_path"
    THEN [table |-> DelPath(r.table, c.prefix, n),
          said  |-> [r.said EXCEPT ![c.prefix] = None]]
    ELSE [table |-> AddPath(r.table, c.prefix, c.attrs, n),
          said  |-> [r.said EXCEPT ![c.prefix] = c.attrs.attr]]

\* The calls of one handler, one after the other.
RunCalls(r, cs, n) ==
  LET run[i \in 0..Len(cs)] == IF i = 0 THEN r ELSE Call(run[i-1], cs[i], n)
  IN run[Len(cs)]

\* schedule_updates: expires_after cancels a pending wait (its handler sees
\* operation_aborted and returns) and a new one starts from zero.
Armed == IF timer = 1 THEN 2 ELSE 1

Init ==
  /\ \E js \in [1..Len(Originate) -> Junk] :
       LET cs == [i \in 1..Len(Originate) |->
                    AddCall(Originate[i].prefix, Originate[i].attr, js[i])]
           r  == RunCalls([table |-> [p \in Prefix |-> <<>>], said |-> Nothing],
                          cs, Local)
       IN /\ table = r.table
          /\ said = [n \in Source |-> IF n = Local THEN r.said ELSE Nothing]
  /\ scheduled_updates = {Originate[i].prefix : i \in 1..Len(Originate)}
  /\ timer = IF Originate = <<>> THEN 0 ELSE 1
  /\ expired = 0
  /\ state = [n \in Peer |-> "IDLE"]
  /\ alive = [n \in Peer |-> FALSE]
  /\ told = [n \in Peer |-> Nothing]
  /\ served = {}

-----------------------------------------------------------------------------
\* The session as the table sees it.

\* place_connection: a new connection takes over, whatever the state.  The
\* table keeps what the peer said on the one before.
PlaceConnection(n) ==
  /\ state' = [state EXCEPT ![n] = "OPENSENT"]
  /\ alive' = [alive EXCEPT ![n] = TRUE]
  /\ told' = [told EXCEPT ![n] = Nothing]
  /\ served' = served \ {n}
  /\ UNCHANGED <<table, scheduled_updates, timer, expired, said>>

\* rx_open of an OPEN with the right AS: no state is excluded.
RxOpen(n) ==
  /\ alive[n]
  /\ state' = [state EXCEPT ![n] = "OPENCONFIRM"]
  /\ UNCHANGED <<table, scheduled_updates, timer, expired, alive, said, told, served>>

\* rx_keepalive: send_all_prefixes collects prefixes and sends nothing.
RxKeepalive(n) ==
  /\ alive[n] /\ state[n] \in {"OPENSENT", "OPENCONFIRM"}
  /\ state' = [state EXCEPT ![n] = "ESTABLISHED"]
  /\ UNCHANGED <<table, scheduled_updates, timer, expired, alive, said, told, served>>

\* The connection is reset by the peer, or rx_open closes it because of the
\* AS: no handler changes state or the table.
LoseSocket(n) ==
  /\ alive[n]
  /\ alive' = [alive EXCEPT ![n] = FALSE]
  /\ UNCHANGED <<table, scheduled_updates, timer, expired, state, said, told, served>>

-----------------------------------------------------------------------------
\* The handlers that change the table.  Neither looks at the state of the
\* session, nor at the socket: the messages may come from one buffer with a
\* message that closed it.

TidyFor(m, n) ==
  /\ IsInjective(m.withdrawn)
  /\ \A i \in 1..Len(m.withdrawn) : said[n][m.withdrawn[i]] # None

\* A variant: only withdrawn prefixes are scheduled.
TouchedWithdrawn(m) == ToSet(m.withdrawn)

Touched(m) == ToSet(m.withdrawn) \cup ToSet(m.routes)

\* rx_update: an UPDATE with our AS in it is dropped, withdrawn routes and
\* all; else del_path and add_path run, and then the selection over the
\* whole table.
RxUpdate(n, m, js) ==
  /\ state[n] # "IDLE"
  /\ m.attr \in AttrOf[n]
  /\ m.attr \notin Looped
  /\ TidyPeers => TidyFor(m, n)
  /\ LET r == RunCalls([table |-> table, said |-> said[n]], Calls(m, js), n)
     IN /\ \A p \in Prefix : Len(r.table[p]) <= MaxPaths
        /\ table' = SelectAll(r.table)
        /\ said' = [said EXCEPT ![n] = r.said]
  /\ scheduled_updates' = scheduled_updates \cup Touched(m)
  /\ timer' = IF Touched(m) = {} THEN timer ELSE Armed
  /\ UNCHANGED <<expired, state, alive, told, served>>

\* rx_notification: the routes are purged and the socket is closed and
\* reset; state stays, and no selection runs.
RxNotification(n) ==
  /\ state[n] # "IDLE"
  /\ table' = PurgePeer(table, n)
  /\ said' = [said EXCEPT ![n] = Nothing]
  /\ scheduled_updates' = scheduled_updates \cup
       {p \in Prefix : \E i \in 1..Len(table[p]) : table[p][i].source = n}
  /\ timer' = Armed
  /\ alive' = [alive EXCEPT ![n] = FALSE]
  /\ UNCHANGED <<expired, state, told, served>>

-----------------------------------------------------------------------------
\* Advertisement, one second after the last change of the table.

TimerExpires(k) ==
  /\ timer = k
  /\ expired < MaxExpired
  /\ timer' = 0
  /\ expired' = expired + 1
  /\ UNCHANGED <<table, scheduled_updates, said, sessionVars>>

\* A variant: the entry, with its source and its mark.
Head1Entry(p) == IF table[p] = <<>> THEN None ELSE table[p][1]

\* What is advertised for a prefix: its first entry, table.find( n ).
Head1(p) == IF table[p] = <<>> THEN None ELSE table[p][1].attrs

Eligible == {n \in External : state[n] = "ESTABLISHED"}

\* The neighbours are served in the order of their addresses, and the
\* exception tx_update throws for a dead socket ends the handler.
Reached == {n \in Eligible : \A m \in Eligible : m <= n => alive[m]}

\* A variant: what has been advertised is not scheduled any more.
OnSendUpdatesOnce ==
  /\ expired > 0
  /\ expired' = expired - 1
  /\ told' = [n \in Peer |->
       IF n \in Reached
         THEN [p \in Prefix |-> IF p \in scheduled_updates THEN Head1(p) ELSE told[n][p]]
         ELSE told[n]]
  /\ served' = Reached
  /\ scheduled_updates' = {}
  /\ UNCHANGED <<table, timer, state, alive, said>>

\* A variant: a peer that has been served once on its connection is passed
\* over.
OnSendUpdatesToNew ==
  /\ expired > 0
  /\ expired' = expired - 1
  /\ told' = [n \in Peer |->
       IF n \in Reached \ served
         THEN [p \in Prefix |-> IF p \in scheduled_updates THEN Head1(p) ELSE told[n][p]]
         ELSE told[n]]
  /\ served' = served \cup Reached
  /\ UNCHANGED <<table, scheduled_updates, timer, state, alive, said>>

\* on_send_updates.  There is one tx_update for each attribute list that is
\* advertised, and the withdrawn prefixes go with the first: without any
\* list nothing is sent.  What tx_update writes is taken to arrive: its
\* async_send (fsm.cpp:386) may write only a part of a message, and on_send
\* does not look at how much was written.
OnSendUpdates ==
  /\ expired > 0
  /\ expired' = expired - 1
  /\ IF \E p \in scheduled_updates : table[p] # <<>>
       THEN /\ told' = [n \in Peer |->
                 IF n \in Reached
                   THEN [p \in Prefix |-> IF p \in scheduled_updates
                                            THEN Head1(p) ELSE told[n][p]]
                   ELSE told[n]]
            /\ served' = Reached
       ELSE /\ told' = told
            /\ served' = {}
  /\ UNCHANGED <<table, scheduled_updates, timer, state, alive, said>>

UpdateFrom(n) ==
  \E m \in Message : \E js \in [1..Len(m.routes) -> Junk] : RxUpdate(n, m, js)

Next ==
  \/ \E n \in Peer : \/ PlaceConnection(n)
                     \/ RxOpen(n)
                     \/ RxKeepalive(n)
                     \/ LoseSocket(n)
                     \/ UpdateFrom(n)
                     \/ RxNotification(n)
  \/ \E k \in {1, 2} : TimerExpires(k)
  \/ OnSendUpdates

Spec == Init /\ [][Next]_vars

\* A wait that is not replaced runs out, and the loop runs every completion.
\* A wait that is replaced starts again: fairness is of each wait by itself.
Fairness == /\ \A k \in {1, 2} : WF_vars(TimerExpires(k))
            /\ WF_vars(OnSendUpdates)

FairSpec == Spec /\ Fairness

-----------------------------------------------------------------------------
\* Properties

\* What the sources are told apart by: no two of them send one list.
OwnAttrs == \A n, m \in Source : n # m => AttrOf[n] \cap AttrOf[m] = {}

Mine(n, p) == {i \in 1..Len(table[p]) : table[p][i].source = n}

\* Every neighbour's announcements, and nothing else, are in the table under
\* its name: the last list it announced for a prefix is its one entry there,
\* and there is none once it is withdrawn or the neighbour is purged
\* (add_path, del_path and purge_peer taken together).
RibFaithful ==
  \A n \in Source, p \in Prefix :
    /\ said[n][p] = None => Mine(n, p) = {}
    /\ said[n][p] # None => \E i \in 1..Len(table[p]) :
         Mine(n, p) = {i} /\ table[p][i].attrs.attr = said[n][p]

\* Every prefix of the table is in scheduled_updates, also one whose entry
\* del_path erased or inserted in passing: each advertisement covers the
\* whole table (scheduled_updates is never emptied), which is what brings a
\* peer up to date that was not there for the ones before.
NothingForgotten == NonEmpty(table) \subseteq scheduled_updates

\* No advertisement is under way and none will come by itself.
Quiet == timer = 0 /\ expired = 0

\* When all is quiet, the peers that were served hold exactly the table:
\* whatever the table lost or gained since armed the timer
\* (schedule_updates and on_send_updates).
InSync == Quiet => \A n \in served, p \in Prefix : told[n][p] = Head1(p)

\* A step that changes what one neighbour has said never takes another
\* source's entry away or changes its attributes, even when del_path runs on
\* into other prefixes and add_path copies entries.
Entries(n, p) == {table[p][i].attrs : i \in Mine(n, p)}
PeerIsolation ==
  [][\A n, m \in Source : n # m /\ said'[n] # said[n] =>
       \A p \in Prefix : Entries(m, p) \subseteq Entries(m, p)']_vars

\* Only a NOTIFICATION leaves a prefix with routes and without a best one:
\* an UPDATE, wherever in the table its calls insert or erase, does not.
HasBest(p) == table[p] = <<>> \/ \E i \in 1..Len(table[p]) : table[p][i].isBest
BestLostOnlyByPurge ==
  [][\A p \in Prefix : HasBest(p) =>
       HasBest(p)' \/ \E n \in Peer : table' = PurgePeer(table, n)]_vars

\* "clear all nlris from this peer" (fsm.cpp:406): a prefix that only this
\* peer announced is gone from the table after its NOTIFICATION.
PurgeClears ==
  [][\A n \in Peer : RxNotification(n) =>
       \A p \in Prefix : (\A m \in Source \ {n} : said[m][p] = None)
                           => table'[p] = <<>>]_vars

\* From some time on the wait is not started again.
Calm == <>[][timer' \in {timer, 0}]_timer

\* A peer that is up, with no dead session before it in the order of the
\* addresses, when something waits to be advertised, holds the table as it
\* is once all that waits has run, also if it got an earlier advertisement.
\* It assumes that the table is left alone at some time (the wait restarts
\* with every change), and that there is a route to advertise (schedule_updates
\* and on_send_updates).
Deliverable(n) == n \in Reached /\ NonEmpty(table) # {}
UpToDate(n)    == Quiet /\ \A p \in Prefix : told[n][p] = Head1(p)
ServedEventually ==
  Calm => \A n \in External :
    (~Quiet /\ Deliverable(n)) ~> (UpToDate(n) \/ ~Deliverable(n))
=============================================================================
