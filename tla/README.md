# TLA+ models of bgp_pp

bgp_pp is a small BGP speaker in C++ on boost::asio. It accepts TCP connections
from configured IPv4 neighbours, runs one finite state machine per neighbour,
keeps the routes it is told about in one table, picks best paths, and advertises
the table to external neighbours one second after the last change. A second
program, the command line client, asks it questions over a Unix socket.

This directory holds TLA+ modules translated from the source (`src/src/*.cpp`),
TLC configurations that check them on small instances, and proofs, checked by
TLAPS, of the safety properties of most components for instances of any size.

## 1. The system

| Component | State | Operations | Source |
|---|---|---|---|
| Routing table | multimap prefix -> (attributes, source, best mark); set `scheduled_updates`; timer `send_updates` | `add_path`, `del_path`, `purge_peer`, two `best_path_selection`, `schedule_updates`, `on_send_updates` | `table.cpp`, `nlri.cpp` |
| UPDATE and NOTIFICATION handlers | none of their own | `rx_update`, `rx_notification`, `tx_update` | `fsm.cpp` |
| Session | `state`, `sock`, `HoldTime`, `KeepaliveTime`, timer, one receive buffer | `place_connection`, `rx_open`, `rx_keepalive`, `rx_notification`, `on_keepalive_timer`, `on_receive`, `do_read` | `fsm.cpp`, `fsm.hpp` |
| Accept loop | the pending accept | `on_accept` | `evloop.cpp` |
| Framing | position in the buffer | the first loop of `on_receive` | `fsm.cpp` |
| UPDATE codec | none | `process_update`, attribute constructors, `parse_as_path`, `to_bytes`, `tx_update` | `packet.cpp`, `fsm.cpp` |
| Route policy | none | `routePolicyProcess` | `route_policy.cpp` |
| Command line | one session per client; a response | `CLI_Session`, client commands | `cli.cpp`, `cli_src/clicl.cpp` |
| Configuration | read once | YAML conversions | `yaml.cpp` |
| Event loop | the queue of completions | `main` catches exceptions and goes on | `main.cpp` |
| Logging, printing | none | | `log.cpp`, `string_utils.cpp` |
| VPP API | none that is used | nothing calls it | `vpp.cpp` |

**How they interact.** Everything runs in one thread, on one `io_context`. A
handler runs to its end, or to an exception, before the next one starts; `main`
catches the exception and calls `run()` again. The sessions call the table
(`add_path`, `del_path`, `purge_peer`) and the table calls the sessions back
(`tx_update`) when its timer runs out. All pointers between them are shared
pointers, so no handler meets a dead object. What is concurrent is the
completion of operations: data arrives, a timer runs out or a connection is
reset *between* or *during* handlers, and a completion that is already queued is
still delivered, without an error, after the socket was closed or the timer was
restarted.

**What is hard.**

* Interleavings of late completions with a takeover: a new connection from the
  same neighbour replaces the one before in any state.
* Exceptions in the middle of a handler: `remote_endpoint()` throws on a
  connection that was reset, and every `tx_` function calls it first, for a log line.
* The table is one multimap that is searched in ways that leave the prefix they
  started in: `del_path` goes on to the end of the table, `best_path_selection`
  uses iterators that may be `end()`, and `add_path` copies entries from anywhere
  in the table, source included.
* The timer that delays advertisements restarts with every change.
* Numbers with 16 bits, in the codec and in the framing, and loops that subtract lengths
  from them without comparing first.
* AS numbers have two bytes or four, by session, and an attribute keeps the width it
  came with, or has none that anybody set.
* Streams of bytes that are cut anywhere, between the neighbour and `on_receive` and between
  the daemon and its command line clients, and readers that take what one receive
  gets for whole messages.

**What makes each component correct.**

* Table: it holds what the neighbours have announced, no more and no less, each
  route under its neighbour's name; one neighbour cannot change another's routes;
  every prefix with routes has a best one.
* Advertisement: when nothing is pending, a peer that was served holds exactly
  what the table advertises; a change reaches every reachable peer in the end.
* Session: an established session keeps sending KEEPALIVEs, often enough for the
  agreed hold time; an open connection keeps being read; a session is established
  by its own peer; one receive does not overwrite another.
* Framing: messages are handled once and in order.
* Codec: an UPDATE is read as its sender wrote it, or not at all, and no loop leaves its field.
* The way of a route: one that has passed us is not taken again, and a neighbour reads in
  the AS_PATH which ASes it has passed.
* Policy: the first entry for the prefix decides, and what is written is read the same.
* Command line: every request is answered, by its own response, and no client holds up
  the event loop.

## 2. The modules

```
Paths ──┬── Rib ── RibMC          RibProofs
        ├── BestPath ── BestPathMC    BestPathProofs
        └── PathsProofs (used by RibProofs and BestPathProofs)
Session ── SessionMC              SessionProofs: Session implements Peer, which is what Rib assumes
Framing ── FramingMC              FramingProofs: Framing implements Channel
Attributes ──┬── Update ──┐
             ├── Policy ──┼── Relay ── RelayMC    RelayProofs
             └── Open ────┘
Cli ── CliMC                      CliProofs
NumbersAndLists (lemmas of arithmetic and of lists, used by the modules of proofs)
```

**Paths** has the operations of `bgp_table_v4` as operators on a value `T`:
`T[p]` is the sequence of the entries with key `p`, in the multimap's order.
Prefixes are `1..N` in the order of `operator<` on NLRI, so that iterating over
the table means going through `T[1]`, `T[2]`, ... An attribute list is an
abstract value with a LOCAL_PREF and a MED (or none).

* `AddPath` replaces the entry with the same source; or inserts a *copy* of the
  first entry, of the whole table, that has an equal list; or inserts a new entry.
* `DelPath` erases the first entry with that source from the prefix *to the end
  of the table*; it does nothing when the prefix itself has no entry.
* `PurgePeer` erases the entries with that source, and selects nothing.
* `Select` and `SelectAll` are the two selections, with the comparison as it is
  written (`Better`): it is not lexicographic. A comparison that *loses* falls
  through to the next attribute, a larger MED wins, and `get_as_path` reads the
  LOCAL_PREF attribute as if it were an AS_PATH.

What the code reads without having set it is a member of the constant `Junk`:
the flag bits of a LOCAL_PREF the table adds itself, the byte `get_origin`
returns, and `four_byte_asn` of that attribute. Each call meets its own junk.

**Rib** is the table with everything that changes or reads it. One action is one
handler: `RxUpdate` runs all calls of `rx_update` in their order and then the
selection over the whole table; `RxNotification` purges and arms the timer;
`TimerExpires` queues the completion of a wait, and `OnSendUpdates` advertises. A
restarted wait is another wait (numbers 1 and 2), because a completion that
is already queued is not undone. Of a session the module keeps `state` and whether the
socket still answers `remote_endpoint()` (`alive`). `PlaceConnection`, `RxOpen`,
`RxKeepalive` and `LoseSocket` are what the table can observe of a session; module
Peer states these moves, and Session is shown to make no others.
Three history variables record what the properties are about: `said` (what a source
announced last), `told` (what a peer was sent), `served` (whom the last
advertisement reached). `said` outlives a connection, as the routes do in the code.

Three things of `OnSendUpdates` that are easy to miss: `scheduled_updates` is
never emptied; the withdrawn prefixes ride with the first attribute list, so that
a table that has become *empty* sends nothing; and the exception for a dead peer
ends the loop over the neighbours, so that those with higher addresses get nothing.
What is sent is taken to arrive whole (see the limits in section 6).

**BestPath** is the loop of `best_path_selection()`, one action per round, with
the iterators as positions. Writes through `end()` are undefined behaviour; they are
counted in `stray` and, as in a build in which the bytes after the multimap do not
matter, change nothing else. The run shows that `SelectAll`, which Rib uses, is
what the loop computes.

**Session** is one `bgp_fsm` and the accept loop: the socket (`none`, `open`,
`eof`, `reset`, `closed`), the hold and keepalive times, the chain of receives,
the wait of the keepalive timer, completions that are queued (`ready`, `fired`),
and the one receive buffer, which the handler reads *when it runs*. `OnReceive`
folds the message handlers over the buffer; `answers` chooses after how many
calls of `remote_endpoint()` the connection is found reset, and an exception leaves the
handler at that point, without `do_read`. A connection from a stranger and an UPDATE
with our own AS change nothing, and are stuttering steps. `tx_notification` is never called.

**Peer** is a session as the table sees it, a state and whether the socket answers. One step is a
new connection, or what the messages of one receive may make of the session: only a
session that answers gets on. Session implements it (`SeenByTable`).

**Framing** is `on_receive` on the level of bytes. The peer's messages are a stream; a
receive gets any number of its bytes, which overwrite the beginning of the buffer; the first
loop splits them by the length fields, round by round, and keeps pairs of position and length
(`pkts`); the second checks markers and hands the messages on; `DoRead` starts the
next receive. A field that lies behind the bytes received is read from what the buffer held
before, and past the buffer from anywhere (`LengthField`, `MayBeMarker`). A marker has two bytes
in the run and a length one, instead of sixteen and two.

**Channel** is the promise: messages are handled in the order they were sent, once,
as they were sent, until the connection is spoilt; afterwards nothing is promised.

**Attributes** has the values of an UPDATE as sequences of bytes: prefixes, attributes with the flags that are set,
AS_PATHs with their width, and what each constructor, `to_bytes` and
`parse_as_path` do to them. A number that does not fit is cut (`Be16`).

**Update** is `process_update`: one action per round of its three loops, with `offset` and
`len` in 16 bits as in the code. An attribute whose length has two bytes gets a width from
`JunkWidth`. An error in a prefix returns three empty lists.

**Policy** is what `yaml.cpp` reads from a policy file and writes to one,
`routePolicyProcess` as two nested loops over entries and attributes (recursive functions of the round), and the constructor
of the table, which applies it to the three attributes it makes. A word that is no action, and the
action `config_init` does not set, are any of four values.

**Open** has the OPEN and its capabilities: `tx_open`, `toBytes`, `parse_capabilites`, the
comparison of the AS in 16 bits.

**Relay** composes the four. A route is originated through a policy file or comes from a
neighbour as the bytes of an UPDATE; `Parse` runs process_update, `RxUpdate` looks for our AS and
adds a LOCAL_PREF, `TxUpdate` makes the attributes for one neighbour, and `ComesBack` is the network: the
neighbour reads the AS_PATH in the width of its own session and the route is sent to us
again by any neighbour. The neighbours are external, speakers that do what they
have negotiated and send only what they can write (`Sendable`): an attribute whose bytes do not fit its length, or a
message of more than 16 bits, has no form on the wire. `trace` records the ASes a route has really passed. What the table does with a
route in between is module Rib; here it only holds the attributes.

**Cli** has the daemon's side (`OnAccept`, `OnReceive`, `OnReceiveError`, and the
synchronous `send`, which writes what there is room for and waits when that is nothing) and
the client processes. A line typed is what commands it is the beginning of; a response is a
number of units of bytes, of which the client's buffer takes `BufLen` at a time and the socket
`SockBuf`. A send that waits stops every other handler of the daemon (`blocked`), and one to a
client that has gone throws, so that the session ends; a session whose receive failed is started again
for ever (`failing`).

## 3. What TLC checks

| Run | Instance | Shows |
|---|---|---|
| `rib_tidy` | 2 prefixes, 2 peers, 1 originated route, own lists | `RibFaithful`: the table is what the sources said |
| `rib_untidy` | the same with shared lists and any withdrawals | `NothingForgotten`, `PeerIsolation`, `BestLostOnlyByPurge` |
| `rib_flush` | 2 external peers, timer, few lists | `TypeOK`, `InSync`, `ServedEventually` |
| `rib_purge` | shared lists | finds `PurgeClears` violated |
| `bestpath` | every table with 2 prefixes of 0 to 3 entries, 3 lists | `LoopIsSelectAll`, `SelectionsAgree`, `TypeOK` |
| `bestpath_aspath` | the same | finds `ShorterAsPathIsBest` violated |
| `session` | 3 connections, 2 queued receives, 1 queued wait | the session properties, and that Session implements Peer |
| `framing` | 3 messages of three lengths, buffer of 8 bytes, every cut | `KeepsPromise` (Framing implements Channel), `LostOnlyByCut`, `TypeOK` |
| `relay` | 2 neighbours, each of 4 kinds of session; 6 UPDATEs; policies of one and two entries; 2 hops | nine invariants of codec, OPEN, AS_PATH and policy; `Handled` |
| `relay_widths` | neighbours that differ in the width of AS numbers only | finds `OurAsInPath` violated |
| `policy_match` | the same | finds `AcceptedByMatch` violated |
| `cli` | 2 clients with 4 lines and 1, responses of 1 to 5 units, buffer 2, socket 3 | `AnswerMatches`, `BlockedByOverrun`, `Answered`, `TypeOK` |

**The table runs.** Two prefixes are what `del_path` needs to leave the prefix it
was called for, and what the selection needs for a prefix that is not the last.
Two peers are enough for one to disturb the other; each sends two lists or one.
`MaxPaths` = 3 allows one entry for each source and, with shared lists, a
duplicate. The messages announce one or both prefixes, withdraw them in both orders,
do both at once, or are empty (which is also what a malformed UPDATE becomes). One
junk value is used in the runs; the proofs cover all of them. `External` is
empty where advertisement does not matter.

* `RibFaithful` needs two assumptions: peers withdraw only what they announced
  (`TidyPeers`), and no two sources send one list (`OwnAttrs`). Both are
  necessary: TLC refutes the property when either is dropped. Without the first
  `del_path` runs into other prefixes; without the second `add_path` copies the
  entry of another source.
* What holds without them is in `rib_untidy`. `BestLostOnlyByPurge` is an action
  property: only a purge, which selects nothing, takes the best mark from a
  prefix that had one.
* `InSync` speaks of the peers that the last advertisement reached. After a table
  has become empty nobody is served (see above), and the property says nothing of
  what the peers still hold.

**Fairness** (`rib_flush`). Weak fairness of each wait's expiry, and of
`OnSendUpdates`: a steady timer that nobody cancels runs out, and the loop runs
every queued completion. Fairness is per wait: a wait that is replaced starts
again, so a table that changes more than once a second starves the advertisement. That is
the code's behaviour, and `ServedEventually` therefore assumes that from some
time on the wait is not restarted (`Calm`), and speaks of a peer with no dead
session before it in the order of addresses (`Deliverable`). Its conclusion is what the
peer holds (`UpToDate`: all is quiet and `told` is the table), and not that it is in `served`, where an
advertisement before the last change may have put it.

**The session run.** Three connections give a takeover of a takeover; the receives get
one or two messages, so that a message can follow the OPEN, the NOTIFICATION or the bad
marker in one buffer; two receives and one wait may be queued (larger bounds, three and two, were
checked as well, and hold). Deadlock is not checked in this run: the accept loop really ends when
`on_accept` throws, and the bound on connections ends it too. The properties:

* `KeepaliveArmed`, `KeepalivesGoOn` (with weak fairness of the timer and its
  handler): no exception, takeover or late completion leaves an established session
  without its timer.
* `StillListening`: except after a wrong marker, an open connection has a receive
  under way or a handler that will start one.
* `ReadersKept`, `OwnBytes`: on one connection the number of receive chains never
  grows; only a takeover with a queued completion adds one. With one chain the
  buffer holds what the receive got. With two chains it need not.
* `EstablishedByPeer`: a session that is up was established by a KEEPALIVE of this
  connection, unless a receive of the one before was still queued at the takeover.
* `KeepaliveInTime`: three KEEPALIVEs fit in every hold time that was accepted on the
  connection, also when `rx_open` threw half-way.
* `SeenByTable`: the refinement of Peer. What Rib takes for granted of its sessions is true
  of all interleavings of Session: a session whose connection is lost keeps its state until the next
  connection, also when messages of it are handled late.

**The framing run.** Messages are `<<255, 255, 3>>`, one with the content 0 and one with the
contents 1 and 2; their bytes, taken for a length after a cut, give a length of zero, lengths
that end inside the receive and lengths that do not. A receive gets one byte up to a whole buffer, so
that one receive holds two messages, half of one, or the end of one and the beginning of the next, and the buffer
keeps old headers. `cut` records that a receive has ended inside a message, and stands
for `spoilt` in the refinement. Both halves of `KeepsPromise` matter: safety (nothing left
out, doubled or invented) and, with weak fairness of arriving bytes and of the handler, that
everything sent is handled unless there is a cut. After a cut the model shows
what one expects: the speaker may go deaf, or hang.

**The relay runs.** A session has AS numbers of four bytes or two; AS_PATHs with one byte of length or two; one
capability per parameter or all in one. Our AS is 1, or 65538, which in 16 bits is the AS of a
neighbour. The UPDATEs have prefixes of 0, 7, 8, 9, 16, 17, 24, 25 and 32 bits (the boundaries of a byte), an attribute
with a length of two bytes, and prefixes whose data is shorter than their length says, in each of
the two fields. Two hops are what it takes for a route to come back. The files have entries
that match and do not, with each kind of condition and of action, an unknown action, none, and
prefix lengths that wrap and that throw.

* `LenIsWhatIsLeft`: `offset` and `len` move together through all three fields, which is why the unchecked
  subtractions do not go wrong while the two length fields of the body are right.
* `WholeOrNothing`, `ReadsWhatWasSent`, `Handled` (weak fairness of the loops: a handler
  that has begun runs on): a message is read as it was written, or dropped as a whole, and the loops
  end whatever the lengths of the prefixes are.
* `LoopDropped`, `PathIsTrace`: with sessions of one width in which our AS fits, one capability per parameter in the
  OPENs and AS_PATHs with a one-byte length (`Uniform`), a route that has been
  with us is not taken again and its AS_PATH says where it has been. Without `Uniform` TLC refutes both: an AS of ours that
  does not fit, a width that nobody set and capabilities in one parameter all break them.
* `CapabilitiesRead`: parameters with one capability are read completely, those of our own OPEN among them.
* `PrefixDecides`: the other conditions of an entry have no influence on whether a route is
  originated, because there is always an attribute they do not look at.
* `PolicyRoundTrips`: what `EncodeEntry` writes is read the same, /288 and the bits after the length included.

**The cli run.** A response fits the client's buffer, needs two receives, or is larger than
the socket; one client types up to four lines, which fills a socket with what earlier receives left. A client may
end at any time, and no bound stops the daemon. The handlers of each session have weak
fairness of their own: the reactor runs what has completed, and a session that fails for ever
does not keep the others from it. A client takes what has arrived; nobody has to type. `AnswerMatches` and
`BlockedByOverrun` say what holds until a response has not fit; after that, responses and
requests are out of step, and the daemon may wait for a client for ever. Deadlock is not checked in the three runs: the
network, the neighbours and the clients may all stop.

Every property has a mutant: a variant of a definition ("A variant: ..." in the
modules), such a bug as the code might have, under which TLC finds it violated.

## 4. Disagreements between the code and its comments

* `rib_purge`: "clear all nlris from this peer" (`fsm.cpp:406`). A route that
  `add_path` stored as a copy of another peer's entry keeps that peer's name, and
  the purge leaves it.
  For the same reason announcing a prefix again may add a second entry instead of replacing
  the first ("If we already have path from this neighbour", `table.cpp:152`).
* `bestpath_aspath`: `get_as_path` reports that it misses `AS_PATH`
  (`table.cpp:63`) and looks for LOCAL_PREF: the length of the AS_PATH never counts.
* `relay_widths`: "put our as in as_path attribute" (`fsm.cpp:303`). The AS_PATH that came with
  the route is written in the width of the session it came from (`packet.cpp:346`), so a neighbour with
  the other width does not find our AS in it.
* `policy_match`: "match" (`config.hpp:20`). A condition that fails makes `routePolicyProcess` go on
  with the next attribute, not with the next entry (`route_policy.cpp:27`): an entry for LOCAL_PREF 250 accepts a
  route with LOCAL_PREF 100.

## 5. What is proved

All results hold for every value of the constants: any number of prefixes, any set of
neighbours with numbers as addresses, all attribute lists, messages, junk, buffers and
bounds. The assumptions are the named `ASSUME`s of the models, which TLC evaluates in the
runs. They give the constants their types, and say besides

* `MessageAssumption`, `OriginateAssumption` (Rib), `ChunkAssumption` (Session): what is
  received or configured is made of the prefixes, lists and messages of the model;
* `TimeAssumption` (Session): times are numbers of 16 bits, also those nobody has set;
* `ByteAssumption` (Framing): a message's length field holds its length, and 255 is a byte;
* `RoomAssumption`, `LinesAssumption` (Cli): the socket holds at least what the client's
  buffer takes, and a line is the beginning of commands of the client only;
* `AddressAssumption`, `SessionAssumption`, `OriginatedAssumption` (Relay): an IPv4 address has four bytes, and what a
  file holds under a key is of the kind its conversion asks for (`IsText`, `IsNode`); where it is not, `as<>` throws
  and nothing is read. The same goes for the prefix of a configured route: where `NLRI` throws on it (`PrefixThrows`),
  the program has no configuration;
* `AnnouncedAssumption`, `OwnAsAssumption` (Relay): what a neighbour announces gets its AS_PATH from
  `NeighbourPath` only, and our AS has 32 bits, as `my_as` has;
* `NoneAssumption` (Policy): an optional without a value is no list of attributes.

| Component | Theorems | Invariant |
|---|---|---|
| Operations of the table | `SelectRoutes`, `SelectAllRoutes`, `AddPathRoutes`, `DelPathRoutes`, `PurgePeerRoutes` | |
| Loop of the selection | `TypeOK`, `LoopIsSelectAll`, `SelectionsAgree` | `LoopInv` |
| Table | `TypeOK`, `NothingForgotten`, `InSync`, `PeerIsolation`, `BestLostOnlyByPurge`; with two assumptions `RibFaithful` and `PurgeClears` | `Covered`, `SyncInv`, `Faithful` |
| Session | `TypeOK`, `KeepaliveArmed`, `StillListening`, `EstablishedByPeer`, `OwnBytes`, `KeepaliveInTime`, `ReadersKept`, `SeenByTable` | `SessionInv` |
| Framing | `TypeOK`, `LostOnlyByCut`, the safety part of Channel | `FramingInv` |
| Codec | `LenIsWhatIsLeft`, `WholeOrNothing`, `ReadsWhatWasSent` | `ReadInv` |
| AS_PATH | `TypeOK` (Relay), `LoopDropped`, `PathIsTrace` | `FlowInv`, `WidthInv`, `PathInv` |
| OPEN and policy | `CapabilitiesRead`, `PolicyRoundTrips`, `PrefixDecides` | `ConfigInv`, `OriginInv` |
| Command line | `TypeOK`, `AnswerMatches`, `BlockedByOverrun` | `CliInv` |

The recursive functions and folds of the models (`Winner`, `Without`, `RunCalls`,
`FlattenSeq`, the handler of one receive) are handled by a least counterexample
(`LeastNat`, in NumbersAndLists), since an induction theorem that takes an operator as its
parameter cannot be used. Their values are described first (`RunExists`, `FlatExists`,
`RoundsExist`), and then what a step of them keeps is shown to hold of all.

**PathsProofs** states what each operation does to the entries, best marks aside: the
selections change marks only (`SameRoutes`); `AddPath` replaces one entry (`Replaced`) or
adds one (`Appended`), of one prefix; `DelPath` erases at most one entry, of that source, and
of that prefix when the source has one there; `PurgePeer` keeps exactly the other sources'
entries, in their order.

**BestPathProofs.** `LoopInv` says where the loop is: before the first entry; or after entry `k` of
`current_prefix`, `best` is the winner of the first `k` entries of it, and the marks are
those of `SelectAll` up to here. Writes through `end()` happen at the first entry only, at most once.
`LoopComputesSelectAll` is what allows Rib to use the operator for the call, for every table.

**RibProofs.**

* `AdvertisementCoversTable`: the invariant is `Covered` = `TypeOK` ∧ `NothingForgotten` ∧
  `ToldScheduled`. A lemma on the calls of one handler (`CallNonEmpty`, `RunNonEmpty`) shows
  that they make no prefix appear but those of the message, also when `add_path` copies and
  `del_path` runs on.
* `ServedPeersInSync`: `InSync` is not inductive by itself: a prefix that is *not*
  advertised must not be in the table (`NothingForgotten`), nor be known to the peer
  (`ToldScheduled`). Together with `Covered` it is.
* `SourcesIsolated`: every call keeps each entry of every source but its own, with its list
  (`KeepsOf`), and so do all calls of a handler (`RunKeepsOthers`).
* `OnlyPurgeLosesBest`: after a selection every prefix that has entries and had a best one
  has one, for the two selections in turn.
* `TableIsWhatWasSaid`: `OwnAttrs` and `TidyPeers` imply `Spec => []RibFaithful`. The
  invariant `Faithful` says of every prefix and source that there is exactly one entry with
  the announced list, or none (`Holds`), and that every entry's list is one its source may
  send (`OwnedSeq`). The latter makes the copy in `add_path` harmless: an entry with an equal
  list has the same source (`AppendedIsOwn`). A withdrawal then finds its entry in its own
  prefix (`DelGood`). An UPDATE is a sequence of such calls (`RunGood`); withdrawals come
  first and are of different prefixes, so that each is still of something announced
  (`UpdateTidy`).
* `TidyPurgeClears`: with the same two assumptions, the property that `rib_purge` refutes.

**SessionProofs.** A handler of one receive is a sequence of message handlers, each of which may throw;
a lemma says what one of them may make of the session, and what all of them together keep.
`SessionInv` joins the properties, which are needed by one another (a session is only
established if it was connected, and only then is the timer armed), with `Filled`, which bounds each
queued receive by what the buffer has ever held, and `KeepsTo`, which bounds the hold time
as well as the keepalive time, because the next OPEN starts from it. `SessionImplementsPeer`
is the whole refinement, not only its safety part: Peer has no fairness.

**FramingProofs.** `FramingInv` says, as long as nothing was cut, that what is handled, the packets
found and the bytes still ahead are, one after the other, the messages that were sent
(`Ordered`); and always that no packet ends behind the buffer (`Shape`). For the first loop, a message that lies
whole in the receive is found by its own length field, and only one that does not may be
read from old bytes, which is the cut. `FramingKeepsOrder` is the refinement of Channel
without its fairness.

**RelayProofs.** `ReadInv` says that `process_update` is somewhere in the message that was meant: the
body has the three fields where the loops look for them (`Layout`), what has been read of a field is
a beginning of it, and `len` is what is left. A message with prefixes that are too short is also
covered: other prefixes may be read then, but of the same bytes (`PrefixesRead`), so that
`WholeOrNothing` holds of it too. That every message is `Sendable` (each attribute fits the one or
two bytes of its length, the body fits 16 bits) is a theorem of its own (`WhatIsMeantIsSendable`), so that these
three hold of the specification without a condition.

`Typed` adds to `ReadInv` what the handlers make of the lists (`FlowInv`): every attribute that is read, stored or
sent is of the type `path_attr_t`, and after an error `offset` and `len` keep the 16 bits they had.

`LoopDropped` and `PathIsTrace` are not inductive: nothing in them says what the message on the way, or the table,
holds. `PathInv` does. It has `Uniform` as a condition, like the two: one AS width on all sessions, in which our AS fits,
announced in OPENs with one capability per parameter, and AS_PATHs of the neighbours with a one-byte length. Then the AS_PATH of the message is one AS_SEQUENCE of the ASes the route
has passed, in the width of its sender (`SentBy`); every AS_PATH in the table is read as these ASes in any session, and ours is
not among them (`Kept`); and the neighbour reads them in what it is sent. The ASes are the same in number
and as a set (`SameAses`), but not in order: tx_update puts ours at the end, where a neighbour puts its own in front. The
argument has these parts:

* `PathRead`: what an AS_SEQUENCE of up to 255 numbers was written from is what `parse_as_path` reads of it, if all of them
  fit the width; `parse_as_path` is described as one step from the segments after it (`ParsedSegments`), and
  `WayFits` says that the ASes of the network fit.
* `WidthsRead`: the width `process_update` is called with is the sender's, because its OPEN is read completely
  (`CapabilitiesFound`), and all attributes with a one-byte length have it. Those with two bytes do
  not, and this is why `Uniform` excludes them.
* `SequenceFits`: what comes in an attribute with a one-byte length has not more than 126 ASes, so that with ours the
  count of `make_as_path`, which is cut to 8 bits, is still right, however often the route has come round. No bound on `MaxHops` is needed.
* `PathsWithLocalPref`, `PathsWithoutLocalPref`, `PathsWithNextHop`, `OurAsAdded`: of what rx_update and tx_update do to
  the list of attributes only the last touches an AS_PATH.

The properties of OPENs and policies follow from what the operators compute, for all arguments:
* `CapsRead`: after `k` rounds `parse_capabilites` stands behind the first `k` parameters and has their capabilities
  (`RoundsRead`); afterwards nothing changes. `ParamsBack` finds the parameters in the OPEN.
* `EntryBack`: an entry read from a node that could be read goes into a node and comes back. The prefix keeps
  the bytes that its length asks for (`PrefixBack`), also when the file said /288.
* `EntryDecides`: the ORIGIN, which the constructor puts second, is never looked at by a condition, so the entry's own verdict
  is reached at the latest there; `VerdictGoesOn` carries this through the entries. Both need that what an
  entry sets is again a list of attributes (`ChangedType`). `OriginInv` says that what is stored comes from
  the policy, until the route comes back.

**CliProofs.** `CliInv` says of a client whose responses have fit so far (`InStep`) that between two
questions nothing is on the way, and after one either the request or one whole response
is. The daemon's send can then not find the socket full.

**Only model-checked.**

* Liveness (`ServedEventually`, `KeepalivesGoOn`, `Handled`, `Answered`, the fairness of
  Channel), which needs fairness and ENABLED and is out of this prover's reach.
* The four properties that are refuted: for them one counterexample on an instance is enough.

All other properties of the runs are proved.

## 6. What is not modelled, and limits

* UPDATEs whose length fields (of the withdrawn prefixes and of the attributes, or of an attribute) are wrong:
  `process_update` then reads behind the message, and what it finds there is not defined. The
  lengths of prefixes may be wrong in the model.
* Lengths of more than 16 bits in an UPDATE that is sent: `tx_update` never splits one. It takes more
  prefixes than an instance can have.
* `async_send` (`fsm.cpp:386`) may write only a part of a message, and `on_send` does not look at how much was
  written. Rib takes every send as complete, and so does Relay: `InSync`, `ServedEventually` and `PathIsTrace` speak of sends that are.
* There is no clock. The hold timer is constructed and never started in the code: a
  silent peer is never noticed, and there is nothing to model.
* `send_all_prefixes` collects prefixes and sends nothing, so a KEEPALIVE and a ROUTE_REFRESH
  change nothing by it. `tx_notification`, `sync_send` of the client and everything of the VPP API are never called.
* Session, Rib and Relay are not one module. Session and Rib are linked by Peer; Relay
  stands for the attributes, which in Rib are abstract values, and its wire is not the stream of Framing.
* Using the empty `sock` is undefined; the model takes it as an exception (and
  `do_read` on a closed socket as without effect).
* In Cli the serialisation of boost is "a whole response or not", and clients of another make, which send what
  is no request or no message, are left out; so is the signal handler of the client, which never runs.
* IPv6, the logs, the printing and the copying of fields between YAML and `GlobalConf` are left out.

## 7. What is left

Proofs: none of the safety properties. `Uniform` is stronger than `LoopDropped` needs: sessions of different widths, or
AS_PATHs with two bytes of length where the width happens to be right, could be told apart by what is in each AS_PATH.
