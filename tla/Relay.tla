-------------------------------- MODULE Relay --------------------------------
(***************************************************************************)
(* The way of one route through the speaker and back: it is originated     *)
(* through a policy (module Policy) or comes in an UPDATE of a neighbour,  *)
(* process_update takes the message apart (module Update), rx_update looks *)
(* for our AS in it, tx_update makes the UPDATE that goes to a neighbour,  *)
(* and the network may bring the route back.  The OPENs of the sessions    *)
(* (module Open) decide how wide the AS numbers are.  The table in between *)
(* is module Rib; here it only holds the attributes.                       *)
(*                                                                         *)
(* The neighbours are BGP speakers of their own: they read and write their *)
(* sessions in the width they have negotiated.  trace is a history         *)
(* variable: the ASes the route has really passed.                         *)
(***************************************************************************)
EXTENDS Update, Policy, Open

CONSTANTS
  Neighbour,     \* the neighbours, all of another AS than ours
  OwnAs,         \* what my_as may be
  Sessions,      \* [Neighbour -> [as, wide, ext, packed]]: the AS; four-byte
                 \* AS numbers; AS_PATHs with a two-byte length; all
                 \* capabilities in one parameter of the OPEN
  Announced,     \* the messages that start at a neighbour, without AS_PATH
  Originated,    \* the configured routes: [prefix, policy], as in the files
  LocalAddress,  \* the address of our end of a session
  MaxHops        \* bound: messages the speaker receives

\* What a message says.
Received == [withdrawn : Seq(NLRI), attrs : Seq(path_attr_t), routes : Seq(NLRI)]

ASSUME HopsAssumption    == MaxHops \in Nat \ {0}
ASSUME AddressAssumption == LocalAddress \in Seq(Byte) /\ Len(LocalAddress) = 4
ASSUME SessionAssumption ==
  Sessions \subseteq [Neighbour -> [as : Nat, wide : BOOLEAN, ext : BOOLEAN, packed : BOOLEAN]]
ASSUME OwnAsAssumption   == \A a \in OwnAs : a \in Nat /\ a \div 65536 < 65536
ASSUME AnnouncedAssumption ==
  \A m \in Announced : m \in Received /\ OfType(m.attrs, PATH_ATTRIBUTE.AS_PATH) = {}
ASSUME OriginatedAssumption ==
  \A r \in Originated :
    /\ IsText(r.prefix) /\ ~PrefixThrows(r.prefix)
    /\ r.policy # None /\ "entries" \in DOMAIN r.policy =>
         /\ Len(r.policy["entries"]) \in Nat
         /\ \A i \in 1..Len(r.policy["entries"]) : IsNode(r.policy["entries"][i])

VARIABLES
  my_as, session,   \* the configuration, read once
  origin,     \* what has been read of a configured route, until it comes back
  stage,      \* what becomes of the route
  from,       \* the neighbour whose message is read
  meant,      \* what that message says: [withdrawn, attrs, routes]
  stored,     \* the attributes in the table
  to, sent,   \* the neighbour that was sent an UPDATE, and its attributes
  trace, hops

config == <<my_as, session>>
relay  == <<config, origin, stage, from, meant, stored, to, sent, trace, hops>>
vars   == <<update, relay>>

\* A message that can be written: its attributes fit the lengths they have,
\* and all of it fits 16 bits.
BodyOf(m) == UpdateBody(m.withdrawn, m.attrs, m.routes)

Sendable(m) ==
  /\ m \in Received
  /\ \A i \in 1..Len(m.attrs) :
       Len(m.attrs[i].bytes) <= IF "extended_length" \in m.attrs[i].flags THEN 65535 ELSE 255
  /\ Len(BodyOf(m)) <= 65535

TypeOK ==
  /\ body \in Seq(Byte) /\ wide \in BOOLEAN
  /\ offset \in Nat /\ offset < 65536 /\ len \in Nat /\ len < 65536
  /\ [withdrawn |-> withdrawn, attrs |-> paths, routes |-> routes] \in Received
  /\ my_as \in OwnAs /\ session \in Sessions
  /\ origin = None \/ origin.prefix \in NLRI
  /\ stage \in {"received", "kept", "dropped", "sent"}
  /\ from \in Neighbour \cup {None} /\ to \in Neighbour \cup {None}
  /\ Sendable(meant)
  /\ stored = None \/ stored \in Seq(path_attr_t)
  /\ sent \in Seq(path_attr_t)
  /\ trace \in Seq(Nat) /\ hops \in 0..MaxHops

-----------------------------------------------------------------------------
\* The neighbours.

AS_TRANS == 23456
AsField(n, as) == AsBytes(IF ~session[n].wide /\ as > 65535 THEN AS_TRANS ELSE as,
                          session[n].wide)

NeighbourPath(n, path) ==
  [flags |-> {"transitive"} \cup (IF session[n].ext THEN {"extended_length"} ELSE {}),
   type |-> PATH_ATTRIBUTE.AS_PATH,
   bytes |-> <<AS_SEQUENCE, Len(path)>> \o FlattenSeq([k \in 1..Len(path) |-> AsField(n, path[k])]),
   four_byte_asn |-> session[n].wide]

NeighbourCaps(n) ==
  <<Cap(BGP_CAP_CODE.MPBGP, Be16(1) \o <<0, 1>>), Cap(BGP_CAP_CODE.ROUTE_REFRESH, <<>>)>>
  \o (IF session[n].wide THEN <<Cap(BGP_CAP_CODE.FOUR_OCT_AS, Be32(session[n].as))>> ELSE <<>>)

OpenOf(n) ==
  LET own  == NeighbourCaps(n)
      caps == FlattenSeq([k \in 1..Len(own) |-> CapBytes(own[k])])
  IN IF session[n].packed
       THEN OpenWith(session[n].as, 90, LocalAddress, <<CAP, Len(caps)>> \o caps)
       ELSE tx_open(session[n].as, 90, LocalAddress, NeighbourCaps(n))

FirstOfType(attrs, type) == Min(OfType(attrs, type))

\* The AS_PATH of the UPDATE that was sent, as its receiver reads it.
PathAsRead ==
  parse_as_path([sent[FirstOfType(sent, PATH_ATTRIBUTE.AS_PATH)] EXCEPT
                   !.four_byte_asn = session[to].wide])

NoMessage == [withdrawn |-> <<>>, attrs |-> <<>>, routes |-> <<>>]

\* A neighbour sends what it can write.
InitNeighbour ==
  /\ \E n \in Neighbour, m \in Announced :
       /\ from = n
       /\ meant = [m EXCEPT !.attrs = Append(@, NeighbourPath(n, <<session[n].as>>))]
       /\ Sendable(meant)
       /\ trace = <<session[n].as>>
  /\ origin = None
  /\ stage = "received" /\ stored = None /\ hops = 1
  /\ ProcessUpdate(BodyOf(meant), FourByteAsn(OpenOf(from)))

InitOriginate ==
  /\ \E r \in Originated, flags \in JunkFlags, w \in JunkWidth :
       \E policy \in LoadPolicy(r.policy) :
         /\ origin = [prefix |-> ParsePrefix(r.prefix), policy |-> policy]
         /\ stored = Originate(origin.prefix, policy, flags, w)
         /\ meant = [NoMessage EXCEPT !.routes = <<origin.prefix>>]
  /\ stage = IF stored = None THEN "dropped" ELSE "kept"
  /\ from = None /\ trace = <<>> /\ hops = 0
  /\ ProcessUpdate(BodyOf(NoMessage), FALSE)

Init ==
  /\ my_as \in OwnAs
  /\ session \in Sessions
  /\ \A n \in Neighbour : Configured(session[n].as) /\ Accepts(OpenOf(n), session[n].as)
  /\ to = None /\ sent = <<>>
  /\ InitNeighbour \/ InitOriginate

-----------------------------------------------------------------------------
\* The speaker.

Parse == stage = "received" /\ ParseStep /\ UNCHANGED relay

\* A variant: only the first AS is looked at.
LoopInFirst(attrs) ==
  \E i \in OfType(attrs, PATH_ATTRIBUTE.AS_PATH) :
    parse_as_path(attrs[i]) # <<>> /\ parse_as_path(attrs[i])[1] = my_as

\* rx_update: our AS in any AS_PATH of the message.
OurAsFound(attrs) ==
  \E i \in OfType(attrs, PATH_ATTRIBUTE.AS_PATH) :
    Contains(parse_as_path(attrs[i]), my_as)

\* add_path puts a LOCAL_PREF where there is none; the width it has is never
\* looked at.
WithLocalPref(attrs, flags) ==
  IF OfType(attrs, PATH_ATTRIBUTE.LOCAL_PREF) # {} THEN attrs
  ELSE Append(attrs, make_local_pref([flags |-> flags, type |-> 0, bytes |-> <<>>,
                                      four_byte_asn |-> FALSE], 100))

RxUpdate ==
  /\ stage = "received" /\ phase \in {"done", "error"}
  /\ IF OurAsFound(paths) \/ routes = <<>>
       THEN stage' = "dropped" /\ UNCHANGED stored
       ELSE /\ stage' = "kept"
            /\ \E flags \in JunkFlags : stored' = WithLocalPref(paths, flags)
  /\ UNCHANGED <<update, config, origin, from, meant, to, sent, trace, hops>>

\* remove_if: the attributes that stay keep their order.
WithoutLocalPref(attrs) ==
  LET kept[i \in 0..Len(attrs)] ==
        IF i = 0 THEN <<>>
        ELSE IF attrs[i].type = PATH_ATTRIBUTE.LOCAL_PREF THEN kept[i-1]
        ELSE Append(kept[i-1], attrs[i])
  IN kept[Len(attrs)]

WithNextHop(attrs) ==
  IF OfType(attrs, PATH_ATTRIBUTE.NEXT_HOP) = {} THEN attrs
  ELSE [attrs EXCEPT ![FirstOfType(attrs, PATH_ATTRIBUTE.NEXT_HOP)] =
          make_nexthop(@, LocalAddress)]

\* A variant: our AS is only put where there is no AS_PATH.
WithOurAsOnce(attrs, four, flags) ==
  IF OfType(attrs, PATH_ATTRIBUTE.AS_PATH) # {} THEN attrs
  ELSE Append(attrs, make_as_path([flags |-> flags, type |-> 0, bytes |-> <<>>,
                                   four_byte_asn |-> four], <<my_as>>))

\* Our AS goes to the end of the AS_PATH, which keeps the width it has; a new
\* AS_PATH gets the width of the session, and flags nobody sets.
WithOurAs(attrs, four, flags) ==
  IF OfType(attrs, PATH_ATTRIBUTE.AS_PATH) # {}
    THEN [attrs EXCEPT ![FirstOfType(attrs, PATH_ATTRIBUTE.AS_PATH)] =
            make_as_path(@, Append(parse_as_path(@), my_as))]
    ELSE Append(attrs, make_as_path([flags |-> flags, type |-> 0, bytes |-> <<>>,
                                     four_byte_asn |-> four], <<my_as>>))

\* tx_update, to any neighbour, the one the route is from included.
TxUpdate(n) ==
  /\ stage = "kept"
  /\ to' = n
  /\ \E flags \in JunkFlags :
       sent' = WithOurAs(WithNextHop(WithoutLocalPref(stored)), FourByteAsn(OpenOf(n)), flags)
  /\ stage' = "sent"
  /\ trace' = Append(trace, my_as)
  /\ UNCHANGED <<update, config, origin, from, meant, stored, hops>>

\* The neighbour that got the UPDATE reads it and the route comes back by
\* neighbour n, which may be the same one, as long as its path can be written.
ComesBack(n) ==
  /\ stage = "sent" /\ hops < MaxHops
  /\ LET passed == IF n = to THEN <<session[n].as>> ELSE <<session[n].as, session[to].as>>
         m == [withdrawn |-> <<>>, routes |-> meant.routes,
               attrs |-> <<NeighbourPath(n, passed \o PathAsRead)>>]
     IN /\ Sendable(m)
        /\ trace' = trace \o passed
        /\ meant' = m
        /\ ProcessNext(BodyOf(m), FourByteAsn(OpenOf(n)))
  /\ from' = n
  /\ stage' = "received" /\ hops' = hops + 1
  /\ origin' = None /\ stored' = None /\ to' = None /\ sent' = <<>>
  /\ UNCHANGED config

Next ==
  \/ Parse
  \/ RxUpdate
  \/ \E n \in Neighbour : TxUpdate(n) \/ ComesBack(n)

\* The loops of process_update run on; rx_update follows in the same handler.
Fairness == WF_vars(Parse) /\ WF_vars(RxUpdate)

Spec == Init /\ [][Next]_vars /\ Fairness

-----------------------------------------------------------------------------
\* Properties

\* A message whose prefixes have the length they say.
WellFormed(m) ==
  \A list \in {m.withdrawn, m.routes} : \A i \in 1..Len(list) :
    Len(list[i].data) = (list[i].nlri_len + 7) \div 8

\* What process_update makes of a message is what its sender wrote, whatever
\* the lengths of prefixes and attributes and the flags; the three loops
\* leave no boundary between the fields displaced.
ReadsWhatWasSent ==
  stage = "received" /\ WellFormed(meant) /\ phase \in {"done", "error"} =>
    /\ phase = "done"
    /\ withdrawn = meant.withdrawn /\ routes = meant.routes
    /\ Len(paths) = Len(meant.attrs)
    /\ \A i \in 1..Len(paths) : SameAttribute(paths[i], meant.attrs[i])

\* Every message is dealt with: the loops end, whatever the lengths say.
Handled == stage = "received" ~> stage # "received"

\* The capabilities of an OPEN that has one per parameter, as ours has, are
\* all found, and the width of AS numbers is the one the neighbour uses.
CapabilitiesRead ==
  /\ \A n \in Neighbour : ~session[n].packed =>
       /\ parse_capabilites(OpenOf(n)) = NeighbourCaps(n)
       /\ FourByteAsn(OpenOf(n)) = session[n].wide
  /\ LET caps == OwnCaps(my_as, <<1, 2>>, <<3>>)
     IN parse_capabilites(tx_open(my_as, 90, LocalAddress, caps)) = caps

\* All sessions have AS numbers of one width, in which ours fits, found in
\* the OPENs, and the neighbours' AS_PATHs have a length of one byte.
Uniform ==
  /\ \A n, m \in Neighbour : session[n].wide = session[m].wide
  /\ \A n \in Neighbour : ~session[n].packed /\ ~session[n].ext
                          /\ (my_as > 65535 => session[n].wide)

\* A route that has been with us is not taken again, however the network
\* brings it back: the AS that tx_update adds is found by rx_update in what
\* comes from a neighbour.
LoopDropped == Uniform /\ stage = "kept" => ~Contains(trace, my_as)

\* A neighbour reads in the AS_PATH just the ASes the route has passed.
PathIsTrace ==
  Uniform /\ stage = "sent" =>
    Len(PathAsRead) = Len(trace) /\ ToSet(PathAsRead) = ToSet(trace)

\* "put our as in as_path attribute" (fsm.cpp:303): a neighbour that gets a
\* route from us reads our AS in its AS_PATH.
OurAsInPath == stage = "sent" => Contains(PathAsRead, my_as)

\* Whether a route is originated is decided by the first entry for its
\* prefix that accepts or drops; the other conditions of an entry, and the
\* attributes earlier entries have set, do not change that, because there is
\* always an attribute they do not look at (routePolicyProcess).
Entries == origin.policy
Deciding ==
  {i \in 1..Len(Entries) : PrefixMatches(Entries[i], origin.prefix)
                           /\ Entries[i].action \in {"accept", "drop"}}
PrefixDecides ==
  origin # None /\ Entries # None =>
    (stored # None <=> Deciding # {} /\ Entries[Min(Deciding)].action = "accept")

\* What is read from a policy file and written again is read the same; a
\* prefix keeps the bits after its length, which make it another prefix.
PolicyRoundTrips ==
  origin # None /\ Entries # None =>
    \A i \in 1..Len(Entries) : Entries[i].action \in Action =>
      ReadPolicy([k \in {"entries"} |-> <<EncodeEntry(Entries[i])>>]) = {<<Entries[i]>>}

\* "match" (config.hpp:20): an entry accepts a route only when all of its
\* conditions hold for the attributes the route has when it gets there.
AcceptedByMatch ==
  origin # None /\ Entries # None /\ stored # None =>
    LET i     == Min(Deciding)
        attrs == routePolicyProcess(SubSeq(Entries, 1, i - 1), origin.prefix,
                                    DefaultAttributes({}, FALSE)).attrs
    IN \A k \in 1..Len(attrs) : ~Mismatch(Entries[i], attrs[k])
=============================================================================
