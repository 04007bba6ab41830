------------------------------- MODULE RelayMC -------------------------------
(***************************************************************************)
(* Values of the constants of Relay for TLC: two neighbours, in every      *)
(* combination of four kinds of session; messages at the boundaries of a   *)
(* byte, with wrong prefix lengths, and with attributes of both kinds of   *)
(* length; policies that match and do not, in one and two entries.         *)
(***************************************************************************)
EXTENDS Relay

CONSTANT none

Kind(w, e, p) == [wide |-> w, ext |-> e, packed |-> p]
Kinds == {Kind(TRUE, FALSE, FALSE), Kind(FALSE, FALSE, FALSE),
          Kind(TRUE, TRUE, FALSE), Kind(TRUE, FALSE, TRUE)}
MCSessions ==
  {[n \in {1, 2} |-> [as |-> n + 1] @@ k[n]] : k \in [{1, 2} -> Kinds]}

\* Sessions that differ in the width of the AS numbers and in nothing else.
WidthSessions == {s \in MCSessions : \A n \in {1, 2} : ~s[n].ext /\ ~s[n].packed}

\* 65538 is 2 in 16 bits, which is the AS of neighbour 1.
MCOwnAs == {1, 65538}

Net(bits, data) == [nlri_len |-> bits, data |-> data]
Attribute(flags, type, bytes) ==
  [flags |-> flags, type |-> type, bytes |-> bytes, four_byte_asn |-> FALSE]

OriginHop == <<Attribute({"transitive"}, PATH_ATTRIBUTE.ORIGIN, <<0>>),
               Attribute({"transitive"}, PATH_ATTRIBUTE.NEXT_HOP, <<10, 0, 0, 9>>)>>
LongMed   == <<Attribute({"optional", "extended_length"}, PATH_ATTRIBUTE.MULTI_EXIT_DISC,
                         <<0, 0, 0, 7>>)>>

Says(w, a, r) == [withdrawn |-> w, attrs |-> a, routes |-> r]

MCAnnounced ==
  {Says(<<>>, OriginHop, <<Net(16, <<10, 1>>)>>),
   Says(<<Net(8, <<10>>), Net(0, <<>>)>>, OriginHop \o LongMed,
        <<Net(25, <<10, 2, 3, 128>>), Net(0, <<>>)>>),
   Says(<<Net(9, <<10, 128>>)>>, LongMed, <<>>),
   Says(<<Net(8, <<10>>), Net(24, <<10>>)>>, OriginHop, <<Net(8, <<10>>)>>),
   Says(<<Net(8, <<10>>)>>, OriginHop, <<Net(8, <<11>>), Net(17, <<10, 1>>)>>),
   Says(<<Net(24, <<10, 1>>), Net(8, <<10>>)>>, OriginHop, <<Net(7, <<10, 8>>), Net(32, <<10>>)>>)}

MCLocalAddress == <<10, 0, 0, 1>>

Here    == [address |-> <<1, 2, 3, 4>>, bits |-> 32]
There   == [address |-> <<6, 6, 6, 6>>, bits |-> 32]
Wrapped == [Here EXCEPT !.bits = 288]
TooLong == [Here EXCEPT !.bits = 33]
Half    == [Here EXCEPT !.bits = 15]

EntryOf(prefix, action, more) ==
  ("match_prefix_v4" :> prefix) @@ ("action" :> action) @@ more
Nodes ==
  {EntryOf(Wrapped, "accept", "set_localpref" :> 250),
   EntryOf(Here, "pass", "set_localpref" :> 250),
   EntryOf(There, "accept", "set_nexthop" :> <<10, 0, 0, 5>>),
   EntryOf(Here, "accept", "match_localpref" :> 250),
   EntryOf(Half, "drop", "match_nexthop" :> <<10, 0, 0, 5>>),
   EntryOf(TooLong, "drop", <<>>),
   "action" :> "acept",
   "set_localpref" :> 250}

One == {[k \in {"entries"} |-> <<n>>] : n \in Nodes}
Two == {[k \in {"entries"} |-> <<n, m>>] : n, m \in Nodes}
MCOriginated ==
  {[prefix |-> Here, policy |-> p] : p \in {none, <<>>} \cup One \cup Two}
  \cup {[prefix |-> Half, policy |-> p] : p \in One}
  \cup UNION {Generated(junk) : junk \in Action \cup {"other"}}

NoRoutes == {}

MCJunkFlags == {{}, {"optional", "extended_length"}}
=============================================================================
