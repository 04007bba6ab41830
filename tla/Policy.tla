------------------------------- MODULE Policy -------------------------------
(***************************************************************************)
(* The routes the speaker originates: what yaml.cpp makes of a policy      *)
(* file and writes to one, routePolicyProcess (route_policy.cpp), and the  *)
(* constructor of bgp_table_v4 that applies it.  A node of a file is a     *)
(* function from the keys that are there to their values; a prefix in a    *)
(* file is an address of four bytes and a number of bits.                  *)
(***************************************************************************)
EXTENDS Attributes

CONSTANTS
  None,         \* an optional without a value
  JunkFlags     \* the flags that a path_attr_t nobody initialised may have

ASSUME FlagsAssumption == JunkFlags \subseteq SUBSET Flag
ASSUME NoneAssumption  == None \notin Seq(path_attr_t)

Action   == {"accept", "drop", "pass"}
Optional == {"match_prefix_v4", "match_nexthop", "match_localpref",
             "set_nexthop", "set_localpref"}
Key      == Optional \cup {"action"}

\* A prefix in a file, and an entry.
IsText(text) == text.address \in Seq(Byte) /\ Len(text.address) = 4 /\ text.bits \in Nat
IsNode(node) ==
  /\ "match_prefix_v4" \in DOMAIN node => IsText(node["match_prefix_v4"])
  /\ "set_localpref" \in DOMAIN node => node["set_localpref"] \in Nat
  /\ "set_nexthop" \in DOMAIN node => node["set_nexthop"] \in Seq(Byte)

-----------------------------------------------------------------------------
\* YAML.

\* The number of bits is kept in one byte; the bits after it are kept too.
ParsePrefix(text) ==
  LET bits == text.bits % 256
  IN [nlri_len |-> bits, data |-> SubSeq(text.address, 1, BytesOf(bits))]
PrefixThrows(text) == BytesOf(text.bits % 256) > 4

PrefixText(prefix) ==
  [address |-> prefix.data \o [i \in 1..(4 - Len(prefix.data)) |-> 0], bits |-> prefix.nlri_len]

\* A word that is no action leaves the member uninitialised; a value that is
\* none of the three behaves like no action at all.
DecodeAction(word, junk) == IF word \in Action THEN word ELSE junk

DecodeEntry(node, junk) ==
  [key \in Key |->
     IF key \notin DOMAIN node THEN None
     ELSE CASE key = "action"          -> DecodeAction(node[key], junk)
            [] key = "match_prefix_v4" -> ParsePrefix(node[key])
            [] OTHER -> node[key]]

\* An action that is none of the three leaves the node without a value.
EncodeAction(action) == IF action \in Action THEN action ELSE "null"

\* A variant: the next hop to set is written from the one to match.
EncodeCopied(entry) ==
  [key \in {k \in Optional : entry[k] # None} \cup {"action"} |->
     CASE key = "action"          -> EncodeAction(entry[key])
       [] key = "match_prefix_v4" -> PrefixText(entry[key])
       [] key = "set_nexthop"     -> entry["match_nexthop"]
       [] OTHER -> entry[key]]

EncodeEntry(entry) ==
  [key \in {k \in Optional : entry[k] # None} \cup {"action"} |->
     CASE key = "action"          -> EncodeAction(entry[key])
       [] key = "match_prefix_v4" -> PrefixText(entry[key])
       [] OTHER -> entry[key]]

\* A file without a list of entries, or with an entry that has no action or
\* a prefix that is none, throws: the constructor of the table goes on with
\* a policy that has no entry.
Readable(file) ==
  /\ "entries" \in DOMAIN file
  /\ \A i \in 1..Len(file["entries"]) :
       LET node == file["entries"][i]
       IN "action" \in DOMAIN node
          /\ ("match_prefix_v4" \in DOMAIN node => ~PrefixThrows(node["match_prefix_v4"]))

\* What may be read from a file, or from no file.
ReadPolicy(file) ==
  IF Readable(file)
    THEN LET nodes == file["entries"]
         IN {[i \in 1..Len(nodes) |-> DecodeEntry(nodes[i], junk[i])] :
               junk \in [1..Len(nodes) -> Action \cup {"other"}]}
    ELSE {<<>>}

LoadPolicy(file) == IF file = None THEN {None} ELSE ReadPolicy(file)

\* config_init: the two routes of a generated configuration, and the policy
\* file of the second, written with an action nobody has set.
Generated(junk) ==
  LET here == [address |-> <<1, 2, 3, 4>>, bits |-> 32]
  IN {[prefix |-> here, policy |-> None],
      [prefix |-> [here EXCEPT !.address = <<6, 6, 6, 6>>],
       policy |-> [k \in {"entries"} |->
                     <<EncodeEntry([key \in Key |-> CASE key = "match_prefix_v4" -> ParsePrefix(here)
                                                    [] key = "set_localpref" -> 250
                                                    [] key = "action" -> junk
                                                    [] OTHER -> None])>>]]}

-----------------------------------------------------------------------------
\* routePolicyProcess.

PrefixMatches(entry, prefix) == entry.match_prefix_v4 \in {None, prefix}

\* The conditions of an entry are looked at one attribute at a time.
Mismatch(entry, a) ==
  \/ /\ a.type = PATH_ATTRIBUTE.NEXT_HOP /\ entry.match_nexthop # None
     /\ get_u32(a) # Number(entry.match_nexthop)
  \/ /\ a.type = PATH_ATTRIBUTE.LOCAL_PREF /\ entry.match_localpref # None
     /\ get_u32(a) # entry.match_localpref

Changed(entry, a) ==
  CASE a.type = PATH_ATTRIBUTE.LOCAL_PREF /\ entry.set_localpref # None ->
         make_local_pref(a, entry.set_localpref)
    [] a.type = PATH_ATTRIBUTE.NEXT_HOP /\ entry.set_nexthop # None ->
         make_nexthop(a, entry.set_nexthop)
    [] OTHER -> a

\* A variant: an entry that passes ends the search too.
AnyVerdict(entry) == IF entry.action = "accept" THEN "accept" ELSE "drop"

Verdict(entry) == IF entry.action \in {"accept", "drop"} THEN entry.action ELSE "none"

\* A mismatch goes on to the next attribute, not to the next entry; the
\* first attribute without one decides.
ApplyToAttribute(run, entry, i) ==
  IF run.verdict # "none" \/ Mismatch(entry, run.attrs[i]) THEN run
  ELSE [attrs |-> [run.attrs EXCEPT ![i] = Changed(entry, @)], verdict |-> Verdict(entry)]

ApplyEntry(run, entry, prefix) ==
  LET after[i \in 0..Len(run.attrs)] ==
        IF i = 0 THEN run ELSE ApplyToAttribute(after[i-1], entry, i)
  IN IF PrefixMatches(entry, prefix) THEN after[Len(run.attrs)] ELSE run

\* Without a verdict at the end the route is dropped.
routePolicyProcess(policy, prefix, attrs) ==
  LET after[i \in 0..Len(policy)] ==
        IF i = 0 THEN [attrs |-> attrs, verdict |-> "none"]
        ELSE ApplyEntry(after[i-1], policy[i], prefix)
  IN after[Len(policy)]

-----------------------------------------------------------------------------
\* The constructor of bgp_table_v4, for one route.

\* The three attributes are made in one object, one after the other: the
\* flags nobody sets stay what they were.
DefaultAttributes(flags, width) ==
  LET blank == [flags |-> flags, type |-> 0, bytes |-> <<>>, four_byte_asn |-> width]
      pref  == make_local_pref(blank, 100)
      orig  == make_origin(pref, 0)
  IN <<pref, orig, make_nexthop(orig, <<0, 0, 0, 0>>)>>

\* The attributes a prefix enters the table with under a policy, or None
\* when it does not.
Originate(prefix, policy, flags, width) ==
  LET attrs == DefaultAttributes(flags, width)
      done  == routePolicyProcess(policy, prefix, attrs)
  IN CASE policy = None -> attrs
       [] policy # None /\ done.verdict = "accept" -> done.attrs
       [] OTHER -> None
=============================================================================
