------------------------------- MODULE Paths -------------------------------
(***************************************************************************)
(* The operations of class bgp_table_v4 (table.cpp) on its multimap, as    *)
(* operators on a value T: T[p] is the sequence of the entries whose key   *)
(* is prefix p, in the order the multimap iterates over them.  Prefixes    *)
(* are 1..N in the order of operator< on NLRI, so iterating over the whole *)
(* table is going through T[1], T[2], ... in turn.                         *)
(*                                                                         *)
(* An attribute list is one member of Attr.  The shared pointer that holds *)
(* it is not kept: entries that share a pointer hold equal lists, and no   *)
(* code changes a list in place.  The time stamp and the constant isValid  *)
(* of an entry are left out.                                               *)
(***************************************************************************)
EXTENDS Integers, Sequences, SequencesExt, FiniteSetsExt

CONSTANTS
  N,          \* number of prefixes
  Peer,       \* the configured neighbours: their addresses, as numbers
  Local,      \* the null source of the routes the speaker originates
  Attr,       \* attribute lists of UPDATEs and of originated routes
  None,       \* absence of a value
  LocalPref,  \* [Attr -> value of LOCAL_PREF in the list, or None]
  Med,        \* [Attr -> value of MULTI_EXIT_DISC in the list, or None]
  Junk        \* what the bytes the code never initialises may hold:
              \*   flags  - flag bits of a LOCAL_PREF the table adds itself
              \*   origin - the byte get_origin() reads (None: no ORIGIN)
              \*   wide   - four_byte_asn of the LOCAL_PREF attribute

Prefix  == 1..N
Source  == Peer \cup {Local}
Attrs   == [attr : Attr, junk : Junk]
Path    == [attrs : Attrs, source : Source, isBest : BOOLEAN]
Table   == [Prefix -> Seq(Path)]

ASSUME NAssumption     == N \in Nat
ASSUME PeerAssumption  == Peer \subseteq Nat /\ Local \notin Peer
ASSUME AttrAssumption  == /\ None \notin Attr
                          /\ LocalPref \in [Attr -> Nat \cup {None}]
                          /\ Med \in [Attr -> Nat \cup {None}]
ASSUME JunkAssumption  ==
  Junk \subseteq [flags : BOOLEAN, origin : (0..255) \cup {None}, wide : BOOLEAN]

NewPath(a, n) == [attrs |-> a, source |-> n, isBest |-> FALSE]

-----------------------------------------------------------------------------
\* What the accessors of bgp_path return.

HasLocalPref(a) == LocalPref[a.attr] # None

get_local_pref(a) == IF HasLocalPref(a) THEN LocalPref[a.attr] ELSE 100

\* get_as_path() reads the LOCAL_PREF attribute as if it were an AS_PATH:
\* its four bytes are a segment header (type, length) and then AS numbers.
\* Only with two-byte numbers and a length of 1 is there one AS number.
AsPathSize(a) ==
  IF ~a.junk.wide /\ (get_local_pref(a) \div 65536) % 256 = 1 THEN 1 ELSE 0

\* One round of the comparison both selections make: does the entry take
\* the place of the best entry so far?  A test that loses, or that throws
\* because an attribute is missing, falls through to the next one.
Better(a, b) ==
  \/ get_local_pref(a) > get_local_pref(b)
  \/ AsPathSize(a) < AsPathSize(b)
  \/ /\ a.junk.origin # None /\ b.junk.origin # None
     /\ a.junk.origin < b.junk.origin
  \/ /\ Med[a.attr] # None /\ Med[b.attr] # None
     /\ Med[a.attr] > Med[b.attr]

\* A variant: of equal entries the last one wins.
WinnerLast(s) ==
  LET best[i \in 1..Len(s)] ==
        IF i = 1 THEN 1
        ELSE IF Better(s[best[i-1]].attrs, s[i].attrs) THEN best[i-1] ELSE i
  IN best[Len(s)]

\* The position the comparisons end with, going through s once.
Winner(s) ==
  LET best[i \in 1..Len(s)] ==
        IF i = 1 THEN 1
        ELSE IF Better(s[i].attrs, s[best[i-1]].attrs) THEN i ELSE best[i-1]
  IN best[Len(s)]

Mark(s, best) == [i \in 1..Len(s) |-> [s[i] EXCEPT !.isBest = (i \in best)]]

NonEmpty(T) == {p \in Prefix : T[p] # <<>>}

-----------------------------------------------------------------------------
\* best_path_selection( prefix ): exactly the winner is marked.  When the
\* prefix has no entry, equal_range gives the first entry of the next
\* prefix, and that entry is marked.
Select(T, p) ==
  LET later == {q \in NonEmpty(T) : q > p}
  IN IF T[p] # <<>>
       THEN [T EXCEPT ![p] = Mark(T[p], {Winner(T[p])})]
     ELSE IF later # {}
       THEN [T EXCEPT ![Min(later)] =
               [T[Min(later)] EXCEPT ![1] = [@ EXCEPT !.isBest = TRUE]]]
     ELSE T

\* A variant: nothing is marked in the last prefix.
SelectAllButLast(T) ==
  [p \in Prefix |->
     Mark(T[p], IF \E q \in NonEmpty(T) : q > p THEN {1, Winner(T[p])} ELSE {})]

\* best_path_selection(): the first entry of every prefix is marked, and
\* when the iteration moves on to another prefix, the winner of the prefix
\* it leaves.  Module BestPath has the loop.
SelectAll(T) ==
  [p \in Prefix |->
     IF T[p] = <<>> THEN <<>>
     ELSE Mark(T[p], IF \E q \in NonEmpty(T) : q > p
                       THEN {1, Winner(T[p])} ELSE {1})]

-----------------------------------------------------------------------------
\* Positions in the table, in the order of iteration.

Positions(T) == UNION {{p} \X (1..Len(T[p])) : p \in Prefix}

At(T, e) == T[e[1]][e[2]]

\* The first of a set E of positions.
FirstOf(E) ==
  LET p == Min({e[1] : e \in E})
  IN <<p, Min({i \in {e[2] : e \in E} : <<p, i>> \in E})>>

\* operator== on attribute lists: it compares the flag bits, which nobody
\* set in a LOCAL_PREF the table has added.
SameAttrs(a, b) ==
  /\ a.attr = b.attr
  /\ HasLocalPref(a) \/ a.junk.flags = b.junk.flags

\* add_path: replace the entry of the prefix that has this source; else, if
\* any entry of the table has an equal attribute list, insert a copy of that
\* entry, its source included; else insert a new entry.
AddPath(T, p, a, n) ==
  LET mine == {i \in 1..Len(T[p]) : T[p][i].source = n}
      same == {e \in Positions(T) : SameAttrs(At(T, e).attrs, a)}
      new  == IF same = {} THEN NewPath(a, n) ELSE At(T, FirstOf(same))
      U    == IF mine # {}
                THEN [T EXCEPT ![p] =
                        [T[p] EXCEPT ![Min(mine)] = [@ EXCEPT !.attrs = a]]]
                ELSE [T EXCEPT ![p] = Append(T[p], new)]
  IN Select(U, p)

\* A variant: the source is not compared.
DelAnyPath(T, p, n) ==
  IF T[p] = <<>> THEN T ELSE Select([T EXCEPT ![p] = Tail(T[p])], p)

\* del_path: from the first entry of the prefix on, to the end of the table
\* and not to the end of the prefix, erase the first entry that has this
\* source.
DelPath(T, p, n) ==
  LET mine == {e \in Positions(T) : e[1] >= p /\ At(T, e).source = n}
      e    == FirstOf(mine)
  IN IF T[p] = <<>> \/ mine = {} THEN T
     ELSE Select([T EXCEPT ![e[1]] = RemoveAt(T[e[1]], e[2])], p)

\* purge_peer: erase the entries that have this source.
KeepOther(kept, e, n) == IF e.source = n THEN kept ELSE Append(kept, e)

Without(s, n) ==
  LET kept[i \in 0..Len(s)] ==
        IF i = 0 THEN <<>> ELSE KeepOther(kept[i-1], s[i], n)
  IN kept[Len(s)]

PurgePeer(T, n) == [p \in Prefix |-> Without(T[p], n)]
=============================================================================
