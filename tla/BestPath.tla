------------------------------ MODULE BestPath ------------------------------
(***************************************************************************)
(* The loop of bgp_table_v4::best_path_selection(), one action for each of *)
(* its rounds, on any small table.  Rib uses the operator SelectAll for    *)
(* the call; this module checks that the loop computes it.                 *)
(*                                                                         *)
(* An iterator is a position <<prefix, index>>, or End for table.end().    *)
(* Writing through end() is undefined: the write lands in the members of   *)
(* the table object after the multimap.  It is counted in stray and, as in *)
(* a build where these bytes do not matter, changes nothing else.          *)
(***************************************************************************)
EXTENDS Paths

CONSTANTS
  MaxLen,       \* bound: entries per prefix
  AsPathLength  \* [Attr -> number of AS numbers in the AS_PATH of the list]

ASSUME MaxLenAssumption == MaxLen \in Nat
ASSUME AsPathLengthAssumption == AsPathLength \in [Attr -> Nat]

VARIABLES
  given,           \* the table before the call
  table,
  current_prefix,  \* 0: a value that is no prefix of the table
  best,            \* iterator
  currentIt,       \* iterator
  returned,        \* the call has returned
  stray            \* writes through end()

vars == <<given, table, current_prefix, best, currentIt, returned, stray>>

End == <<N + 1, 1>>
Iterator == {<<p, i>> : p \in Prefix, i \in 1..MaxLen} \cup {End}

SmallTable ==
  [Prefix -> UNION {[1..k -> {NewPath(a, n) : a \in Attrs, n \in Peer}] : k \in 0..MaxLen}]

TypeOK ==
  /\ given \in SmallTable
  /\ DOMAIN table = Prefix
  /\ \A p \in Prefix : table[p] \in Seq(Path)
  /\ current_prefix \in 0..N
  /\ best \in Iterator /\ currentIt \in Iterator
  /\ returned \in BOOLEAN /\ stray \in 0..N+1

\* A variant: indices from zero.
FirstFromZero(p) ==
  LET rest == {q \in NonEmpty(table) : q >= p}
  IN IF rest = {} THEN End ELSE <<Min(rest), 0>>

\* The iterator after e, and the first one, when prefixes may be empty.
FirstFrom(p) ==
  LET rest == {q \in NonEmpty(table) : q >= p}
  IN IF rest = {} THEN End ELSE <<Min(rest), 1>>

\* A variant: the last entry of a prefix is skipped.
FollowingButLast(e) ==
  IF e[2] + 1 < Len(table[e[1]]) THEN <<e[1], e[2] + 1>> ELSE FirstFrom(e[1] + 1)

Following(e) ==
  IF e[2] < Len(table[e[1]]) THEN <<e[1], e[2] + 1>> ELSE FirstFrom(e[1] + 1)

\* The members of a default NLRI are not initialised, except for the empty
\* address: it may be equal to the default route, the smallest prefix.
Init ==
  /\ given \in SmallTable
  /\ table = given
  /\ current_prefix \in {0, 1} \cap 0..N
  /\ best = End
  /\ currentIt = FirstFrom(1)
  /\ returned = FALSE
  /\ stray = 0

SetBest(T, e, b) == [T EXCEPT ![e[1]] = [T[e[1]] EXCEPT ![e[2]] = [@ EXCEPT !.isBest = b]]]

Round ==
  LET e      == currentIt
      moved  == current_prefix # e[1]
      \* leaving a prefix: its best entry is marked
      b0     == IF moved THEN End ELSE best
      T0     == IF moved /\ best # End THEN SetBest(table, best, TRUE) ELSE table
      \* entering one: its first entry is the best so far
      b1     == IF b0 = End THEN e ELSE b0
      T1     == SetBest(T0, e, b1 = e)
      wins   == b1 # e /\ Better(At(T1, e).attrs, At(T1, b1).attrs)
  IN /\ currentIt # End
     /\ current_prefix' = e[1]
     /\ stray' = IF moved /\ best = End THEN stray + 1 ELSE stray
     /\ table' = T1
     /\ best' = IF wins THEN e ELSE b1
     /\ currentIt' = Following(e)
     /\ UNCHANGED <<given, returned>>

Return ==
  /\ currentIt = End /\ ~returned
  /\ stray' = IF best = End THEN stray + 1 ELSE stray
  /\ returned' = TRUE
  /\ UNCHANGED <<given, table, current_prefix, best, currentIt>>

Next == Round \/ Return

Spec == Init /\ [][Next]_vars

-----------------------------------------------------------------------------
\* The loop computes SelectAll, for every table: it marks the first entry of
\* every prefix beside the winner, and misses the winner of the last prefix
\* (best_path_selection, table.cpp).
LoopIsSelectAll == returned => table = SelectAll(given)

\* The two selections agree on the winner: what best_path_selection( prefix )
\* alone would mark is marked by the whole-table selection as well, in every
\* prefix but the last one that has entries.
SelectionsAgree ==
  returned => \A p \in NonEmpty(given) :
    (\E q \in NonEmpty(given) : q > p) =>
      \A i \in 1..Len(given[p]) :
        Select(given, p)[p][i].isBest => table[p][i].isBest

\* get_as_path() says it is about the attribute "AS_PATH" (table.cpp:63) and
\* best_path_selection prefers the smaller one (table.cpp:234): among the
\* entries of a prefix that have one LOCAL_PREF, one with the only shortest
\* AS_PATH is marked.
ShorterAsPathIsBest ==
  returned => \A p \in NonEmpty(given) :
    (\E q \in NonEmpty(given) : q > p) =>
      \A i \in 1..Len(table[p]) :
        (\A j \in (1..Len(table[p])) \ {i} :
           /\ get_local_pref(table[p][i].attrs) = get_local_pref(table[p][j].attrs)
           /\ AsPathLength[table[p][i].attrs.attr] < AsPathLength[table[p][j].attrs.attr])
        => table[p][i].isBest
=============================================================================
