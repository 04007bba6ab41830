---------------------------- MODULE PathsProofs ----------------------------
(***************************************************************************)
(* Lemmas about the operators of Paths: each one returns a table, and its  *)
(* effect is stated apart from the marks of the best paths.                *)
(***************************************************************************)
EXTENDS Paths, NumbersAndLists

\* Two tables with the same entries, marks aside.
SameEntries(s, t) ==
  /\ Len(s) = Len(t)
  /\ \A i \in 1..Len(s) : s[i].attrs = t[i].attrs /\ s[i].source = t[i].source

SameRoutes(T, U) == \A p \in Prefix : SameEntries(T[p], U[p])

-----------------------------------------------------------------------------
\* FirstOf picks a position of the set, in the first prefix of the set.
LEMMA FirstOfIsFirst ==
  ASSUME NEW E \in SUBSET (Nat \X Nat), E # {}
  PROVE  /\ FirstOf(E) \in E
         /\ \A e \in E : FirstOf(E)[1] <= e[1]
<1> DEFINE P == {e[1] : e \in E}
           p == Min(P)
           I == {i \in {e[2] : e \in E} : <<p, i>> \in E}
<1>1. P \in SUBSET Nat /\ P # {}
  OBVIOUS
<1>2. p \in P /\ \A y \in P : p <= y
  <2> HIDE DEF P
  <2> QED BY <1>1, MinIsLeast
<1>3. I \in SUBSET Nat
  OBVIOUS
<1>4. I # {}
  <2>1. PICK e \in E : e[1] = p
    BY <1>2
  <2>2. e = <<p, e[2]>>
    BY <2>1
  <2> QED BY <2>2
<1>5. Min(I) \in I
  <2> HIDE DEF I
  <2> QED BY <1>3, <1>4, MinIsLeast
<1>6. FirstOf(E) = <<p, Min(I)>>
  BY Zenon DEF FirstOf
<1>7. <<p, Min(I)>> \in E
  <2> HIDE DEF p
  <2> QED BY <1>5
<1>8. \A e \in E : p <= e[1]
  <2>1. \A e \in E : e[1] \in P
    OBVIOUS
  <2> HIDE DEF p, P
  <2> QED BY <1>2, <2>1
<1> HIDE DEF p, P, I
<1> QED BY <1>6, <1>7, <1>8

-----------------------------------------------------------------------------
\* Setting the mark of an entry leaves the entry otherwise as it was.
LEMMA MarkedPath ==
  ASSUME NEW e \in Path, NEW b \in BOOLEAN
  PROVE  /\ [e EXCEPT !.isBest = b] \in Path
         /\ [e EXCEPT !.isBest = b].attrs = e.attrs
         /\ [e EXCEPT !.isBest = b].source = e.source
  BY DEF Path

\* Mark changes nothing but marks.
LEMMA MarkEntries ==
  ASSUME NEW s \in Seq(Path), NEW best
  PROVE  Mark(s, best) \in Seq(Path) /\ SameEntries(s, Mark(s, best))
<1>1. \A i \in 1..Len(s) : s[i] \in Path
  OBVIOUS
<1>2. \A i \in 1..Len(s) : LET q == [s[i] EXCEPT !.isBest = (i \in best)]
                           IN q \in Path /\ q.attrs = s[i].attrs /\ q.source = s[i].source
  <2> TAKE i \in 1..Len(s)
  <2>1. s[i] \in Path
    BY <1>1
  <2>2. (i \in best) \in BOOLEAN
    OBVIOUS
  <2> QED BY <2>1, <2>2, MarkedPath, Zenon
<1>3. DOMAIN Mark(s, best) = 1..Len(s)
  BY DEF Mark
<1>4. \A i \in 1..Len(s) : Mark(s, best)[i] = [s[i] EXCEPT !.isBest = (i \in best)]
  BY DEF Mark
<1>5. Mark(s, best) \in [1..Len(s) -> Path]
  BY <1>2 DEF Mark
<1>6. Mark(s, best) \in Seq(Path) /\ Len(Mark(s, best)) = Len(s)
  BY <1>5
<1> QED BY <1>2, <1>4, <1>6 DEF SameEntries

\* A list of entries has the same entries as itself.
LEMMA SameEntriesRefl == \A s : SameEntries(s, s)
  BY DEF SameEntries

\* A table has a sequence of entries for every prefix.
LEMMA TableAt ==
  ASSUME NEW T \in Table, NEW p \in Prefix
  PROVE  /\ T[p] \in Seq(Path) /\ Len(T[p]) \in Nat
         /\ T[p] = <<>> <=> Len(T[p]) = 0
         /\ \A i \in 1..Len(T[p]) : T[p][i] \in Path
<1>1. T[p] \in Seq(Path)
  BY DEF Table
<1> QED BY <1>1

\* Replacing the entries of one prefix by the same ones, marked otherwise.
LEMMA ReplaceSame ==
  ASSUME NEW T \in Table, NEW p \in Prefix, NEW s \in Seq(Path), SameEntries(T[p], s)
  PROVE  [T EXCEPT ![p] = s] \in Table /\ SameRoutes(T, [T EXCEPT ![p] = s])
<1>1. [T EXCEPT ![p] = s] \in Table
  BY DEF Table
<1>2. \A q \in Prefix : SameEntries(T[q], [T EXCEPT ![p] = s][q])
  <2> TAKE q \in Prefix
  <2>1. CASE q = p
    BY <2>1 DEF Table
  <2>2. CASE q # p
    BY <2>2, SameEntriesRefl DEF Table
  <2> QED BY <2>1, <2>2
<1> QED BY <1>1, <1>2 DEF SameRoutes

\* best_path_selection( prefix ) changes nothing but marks.
LEMMA SelectRoutes ==
  ASSUME NEW T \in Table, NEW p \in Prefix
  PROVE  Select(T, p) \in Table /\ SameRoutes(T, Select(T, p))
<1> DEFINE later == {q \in NonEmpty(T) : q > p}
<1>1. CASE T[p] # <<>>
  <2>1. T[p] \in Seq(Path)
    BY TableAt
  <2>2. /\ Mark(T[p], {Winner(T[p])}) \in Seq(Path)
        /\ SameEntries(T[p], Mark(T[p], {Winner(T[p])}))
    BY <2>1, MarkEntries
  <2>3. Select(T, p) = [T EXCEPT ![p] = Mark(T[p], {Winner(T[p])})]
    BY <1>1 DEF Select
  <2> QED BY <2>2, <2>3, ReplaceSame
<1>2. CASE T[p] = <<>> /\ later # {}
  <2> DEFINE q == Min(later)
             s == [T[q] EXCEPT ![1] = [@ EXCEPT !.isBest = TRUE]]
  <2>1. later \in SUBSET Nat
    BY NAssumption DEF NonEmpty, Prefix
  <2>2. q \in later
    <3> HIDE DEF later
    <3> QED BY <1>2, <2>1, MinIsLeast
  <2>3. q \in Prefix /\ T[q] # <<>>
    BY <2>2 DEF NonEmpty
  <2> HIDE DEF q
  <2>4. /\ T[q] \in Seq(Path) /\ 1 \in 1..Len(T[q]) /\ T[q][1] \in Path
    BY <2>3, TableAt
  <2>5. LET e == [T[q][1] EXCEPT !.isBest = TRUE]
        IN e \in Path /\ e.attrs = T[q][1].attrs /\ e.source = T[q][1].source
    BY <2>4 DEF Path
  <2>6. s \in Seq(Path) /\ Len(s) = Len(T[q])
    BY <2>4, <2>5
  <2>7. SameEntries(T[q], s)
    BY <2>4, <2>5, <2>6 DEF SameEntries
  <2>8. Select(T, p) = [T EXCEPT ![q] = s]
    BY <1>2 DEF Select, q
  <2> HIDE DEF s
  <2> QED BY <2>3, <2>6, <2>7, <2>8, ReplaceSame
<1>3. CASE T[p] = <<>> /\ later = {}
  <2>1. Select(T, p) = T
    BY <1>3 DEF Select
  <2> QED BY <2>1, SameEntriesRefl DEF SameRoutes
<1> QED BY <1>1, <1>2, <1>3

\* best_path_selection() changes nothing but marks.
LEMMA SelectAllRoutes ==
  ASSUME NEW T \in Table
  PROVE  SelectAll(T) \in Table /\ SameRoutes(T, SelectAll(T))
<1>1. \A p \in Prefix : SelectAll(T)[p] \in Seq(Path) /\ SameEntries(T[p], SelectAll(T)[p])
  <2> TAKE p \in Prefix
  <2>1. T[p] \in Seq(Path)
    BY TableAt
  <2>2. CASE T[p] = <<>>
    <3>1. SelectAll(T)[p] = T[p]
      BY <2>2 DEF SelectAll
    <3> QED BY <3>1, <2>1, SameEntriesRefl
  <2>3. CASE T[p] # <<>>
    <3>1. PICK best : SelectAll(T)[p] = Mark(T[p], best)
      BY <2>3, Zenon DEF SelectAll
    <3> QED BY <3>1, <2>1, MarkEntries
  <2> QED BY <2>2, <2>3
<1>2. SelectAll(T) = [p \in Prefix |-> SelectAll(T)[p]]
  BY DEF SelectAll
<1> QED BY <1>1, <1>2 DEF Table, SameRoutes
-----------------------------------------------------------------------------
\* The positions of the table are those of its entries.
LEMMA PositionsType ==
  ASSUME NEW T \in Table
  PROVE  /\ Positions(T) \in SUBSET (Nat \X Nat)
         /\ \A e : e \in Positions(T) <=>
              \E p \in Prefix : \E i \in 1..Len(T[p]) : e = <<p, i>>
         /\ \A e \in Positions(T) : /\ e[1] \in Prefix
                                    /\ e[2] \in 1..Len(T[e[1]])
                                    /\ At(T, e) \in Path
<1>1. \A e : e \in Positions(T) <=>
        \E p \in Prefix : \E i \in 1..Len(T[p]) : e = <<p, i>>
  BY DEF Positions
<1>2. \A p \in Prefix : Len(T[p]) \in Nat /\ \A i \in 1..Len(T[p]) : T[p][i] \in Path
  BY TableAt
<1>3. Prefix \subseteq Nat
  BY NAssumption DEF Prefix
<1>4. \A e \in Positions(T) : e \in Nat \X Nat
  BY <1>1, <1>2, <1>3
<1>5. \A e \in Positions(T) : /\ e[1] \in Prefix
                              /\ e[2] \in 1..Len(T[e[1]])
                              /\ At(T, e) \in Path
  BY <1>1, <1>2 DEF At
<1> QED BY <1>1, <1>4, <1>5

\* What add_path does to the entries: it replaces one of the neighbour's, or
\* appends a new one or a copy of one that has an equal list.
Replaced(s, t, a, n) ==
  \E k \in 1..Len(s) :
    /\ s[k].source = n
    /\ Len(t) = Len(s)
    /\ t[k].source = n /\ t[k].attrs = a
    /\ \A i \in (1..Len(s)) \ {k} : t[i] = s[i]

Appended(T, s, t, a, n) ==
  /\ \A i \in 1..Len(s) : s[i].source # n
  /\ Len(t) = Len(s) + 1
  /\ \A i \in 1..Len(s) : t[i] = s[i]
  /\ \/ t[Len(s) + 1] = NewPath(a, n)
     \/ \E e \in Positions(T) :
          At(T, e).attrs.attr = a.attr /\ t[Len(s) + 1] = At(T, e)

\* add_path changes the entries of its prefix only: it replaces the entry of the source,
\* or appends one, new or copied.
LEMMA AddPathRoutes ==
  ASSUME NEW T \in Table, NEW p \in Prefix, NEW a \in Attrs, NEW n \in Source
  PROVE  /\ AddPath(T, p, a, n) \in Table
         /\ \E U \in Table :
              /\ SameRoutes(U, AddPath(T, p, a, n))
              /\ \A q \in Prefix \ {p} : U[q] = T[q]
              /\ Replaced(T[p], U[p], a, n) \/ Appended(T, T[p], U[p], a, n)
<1> DEFINE mine == {i \in 1..Len(T[p]) : T[p][i].source = n}
           same == {e \in Positions(T) : SameAttrs(At(T, e).attrs, a)}
           new  == IF same = {} THEN NewPath(a, n) ELSE At(T, FirstOf(same))
           R    == [T EXCEPT ![p] = [T[p] EXCEPT ![Min(mine)] = [@ EXCEPT !.attrs = a]]]
           A    == [T EXCEPT ![p] = Append(T[p], new)]
<1>1. /\ T[p] \in Seq(Path) /\ Len(T[p]) \in Nat
      /\ \A i \in 1..Len(T[p]) : T[p][i] \in Path
  BY TableAt
<1>2. SUFFICES \E U \in Table :
                 /\ AddPath(T, p, a, n) = Select(U, p)
                 /\ \A q \in Prefix \ {p} : U[q] = T[q]
                 /\ Replaced(T[p], U[p], a, n) \/ Appended(T, T[p], U[p], a, n)
  BY SelectRoutes
<1>3. CASE mine # {}
  <2> DEFINE k == Min(mine)
             s == [T[p] EXCEPT ![k] = [@ EXCEPT !.attrs = a]]
  <2>1. k \in mine
    <3>1. mine \in SUBSET Nat
      OBVIOUS
    <3> HIDE DEF mine
    <3> QED BY <1>3, <3>1, MinIsLeast
  <2>2. k \in 1..Len(T[p]) /\ T[p][k].source = n
    BY <2>1
  <2> HIDE DEF k
  <2>3. LET e == [T[p][k] EXCEPT !.attrs = a]
        IN e \in Path /\ e.attrs = a /\ e.source = T[p][k].source
    BY <1>1, <2>2 DEF Path
  <2>4. s \in Seq(Path) /\ Len(s) = Len(T[p])
    BY <1>1, <2>2, <2>3
  <2>5. Replaced(T[p], s, a, n)
    BY <1>1, <2>2, <2>3, <2>4 DEF Replaced
  <2>6. AddPath(T, p, a, n) = Select([T EXCEPT ![p] = s], p)
    BY <1>3, Zenon DEF AddPath, k
  <2> HIDE DEF s
  <2>7. [T EXCEPT ![p] = s] \in Table
    BY <2>4 DEF Table
  <2>8. /\ [T EXCEPT ![p] = s][p] = s
        /\ \A q \in Prefix \ {p} : [T EXCEPT ![p] = s][q] = T[q]
    BY DEF Table
  <2> QED BY <2>5, <2>6, <2>7, <2>8
<1>4. CASE mine = {}
  <2> DEFINE s == Append(T[p], new)
  <2>1. \A i \in 1..Len(T[p]) : T[p][i].source # n
    BY <1>4
  <2>2. /\ new \in Path
        /\ \/ new = NewPath(a, n)
           \/ \E e \in Positions(T) : At(T, e).attrs.attr = a.attr /\ new = At(T, e)
    <3>1. CASE same = {}
      BY <3>1 DEF NewPath, Path
    <3>2. CASE same # {}
      <4>1. same \in SUBSET (Nat \X Nat)
        BY PositionsType
      <4>2. FirstOf(same) \in same
        <5> HIDE DEF same
        <5> QED BY <3>2, <4>1, FirstOfIsFirst
      <4>3. /\ FirstOf(same) \in Positions(T)
            /\ At(T, FirstOf(same)).attrs.attr = a.attr
        BY <4>2 DEF SameAttrs
      <4>4. At(T, FirstOf(same)) \in Path
        BY <4>3, PositionsType
      <4>5. new = At(T, FirstOf(same))
        BY <3>2
      <4> HIDE DEF new, same
      <4> QED BY <4>3, <4>4, <4>5
    <3> QED BY <3>1, <3>2
  <2>3. AddPath(T, p, a, n) = Select([T EXCEPT ![p] = s], p)
    BY <1>4, Zenon DEF AddPath
  <2> HIDE DEF new
  <2>4. /\ s \in Seq(Path) /\ Len(s) = Len(T[p]) + 1
        /\ s[Len(T[p]) + 1] = new
        /\ \A i \in 1..Len(T[p]) : s[i] = T[p][i]
    BY <1>1, <2>2
  <2> HIDE DEF s
  <2>5. Appended(T, T[p], s, a, n)
    BY <2>1, <2>2, <2>4 DEF Appended
  <2>6. [T EXCEPT ![p] = s] \in Table
    BY <2>4 DEF Table
  <2>7. /\ [T EXCEPT ![p] = s][p] = s
        /\ \A q \in Prefix \ {p} : [T EXCEPT ![p] = s][q] = T[q]
    BY DEF Table
  <2> QED BY <2>3, <2>5, <2>6, <2>7
<1> QED BY <1>3, <1>4
-----------------------------------------------------------------------------
\* Erasing the entry at position k closes the gap and keeps the order.
Erased(s, t, k) ==
  /\ Len(t) = Len(s) - 1
  /\ \A i \in 1..(k-1) : t[i] = s[i]
  /\ \A i \in k..Len(t) : t[i] = s[i+1]

\* Removing an element shifts those after it and leaves the others.
LEMMA RemoveAtErases ==
  ASSUME NEW s \in Seq(Path), NEW k \in 1..Len(s)
  PROVE  RemoveAt(s, k) \in Seq(Path) /\ Erased(s, RemoveAt(s, k), k)
<1> DEFINE l == SubSeq(s, 1, k-1)
           r == SubSeq(s, k+1, Len(s))
<1>1. /\ l \in Seq(Path) /\ Len(l) = k - 1
      /\ \A i \in 1..(k-1) : l[i] = s[i]
  OBVIOUS
<1>2. /\ r \in Seq(Path) /\ Len(r) = Len(s) - k
      /\ \A i \in 1..(Len(s) - k) : r[i] = s[k+i]
  OBVIOUS
<1>3. RemoveAt(s, k) = l \o r
  BY Zenon DEF RemoveAt
<1> HIDE DEF l, r
<1>4. /\ l \o r \in Seq(Path)
      /\ Len(l \o r) = Len(l) + Len(r)
      /\ \A i \in 1 .. Len(l) + Len(r) : (l \o r)[i] =
            IF i <= Len(l) THEN l[i] ELSE r[i - Len(l)]
  <2>1. l \in Seq(Path) /\ r \in Seq(Path)
    BY <1>1, <1>2
  <2> QED BY <2>1, ConcatProperties, Zenon
<1>5. Len(l \o r) = Len(s) - 1
  BY <1>1, <1>2, <1>4
<1>6. \A i \in 1..(k-1) : (l \o r)[i] = s[i]
  BY <1>1, <1>2, <1>4
<1>7. \A i \in k..Len(l \o r) : (l \o r)[i] = s[i+1]
  <2> TAKE i \in k..Len(l \o r)
  <2>1. (l \o r)[i] = r[i - (k-1)]
    BY <1>1, <1>2, <1>4, <1>5
  <2>2. r[i - (k-1)] = s[k + (i - (k-1))]
    BY <1>2, <1>5
  <2> QED BY <2>1, <2>2
<1> QED BY <1>3, <1>4, <1>5, <1>6, <1>7 DEF Erased

\* What del_path does to the entries: nothing, if the prefix has none or the
\* source has none from there on; else it erases the source's first one.
LEMMA DelPathRoutes ==
  ASSUME NEW T \in Table, NEW p \in Prefix, NEW n \in Source
  PROVE  /\ DelPath(T, p, n) \in Table
         /\ \/ /\ DelPath(T, p, n) = T
               /\ \A i \in 1..Len(T[p]) : T[p][i].source # n
            \/ \E U \in Table : \E q \in Prefix : \E k \in 1..Len(T[q]) :
                 /\ SameRoutes(U, DelPath(T, p, n))
                 /\ \A r \in Prefix \ {q} : U[r] = T[r]
                 /\ T[q][k].source = n
                 /\ Erased(T[q], U[q], k)
                 /\ (\E i \in 1..Len(T[p]) : T[p][i].source = n) => q = p
<1> DEFINE mine == {e \in Positions(T) : e[1] >= p /\ At(T, e).source = n}
           e == FirstOf(mine)
<1>1. \A i \in 1..Len(T[p]) : T[p][i].source = n => <<p, i>> \in mine
  <2> TAKE i \in 1..Len(T[p])
  <2>1. <<p, i>> \in Positions(T)
    BY PositionsType
  <2>2. p >= p
    BY NAssumption DEF Prefix
  <2> QED BY <2>1, <2>2 DEF At
<1>2. CASE T[p] = <<>> \/ mine = {}
  <2>1. DelPath(T, p, n) = T
    BY <1>2 DEF DelPath
  <2>2. T[p] = <<>> => 1..Len(T[p]) = {}
    OBVIOUS
  <2> QED BY <1>1, <1>2, <2>1, <2>2
<1>3. CASE T[p] # <<>> /\ mine # {}
  <2>1. mine \in SUBSET (Nat \X Nat)
    BY PositionsType
  <2>2. e \in mine /\ \A f \in mine : e[1] <= f[1]
    <3> HIDE DEF mine
    <3> QED BY <1>3, <2>1, FirstOfIsFirst
  <2>3. /\ e[1] \in Prefix /\ e[2] \in 1..Len(T[e[1]])
        /\ T[e[1]][e[2]].source = n /\ e[1] >= p
    BY <2>2, PositionsType DEF At
  <2>4. (\E i \in 1..Len(T[p]) : T[p][i].source = n) => e[1] = p
    <3> SUFFICES ASSUME NEW i \in 1..Len(T[p]), T[p][i].source = n
                 PROVE  e[1] = p
      OBVIOUS
    <3>1. <<p, i>> \in mine
      BY <1>1
    <3>2. e[1] <= p
      <4> HIDE DEF e, mine
      <4> QED BY <2>2, <3>1
    <3> QED BY <2>3, <3>2, NAssumption DEF Prefix
  <2> DEFINE U == [T EXCEPT ![e[1]] = RemoveAt(T[e[1]], e[2])]
  <2>5. DelPath(T, p, n) = Select(U, p)
    BY <1>3 DEF DelPath
  <2> HIDE DEF e, mine
  <2>6. T[e[1]] \in Seq(Path)
    BY <2>3, TableAt
  <2>7. /\ RemoveAt(T[e[1]], e[2]) \in Seq(Path)
        /\ Erased(T[e[1]], RemoveAt(T[e[1]], e[2]), e[2])
    BY <2>3, <2>6, RemoveAtErases
  <2>8. /\ U \in Table
        /\ U[e[1]] = RemoveAt(T[e[1]], e[2])
        /\ \A r \in Prefix \ {e[1]} : U[r] = T[r]
    BY <2>3, <2>7 DEF Table
  <2> HIDE DEF U
  <2>9. DelPath(T, p, n) \in Table /\ SameRoutes(U, DelPath(T, p, n))
    BY <2>5, <2>8, SelectRoutes
  <2> QED BY <2>3, <2>4, <2>7, <2>8, <2>9
<1> QED BY <1>2, <1>3
-----------------------------------------------------------------------------
\* The recursion of Without has a solution on 0..k for every k.
IsKept(f, s, n, k) ==
  f = [i \in 0..k |-> IF i = 0 THEN <<>> ELSE KeepOther(f[i-1], s[i], n)]

\* How many entries purge_peer has kept after each one exists as a function.
LEMMA KeptExists ==
  ASSUME NEW s \in Seq(Path), NEW n \in Source
  PROVE  \E f : IsKept(f, s, n, Len(s))
<1> DEFINE Bad == {k \in 0..Len(s) : ~ \E f : IsKept(f, s, n, k)}
<1>1. SUFFICES ASSUME Bad # {} PROVE FALSE
  <2>1. Len(s) \in 0..Len(s)
    OBVIOUS
  <2> QED BY <2>1
<1>2. Bad \in SUBSET Nat
  OBVIOUS
<1>3. PICK m \in Bad : \A y \in Bad : m <= y
  <2> HIDE DEF Bad
  <2> QED BY <1>1, <1>2, LeastNat
<1>4. m # 0
  <2>1. IsKept([i \in 0..0 |-> <<>>], s, n, 0)
    BY DEF IsKept
  <2> QED BY <2>1
<1>5. PICK f : IsKept(f, s, n, m-1)
  BY <1>3, <1>4
<1>6. IsKept([i \in 0..m |-> IF i = m THEN KeepOther(f[m-1], s[m], n) ELSE f[i]], s, n, m)
  BY <1>3, <1>4, <1>5 DEF IsKept
<1> QED BY <1>6

\* t consists of the entries of s that are not the source's: g gives the
\* place in s of every entry of t.
KeptFrom(s, t, g, k, n) ==
  /\ t \in Seq(Path)
  /\ g \in [1..Len(t) -> 1..k]
  /\ \A x \in 1..Len(t) : t[x] = s[g[x]] /\ s[g[x]].source # n
  /\ \A x, y \in 1..Len(t) : x < y => g[x] < g[y]
  /\ \A i \in 1..k : s[i].source # n => \E x \in 1..Len(t) : g[x] = i

\* What purge_peer leaves of a prefix are the entries of the other sources, in their order.
LEMMA WithoutRoutes ==
  ASSUME NEW s \in Seq(Path), NEW n \in Source
  PROVE  \E g : KeptFrom(s, Without(s, n), g, Len(s), n)
<1> DEFINE f[i \in 0..Len(s)] ==
             IF i = 0 THEN <<>> ELSE KeepOther(f[i-1], s[i], n)
<1>1. IsKept(f, s, n, Len(s))
  BY KeptExists DEF IsKept
<1>2. Without(s, n) = f[Len(s)]
  BY DEF Without
<1> HIDE DEF f
<1>3. /\ f[0] = <<>>
      /\ \A i \in 1..Len(s) : f[i] = KeepOther(f[i-1], s[i], n)
  BY <1>1 DEF IsKept
<1> DEFINE Bad == {k \in 0..Len(s) : ~ \E g : KeptFrom(s, f[k], g, k, n)}
<1>4. SUFFICES ASSUME Bad # {} PROVE FALSE
  <2>1. Len(s) \in 0..Len(s)
    OBVIOUS
  <2> QED BY <1>2, <2>1
<1>5. PICK m \in Bad : \A y \in Bad : m <= y
  <2>1. Bad \in SUBSET Nat
    OBVIOUS
  <2> HIDE DEF Bad
  <2> QED BY <1>4, <2>1, LeastNat
<1>6. m # 0
  <2>1. KeptFrom(s, f[0], <<>>, 0, n)
    BY <1>3 DEF KeptFrom
  <2> QED BY <2>1
<1>7. m \in 1..Len(s) /\ m-1 \in 0..Len(s) /\ m-1 \notin Bad
  BY <1>5, <1>6
<1>8. PICK g : KeptFrom(s, f[m-1], g, m-1, n)
  BY <1>7
<1>9. s[m] \in Path
  BY <1>7
<1>10. CASE s[m].source = n
  <2>1. f[m] = f[m-1]
    BY <1>3, <1>7, <1>10 DEF KeepOther
  <2>2. KeptFrom(s, f[m], g, m, n)
    BY <1>7, <1>8, <1>10, <2>1 DEF KeptFrom
  <2> QED BY <1>5, <2>2
<1>11. CASE s[m].source # n
  <2> DEFINE l == Len(f[m-1])
             h == [x \in 1..(l+1) |-> IF x = l+1 THEN m ELSE g[x]]
  <2>1. /\ f[m] = Append(f[m-1], s[m])
        /\ f[m-1] \in Seq(Path)
    BY <1>3, <1>7, <1>8, <1>11 DEF KeptFrom, KeepOther
  <2>2. /\ f[m] \in Seq(Path) /\ Len(f[m]) = l+1 /\ l \in Nat
        /\ f[m][l+1] = s[m]
        /\ \A x \in 1..l : f[m][x] = f[m-1][x]
    BY <1>9, <2>1
  <2>3. KeptFrom(s, f[m], h, m, n)
    <3>1. h \in [1..Len(f[m]) -> 1..m]
      BY <1>7, <1>8, <2>2 DEF KeptFrom
    <3>2. \A x \in 1..Len(f[m]) : f[m][x] = s[h[x]] /\ s[h[x]].source # n
      <4> TAKE x \in 1..Len(f[m])
      <4>1. CASE x = l+1
        <5>1. h[x] = m
          BY <4>1
        <5> QED BY <1>11, <2>2, <4>1, <5>1
      <4>2. CASE x # l+1
        <5>1. x \in 1..l /\ h[x] = g[x]
          BY <2>2, <4>2
        <5>2. f[m-1][x] = s[g[x]] /\ s[g[x]].source # n
          BY <1>8, <5>1 DEF KeptFrom
        <5> QED BY <2>2, <5>1, <5>2
      <4> QED BY <4>1, <4>2
    <3>3. \A x, y \in 1..Len(f[m]) : x < y => h[x] < h[y]
      <4> SUFFICES ASSUME NEW x \in 1..Len(f[m]), NEW y \in 1..Len(f[m]), x < y
                   PROVE  h[x] < h[y]
        OBVIOUS
      <4>0. g \in [1..l -> 1..(m-1)]
        BY <1>8 DEF KeptFrom
      <4>1. x \in 1..l /\ h[x] = g[x] /\ g[x] \in 1..(m-1)
        <5>1. x \in 1..l /\ h[x] = g[x]
          BY <2>2
        <5> QED BY <4>0, <5>1
      <4>2. CASE y = l+1
        BY <1>7, <4>1, <4>2
      <4>3. CASE y # l+1
        <5>1. y \in 1..l /\ h[y] = g[y]
          BY <2>2, <4>3
        <5>2. g[x] < g[y]
          BY <1>8, <4>1, <5>1 DEF KeptFrom
        <5> QED BY <4>1, <5>1, <5>2
      <4> QED BY <4>2, <4>3
    <3>4. \A i \in 1..m : s[i].source # n => \E x \in 1..Len(f[m]) : h[x] = i
      <4> SUFFICES ASSUME NEW i \in 1..m, s[i].source # n
                   PROVE  \E x \in 1..Len(f[m]) : h[x] = i
        OBVIOUS
      <4>1. CASE i = m
        <5>1. l+1 \in 1..Len(f[m]) /\ h[l+1] = m
          BY <2>2
        <5> QED BY <4>1, <5>1
      <4>2. CASE i # m
        <5>1. i \in 1..(m-1)
          BY <1>7, <4>2
        <5>2. PICK x \in 1..l : g[x] = i
          BY <1>8, <5>1 DEF KeptFrom
        <5>3. x \in 1..Len(f[m]) /\ h[x] = i
          BY <2>2, <5>2
        <5> QED BY <5>3
      <4> QED BY <4>1, <4>2
    <3> HIDE DEF h
    <3> QED BY <2>2, <3>1, <3>2, <3>3, <3>4 DEF KeptFrom
  <2> QED BY <1>5, <2>3
<1> QED BY <1>10, <1>11

\* purge_peer keeps the others' entries of every prefix, in their order.
LEMMA PurgePeerRoutes ==
  ASSUME NEW T \in Table, NEW n \in Source
  PROVE  /\ PurgePeer(T, n) \in Table
         /\ \A p \in Prefix : \E g : KeptFrom(T[p], PurgePeer(T, n)[p], g, Len(T[p]), n)
<1>1. \A p \in Prefix : \E g : KeptFrom(T[p], Without(T[p], n), g, Len(T[p]), n)
  BY TableAt, WithoutRoutes
<1>2. \A p \in Prefix : Without(T[p], n) \in Seq(Path)
  BY <1>1 DEF KeptFrom
<1> QED BY <1>1, <1>2 DEF PurgePeer, Table
=============================================================================
