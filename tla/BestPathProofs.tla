--------------------------- MODULE BestPathProofs ---------------------------
(***************************************************************************)
(* The loop of best_path_selection() computes SelectAll, for every table:  *)
(* the invariant says what the iterators and the marks are after each of   *)
(* its rounds.                                                             *)
(***************************************************************************)
EXTENDS BestPath, PathsProofs

USE NAssumption, PeerAssumption, AttrAssumption, MaxLenAssumption

-----------------------------------------------------------------------------
\* Marks.

\* Writing the mark of an entry, and of one entry of a sequence.
Marked(e, b) == [e EXCEPT !.isBest = b]

SetMark(s, i, b) == [s EXCEPT ![i] = Marked(@, b)]

Unmarked(s) ==
  /\ s \in Seq(Path)
  /\ \A i \in 1..Len(s) : s[i].isBest = FALSE

\* The mark of an entry: written, it is what was written; written again, the
\* last one counts; written as it was, nothing changes.
LEMMA MarkOfPath ==
  \A e \in Path : \A b, c \in BOOLEAN :
    /\ Marked(e, b).isBest = b
    /\ Marked(Marked(e, c), b) = Marked(e, b)
    /\ e.isBest = b => Marked(e, b) = e
  BY DEF Path, Marked

\* What Mark gives, entry by entry.
LEMMA MarkAt ==
  ASSUME NEW s \in Seq(Path), NEW B
  PROVE  /\ Mark(s, B) \in Seq(Path) /\ Len(Mark(s, B)) = Len(s)
         /\ \A i \in 1..Len(s) : /\ Mark(s, B)[i] = Marked(s[i], i \in B)
                                 /\ Mark(s, B)[i].attrs = s[i].attrs
                                 /\ Mark(s, B)[i].isBest = (i \in B)
<1>1. /\ Mark(s, B) \in Seq(Path) /\ Len(Mark(s, B)) = Len(s)
      /\ \A i \in 1..Len(s) : Mark(s, B)[i].attrs = s[i].attrs
  BY MarkEntries DEF SameEntries
<1>2. \A i \in 1..Len(s) : Mark(s, B)[i] = Marked(s[i], i \in B)
  BY DEF Mark, Marked
<1>3. \A i \in 1..Len(s) : s[i] \in Path /\ (i \in B) \in BOOLEAN
  OBVIOUS
<1>4. \A i \in 1..Len(s) : Mark(s, B)[i].isBest = (i \in B)
  <2> SUFFICES ASSUME NEW i \in 1..Len(s) PROVE Mark(s, B)[i].isBest = (i \in B)
    OBVIOUS
  <2>1. Mark(s, B)[i] = Marked(s[i], i \in B) /\ s[i] \in Path /\ (i \in B) \in BOOLEAN
    BY <1>2, <1>3
  <2> DEFINE b == i \in B
  <2>2. Mark(s, B)[i] = Marked(s[i], b) /\ b \in BOOLEAN
    BY <2>1
  <2> HIDE DEF b
  <2>3. Mark(s, B)[i].isBest = b
    BY <2>1, <2>2, MarkOfPath
  <2> QED BY <2>3 DEF b
<1> QED BY <1>1, <1>2, <1>4

\* Marking depends only on which entries of the sequence are to be marked.
LEMMA MarkSame ==
  ASSUME NEW s \in Seq(Path), NEW B, NEW C, \A i \in 1..Len(s) : i \in B <=> i \in C
  PROVE  Mark(s, B) = Mark(s, C)
<1>1. \A i \in 1..Len(s) : (i \in B) = (i \in C)
  OBVIOUS
<1>2. \A i \in 1..Len(s) : [s[i] EXCEPT !.isBest = (i \in B)] = [s[i] EXCEPT !.isBest = (i \in C)]
  BY <1>1, Zenon
<1> QED BY <1>2, Zenon DEF Mark

\* Two sequences with the same entries are one.
LEMMA SameSeq ==
  ASSUME NEW s \in Seq(Path), NEW t \in Seq(Path), Len(s) = Len(t),
         \A i \in 1..Len(s) : s[i] = t[i]
  PROVE  s = t
  BY SeqEqual, Zenon

\* A sequence without marks is its own marking with nothing.
LEMMA MarkNone ==
  ASSUME NEW s, Unmarked(s)
  PROVE  Mark(s, {}) = s
<1>1. s \in Seq(Path) /\ \A i \in 1..Len(s) : s[i] \in Path /\ s[i].isBest = FALSE
  BY DEF Unmarked
<1>2. /\ Mark(s, {}) \in Seq(Path) /\ Len(Mark(s, {})) = Len(s)
      /\ \A i \in 1..Len(s) : Mark(s, {})[i] = Marked(s[i], i \in {})
  BY <1>1, MarkAt
<1>3. \A i \in 1..Len(s) : Mark(s, {})[i] = s[i]
  <2> SUFFICES ASSUME NEW i \in 1..Len(s) PROVE Mark(s, {})[i] = s[i]
    OBVIOUS
  <2>1. s[i] \in Path /\ s[i].isBest = FALSE /\ FALSE \in BOOLEAN
    BY <1>1
  <2>2. (i \in {}) = FALSE
    OBVIOUS
  <2>3. Mark(s, {})[i] = Marked(s[i], FALSE)
    BY <1>2, <2>2, Zenon
  <2> QED BY <2>1, <2>3, MarkOfPath, Zenon
<1> QED BY <1>1, <1>2, <1>3, SameSeq

\* Writing one mark into a marked sequence marks one more entry, or one less.
LEMMA SetMarkMarks ==
  ASSUME NEW s \in Seq(Path), NEW B, NEW i \in 1..Len(s), NEW b \in BOOLEAN,
         NEW C, i \in C <=> b, \A j \in 1..Len(s) : j # i => (j \in C <=> j \in B)
  PROVE  SetMark(Mark(s, B), i, b) = Mark(s, C)
<1> DEFINE t == Mark(s, B)
           m == Mark(s, C)
           u == SetMark(t, i, b)
<1>1. /\ t \in Seq(Path) /\ Len(t) = Len(s)
      /\ \A j \in 1..Len(s) : t[j] = Marked(s[j], j \in B)
  BY MarkAt
<1>2. /\ m \in Seq(Path) /\ Len(m) = Len(s)
      /\ \A j \in 1..Len(s) : m[j] = Marked(s[j], j \in C)
  BY MarkAt
<1>3. s[i] \in Path /\ (i \in B) \in BOOLEAN /\ (i \in C) = b
  OBVIOUS
<1> HIDE DEF t, m
<1>4. Marked(t[i], b) = m[i]
  <2> DEFINE c == i \in B
  <2>1. t[i] = Marked(s[i], c) /\ m[i] = Marked(s[i], i \in C) /\ c \in BOOLEAN
    BY <1>1, <1>2
  <2>2. m[i] = Marked(s[i], b)
    BY <2>1, <1>3, Zenon
  <2> HIDE DEF c
  <2> QED BY <2>1, <2>2, <1>3, MarkOfPath
<1>5. \A j \in 1..Len(s) : j # i => t[j] = m[j]
  <2> SUFFICES ASSUME NEW j \in 1..Len(s), j # i PROVE t[j] = m[j]
    OBVIOUS
  <2>1. (j \in B) = (j \in C)
    OBVIOUS
  <2> QED BY <2>1, <1>1, <1>2, Zenon
<1>6. m[i] \in Path
  BY <1>2
<1>7. u \in Seq(Path) /\ Len(u) = Len(s) /\ \A j \in 1..Len(s) : u[j] = m[j]
  BY <1>1, <1>4, <1>5, <1>6 DEF SetMark
<1> HIDE DEF u
<1>8. u = m
  BY <1>2, <1>7, SameSeq
<1> QED BY <1>8 DEF t, m, u
-----------------------------------------------------------------------------
\* The winners of the comparisons.

\* The position the comparisons have come to after each entry of s: the last
\* one is the winner.
Rounds(s) ==
  LET ahead[i \in 1..Len(s)] ==
        IF i = 1 THEN 1
        ELSE IF Better(s[i].attrs, s[ahead[i-1]].attrs) THEN i ELSE ahead[i-1]
  IN ahead

\* One comparison: of entry i with the best entry so far.
Taken(s, i, w) == IF Better(s[i].attrs, s[w].attrs) THEN i ELSE w

\* The recursion has a solution on 1..n for every n.
IsRounds(f, s, n) ==
  f = [i \in 1..n |-> IF i = 1 THEN 1 ELSE Taken(s, i, f[i-1])]

\* The rounds of the loop exist as a function: best_path_selection() ends.
LEMMA RoundsExist ==
  ASSUME NEW s, NEW n \in Nat
  PROVE  \E f : IsRounds(f, s, n)
<1> DEFINE G == {k \in 0..n : \E f : IsRounds(f, s, k)}
<1>1. 0 \in G
  <2>1. IsRounds([i \in 1..0 |-> 1], s, 0)
    BY DEF IsRounds
  <2> QED BY <2>1
<1>2. ASSUME NEW k \in 1..n, k-1 \in G PROVE k \in G
  <2>1. PICK f : IsRounds(f, s, k-1)
    BY <1>2
  <2> DEFINE x == IF k = 1 THEN 1 ELSE Taken(s, k, f[k-1])
  <2>2. IsRounds([i \in 1..k |-> IF i = k THEN x ELSE f[i]], s, k)
    BY <2>1 DEF IsRounds
  <2> HIDE DEF x
  <2> QED BY <2>2
<1>3. \A k \in 0..n : k \in G
  <2> HIDE DEF G
  <2> QED BY <1>1, <1>2, UpTo
<1> QED BY <1>3

\* The comparisons start with the first entry, and stay among the entries
\* that were compared.
LEMMA RoundsGoOn ==
  ASSUME NEW s \in Seq(Path)
  PROVE  /\ Len(s) > 0 => Rounds(s)[1] = 1
         /\ \A i \in 2..Len(s) :
              Rounds(s)[i] = IF Better(s[i].attrs, s[Rounds(s)[i-1]].attrs)
                               THEN i ELSE Rounds(s)[i-1]
         /\ \A i \in 1..Len(s) : Rounds(s)[i] \in 1..i
         /\ Winner(s) = Rounds(s)[Len(s)]
<1> DEFINE f[i \in 1..Len(s)] ==
             IF i = 1 THEN 1
             ELSE IF Better(s[i].attrs, s[f[i-1]].attrs) THEN i ELSE f[i-1]
<1>1. IsRounds(f, s, Len(s))
  <2>1. Len(s) \in Nat
    OBVIOUS
  <2>2. \E g : IsRounds(g, s, Len(s))
    BY <2>1, RoundsExist
  <2> QED BY <2>2 DEF IsRounds, Taken
<1>2. Rounds(s) = f /\ Winner(s) = f[Len(s)]
  BY DEF Rounds, Winner
<1> HIDE DEF f
<1>3. /\ Len(s) > 0 => f[1] = 1
      /\ \A i \in 2..Len(s) :
           f[i] = IF Better(s[i].attrs, s[f[i-1]].attrs) THEN i ELSE f[i-1]
  BY <1>1 DEF IsRounds, Taken
<1> DEFINE G == {i \in 0..Len(s) : i > 0 => f[i] \in 1..i}
<1>4. 0 \in G
  OBVIOUS
<1>5. ASSUME NEW i \in 1..Len(s), i-1 \in G PROVE i \in G
  BY <1>3, <1>5
<1>6. \A i \in 0..Len(s) : i \in G
  <2>1. Len(s) \in Nat
    OBVIOUS
  <2> HIDE DEF G
  <2> QED BY <1>4, <1>5, <2>1, UpTo
<1>7. \A i \in 1..Len(s) : f[i] \in 1..i
  BY <1>6
<1> QED BY <1>2, <1>3, <1>7

-----------------------------------------------------------------------------
\* Tables.

\* The entries of a small table have no marks.
LEMMA Given ==
  ASSUME NEW T \in SmallTable
  PROVE  /\ T \in Table
         /\ \A p \in Prefix : Unmarked(T[p]) /\ Len(T[p]) \in 0..MaxLen
<1> DEFINE D == {NewPath(a, n) : a \in Attrs, n \in Peer}
<1>1. \A e \in D : e \in Path /\ e.isBest = FALSE
  <2>1. \A a \in Attrs, n \in Peer : NewPath(a, n) \in Path
    BY DEF NewPath, Path, Source
  <2>2. \A a \in Attrs, n \in Peer : NewPath(a, n).isBest = FALSE
    BY Zenon DEF NewPath
  <2> QED BY <2>1, <2>2
<1>2. T = [p \in Prefix |-> T[p]] /\ \A p \in Prefix : \E k \in 0..MaxLen : T[p] \in [1..k -> D]
  <2>1. SmallTable = [Prefix -> UNION {[1..k -> D] : k \in 0..MaxLen}]
    BY DEF SmallTable
  <2> HIDE DEF D
  <2> QED BY <2>1
<1> HIDE DEF D
<1>3. ASSUME NEW p \in Prefix PROVE Unmarked(T[p]) /\ Len(T[p]) \in 0..MaxLen
  <2>1. PICK k \in 0..MaxLen : T[p] \in [1..k -> D]
    BY <1>2
  <2>2. T[p] \in Seq(D) /\ Len(T[p]) = k
    BY <2>1
  <2>3. T[p] \in Seq(Path) /\ \A i \in 1..Len(T[p]) : T[p][i].isBest = FALSE
    BY <2>2, <1>1
  <2> QED BY <2>2, <2>3 DEF Unmarked
<1>4. \A p \in Prefix : T[p] \in Seq(Path)
  BY <1>3 DEF Unmarked
<1> QED BY <1>2, <1>3, <1>4 DEF Table

\* The first entry of the prefixes from p on, if there is one.
FirstIn(T, p) ==
  LET rest == {q \in NonEmpty(T) : q >= p}
  IN IF rest = {} THEN End ELSE <<Min(rest), 1>>

\* The first entry at or after a prefix is that of the first prefix there which has any.
LEMMA FirstInIsFirst ==
  ASSUME NEW T, NEW p \in Nat
  PROVE  \/ /\ FirstIn(T, p) = End
            /\ \A r \in Prefix : r >= p => T[r] = <<>>
         \/ \E q \in Prefix : /\ FirstIn(T, p) = <<q, 1>>
                              /\ q >= p /\ T[q] # <<>>
                              /\ \A r \in Prefix : r >= p /\ r < q => T[r] = <<>>
<1> DEFINE rest == {q \in NonEmpty(T) : q >= p}
<1>1. CASE rest = {}
  BY <1>1 DEF FirstIn, NonEmpty
<1>2. CASE rest # {}
  <2>1. rest \in SUBSET Nat
    BY DEF NonEmpty, Prefix
  <2> DEFINE q == Min(rest)
  <2>2. q \in rest /\ \A r \in rest : q <= r
    <3> HIDE DEF rest
    <3> QED BY <1>2, <2>1, MinIsLeast
  <2>3. FirstIn(T, p) = <<q, 1>>
    BY <1>2 DEF FirstIn
  <2>4. q \in Prefix /\ q >= p /\ T[q] # <<>>
    BY <2>2 DEF NonEmpty
  <2>5. \A r \in Prefix : r >= p /\ T[r] # <<>> => r \in rest
    BY DEF NonEmpty
  <2> HIDE DEF q, rest
  <2>6. \A r \in Prefix : r >= p /\ r < q => T[r] = <<>>
    BY <2>2, <2>4, <2>5 DEF Prefix
  <2> QED BY <2>3, <2>4, <2>6
<1> QED BY <1>1, <1>2

\* A table whose entries carry the marks B[p] in prefix p.
MarkTable(T, B) == [p \in Prefix |-> Mark(T[p], B[p])]

\* Marks change neither the number of entries nor their attribute lists.
LEMMA MarkTableAt ==
  ASSUME NEW T \in Table, NEW B
  PROVE  /\ MarkTable(T, B) \in Table
         /\ \A p \in Prefix :
              /\ Len(MarkTable(T, B)[p]) = Len(T[p])
              /\ MarkTable(T, B)[p] = <<>> <=> T[p] = <<>>
              /\ \A i \in 1..Len(T[p]) : MarkTable(T, B)[p][i].attrs = T[p][i].attrs
<1>1. \A p \in Prefix : T[p] \in Seq(Path) /\ MarkTable(T, B)[p] = Mark(T[p], B[p])
  BY TableAt DEF MarkTable
<1>2. \A p \in Prefix :
        /\ MarkTable(T, B)[p] \in Seq(Path) /\ Len(MarkTable(T, B)[p]) = Len(T[p])
        /\ \A i \in 1..Len(T[p]) : MarkTable(T, B)[p][i].attrs = T[p][i].attrs
  BY <1>1, MarkAt
<1>3. \A p \in Prefix : MarkTable(T, B)[p] = <<>> <=> T[p] = <<>>
  BY <1>1, <1>2
<1>4. MarkTable(T, B) = [p \in Prefix |-> MarkTable(T, B)[p]]
  BY DEF MarkTable
<1> QED BY <1>2, <1>3, <1>4 DEF Table

\* Tables that mark the same entries are one.
LEMMA MarkTableSame ==
  ASSUME NEW T \in Table, NEW B, NEW C,
         \A p \in Prefix : \A i \in 1..Len(T[p]) : i \in B[p] <=> i \in C[p]
  PROVE  MarkTable(T, B) = MarkTable(T, C)
<1>1. \A p \in Prefix : Mark(T[p], B[p]) = Mark(T[p], C[p])
  BY TableAt, MarkSame
<1> QED BY <1>1, Zenon DEF MarkTable

\* Writing one mark into a table.
LEMMA SetBestMarks ==
  ASSUME NEW T \in Table, NEW B, NEW c \in Prefix, NEW i \in 1..Len(T[c]), NEW b \in BOOLEAN,
         NEW C, i \in C[c] <=> b,
         \A p \in Prefix : \A j \in 1..Len(T[p]) : <<p, j>> # <<c, i>> => (j \in C[p] <=> j \in B[p])
  PROVE  SetBest(MarkTable(T, B), <<c, i>>, b) = MarkTable(T, C)
<1> DEFINE U == MarkTable(T, B)
<1>1. SetBest(U, <<c, i>>, b) = [U EXCEPT ![c] = SetMark(U[c], i, b)]
  BY DEF SetBest, SetMark, Marked
<1>2. T[c] \in Seq(Path) /\ U[c] = Mark(T[c], B[c])
  BY TableAt DEF MarkTable
<1>3. SetMark(U[c], i, b) = Mark(T[c], C[c])
  <2>1. \A j \in 1..Len(T[c]) : j # i => (j \in C[c] <=> j \in B[c])
    OBVIOUS
  <2> QED BY <1>2, <2>1, SetMarkMarks
<1>4. \A p \in Prefix : p # c => Mark(T[p], B[p]) = Mark(T[p], C[p])
  <2> SUFFICES ASSUME NEW p \in Prefix, p # c PROVE Mark(T[p], B[p]) = Mark(T[p], C[p])
    OBVIOUS
  <2>1. T[p] \in Seq(Path)
    BY TableAt
  <2>2. \A j \in 1..Len(T[p]) : j \in B[p] <=> j \in C[p]
    OBVIOUS
  <2> QED BY <2>1, <2>2, MarkSame
<1>5. [U EXCEPT ![c] = Mark(T[c], C[c])] = MarkTable(T, C)
  BY <1>4 DEF MarkTable
<1> QED BY <1>1, <1>3, <1>5

\* B and C mark the same entries of T, entry i of prefix c aside.
Alike(T, B, C, c, i) ==
  \A p \in Prefix : \A j \in 1..Len(T[p]) : <<p, j>> # <<c, i>> => (j \in C[p] <=> j \in B[p])

\* The two ways the loop writes a mark.
LEMMA SetBestOn ==
  ASSUME NEW T \in Table, NEW B, NEW c \in Prefix, NEW i \in 1..Len(T[c]), NEW C,
         Alike(T, B, C, c, i), i \in C[c]
  PROVE  SetBest(MarkTable(T, B), <<c, i>>, TRUE) = MarkTable(T, C)
<1> DEFINE b == TRUE
<1>1. b \in BOOLEAN /\ (i \in C[c] <=> b)
  OBVIOUS
<1> HIDE DEF b
<1>2. SetBest(MarkTable(T, B), <<c, i>>, b) = MarkTable(T, C)
  BY <1>1, SetBestMarks DEF Alike
<1> QED BY <1>2 DEF b

\* Clearing the mark of one entry takes it, and nothing else, out of the marked ones.
LEMMA SetBestOff ==
  ASSUME NEW T \in Table, NEW B, NEW c \in Prefix, NEW i \in 1..Len(T[c]), NEW C,
         Alike(T, B, C, c, i), i \notin C[c]
  PROVE  SetBest(MarkTable(T, B), <<c, i>>, FALSE) = MarkTable(T, C)
<1> DEFINE b == FALSE
<1>1. b \in BOOLEAN /\ (i \in C[c] <=> b)
  OBVIOUS
<1> HIDE DEF b
<1>2. SetBest(MarkTable(T, B), <<c, i>>, b) = MarkTable(T, C)
  BY <1>1, SetBestMarks DEF Alike
<1> QED BY <1>2 DEF b

-----------------------------------------------------------------------------
\* The invariant of the loop.

\* The marks while the loop is in prefix c: the prefixes before it have both
\* theirs, c has the one of its first entry.
Inside(c) ==
  [p \in Prefix |-> IF p < c THEN {1, Winner(given[p])} ELSE IF p = c THEN {1} ELSE {}]

\* The marks when the loop has left prefix c.
Passed(c) == [p \in Prefix |-> IF p <= c THEN {1, Winner(given[p])} ELSE {}]

\* The iterator after entry k of prefix c.
After(c, k) == IF k < Len(given[c]) THEN <<c, k + 1>> ELSE FirstIn(given, c + 1)

\* Before its first round the loop has marked nothing.  After a round on
\* entry k of the current prefix, best is the position the comparisons of
\* that prefix have come to with k, and the marks are those of Inside.
LoopInv ==
  /\ given \in SmallTable
  /\ current_prefix \in 0..N /\ returned \in BOOLEAN /\ stray \in {0, 1}
  /\ returned => currentIt = End
  /\ best = End => /\ table = given
                   /\ currentIt = FirstIn(given, 1)
                   /\ ~returned => stray = 0
  /\ best # End => /\ current_prefix \in Prefix
                   /\ \E k \in 1..Len(given[current_prefix]) :
                        /\ currentIt = After(current_prefix, k)
                        /\ best = <<current_prefix, Rounds(given[current_prefix])[k]>>
                        /\ table = MarkTable(given, Inside(current_prefix))

\* The end iterator is no entry.
LEMMA EndIsNoEntry == \A p \in Prefix : \A i : <<p, i>> # End
  BY DEF Prefix, End

\* A table without marks is its own marking with nothing.
LEMMA PassedNone ==
  ASSUME given \in SmallTable
  PROVE  MarkTable(given, Passed(0)) = given
<1>1. given \in Table /\ \A p \in Prefix : Unmarked(given[p])
  BY Given
<1>2. \A p \in Prefix : Mark(given[p], Passed(0)[p]) = given[p]
  <2> SUFFICES ASSUME NEW p \in Prefix PROVE Mark(given[p], Passed(0)[p]) = given[p]
    OBVIOUS
  <2>1. Passed(0)[p] = {}
    BY DEF Passed, Prefix
  <2> QED BY <1>1, <2>1, MarkNone
<1> QED BY <1>1, <1>2 DEF MarkTable, Table

\* Entering the first prefix after c that has entries: its first entry is
\* marked.
LEMMA Entering ==
  ASSUME given \in SmallTable, NEW c \in 0..N, NEW q \in Prefix, q > c, given[q] # <<>>,
         \A r \in Prefix : r >= c + 1 /\ r < q => given[r] = <<>>
  PROVE  SetBest(MarkTable(given, Passed(c)), <<q, 1>>, TRUE) = MarkTable(given, Inside(q))
<1>1. given \in Table
  BY Given
<1>2. 1 \in 1..Len(given[q])
  BY <1>1, TableAt
<1>3. \A p \in Prefix : given[p] = <<>> => 1..Len(given[p]) = {}
  OBVIOUS
<1>4. 1 \in Inside(q)[q]
  BY DEF Inside
<1>5. Alike(given, Passed(c), Inside(q), q, 1)
  <2> SUFFICES ASSUME NEW p \in Prefix, NEW j \in 1..Len(given[p]), <<p, j>> # <<q, 1>>
               PROVE  j \in Inside(q)[p] <=> j \in Passed(c)[p]
    BY DEF Alike
  <2>1. CASE p <= c
    BY <2>1 DEF Inside, Passed, Prefix
  <2>2. CASE p > c /\ p < q
    BY <2>2, <1>3 DEF Prefix
  <2>3. CASE p = q
    BY <2>3 DEF Inside, Passed, Prefix
  <2>4. CASE p > q
    BY <2>4 DEF Inside, Passed, Prefix
  <2> QED BY <2>1, <2>2, <2>3, <2>4 DEF Prefix
<1> DEFINE B == Passed(c)
           C == Inside(q)
<1>6. given \in Table /\ 1 \in 1..Len(given[q]) /\ Alike(given, B, C, q, 1) /\ 1 \in C[q]
  BY <1>1, <1>2, <1>4, <1>5
<1> HIDE DEF B, C
<1>7. SetBest(MarkTable(given, B), <<q, 1>>, TRUE) = MarkTable(given, C)
  BY <1>6, SetBestOn
<1> QED BY <1>7 DEF B, C

\* Leaving a prefix: its winner is marked.
LEMMA Leaving ==
  ASSUME given \in SmallTable, NEW c \in Prefix, given[c] # <<>>
  PROVE  SetBest(MarkTable(given, Inside(c)), <<c, Rounds(given[c])[Len(given[c])]>>, TRUE)
           = MarkTable(given, Passed(c))
<1> DEFINE w == Rounds(given[c])[Len(given[c])]
<1>1. given \in Table
  BY Given
<1>2. given[c] \in Seq(Path) /\ Len(given[c]) \in 1..Len(given[c])
  BY <1>1, TableAt
<1>3. w = Winner(given[c]) /\ w \in 1..Len(given[c])
  BY <1>2, RoundsGoOn
<1> HIDE DEF w
<1>4. w \in Passed(c)[c]
  BY <1>3 DEF Passed, Prefix
<1>5. Alike(given, Inside(c), Passed(c), c, w)
  BY <1>3 DEF Alike, Inside, Passed, Prefix
<1> DEFINE B == Inside(c)
           C == Passed(c)
<1>6. given \in Table /\ w \in 1..Len(given[c]) /\ Alike(given, B, C, c, w) /\ w \in C[c]
  BY <1>1, <1>3, <1>4, <1>5
<1> HIDE DEF B, C
<1>7. SetBest(MarkTable(given, B), <<c, w>>, TRUE) = MarkTable(given, C)
  BY <1>6, SetBestOn
<1> QED BY <1>7 DEF w, B, C

\* Reading on in a prefix: an entry that is not the first has no mark.
LEMMA Staying ==
  ASSUME given \in SmallTable, NEW c \in Prefix, NEW i \in 2..Len(given[c])
  PROVE  SetBest(MarkTable(given, Inside(c)), <<c, i>>, FALSE) = MarkTable(given, Inside(c))
<1>1. given \in Table
  BY Given
<1>2. i \in 1..Len(given[c]) /\ i \notin {1}
  BY <1>1, TableAt
<1>3. i \notin Inside(c)[c]
  BY <1>2 DEF Inside, Prefix
<1>4. Alike(given, Inside(c), Inside(c), c, i)
  BY DEF Alike
<1> DEFINE B == Inside(c)
<1>5. given \in Table /\ i \in 1..Len(given[c]) /\ Alike(given, B, B, c, i) /\ i \notin B[c]
  BY <1>1, <1>2, <1>3, <1>4
<1> HIDE DEF B
<1>6. SetBest(MarkTable(given, B), <<c, i>>, FALSE) = MarkTable(given, B)
  BY <1>5, SetBestOff
<1> QED BY <1>6 DEF B

\* When the iteration is over, the marks are those of SelectAll.
LEMMA LoopEnds ==
  ASSUME LoopInv, currentIt = End
  PROVE  table = SelectAll(given)
<1>1. given \in SmallTable /\ given \in Table
  BY Given DEF LoopInv
<1>2. \A p \in Prefix : given[p] \in Seq(Path) /\ (given[p] = <<>> => Mark(given[p], {}) = <<>>)
  BY <1>1, TableAt DEF Mark
<1>3. CASE best = End
  <2>1. table = given /\ FirstIn(given, 1) = End
    BY <1>3 DEF LoopInv
  <2>2. \A p \in Prefix : given[p] = <<>>
    BY <2>1, FirstInIsFirst, EndIsNoEntry DEF Prefix
  <2> QED BY <1>1, <2>1, <2>2 DEF SelectAll, Table
<1>4. CASE best # End
  <2> DEFINE c == current_prefix
  <2>1. PICK k \in 1..Len(given[c]) : currentIt = After(c, k) /\ table = MarkTable(given, Inside(c))
    BY <1>4 DEF LoopInv
  <2>2. c \in Prefix
    BY <1>4 DEF LoopInv
  <2> HIDE DEF c
  <2>3. FirstIn(given, c + 1) = End
    BY <2>1, <2>2, EndIsNoEntry DEF After
  <2>4. \A r \in Prefix : r >= c + 1 => given[r] = <<>>
    <3>1. c + 1 \in Nat
      BY <2>2 DEF Prefix
    <3> QED BY <3>1, <2>3, FirstInIsFirst, EndIsNoEntry
  <2>5. given[c] # <<>>
    BY <2>1
  <2>6. ASSUME NEW p \in Prefix
        PROVE  MarkTable(given, Inside(c))[p] = SelectAll(given)[p]
    <3>1. MarkTable(given, Inside(c))[p] = Mark(given[p], Inside(c)[p])
      BY DEF MarkTable
    <3>2. CASE given[p] = <<>>
      <4>1. Mark(given[p], Inside(c)[p]) = Mark(given[p], {})
        BY <1>2, <3>2, MarkSame
      <4> QED BY <1>2, <3>1, <3>2, <4>1 DEF SelectAll
    <3>3. CASE given[p] # <<>>
      <4>1. p <= c
        BY <2>2, <2>4, <3>3 DEF Prefix
      <4>2. (\E q \in NonEmpty(given) : q > p) <=> p < c
        BY <2>2, <2>4, <2>5, <4>1 DEF NonEmpty, Prefix
      <4>3. Inside(c)[p] = IF \E q \in NonEmpty(given) : q > p
                             THEN {1, Winner(given[p])} ELSE {1}
        BY <2>2, <4>1, <4>2 DEF Inside, Prefix
      <4> QED BY <3>1, <3>3, <4>3, Zenon DEF SelectAll
    <3> QED BY <3>2, <3>3
  <2>7. /\ MarkTable(given, Inside(c)) = [p \in Prefix |-> MarkTable(given, Inside(c))[p]]
        /\ SelectAll(given) = [p \in Prefix |-> SelectAll(given)[p]]
    BY DEF MarkTable, SelectAll
  <2> QED BY <2>1, <2>6, <2>7, Zenon
<1> QED BY <1>3, <1>4

\* The loop reads the number of entries of a prefix from the table it marks:
\* the iterators are those of the given table.
LEMMA FollowingIsAfter ==
  ASSUME LoopInv
  PROVE  \A c \in Prefix : \A k : Following(<<c, k>>) = After(c, k)
<1>1. given \in SmallTable /\ given \in Table
  BY Given DEF LoopInv
<1>2. \E B : table = MarkTable(given, B)
  BY <1>1, PassedNone DEF LoopInv
<1>3. \A p \in Prefix : Len(table[p]) = Len(given[p]) /\ (table[p] = <<>> <=> given[p] = <<>>)
  BY <1>1, <1>2, MarkTableAt
<1>4. NonEmpty(table) = NonEmpty(given)
  BY <1>3 DEF NonEmpty
<1>5. \A p : FirstFrom(p) = FirstIn(given, p)
  BY <1>4, Zenon DEF FirstFrom, FirstIn
<1> SUFFICES ASSUME NEW c \in Prefix, NEW k PROVE Following(<<c, k>>) = After(c, k)
  OBVIOUS
<1>6. Len(table[c]) = Len(given[c]) /\ FirstFrom(c + 1) = FirstIn(given, c + 1)
  BY <1>3, <1>5
<1>7. <<c, k>>[1] = c /\ <<c, k>>[2] = k
  OBVIOUS
<1> QED BY <1>6, <1>7, Zenon DEF Following, After

\* A round that enters a prefix, or is the first of all.
LEMMA RoundMoves ==
  ASSUME Round, current_prefix # currentIt[1] \/ best = End
  PROVE  /\ table' = SetBest(IF best # End THEN SetBest(table, best, TRUE) ELSE table,
                             currentIt, TRUE)
         /\ best' = currentIt
<1> DEFINE e     == currentIt
           moved == current_prefix # e[1]
           b0    == IF moved THEN End ELSE best
           T0    == IF moved /\ best # End THEN SetBest(table, best, TRUE) ELSE table
           b1    == IF b0 = End THEN e ELSE b0
           T1    == SetBest(T0, e, b1 = e)
           wins  == b1 # e /\ Better(At(T1, e).attrs, At(T1, b1).attrs)
<1>1. table' = T1 /\ best' = IF wins THEN e ELSE b1
  BY Zenon DEF Round
<1>2. b0 = End /\ T0 = IF best # End THEN SetBest(table, best, TRUE) ELSE table
  OBVIOUS
<1>3. b1 = e
  BY <1>2
<1>4. (b1 = e) = TRUE
  BY <1>3
<1> HIDE DEF T0
<1>5. T1 = SetBest(T0, e, TRUE)
  <2> HIDE DEF b1
  <2> QED BY <1>4, Zenon
<1>6. ~wins
  <2> HIDE DEF b1, T1
  <2> QED BY <1>3
<1> HIDE DEF T1, b1, wins
<1> QED BY <1>1, <1>2, <1>3, <1>5, <1>6, Zenon

\* A round that reads on in a prefix.
LEMMA RoundStays ==
  ASSUME Round, current_prefix = currentIt[1], best # End, best # currentIt
  PROVE  /\ table' = SetBest(table, currentIt, FALSE)
         /\ best' = IF Better(At(table', currentIt).attrs, At(table', best).attrs)
                      THEN currentIt ELSE best
<1> DEFINE e     == currentIt
           moved == current_prefix # e[1]
           b0    == IF moved THEN End ELSE best
           T0    == IF moved /\ best # End THEN SetBest(table, best, TRUE) ELSE table
           b1    == IF b0 = End THEN e ELSE b0
           T1    == SetBest(T0, e, b1 = e)
           wins  == b1 # e /\ Better(At(T1, e).attrs, At(T1, b1).attrs)
<1>1. table' = T1 /\ best' = IF wins THEN e ELSE b1
  BY Zenon DEF Round
<1>2. b0 = best /\ T0 = table
  OBVIOUS
<1>3. b1 = best /\ (b1 = e) = FALSE
  BY <1>2
<1>4. T1 = SetBest(table, e, FALSE)
  <2> HIDE DEF b1, T0
  <2> QED BY <1>2, <1>3, Zenon
<1>5. wins <=> Better(At(T1, e).attrs, At(T1, best).attrs)
  <2> HIDE DEF b1, T1
  <2> QED BY <1>3, Zenon
<1> HIDE DEF T1, b1, wins
<1> QED BY <1>1, <1>3, <1>4, <1>5, Zenon

\* After a round that enters prefix q.
LEMMA EnterInv ==
  ASSUME LoopInv, Round, NEW c \in 0..N, NEW q \in Prefix,
         currentIt = <<q, 1>>, q > c, given[q] # <<>>,
         \A r \in Prefix : r >= c + 1 /\ r < q => given[r] = <<>>,
         table' = SetBest(MarkTable(given, Passed(c)), <<q, 1>>, TRUE),
         best' = <<q, 1>>, stray' \in {0, 1}
  PROVE  LoopInv'
<1>1. /\ given \in SmallTable /\ given \in Table /\ given' = given
      /\ returned = FALSE /\ returned' = returned /\ current_prefix' = q
  BY Given DEF LoopInv, Round
<1>2. table' = MarkTable(given, Inside(q))
  BY <1>1, Entering
<1>3. currentIt' = After(q, 1)
  <2>1. currentIt' = Following(<<q, 1>>)
    BY DEF Round
  <2> QED BY <2>1, FollowingIsAfter
<1>4. 1 \in 1..Len(given[q]) /\ best' = <<q, Rounds(given[q])[1]>>
  <2>1. given[q] \in Seq(Path) /\ Len(given[q]) > 0
    BY <1>1, TableAt
  <2>2. Rounds(given[q])[1] = 1
    BY <2>1, RoundsGoOn
  <2> QED BY <2>1, <2>2
<1>5. best' # End /\ q \in 0..N
  BY EndIsNoEntry DEF Prefix
<1>6. After(q, 1)' = After(q, 1) /\ Inside(q)' = Inside(q) /\ MarkTable(given, Inside(q))' = MarkTable(given, Inside(q))
  BY <1>1 DEF After, FirstIn, NonEmpty, Inside, MarkTable
<1> QED BY <1>1, <1>2, <1>3, <1>4, <1>5, <1>6 DEF LoopInv

\* After a round that reads entry k+1 of the current prefix.
LEMMA StayInv ==
  ASSUME LoopInv, Round, NEW c \in Prefix, c = current_prefix, best # End,
         NEW k \in 1..Len(given[c]), k < Len(given[c]), currentIt = After(c, k),
         best = <<c, Rounds(given[c])[k]>>, table = MarkTable(given, Inside(c))
  PROVE  LoopInv'
<1> DEFINE s == given[c]
           w == Rounds(s)[k]
<1>1. /\ given \in SmallTable /\ given \in Table /\ given' = given
      /\ returned = FALSE /\ returned' = returned
      /\ stray \in {0, 1}
  BY Given DEF LoopInv, Round
<1>2. s \in Seq(Path) /\ Len(s) \in Nat /\ k + 1 \in 2..Len(s) /\ k + 1 \in 1..Len(s)
  BY <1>1, TableAt
<1>3. currentIt = <<c, k+1>>
  BY DEF After
<1>4. w \in 1..k /\ w \in 1..Len(s)
  BY <1>2, RoundsGoOn
<1>5. Rounds(s)[k+1] = IF Better(s[k+1].attrs, s[w].attrs) THEN k+1 ELSE w
  <2>1. (k + 1) - 1 = k
    OBVIOUS
  <2>2. Rounds(s)[k+1] = IF Better(s[k+1].attrs, s[Rounds(s)[(k+1)-1]].attrs)
                           THEN k+1 ELSE Rounds(s)[(k+1)-1]
    <3> HIDE DEF s
    <3> QED BY <1>2, RoundsGoOn
  <2> QED BY <2>1, <2>2
<1> HIDE DEF w
<1>6. best = <<c, w>> /\ best # currentIt /\ current_prefix = currentIt[1]
  BY <1>3, <1>4 DEF w
<1>7. table' = table
  <2>1. SetBest(table, <<c, k+1>>, FALSE) = table
    BY <1>1, <1>2, Staying
  <2> QED BY <2>1, <1>3, <1>6, RoundStays
<1>8. best' = <<c, Rounds(s)[k+1]>>
  <2>1. \A i \in 1..Len(s) : At(table, <<c, i>>).attrs = s[i].attrs
    BY <1>1, MarkTableAt DEF At
  <2>2. At(table', currentIt).attrs = s[k+1].attrs /\ At(table', best).attrs = s[w].attrs
    BY <2>1, <1>2, <1>3, <1>4, <1>6, <1>7
  <2>3. best' = IF Better(s[k+1].attrs, s[w].attrs) THEN currentIt ELSE best
    BY <2>2, <1>6, RoundStays, Zenon
  <2> QED BY <2>3, <1>3, <1>5, <1>6
<1>9. currentIt' = After(c, k+1) /\ current_prefix' = c /\ stray' = stray
  <2>1. currentIt' = Following(<<c, k+1>>) /\ current_prefix' = c /\ stray' = stray
    BY <1>3, <1>6 DEF Round
  <2> QED BY <2>1, FollowingIsAfter
<1>10. best' # End /\ c \in 0..N
  BY <1>8, EndIsNoEntry DEF Prefix
<1>11. After(c, k+1)' = After(c, k+1) /\ MarkTable(given, Inside(c))' = MarkTable(given, Inside(c))
  BY <1>1 DEF After, FirstIn, NonEmpty, Inside, MarkTable
<1> QED BY <1>1, <1>2, <1>7, <1>8, <1>9, <1>10, <1>11 DEF LoopInv

\* A round preserves the invariant.
LEMMA RoundInv ==
  ASSUME LoopInv, Round
  PROVE  LoopInv'
<1>1. /\ given \in SmallTable /\ currentIt # End /\ returned = FALSE
      /\ stray \in {0, 1} /\ stray' \in {stray, stray + 1}
      /\ best # End => stray' = stray
  BY DEF LoopInv, Round
<1>2. CASE best = End
  <2>1. currentIt = FirstIn(given, 1) /\ table = MarkTable(given, Passed(0)) /\ stray' \in {0, 1}
    BY <1>1, <1>2, PassedNone DEF LoopInv
  <2>2. PICK q \in Prefix : /\ currentIt = <<q, 1>>
                            /\ q >= 1 /\ given[q] # <<>>
                            /\ \A r \in Prefix : r >= 1 /\ r < q => given[r] = <<>>
    BY <1>1, <2>1, FirstInIsFirst
  <2>3. table' = SetBest(MarkTable(given, Passed(0)), <<q, 1>>, TRUE) /\ best' = <<q, 1>>
    BY <1>2, <2>1, <2>2, RoundMoves
  <2>4. 0 \in 0..N /\ q > 0 /\ \A r \in Prefix : r >= 0 + 1 /\ r < q => given[r] = <<>>
    BY <2>2 DEF Prefix
  <2> QED BY <2>1, <2>2, <2>3, <2>4, EnterInv
<1>3. CASE best # End
  <2> DEFINE c == current_prefix
  <2>1. PICK k \in 1..Len(given[c]) : /\ currentIt = After(c, k)
                                      /\ best = <<c, Rounds(given[c])[k]>>
                                      /\ table = MarkTable(given, Inside(c))
    BY <1>3 DEF LoopInv
  <2>2. c \in Prefix /\ c \in 0..N
    BY <1>3 DEF LoopInv, Prefix
  <2>3. CASE k < Len(given[c])
    BY <1>3, <2>1, <2>2, <2>3, StayInv
  <2>4. CASE k = Len(given[c])
    <3>1. currentIt = FirstIn(given, c + 1) /\ c + 1 \in Nat
      BY <2>1, <2>2, <2>4 DEF After
    <3>2. PICK q \in Prefix : /\ currentIt = <<q, 1>>
                              /\ q >= c + 1 /\ given[q] # <<>>
                              /\ \A r \in Prefix : r >= c + 1 /\ r < q => given[r] = <<>>
      BY <1>1, <3>1, FirstInIsFirst
    <3>3. q > c /\ c # currentIt[1]
      BY <2>2, <3>2 DEF Prefix
    <3>4. SetBest(table, best, TRUE) = MarkTable(given, Passed(c))
      <4>1. given[c] # <<>>
        BY <2>1
      <4> QED BY <1>1, <2>1, <2>2, <2>4, <4>1, Leaving
    <3>5. table' = SetBest(MarkTable(given, Passed(c)), <<q, 1>>, TRUE) /\ best' = <<q, 1>>
      <4>1. table' = SetBest(IF best # End THEN SetBest(table, best, TRUE) ELSE table,
                             currentIt, TRUE) /\ best' = currentIt
        BY <3>3, RoundMoves
      <4> QED BY <1>3, <3>2, <3>4, <4>1, Zenon
    <3>6. stray' \in {0, 1}
      BY <1>1, <1>3
    <3> HIDE DEF c
    <3> QED BY <2>2, <3>2, <3>3, <3>5, <3>6, EnterInv
  <2>5. k < Len(given[c]) \/ k = Len(given[c])
    <3>1. given[c] \in Seq(Path)
      BY <1>1, <2>2, Given, TableAt
    <3> QED BY <3>1
  <2> QED BY <2>3, <2>4, <2>5
<1> QED BY <1>2, <1>3

\* The first state of the call.
LEMMA InitInv ==
  ASSUME Init
  PROVE  LoopInv
<1>1. FirstFrom(1) = FirstIn(given, 1)
  BY Zenon DEF Init, FirstFrom, FirstIn
<1>2. /\ given \in SmallTable /\ table = given /\ current_prefix \in 0..N
      /\ best = End /\ currentIt = FirstIn(given, 1) /\ returned = FALSE /\ stray = 0
  BY <1>1 DEF Init
<1> QED BY <1>2 DEF LoopInv

\* Returning changes neither the table nor the iterators.
LEMMA ReturnInv ==
  ASSUME LoopInv, Return
  PROVE  LoopInv'
<1>1. /\ given' = given /\ table' = table /\ current_prefix' = current_prefix
      /\ best' = best /\ currentIt' = currentIt /\ returned' = TRUE
      /\ currentIt = End /\ returned = FALSE
  BY DEF Return, LoopInv
<1>2. stray' \in {0, 1}
  BY <1>1 DEF Return, LoopInv
<1>3. /\ FirstIn(given, 1)' = FirstIn(given, 1)
      /\ \A c, k : After(c, k)' = After(c, k)
      /\ \A c : MarkTable(given, Inside(c))' = MarkTable(given, Inside(c))
  BY <1>1 DEF After, FirstIn, NonEmpty, Inside, MarkTable
<1>4. /\ given \in SmallTable /\ current_prefix \in 0..N
      /\ best = End => table = given /\ currentIt = FirstIn(given, 1)
  BY DEF LoopInv
<1>5. best # End =>
        /\ current_prefix \in Prefix
        /\ \E k \in 1..Len(given[current_prefix]) :
             /\ currentIt = After(current_prefix, k)
             /\ best = <<current_prefix, Rounds(given[current_prefix])[k]>>
             /\ table = MarkTable(given, Inside(current_prefix))
  BY DEF LoopInv
<1> QED BY <1>1, <1>2, <1>3, <1>4, <1>5 DEF LoopInv

\* Every round of best_path_selection() keeps the loop's invariant.
LEMMA NextInv ==
  ASSUME LoopInv, [Next]_vars
  PROVE  LoopInv'
<1>1. CASE Round
  BY <1>1, RoundInv
<1>2. CASE Return
  BY <1>2, ReturnInv
<1>3. CASE UNCHANGED vars
  <2>1. /\ given' = given /\ table' = table /\ current_prefix' = current_prefix
        /\ best' = best /\ currentIt' = currentIt /\ returned' = returned /\ stray' = stray
    BY <1>3 DEF vars
  <2>2. /\ FirstIn(given, 1)' = FirstIn(given, 1)
        /\ \A c, k : After(c, k)' = After(c, k)
        /\ \A c : MarkTable(given, Inside(c))' = MarkTable(given, Inside(c))
    BY <2>1 DEF After, FirstIn, NonEmpty, Inside, MarkTable
  <2> QED BY <2>1, <2>2 DEF LoopInv
<1> QED BY <1>1, <1>2, <1>3 DEF Next

\* In every state the iterators and the marks are those of LoopInv.
THEOREM LoopInvariant == Spec => []LoopInv
<1>1. Init => LoopInv
  BY InitInv
<1>2. LoopInv /\ [Next]_vars => LoopInv'
  BY NextInv
<1> QED BY <1>1, <1>2, PTL DEF Spec

-----------------------------------------------------------------------------
\* The iterators point to entries of the table or to its end, and the table
\* remains a table, for every table the loop may be given.
THEOREM TypeCorrect == Spec => []TypeOK
<1>1. LoopInv => TypeOK
  <2> SUFFICES ASSUME LoopInv PROVE TypeOK
    OBVIOUS
  <2>1. /\ given \in SmallTable /\ given \in Table
        /\ current_prefix \in 0..N /\ returned \in BOOLEAN /\ stray \in {0, 1}
    BY Given DEF LoopInv
  <2>2. \A p \in Prefix : Len(given[p]) \in 0..MaxLen /\ given[p] \in Seq(Path)
    BY <2>1, Given, TableAt
  <2>3. \A p \in Prefix : \A i \in 1..Len(given[p]) : <<p, i>> \in Iterator
    BY <2>2 DEF Iterator
  <2>4. End \in Iterator
    BY DEF Iterator
  <2>5. \A c \in Nat : FirstIn(given, c) \in Iterator
    <3> SUFFICES ASSUME NEW c \in Nat PROVE FirstIn(given, c) \in Iterator
      OBVIOUS
    <3>1. CASE FirstIn(given, c) = End
      BY <3>1, <2>4
    <3>2. CASE FirstIn(given, c) # End
      <4>1. PICK q \in Prefix : FirstIn(given, c) = <<q, 1>> /\ given[q] # <<>>
        BY <3>2, FirstInIsFirst
      <4>2. 1 \in 1..Len(given[q])
        BY <2>2, <4>1
      <4> QED BY <2>3, <4>1, <4>2
    <3> QED BY <3>1, <3>2
  <2>6. table \in Table
    <3>1. \E B : table = MarkTable(given, B)
      BY <2>1, PassedNone DEF LoopInv
    <3> QED BY <2>1, <3>1, MarkTableAt
  <2>7. best \in Iterator /\ currentIt \in Iterator
    <3>1. CASE best = End
      BY <2>4, <2>5, <3>1 DEF LoopInv
    <3>2. CASE best # End
      <4> DEFINE c == current_prefix
      <4>1. c \in Prefix /\ c + 1 \in Nat
        BY <3>2 DEF LoopInv, Prefix
      <4>2. PICK k \in 1..Len(given[c]) : /\ currentIt = After(c, k)
                                          /\ best = <<c, Rounds(given[c])[k]>>
        BY <3>2 DEF LoopInv
      <4> HIDE DEF c
      <4>3. Rounds(given[c])[k] \in 1..Len(given[c])
        <5>1. given[c] \in Seq(Path) /\ Len(given[c]) \in Nat
          BY <2>2, <4>1
        <5>2. Rounds(given[c])[k] \in 1..k
          BY <5>1, RoundsGoOn
        <5> QED BY <5>1, <5>2
      <4>4. After(c, k) \in Iterator
        <5>1. CASE k < Len(given[c])
          <6>1. k + 1 \in 1..Len(given[c])
            BY <5>1, <2>2, <4>1
          <6> QED BY <5>1, <6>1, <2>3, <4>1 DEF After
        <5>2. CASE ~(k < Len(given[c]))
          BY <5>2, <2>5, <4>1 DEF After
        <5> QED BY <5>1, <5>2
      <4> QED BY <2>3, <4>1, <4>2, <4>3, <4>4
    <3> QED BY <3>1, <3>2
  <2>8. DOMAIN table = Prefix /\ \A p \in Prefix : table[p] \in Seq(Path)
    BY <2>6 DEF Table
  <2>9. stray \in 0..N+1
    BY <2>1
  <2> QED BY <2>1, <2>7, <2>8, <2>9 DEF TypeOK
<1> QED BY <1>1, LoopInvariant, PTL

\* When best_path_selection() returns, the marks of the table are those of
\* SelectAll, which Rib uses for the whole call.
THEOREM LoopComputesSelectAll == Spec => []LoopIsSelectAll
<1>1. LoopInv => LoopIsSelectAll
  BY LoopEnds DEF LoopInv, LoopIsSelectAll
<1> QED BY <1>1, LoopInvariant, PTL

\* In every prefix but the last one with entries, the entry that
\* best_path_selection( prefix ) would mark is marked by
\* best_path_selection() as well.
THEOREM SelectionsMeet == Spec => []SelectionsAgree
<1>1. LoopInv => SelectionsAgree
  <2> SUFFICES ASSUME LoopInv, returned, NEW p \in NonEmpty(given),
                      \E q \in NonEmpty(given) : q > p,
                      NEW i \in 1..Len(given[p]), Select(given, p)[p][i].isBest
               PROVE  table[p][i].isBest
    BY DEF SelectionsAgree
  <2>1. given \in Table /\ p \in Prefix /\ given[p] # <<>>
    BY Given DEF LoopInv, NonEmpty
  <2>2. given[p] \in Seq(Path)
    BY <2>1, TableAt
  <2>3. table[p] = Mark(given[p], {1, Winner(given[p])})
    <3>1. table = SelectAll(given)
      BY LoopEnds DEF LoopInv
    <3> QED BY <2>1, <3>1 DEF SelectAll
  <2>4. Select(given, p)[p] = Mark(given[p], {Winner(given[p])})
    BY <2>1 DEF Select, Table
  <2>5. i \in {Winner(given[p])}
    <3>1. Mark(given[p], {Winner(given[p])})[i].isBest = (i \in {Winner(given[p])})
      BY <2>2, MarkAt
    <3> QED BY <2>4, <3>1
  <2>6. Mark(given[p], {1, Winner(given[p])})[i].isBest = (i \in {1, Winner(given[p])})
    BY <2>2, MarkAt
  <2> QED BY <2>3, <2>5, <2>6
<1> QED BY <1>1, LoopInvariant, PTL
=============================================================================
