-------------------------- MODULE NumbersAndLists --------------------------
(***************************************************************************)
(* Lemmas on the naturals and on sequences that the proofs of the          *)
(* components share: their inductions take a least counterexample, the     *)
(* loops of the code are functions on 0..n defined from the value before,  *)
(* and messages are bytes that follow each other.                          *)
(***************************************************************************)
EXTENDS Integers, Sequences, SequencesExt, FiniteSetsExt,
        WellFoundedInduction, SequenceTheorems, TLAPS

\* Every set of naturals that is not empty has a least member: all
\* inductions of the proofs take a least counterexample.
LEMMA LeastNat ==
  ASSUME NEW S \in SUBSET Nat, S # {}
  PROVE  \E m \in S : \A y \in S : m <= y
<1> DEFINE R == {ss \in Nat \X Nat : ss[1] < ss[2]}
<1>1. IsWellFoundedOn(R, Nat)
  <2>1. R = OpToRel(<, Nat)
    BY Zenon DEF OpToRel
  <2> QED BY <2>1, NatLessThanWellFounded, Zenon
<1>2. \A x, y \in Nat : x < y => <<x, y>> \in R
  OBVIOUS
<1> HIDE DEF R
<1>3. PICK m \in S : \A y \in S : ~(<<y, m>> \in R)
  BY <1>1, WFMin
<1>4. \A y \in S : ~(y < m)
  BY <1>2, <1>3
<1>5. \A y \in S : m <= y
  <2>1. \A y \in S : y \in Nat
    OBVIOUS
  <2> QED BY <1>4, <2>1
<1> QED BY <1>5

\* Induction up to k, on the set of the numbers that are good.
LEMMA UpTo ==
  ASSUME NEW k \in Nat, NEW G, 0 \in G, \A i \in 1..k : i-1 \in G => i \in G
  PROVE  \A i \in 0..k : i \in G
<1> DEFINE Bad == {i \in 0..k : i \notin G}
<1>1. SUFFICES ASSUME Bad # {} PROVE FALSE
  OBVIOUS
<1>2. Bad \in SUBSET Nat
  OBVIOUS
<1>3. PICK m \in Bad : \A y \in Bad : m <= y
  <2> HIDE DEF Bad
  <2> QED BY <1>1, <1>2, LeastNat
<1>4. m \in 1..k /\ m-1 \in 0..k /\ m-1 \notin Bad
  BY <1>3
<1> QED BY <1>3, <1>4

\* Min is the least member.
LEMMA MinIsLeast ==
  ASSUME NEW S \in SUBSET Nat, S # {}
  PROVE  Min(S) \in S /\ \A y \in S : Min(S) <= y
<1>1. \E m \in S : \A y \in S : m <= y
  BY LeastNat
<1> QED BY <1>1 DEF Min

\* The greater and the smaller of two.
LEMMA MaxOfTwo ==
  ASSUME NEW a \in Int, NEW b \in Int
  PROVE  Max({a, b}) = IF a >= b THEN a ELSE b
<1>1. \E x \in {a, b} : \A y \in {a, b} : x >= y
  OBVIOUS
<1> QED BY <1>1 DEF Max

\* The smaller of two numbers.
LEMMA MinOfTwo ==
  ASSUME NEW a \in Int, NEW b \in Int
  PROVE  Min({a, b}) = IF a <= b THEN a ELSE b
<1>1. \E x \in {a, b} : \A y \in {a, b} : x <= y
  OBVIOUS
<1> QED BY <1>1 DEF Min

-----------------------------------------------------------------------------
\* What a loop computes: from a in D, step i takes a member of D to another.
Iterates(f, n, a, step) ==
  f = [i \in 0..n |-> IF i = 0 THEN a ELSE step[i][f[i-1]]]

\* A loop whose steps stay in D has its values, all of them in D.
LEMMA LoopExists ==
  ASSUME NEW n \in Nat, NEW D, NEW a \in D, NEW step \in [1..n -> [D -> D]]
  PROVE  \E f \in [0..n -> D] : Iterates(f, n, a, step)
<1> DEFINE Upto(k, f) == /\ f \in [0..k -> D]
                         /\ f[0] = a
                         /\ \A i \in 1..k : f[i] = step[i][f[i-1]]
           G == {k \in 0..n : \E f : Upto(k, f)}
<1>1. 0 \in G
  <2>1. Upto(0, [i \in 0..0 |-> a])
    OBVIOUS
  <2> HIDE DEF Upto
  <2> QED BY <2>1
<1>2. ASSUME NEW k \in 1..n, k-1 \in G PROVE k \in G
  <2>1. PICK f : Upto(k-1, f)
    BY <1>2
  <2> DEFINE g == [i \in 0..k |-> IF i = k THEN step[k][f[k-1]] ELSE f[i]]
  <2>2. f[k-1] \in D /\ step[k] \in [D -> D]
    BY <2>1
  <2>3. g \in [0..k -> D]
    BY <2>1, <2>2
  <2>4. \A i \in 1..k : g[i] = step[i][g[i-1]]
    BY <2>1
  <2>5. g[0] = a
    BY <2>1
  <2> HIDE DEF g
  <2> QED BY <2>3, <2>4, <2>5
<1>3. n \in G
  <2> HIDE DEF G
  <2>1. \A k \in 0..n : k \in G
    BY <1>1, <1>2, UpTo
  <2> QED BY <2>1
<1>4. PICK f : Upto(n, f)
  BY <1>3
<1>5. Iterates(f, n, a, step)
  BY <1>4 DEF Iterates
<1> QED BY <1>4, <1>5

-----------------------------------------------------------------------------
\* Sequences, put together.

\* Concatenation, as an operator that a proof need not look into.
Then(a, b) == a \o b

Joined(c, s, t) ==
  /\ Len(c) = Len(s) + Len(t) /\ Len(s) \in Nat /\ Len(t) \in Nat
  /\ \A i \in 1..Len(s) : c[i] = s[i]
  /\ \A i \in 1..Len(t) : c[Len(s) + i] = t[i]

\* One list and then another is a list that has both, one after the other.
LEMMA ThenJoins ==
  ASSUME NEW B, NEW s \in Seq(B), NEW t \in Seq(B)
  PROVE  Then(s, t) \in Seq(B) /\ Joined(Then(s, t), s, t)
BY DEF Then, Joined

\* It does not matter which of three lists are joined first.
LEMMA ThenAgain ==
  ASSUME NEW B, NEW s \in Seq(B), NEW t \in Seq(B), NEW u \in Seq(B)
  PROVE  Then(s, Then(t, u)) = Then(Then(s, t), u)
BY ConcatAssociative, SMTT(30) DEF Then

\* The empty list adds nothing.
LEMMA ThenNothing ==
  ASSUME NEW B, NEW s \in Seq(B)
  PROVE  Then(s, <<>>) = s /\ Then(<<>>, s) = s
BY ConcatEmptySeq, Zenon DEF Then

\* What is followed by the same is the same.
LEMMA ThenCancels ==
  ASSUME NEW B, NEW s \in Seq(B), NEW t \in Seq(B), NEW u \in Seq(B),
         Then(s, u) = Then(t, u)
  PROVE  s = t
<1>1. \A S : \A x, y, v \in Seq(S) : x \o v = y \o v => x = y
  BY ConcatSimplifications, Zenon
<1> QED BY <1>1, Zenon DEF Then

-----------------------------------------------------------------------------
\* The bytes of messages, one after the other.

\* The recursion of FlattenSeq has its values.
IsFlat(f, s, n) == f = [i \in 1..n |-> IF i = 1 THEN s[i] ELSE Then(f[i-1], s[i])]

\* The joining of the first n parts exists as a function.
LEMMA FlatExists ==
  ASSUME NEW s, NEW n \in Nat
  PROVE  \E f : IsFlat(f, s, n)
<1> DEFINE G == {k \in 0..n : \E f : IsFlat(f, s, k)}
<1>1. 0 \in G
  <2>1. IsFlat([i \in 1..0 |-> s[i]], s, 0)
    BY DEF IsFlat
  <2> QED BY <2>1
<1>2. ASSUME NEW k \in 1..n, k-1 \in G PROVE k \in G
  <2>1. PICK f : IsFlat(f, s, k-1)
    BY <1>2
  <2>2. IsFlat([i \in 1..k |-> IF i = k THEN (IF k = 1 THEN s[1] ELSE Then(f[k-1], s[k]))
                                       ELSE f[i]], s, k)
    BY <2>1 DEF IsFlat
  <2> QED BY <2>2
<1>3. n \in G
  <2> HIDE DEF G
  <2>1. \A k \in 0..n : k \in G
    BY <1>1, <1>2, UpTo
  <2> QED BY <2>1
<1> QED BY <1>3

FlatSteps(f, s) ==
  /\ f[1] = s[1]
  /\ \A i \in 2..Len(s) : f[i] = Then(f[i-1], s[i])
  /\ FlattenSeq(s) = f[Len(s)]

\* FlattenSeq joins the parts one by one.
LEMMA FlattenSteps ==
  ASSUME NEW D, NEW s \in Seq(D), s # <<>>
  PROVE  \E f : FlatSteps(f, s)
<1> DEFINE flatten[i \in 1..Len(s)] == IF i = 1 THEN s[i] ELSE Then(flatten[i-1], s[i])
<1>1. Len(s) \in Nat /\ Len(s) # 0
  OBVIOUS
<1>2. IsFlat(flatten, s, Len(s))
  BY <1>1, FlatExists DEF IsFlat
<1>3. FlattenSeq(s) = flatten[Len(s)]
  BY <1>1 DEF FlattenSeq, Then
<1> HIDE DEF flatten
<1>4. flatten[1] = s[1] /\ \A i \in 2..Len(s) : flatten[i] = Then(flatten[i-1], s[i])
  BY <1>1, <1>2 DEF IsFlat
<1> QED BY <1>3, <1>4 DEF FlatSteps

\* No parts make the empty list.
LEMMA FlattenNone == FlattenSeq(<<>>) = <<>>
BY DEF FlattenSeq

\* One more message adds its bytes.
LEMMA FlattenAppend ==
  ASSUME NEW B, NEW s \in Seq(Seq(B)), NEW m \in Seq(B)
  PROVE  FlattenSeq(Append(s, m)) = Then(FlattenSeq(s), m)
<1> DEFINE t == Append(s, m)
<1>1. /\ t \in Seq(Seq(B)) /\ t # <<>> /\ Len(t) = Len(s) + 1
      /\ \A i \in 1..Len(s) : t[i] = s[i]
      /\ t[Len(s) + 1] = m /\ Len(s) \in Nat
  BY AppendProperties
<1> HIDE DEF t
<1>2. PICK g : FlatSteps(g, t)
  BY <1>1, FlattenSteps
<1>3. CASE s = <<>>
  <2>1. FlattenSeq(t) = m
    BY <1>1, <1>2, <1>3 DEF FlatSteps
  <2>2. Then(FlattenSeq(s), m) = m
    BY <1>3, FlattenNone, ThenNothing
  <2> QED BY <2>1, <2>2 DEF t
<1>4. CASE s # <<>>
  <2>1. PICK f : FlatSteps(f, s)
    BY <1>4, FlattenSteps
  <2> DEFINE G == {i \in 0..Len(s) : i = 0 \/ f[i] = g[i]}
  <2>2. ASSUME NEW i \in 1..Len(s), i-1 \in G PROVE i \in G
    <3>1. CASE i = 1
      BY <1>1, <1>2, <2>1, <3>1 DEF FlatSteps
    <3>2. CASE i # 1
      <4>1. i \in 1..Len(s) /\ i \in 2..Len(s) /\ i \in 2..Len(t) /\ f[i-1] = g[i-1]
        BY <1>1, <2>2, <3>2
      <4>2. f[i] = Then(f[i-1], s[i]) /\ g[i] = Then(g[i-1], t[i]) /\ t[i] = s[i]
        BY <1>1, <1>2, <2>1, <4>1 DEF FlatSteps
      <4>3. f[i] = g[i]
        BY <4>1, <4>2
      <4> QED BY <4>3
    <3> QED BY <3>1, <3>2
  <2>3. Len(s) \in G
    <3>1. 0 \in G
      BY <1>1
    <3> HIDE DEF G
    <3>2. \A i \in 0..Len(s) : i \in G
      BY <1>1, <2>2, <3>1, UpTo
    <3> QED BY <1>1, <3>2
  <2>4. Len(s) # 0
    BY <1>4
  <2>5. Len(t) \in 2..Len(t) /\ Len(t) - 1 = Len(s)
    BY <1>1, <2>4
  <2>6. g[Len(t)] = Then(g[Len(s)], m)
    BY <1>1, <1>2, <2>5 DEF FlatSteps
  <2>7. FlattenSeq(t) = Then(FlattenSeq(s), m)
    BY <1>2, <2>1, <2>3, <2>4, <2>6 DEF FlatSteps
  <2> QED BY <2>7 DEF t
<1> QED BY <1>3, <1>4

\* The bytes of the messages after the i-th, up to the k-th.
Bytes(s, i, k) == FlattenSeq(SubSeq(s, i + 1, k))

\* Between a part and itself there is nothing.
LEMMA BytesNone ==
  ASSUME NEW s, NEW i \in Nat
  PROVE  Bytes(s, i, i) = <<>>
<1>1. i + 1 \in Int /\ i \in Int /\ i < i + 1
  OBVIOUS
<1>2. SubSeq(s, i + 1, i) = <<>>
  BY <1>1, SubSeqEmpty
<1> QED BY <1>2, FlattenNone DEF Bytes

\* One more part at the end comes after those before it.
LEMMA BytesLast ==
  ASSUME NEW B, NEW s \in Seq(Seq(B)), NEW i \in Nat, NEW k \in 1..Len(s), i < k
  PROVE  Bytes(s, i, k) = Then(Bytes(s, i, k-1), s[k])
<1> DEFINE u == SubSeq(s, i + 1, k - 1)
<1>1. s[k] \in Seq(B)
  BY ElementOfSeq
<1>2. u \in Seq(Seq(B))
  <2>1. \A x \in (i+1)..(k-1) : s[x] \in Seq(B)
    BY ElementOfSeq
  <2> QED BY <2>1, SubSeqProperties
<1>3. SubSeq(s, i + 1, k) = u \o <<s[k]>>
  <2>1. i + 1 \in 1..Len(s) /\ k \in (i+1)..Len(s)
    OBVIOUS
  <2> QED BY <2>1, SubSeqRecursiveSecond
<1> HIDE DEF u
<1>4. u \o <<s[k]>> = Append(u, s[k])
  BY <1>1, <1>2, AppendIsConcat
<1> QED BY <1>1, <1>2, <1>3, <1>4, FlattenAppend DEF Bytes, u

\* The bytes of messages are a sequence of bytes.
LEMMA BytesType ==
  ASSUME NEW B, NEW s \in Seq(Seq(B)), NEW a \in Nat, NEW b \in Nat, a <= b, b <= Len(s)
  PROVE  Bytes(s, a, b) \in Seq(B)
<1> DEFINE G == {d \in 0..(b - a) : Bytes(s, a, a + d) \in Seq(B)}
<1>1. b - a \in Nat /\ 0 \in 0..(b - a) /\ a + 0 = a /\ a + (b - a) = b
  OBVIOUS
<1>2. 0 \in G
  <2>1. Bytes(s, a, a) = <<>>
    BY BytesNone
  <2>2. Bytes(s, a, a + 0) \in Seq(B)
    BY <1>1, <2>1
  <2> QED BY <1>1, <2>2
<1>3. ASSUME NEW d \in 1..(b - a), d-1 \in G PROVE d \in G
  <2>1. Bytes(s, a, a + (d-1)) \in Seq(B)
    BY <1>3
  <2>2. a + d \in 1..Len(s) /\ a < a + d /\ (a + d) - 1 = a + (d - 1) /\ d \in 0..(b - a)
    OBVIOUS
  <2>3. Bytes(s, a, a + d) = Then(Bytes(s, a, (a + d) - 1), s[a + d])
    BY <2>2, BytesLast
  <2>4. s[a + d] \in Seq(B)
    BY <2>2, ElementOfSeq
  <2>5. Then(Bytes(s, a, a + (d-1)), s[a + d]) \in Seq(B)
    BY <2>1, <2>4, ThenJoins
  <2>6. Bytes(s, a, a + d) \in Seq(B)
    BY <2>2, <2>3, <2>5
  <2> QED BY <2>2, <2>6
<1>4. \A d \in 0..(b - a) : d \in G
  <2> HIDE DEF G
  <2> QED BY <1>1, <1>2, <1>3, UpTo
<1>5. b - a \in G
  <2> HIDE DEF G
  <2> QED BY <1>1, <1>4
<1>6. Bytes(s, a, a + (b - a)) \in Seq(B)
  BY <1>5
<1> QED BY <1>1, <1>6, Zenon

\* Messages i+1 to k are i+1 to j, then j+1 to k.
LEMMA BytesSplit ==
  ASSUME NEW B, NEW s \in Seq(Seq(B)), NEW i \in Nat, NEW j \in Nat,
         NEW k \in Nat, i <= j, j <= k, k <= Len(s)
  PROVE  Bytes(s, i, k) = Then(Bytes(s, i, j), Bytes(s, j, k))
<1> DEFINE G == {d \in 0..(k - j) :
                   Bytes(s, i, j + d) = Then(Bytes(s, i, j), Bytes(s, j, j + d))}
<1>1. k - j \in Nat /\ 0 \in 0..(k - j) /\ j + 0 = j /\ j + (k - j) = k /\ j <= Len(s)
  OBVIOUS
<1>2. Bytes(s, i, j) \in Seq(B)
  BY <1>1, BytesType
<1>3. 0 \in G
  <2>1. Then(Bytes(s, i, j), Bytes(s, j, j)) = Bytes(s, i, j)
    BY <1>2, ThenNothing, BytesNone
  <2> QED BY <1>1, <2>1
<1>4. ASSUME NEW d \in 1..(k - j), d-1 \in G PROVE d \in G
  <2>1. Bytes(s, i, j + (d-1)) = Then(Bytes(s, i, j), Bytes(s, j, j + (d-1)))
    BY <1>4
  <2>2. /\ j + d \in 1..Len(s) /\ i < j + d /\ j < j + d /\ (j + d) - 1 = j + (d - 1)
        /\ d \in 0..(k - j) /\ j + (d-1) \in Nat /\ j <= j + (d-1) /\ j + (d-1) <= Len(s)
    OBVIOUS
  <2>3. /\ Bytes(s, i, j + d) = Then(Bytes(s, i, j + (d-1)), s[j + d])
        /\ Bytes(s, j, j + d) = Then(Bytes(s, j, j + (d-1)), s[j + d])
    BY <2>2, BytesLast
  <2>4. s[j + d] \in Seq(B)
    BY <2>2, ElementOfSeq
  <2>5. Bytes(s, j, j + (d-1)) \in Seq(B)
    BY <2>2, BytesType
  <2>6. Bytes(s, i, j + d) = Then(Bytes(s, i, j), Bytes(s, j, j + d))
    BY <1>2, <2>1, <2>3, <2>4, <2>5, ThenAgain
  <2> QED BY <2>2, <2>6
<1>5. \A d \in 0..(k - j) : d \in G
  <2> HIDE DEF G
  <2> QED BY <1>1, <1>3, <1>4, UpTo
<1>6. k - j \in G
  <2> HIDE DEF G
  <2> QED BY <1>1, <1>5
<1> QED BY <1>1, <1>6

\* One more part at the beginning comes before those after it.
LEMMA BytesFirst ==
  ASSUME NEW B, NEW s \in Seq(Seq(B)), NEW i \in Nat, NEW k \in Nat, i < k, k <= Len(s)
  PROVE  Bytes(s, i, k) = Then(s[i+1], Bytes(s, i+1, k))
<1>1. /\ i + 1 \in 1..Len(s) /\ (i + 1) - 1 = i /\ i < i + 1
      /\ i + 1 \in Nat /\ i <= i + 1 /\ i + 1 <= k
  OBVIOUS
<1>2. s[i+1] \in Seq(B)
  BY <1>1, ElementOfSeq
<1>3. Bytes(s, i, i+1) = Then(Bytes(s, i, i), s[i+1])
  BY <1>1, BytesLast
<1>4. Bytes(s, i, i+1) = s[i+1]
  BY <1>2, <1>3, ThenNothing, BytesNone
<1>5. Bytes(s, i, k) = Then(Bytes(s, i, i+1), Bytes(s, i+1, k))
  BY <1>1, BytesSplit
<1> QED BY <1>4, <1>5

\* Appending a message changes the bytes of no others.
LEMMA BytesAppend ==
  ASSUME NEW B, NEW s \in Seq(Seq(B)), NEW m \in Seq(B), NEW i \in Nat, i <= Len(s)
  PROVE  Bytes(Append(s, m), i, Len(s) + 1) = Then(Bytes(s, i, Len(s)), m)
<1> DEFINE t == Append(s, m)
<1>1. /\ t \in Seq(Seq(B)) /\ Len(t) = Len(s) + 1 /\ t[Len(s) + 1] = m
      /\ \A x \in 1..Len(s) : t[x] = s[x]
      /\ Len(s) \in Nat
  BY AppendProperties
<1> HIDE DEF t
<1>2. SubSeq(t, i + 1, Len(s)) = SubSeq(s, i + 1, Len(s))
  BY <1>1
<1>3. Bytes(t, i, Len(s) + 1) = Then(Bytes(t, i, Len(s)), m)
  <2>1. Len(s) + 1 \in 1..Len(t) /\ i < Len(s) + 1 /\ (Len(s) + 1) - 1 = Len(s)
    BY <1>1
  <2> QED BY <1>1, <2>1, BytesLast
<1> QED BY <1>2, <1>3 DEF Bytes, t
=============================================================================
