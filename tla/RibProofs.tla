----------------------------- MODULE RibProofs -----------------------------
(***************************************************************************)
(* Proofs about Rib for any number of prefixes, neighbours, attribute      *)
(* lists and messages.                                                     *)
(***************************************************************************)
EXTENDS Rib, PathsProofs

USE NAssumption, PeerAssumption, AttrAssumption

-----------------------------------------------------------------------------
\* The calls of a handler.

CallSet == [call : {"del_path"}, prefix : Prefix]
           \cup [call : {"add_path"}, prefix : Prefix, attrs : Attrs]

Announced == [Prefix -> Attr \cup {None}]

Heard == [table : Table, said : Announced]

\* One call maps tables to tables.
LEMMA CallType ==
  ASSUME NEW r \in Heard, NEW c \in CallSet, NEW n \in Source
  PROVE  Call(r, c, n) \in Heard
<1>1. r.table \in Table /\ r.said \in Announced /\ c.prefix \in Prefix
  BY DEF Heard, CallSet
<1>2. CASE c.call = "del_path"
  <2>1. DelPath(r.table, c.prefix, n) \in Table
    BY <1>1, DelPathRoutes
  <2>2. [r.said EXCEPT ![c.prefix] = None] \in Announced
    BY <1>1 DEF Announced
  <2> QED BY <1>2, <2>1, <2>2 DEF Call, Heard
<1>3. CASE c.call # "del_path"
  <2>1. c.attrs \in Attrs /\ c.attrs.attr \in Attr
    BY <1>3 DEF CallSet, Attrs
  <2>2. AddPath(r.table, c.prefix, c.attrs, n) \in Table
    BY <1>1, <2>1, AddPathRoutes
  <2>3. [r.said EXCEPT ![c.prefix] = c.attrs.attr] \in Announced
    BY <1>1, <2>1 DEF Announced
  <2> QED BY <1>3, <2>2, <2>3 DEF Call, Heard
<1> QED BY <1>2, <1>3

\* RunCalls is the last of a sequence of steps, each of them one call.
IsRun(f, r, cs, n, k) ==
  f = [i \in 0..k |-> IF i = 0 THEN r ELSE Call(f[i-1], cs[i], n)]

\* The results of the calls of a handler exist as a function.
LEMMA RunExists ==
  ASSUME NEW r, NEW cs \in Seq(CallSet), NEW n
  PROVE  \E f : IsRun(f, r, cs, n, Len(cs))
<1> DEFINE Bad == {k \in 0..Len(cs) : ~ \E f : IsRun(f, r, cs, n, k)}
<1>1. SUFFICES ASSUME Bad # {} PROVE FALSE
  <2>1. Len(cs) \in 0..Len(cs)
    OBVIOUS
  <2> QED BY <2>1
<1>2. Bad \in SUBSET Nat
  OBVIOUS
<1>3. PICK m \in Bad : \A y \in Bad : m <= y
  <2> HIDE DEF Bad
  <2> QED BY <1>1, <1>2, LeastNat
<1>4. m # 0
  <2>1. IsRun([i \in 0..0 |-> r], r, cs, n, 0)
    BY DEF IsRun
  <2> QED BY <2>1
<1>5. PICK f : IsRun(f, r, cs, n, m-1)
  BY <1>3, <1>4
<1>6. IsRun([i \in 0..m |-> IF i = m THEN Call(f[m-1], cs[m], n) ELSE f[i]], r, cs, n, m)
  BY <1>3, <1>4, <1>5 DEF IsRun
<1> QED BY <1>6

Steps(f, r, cs, n) ==
  /\ f[0] = r
  /\ \A i \in 1..Len(cs) : f[i] = Call(f[i-1], cs[i], n)
  /\ RunCalls(r, cs, n) = f[Len(cs)]

\* RunCalls makes the calls one by one.
LEMMA RunCallsSteps ==
  ASSUME NEW r, NEW cs \in Seq(CallSet), NEW n
  PROVE  \E f : Steps(f, r, cs, n)
<1> DEFINE run[i \in 0..Len(cs)] == IF i = 0 THEN r ELSE Call(run[i-1], cs[i], n)
<1>1. IsRun(run, r, cs, n, Len(cs))
  BY RunExists DEF IsRun
<1>2. RunCalls(r, cs, n) = run[Len(cs)]
  BY DEF RunCalls
<1> HIDE DEF run
<1>3. run[0] = r /\ \A i \in 1..Len(cs) : run[i] = Call(run[i-1], cs[i], n)
  BY <1>1 DEF IsRun
<1> QED BY <1>2, <1>3 DEF Steps

\* The calls of a handler return a table.
LEMMA RunCallsType ==
  ASSUME NEW r \in Heard, NEW cs \in Seq(CallSet), NEW n \in Source
  PROVE  RunCalls(r, cs, n) \in Heard
<1>0. PICK f : Steps(f, r, cs, n)
  BY RunCallsSteps
<1>1. /\ f[0] = r
      /\ \A i \in 1..Len(cs) : f[i] = Call(f[i-1], cs[i], n)
      /\ RunCalls(r, cs, n) = f[Len(cs)]
  BY <1>0 DEF Steps
<1> DEFINE Bad == {k \in 0..Len(cs) : f[k] \notin Heard}
<1>2. SUFFICES ASSUME Bad # {} PROVE FALSE
  <2>1. Len(cs) \in 0..Len(cs)
    OBVIOUS
  <2> QED BY <1>1, <2>1
<1>3. PICK m \in Bad : \A y \in Bad : m <= y
  <2>1. Bad \in SUBSET Nat
    OBVIOUS
  <2> HIDE DEF Bad
  <2> QED BY <1>2, <2>1, LeastNat
<1>4. m \in 1..Len(cs) /\ f[m-1] \in Heard /\ cs[m] \in CallSet
  <2>1. m # 0
    BY <1>1, <1>3
  <2>2. m \in 1..Len(cs) /\ m-1 \in 0..Len(cs) /\ m-1 \notin Bad
    BY <1>3, <2>1
  <2>3. cs[m] \in CallSet
    <3> HIDE DEF Bad
    <3> QED BY <2>2
  <2> QED BY <2>2, <2>3
<1> QED BY <1>1, <1>3, <1>4, CallType

\* A function on 1..k is a sequence of length k.
LEMMA FunctionIsSeq ==
  ASSUME NEW S, NEW k \in Nat, NEW f \in [1..k -> S]
  PROVE  f \in Seq(S) /\ Len(f) = k
  OBVIOUS

\* A call is made for the prefix of its message.
LEMMA CallTypes ==
  /\ \A p \in Prefix : DelCall(p) \in CallSet /\ DelCall(p).prefix = p
  /\ \A p \in Prefix, a \in Attr, j \in Junk :
       /\ AddCall(p, a, j) \in CallSet
       /\ AddCall(p, a, j).prefix = p
       /\ AddCall(p, a, j).attrs.attr = a
  BY DEF DelCall, AddCall, CallSet, Attrs

\* An UPDATE is a sequence of calls: the withdrawn prefixes first.
LEMMA CallsType ==
  ASSUME NEW m \in Message, NEW js \in [1..Len(m.routes) -> Junk]
  PROVE  /\ m.withdrawn \in Seq(Prefix) /\ m.routes \in Seq(Prefix) /\ m.attr \in Attr
         /\ Calls(m, js) \in Seq(CallSet)
         /\ Len(Calls(m, js)) = Len(m.withdrawn) + Len(m.routes)
         /\ \A i \in 1..Len(m.withdrawn) : Calls(m, js)[i] = DelCall(m.withdrawn[i])
         /\ \A i \in 1..Len(m.routes) :
              Calls(m, js)[Len(m.withdrawn) + i] = AddCall(m.routes[i], m.attr, js[i])
<1> DEFINE w  == m.withdrawn
           rs == m.routes
           d  == [i \in 1..Len(w) |-> DelCall(w[i])]
           a  == [i \in 1..Len(rs) |-> AddCall(rs[i], m.attr, js[i])]
<1>1. w \in Seq(Prefix) /\ rs \in Seq(Prefix) /\ m.attr \in Attr
  BY MessageAssumption
<1>2. js \in [1..Len(rs) -> Junk]
  OBVIOUS
<1>3. Calls(m, js) = d \o a
  BY Zenon DEF Calls
<1> HIDE DEF w, rs
<1>4. Len(w) \in Nat /\ Len(rs) \in Nat
  BY <1>1
<1>5. d \in [1..Len(w) -> CallSet] /\ \A i \in 1..Len(w) : d[i] = DelCall(w[i])
  BY <1>1, CallTypes
<1>6. /\ a \in [1..Len(rs) -> CallSet]
      /\ \A i \in 1..Len(rs) : a[i] = AddCall(rs[i], m.attr, js[i])
  BY <1>1, <1>2, CallTypes
<1> HIDE DEF d, a
<1>7. d \in Seq(CallSet) /\ Len(d) = Len(w) /\ a \in Seq(CallSet) /\ Len(a) = Len(rs)
  BY <1>4, <1>5, <1>6, FunctionIsSeq
<1>8. /\ d \o a \in Seq(CallSet)
      /\ Len(d \o a) = Len(d) + Len(a)
      /\ \A i \in 1 .. Len(d) + Len(a) : (d \o a)[i] =
            IF i <= Len(d) THEN d[i] ELSE a[i - Len(d)]
  <2>1. d \in Seq(CallSet) /\ a \in Seq(CallSet)
    BY <1>7
  <2> QED BY <2>1, ConcatProperties, SMTT(30)
<1>9. \A i \in 1..Len(w) : (d \o a)[i] = DelCall(w[i])
  BY <1>4, <1>5, <1>7, <1>8
<1>10. \A i \in 1..Len(rs) : (d \o a)[Len(w) + i] = AddCall(rs[i], m.attr, js[i])
  <2> TAKE i \in 1..Len(rs)
  <2>1. Len(w) + i \in 1 .. Len(d) + Len(a) /\ ~(Len(w) + i <= Len(d))
    BY <1>4, <1>7
  <2>2. (Len(w) + i) - Len(d) = i
    BY <1>4, <1>7
  <2> QED BY <1>6, <1>8, <2>1, <2>2
<1> QED BY <1>1, <1>3, <1>7, <1>8, <1>9, <1>10 DEF w, rs

\* rx_update makes no calls but for the prefixes of the message.
LEMMA CallsPrefixes ==
  ASSUME NEW m \in Message, NEW js \in [1..Len(m.routes) -> Junk]
  PROVE  /\ Touched(m) \subseteq Prefix
         /\ \A i \in 1..Len(Calls(m, js)) : Calls(m, js)[i].prefix \in Touched(m)
<1> DEFINE w == m.withdrawn
           rs == m.routes
           cs == Calls(m, js)
<1>1. /\ w \in Seq(Prefix) /\ rs \in Seq(Prefix) /\ m.attr \in Attr
      /\ Len(cs) = Len(w) + Len(rs)
      /\ \A i \in 1..Len(w) : cs[i] = DelCall(w[i])
      /\ \A i \in 1..Len(rs) : cs[Len(w) + i] = AddCall(rs[i], m.attr, js[i])
  BY CallsType, Zenon
<1>2. js \in [1..Len(rs) -> Junk]
  OBVIOUS
<1>3. Touched(m) = ToSet(w) \cup ToSet(rs)
  BY DEF Touched
<1> HIDE DEF w, rs, cs
<1>4. /\ \A i \in 1..Len(w) : w[i] \in Prefix /\ w[i] \in Touched(m)
      /\ \A i \in 1..Len(rs) : rs[i] \in Prefix /\ rs[i] \in Touched(m)
      /\ Len(w) \in Nat /\ Len(rs) \in Nat
  BY <1>1, <1>3 DEF ToSet
<1>5. \A i \in 1..Len(cs) : cs[i].prefix \in Touched(m)
  <2> TAKE i \in 1..Len(cs)
  <2>1. CASE i \in 1..Len(w)
    BY <1>1, <1>4, <2>1, CallTypes
  <2>2. CASE ~(i \in 1..Len(w))
    <3>1. PICK k \in 1..Len(rs) : i = Len(w) + k
      <4>1. i - Len(w) \in 1..Len(rs) /\ i = Len(w) + (i - Len(w))
        BY <1>1, <1>4, <2>2
      <4> QED BY <4>1
    <3>2. cs[i] = AddCall(rs[k], m.attr, js[k]) /\ js[k] \in Junk
      BY <1>1, <1>2, <3>1
    <3> QED BY <1>1, <1>4, <3>2, CallTypes
  <2> QED BY <2>1, <2>2
<1>6. Touched(m) \subseteq Prefix
  BY <1>1, <1>3 DEF ToSet
<1> QED BY <1>5, <1>6 DEF cs
\* The constructor of the table adds the originated routes, under our own name.
LEMMA OriginateCalls ==
  ASSUME NEW js \in [1..Len(Originate) -> Junk]
  PROVE  LET cs == [i \in 1..Len(Originate) |->
                      AddCall(Originate[i].prefix, Originate[i].attr, js[i])]
         IN /\ cs \in Seq(CallSet) /\ Len(cs) = Len(Originate)
            /\ \A i \in 1..Len(Originate) :
                 /\ cs[i] = AddCall(Originate[i].prefix, Originate[i].attr, js[i])
                 /\ Originate[i].prefix \in Prefix /\ Originate[i].attr \in AttrOf[Local]
                 /\ Originate[i].attr \in Attr /\ js[i] \in Junk
<1> DEFINE L == Len(Originate)
           cs == [i \in 1..L |-> AddCall(Originate[i].prefix, Originate[i].attr, js[i])]
<1>1. AttrOf[Local] \subseteq Attr
  BY AttrOfAssumption DEF Source
<1>2. L \in Nat /\ \A i \in 1..L : /\ Originate[i].prefix \in Prefix
                                   /\ Originate[i].attr \in AttrOf[Local]
                                   /\ Originate[i].attr \in Attr
  <2> DEFINE Entry == [prefix : Prefix, attr : AttrOf[Local]]
  <2>1. Originate \in Seq(Entry)
    BY OriginateAssumption
  <2>2. \A e \in Entry : e.prefix \in Prefix /\ e.attr \in AttrOf[Local] /\ e.attr \in Attr
    BY <1>1
  <2> HIDE DEF Entry
  <2>3. L \in Nat /\ \A i \in 1..L : Originate[i] \in Entry
    BY <2>1
  <2> QED BY <2>2, <2>3
<1>3. js \in [1..L -> Junk]
  OBVIOUS
<1> HIDE DEF L
<1>4. cs \in [1..L -> CallSet]
  BY <1>2, <1>3, CallTypes
<1>5. cs \in Seq(CallSet) /\ Len(cs) = L
  <2> HIDE DEF cs
  <2> QED BY <1>2, <1>4, FunctionIsSeq
<1> QED BY <1>2, <1>3, <1>5 DEF L

-----------------------------------------------------------------------------
\* Type correctness.

EmptyHeard == [table |-> [p \in Prefix |-> <<>>], said |-> Nothing]

\* The empty table is one.
LEMMA EmptyHeardType == EmptyHeard \in Heard
  BY DEF EmptyHeard, Heard, Table, Announced, Nothing

\* The initial table and what the speaker itself has said come from the
\* calls of the constructor.
LEMMA InitCalls ==
  ASSUME Init
  PROVE  \E js \in [1..Len(Originate) -> Junk] :
           LET cs == [i \in 1..Len(Originate) |->
                        AddCall(Originate[i].prefix, Originate[i].attr, js[i])]
               r  == RunCalls(EmptyHeard, cs, Local)
           IN /\ r \in Heard
              /\ table = r.table
              /\ said = [n \in Source |-> IF n = Local THEN r.said ELSE Nothing]
<1>1. PICK js \in [1..Len(Originate) -> Junk] :
        LET cs == [i \in 1..Len(Originate) |->
                     AddCall(Originate[i].prefix, Originate[i].attr, js[i])]
            r  == RunCalls(EmptyHeard, cs, Local)
        IN /\ table = r.table
           /\ said = [n \in Source |-> IF n = Local THEN r.said ELSE Nothing]
  BY Zenon DEF Init, EmptyHeard
<1> DEFINE cs == [i \in 1..Len(Originate) |->
                    AddCall(Originate[i].prefix, Originate[i].attr, js[i])]
<1>2. cs \in Seq(CallSet)
  BY OriginateCalls, Zenon
<1>3. Local \in Source
  BY DEF Source
<1>4. RunCalls(EmptyHeard, cs, Local) \in Heard
  <2> HIDE DEF cs
  <2> QED BY <1>2, <1>3, EmptyHeardType, RunCallsType
<1> QED BY <1>1, <1>4, Zenon

\* The handler of an UPDATE runs its calls and then the selection.
LEMMA UpdateHeard ==
  ASSUME TypeOK, NEW n \in Peer, NEW m \in Message,
         NEW js \in [1..Len(m.routes) -> Junk], RxUpdate(n, m, js)
  PROVE  LET r0 == [table |-> table, said |-> said[n]]
             r  == RunCalls(r0, Calls(m, js), n)
         IN /\ r0 \in Heard /\ r \in Heard
            /\ table' = SelectAll(r.table) /\ table' \in Table
            /\ SameRoutes(r.table, table')
            /\ said' = [said EXCEPT ![n] = r.said]
<1> DEFINE r0 == [table |-> table, said |-> said[n]]
           r  == RunCalls(r0, Calls(m, js), n)
<1>1. n \in Source
  BY DEF Source
<1>2. r0 \in Heard
  BY <1>1 DEF TypeOK, Heard, Announced
<1>3. r \in Heard
  <2> HIDE DEF r0
  <2> QED BY <1>1, <1>2, CallsType, RunCallsType
<1>4. table' = SelectAll(r.table) /\ said' = [said EXCEPT ![n] = r.said]
  BY Zenon DEF RxUpdate
<1>5. r.table \in Table
  <2> HIDE DEF r
  <2> QED BY <1>3 DEF Heard
<1>6. table' \in Table /\ SameRoutes(r.table, table')
  <2> HIDE DEF r
  <2> QED BY <1>4, <1>5, SelectAllRoutes
<1> QED BY <1>2, <1>3, <1>4, <1>6, Zenon

\* The constructor makes a table, and all variables have their type.
LEMMA InitTypeOK == Init => TypeOK
<1> SUFFICES ASSUME Init PROVE TypeOK
  OBVIOUS
<1>1. table \in Table /\ said \in [Source -> Announced]
  <2>1. PICK r \in Heard : /\ table = r.table
                          /\ said = [n \in Source |-> IF n = Local THEN r.said ELSE Nothing]
    BY InitCalls, Zenon
  <2>2. r.table \in Table /\ r.said \in Announced /\ Nothing \in Announced
    BY DEF Heard, Announced, Nothing
  <2> QED BY <2>1, <2>2
<1>2. \A i \in 1..Len(Originate) : Originate[i].prefix \in Prefix
  <2>1. PICK js \in [1..Len(Originate) -> Junk] : TRUE
    BY InitCalls, Zenon
  <2> QED BY OriginateCalls, Zenon
<1>3. scheduled_updates \in SUBSET Prefix
  BY <1>2 DEF Init
<1>4. timer \in 0..2 /\ expired \in 0..MaxExpired
  BY BoundAssumption DEF Init
<1>5. /\ state \in [Peer -> FsmState] /\ alive \in [Peer -> BOOLEAN]
      /\ told \in [Peer -> [Prefix -> Attrs \cup {None}]]
      /\ served \in SUBSET Peer
  BY DEF Init, FsmState, Nothing
<1> QED BY <1>1, <1>3, <1>4, <1>5 DEF TypeOK, Announced

\* What on_send_updates advertises of a prefix is the attribute list of an entry, or nothing.
LEMMA Head1Type ==
  ASSUME TypeOK, NEW p \in Prefix
  PROVE  Head1(p) \in Attrs \cup {None}
<1>1. table \in Table
  BY DEF TypeOK
<1>2. CASE table[p] # <<>>
  <2>1. 1 \in 1..Len(table[p])
    BY <1>1, <1>2, TableAt
  <2>2. table[p][1] \in Path
    BY <1>1, <2>1, TableAt
  <2> QED BY <1>2, <2>2 DEF Head1, Path
<1>3. CASE table[p] = <<>>
  BY <1>3 DEF Head1
<1> QED BY <1>2, <1>3

\* Every handler keeps the type of every variable.
LEMMA NextTypeOK == TypeOK /\ [Next]_vars => TypeOK'
<1> SUFFICES ASSUME TypeOK, [Next]_vars PROVE TypeOK'
  OBVIOUS
<1>1. ASSUME NEW n \in Peer, PlaceConnection(n) PROVE TypeOK'
  BY <1>1 DEF PlaceConnection, TypeOK, FsmState, Nothing
<1>2. ASSUME NEW n \in Peer, RxOpen(n) PROVE TypeOK'
  BY <1>2 DEF RxOpen, TypeOK, FsmState
<1>3. ASSUME NEW n \in Peer, RxKeepalive(n) PROVE TypeOK'
  BY <1>3 DEF RxKeepalive, TypeOK, FsmState
<1>4. ASSUME NEW n \in Peer, LoseSocket(n) PROVE TypeOK'
  BY <1>4 DEF LoseSocket, TypeOK
<1>5. ASSUME NEW n \in Peer, UpdateFrom(n) PROVE TypeOK'
  <2>1. PICK m \in Message : \E js \in [1..Len(m.routes) -> Junk] : RxUpdate(n, m, js)
    BY <1>5 DEF UpdateFrom
  <2>0. PICK js \in [1..Len(m.routes) -> Junk] : RxUpdate(n, m, js)
    BY <2>1
  <2>2. PICK r \in Heard : /\ table' \in Table
                          /\ said' = [said EXCEPT ![n] = r.said]
    BY <2>0, UpdateHeard, Zenon
  <2>3. r.said \in Announced
    BY DEF Heard
  <2>4. table' \in Table /\ said' \in [Source -> Announced]
    BY <2>2, <2>3 DEF TypeOK, Announced
  <2>5. scheduled_updates' \in SUBSET Prefix
    BY <2>0, CallsPrefixes DEF RxUpdate, TypeOK
  <2>6. timer' \in 0..2
    BY <2>0 DEF RxUpdate, Armed, TypeOK
  <2>7. UNCHANGED <<expired, state, alive, told, served>>
    BY <2>0 DEF RxUpdate
  <2> QED BY <2>4, <2>5, <2>6, <2>7 DEF TypeOK, Announced
<1>6. ASSUME NEW n \in Peer, RxNotification(n) PROVE TypeOK'
  <2>1. n \in Source /\ table \in Table
    BY DEF Source, TypeOK
  <2>2. table' \in Table
    BY <1>6, <2>1, PurgePeerRoutes DEF RxNotification
  <2>3. said' \in [Source -> Announced]
    BY <1>6 DEF RxNotification, TypeOK, Announced, Nothing
  <2>4. scheduled_updates' \in SUBSET Prefix
    BY <1>6 DEF RxNotification, TypeOK
  <2>5. timer' \in 0..2 /\ alive' \in [Peer -> BOOLEAN]
    BY <1>6 DEF RxNotification, TypeOK, Armed
  <2>6. UNCHANGED <<expired, state, told, served>>
    BY <1>6 DEF RxNotification
  <2> QED BY <2>2, <2>3, <2>4, <2>5, <2>6 DEF TypeOK, Announced
<1>7. ASSUME NEW k \in {1, 2}, TimerExpires(k) PROVE TypeOK'
  BY <1>7, BoundAssumption DEF TimerExpires, TypeOK, sessionVars
<1>8. ASSUME OnSendUpdates PROVE TypeOK'
  <2>1. \A p \in Prefix : Head1(p) \in Attrs \cup {None}
    BY Head1Type
  <2>2. Reached \subseteq Peer
    BY ExternalAssumption DEF Reached, Eligible
  <2>3. served' \in SUBSET Peer
    BY <1>8, <2>2 DEF OnSendUpdates
  <2>4. told' \in [Peer -> [Prefix -> Attrs \cup {None}]]
    BY <1>8, <2>1 DEF OnSendUpdates, TypeOK
  <2>5. expired' \in 0..MaxExpired
    BY <1>8, BoundAssumption DEF OnSendUpdates, TypeOK
  <2>6. UNCHANGED <<table, scheduled_updates, timer, state, alive, said>>
    BY <1>8 DEF OnSendUpdates
  <2> QED BY <2>3, <2>4, <2>5, <2>6 DEF TypeOK
<1>9. CASE UNCHANGED vars
  BY <1>9 DEF vars, TypeOK
<1> QED BY <1>1, <1>2, <1>3, <1>4, <1>5, <1>6, <1>7, <1>8, <1>9 DEF Next

\* Every variable keeps its type: the calls of table.cpp return tables, for
\* every table, prefix, source and message.
THEOREM TypeCorrect == Spec => []TypeOK
<1>1. Init => TypeOK
  BY InitTypeOK
<1>2. TypeOK /\ [Next]_vars => TypeOK'
  BY NextTypeOK
<1> QED BY <1>1, <1>2, PTL DEF Spec

-----------------------------------------------------------------------------
\* Advertisement: what is in the table has been scheduled, and what a peer
\* was told about has been.

\* A selection leaves the same prefixes with routes.
LEMMA SameNonEmpty ==
  ASSUME NEW T \in Table, NEW U \in Table, SameRoutes(T, U)
  PROVE  NonEmpty(T) = NonEmpty(U)
<1>1. \A p \in Prefix : /\ T[p] = <<>> <=> Len(T[p]) = 0
                        /\ U[p] = <<>> <=> Len(U[p]) = 0
                        /\ Len(T[p]) = Len(U[p])
  BY TableAt DEF SameRoutes, SameEntries
<1> QED BY <1>1 DEF NonEmpty

\* A call makes no prefix appear but its own.
LEMMA CallNonEmpty ==
  ASSUME NEW r \in Heard, NEW c \in CallSet, NEW n \in Source
  PROVE  NonEmpty(Call(r, c, n).table) \subseteq NonEmpty(r.table) \cup {c.prefix}
<1> DEFINE T == r.table
           p == c.prefix
<1>1. T \in Table /\ p \in Prefix
  BY DEF Heard, CallSet
<1>2. CASE c.call = "del_path"
  <2>1. Call(r, c, n).table = DelPath(T, p, n)
    BY <1>2 DEF Call
  <2> HIDE DEF T, p
  <2>2. CASE DelPath(T, p, n) = T
    BY <2>1, <2>2 DEF T
  <2>3. CASE DelPath(T, p, n) # T
    <3>1. PICK U \in Table, q \in Prefix, k \in Nat :
            /\ k \in 1..Len(T[q])
            /\ SameRoutes(U, DelPath(T, p, n))
            /\ \A x \in Prefix \ {q} : U[x] = T[x]
      <4>1. PICK U \in Table, q \in Prefix : \E k \in 1..Len(T[q]) :
              /\ SameRoutes(U, DelPath(T, p, n))
              /\ \A x \in Prefix \ {q} : U[x] = T[x]
        BY <1>1, <2>3, DelPathRoutes
      <4>2. PICK k \in 1..Len(T[q]) : /\ SameRoutes(U, DelPath(T, p, n))
                                     /\ \A x \in Prefix \ {q} : U[x] = T[x]
        BY <4>1
      <4>3. k \in Nat
        BY <1>1, TableAt
      <4> QED BY <4>2, <4>3
    <3>2. DelPath(T, p, n) \in Table
      BY <1>1, DelPathRoutes
    <3>3. NonEmpty(U) = NonEmpty(DelPath(T, p, n))
      BY <3>1, <3>2, SameNonEmpty
    <3>4. T[q] # <<>>
      BY <1>1, <3>1, TableAt
    <3>5. NonEmpty(U) \subseteq NonEmpty(T)
      BY <3>1, <3>4 DEF NonEmpty
    <3> QED BY <2>1, <3>3, <3>5 DEF T
  <2> QED BY <2>2, <2>3
<1>3. CASE c.call # "del_path"
  <2>1. Call(r, c, n).table = AddPath(T, p, c.attrs, n)
    BY <1>3 DEF Call
  <2>2. c.attrs \in Attrs
    BY <1>3 DEF CallSet
  <2> HIDE DEF T, p
  <2>3. PICK U \in Table : /\ SameRoutes(U, AddPath(T, p, c.attrs, n))
                          /\ \A q \in Prefix \ {p} : U[q] = T[q]
    BY <1>1, <2>2, AddPathRoutes
  <2>4. AddPath(T, p, c.attrs, n) \in Table
    BY <1>1, <2>2, AddPathRoutes
  <2>5. NonEmpty(U) = NonEmpty(AddPath(T, p, c.attrs, n))
    BY <2>3, <2>4, SameNonEmpty
  <2>6. NonEmpty(U) \subseteq NonEmpty(T) \cup {p}
    BY <2>3 DEF NonEmpty
  <2> QED BY <2>1, <2>5, <2>6 DEF T, p
<1> QED BY <1>2, <1>3

\* A handler makes no prefix appear but those of its calls.
LEMMA RunNonEmpty ==
  ASSUME NEW r \in Heard, NEW cs \in Seq(CallSet), NEW n \in Source,
         NEW S, \A i \in 1..Len(cs) : cs[i].prefix \in S
  PROVE  NonEmpty(RunCalls(r, cs, n).table) \subseteq NonEmpty(r.table) \cup S
<1>0. PICK f : Steps(f, r, cs, n)
  BY RunCallsSteps
<1>1. /\ f[0] = r
      /\ \A i \in 1..Len(cs) : f[i] = Call(f[i-1], cs[i], n)
      /\ RunCalls(r, cs, n) = f[Len(cs)]
  BY <1>0 DEF Steps
<1> DEFINE Good(k) == /\ f[k] \in Heard
                      /\ NonEmpty(f[k].table) \subseteq NonEmpty(r.table) \cup S
           G == {k \in 0..Len(cs) : Good(k)}
<1>2. 0 \in G
  BY <1>1
<1>3. ASSUME NEW i \in 1..Len(cs), i-1 \in G PROVE i \in G
  <2>1. f[i-1] \in Heard /\ NonEmpty(f[i-1].table) \subseteq NonEmpty(r.table) \cup S
    BY <1>3
  <2> HIDE DEF G
  <2>2. cs[i] \in CallSet /\ cs[i].prefix \in S
    OBVIOUS
  <2>3. f[i] = Call(f[i-1], cs[i], n)
    BY <1>1
  <2>4. Call(f[i-1], cs[i], n) \in Heard
    BY <2>1, <2>2, CallType
  <2>5. NonEmpty(Call(f[i-1], cs[i], n).table) \subseteq NonEmpty(f[i-1].table) \cup {cs[i].prefix}
    BY <2>1, <2>2, CallNonEmpty, Zenon
  <2>6. Good(i)
    <3>1. NonEmpty(f[i].table) \subseteq NonEmpty(f[i-1].table) \cup {cs[i].prefix}
      BY <2>3, <2>5, Zenon
    <3>2. NonEmpty(f[i].table) \subseteq NonEmpty(r.table) \cup S
      BY <2>1, <2>2, <3>1
    <3> QED BY <2>3, <2>4, <3>2
  <2> QED BY <2>6 DEF G
<1>4. \A i \in 0..Len(cs) : i \in G
  <2>1. Len(cs) \in Nat
    OBVIOUS
  <2> HIDE DEF G
  <2> QED BY <1>2, <1>3, <2>1, UpTo, Zenon
<1>5. Good(Len(cs))
  <2>1. Len(cs) \in 0..Len(cs)
    OBVIOUS
  <2> QED BY <1>4, <2>1
<1> QED BY <1>1, <1>5

\* Whatever a peer was told about has been scheduled, and stays so.
ToldScheduled == \A n \in Peer, p \in Prefix : told[n][p] # None => p \in scheduled_updates

Covered == TypeOK /\ NothingForgotten /\ ToldScheduled

\* The constructor schedules the prefixes it adds.
LEMMA InitCovered == Init => Covered
<1> SUFFICES ASSUME Init PROVE Covered
  OBVIOUS
<1>1. PICK js \in [1..Len(Originate) -> Junk] :
        LET cs == [i \in 1..Len(Originate) |->
                     AddCall(Originate[i].prefix, Originate[i].attr, js[i])]
            r  == RunCalls(EmptyHeard, cs, Local)
        IN r \in Heard /\ table = r.table
  BY InitCalls, Zenon
<1> DEFINE cs == [i \in 1..Len(Originate) |->
                    AddCall(Originate[i].prefix, Originate[i].attr, js[i])]
           S  == {Originate[i].prefix : i \in 1..Len(Originate)}
<1>2. /\ cs \in Seq(CallSet) /\ Len(cs) = Len(Originate)
      /\ \A i \in 1..Len(Originate) :
           /\ cs[i] = AddCall(Originate[i].prefix, Originate[i].attr, js[i])
           /\ Originate[i].prefix \in Prefix /\ Originate[i].attr \in Attr
           /\ js[i] \in Junk
  BY OriginateCalls, Zenon
<1>3. table = RunCalls(EmptyHeard, cs, Local).table
  BY <1>1, Zenon
<1> HIDE DEF cs
<1>4. \A i \in 1..Len(cs) : cs[i].prefix \in S
  <2> TAKE i \in 1..Len(cs)
  <2>1. i \in 1..Len(Originate)
    BY <1>2
  <2> HIDE DEF S
  <2>2. cs[i].prefix = Originate[i].prefix
    BY <1>2, <2>1, CallTypes
  <2> QED BY <2>1, <2>2 DEF S
<1>5. Local \in Source
  BY DEF Source
<1>6. NonEmpty(RunCalls(EmptyHeard, cs, Local).table) \subseteq NonEmpty(EmptyHeard.table) \cup S
  <2> HIDE DEF S
  <2> QED BY <1>2, <1>4, <1>5, EmptyHeardType, RunNonEmpty
<1>7. NonEmpty(EmptyHeard.table) = {}
  BY DEF NonEmpty, EmptyHeard
<1>8. NothingForgotten
  <2>1. scheduled_updates = S
    BY Zenon DEF Init
  <2> HIDE DEF S
  <2> QED BY <1>3, <1>6, <1>7, <2>1 DEF NothingForgotten
<1>9. ToldScheduled
  BY DEF Init, ToldScheduled, Nothing
<1> QED BY <1>8, <1>9, InitTypeOK DEF Covered

\* The prefixes of an UPDATE cover all that its handler makes appear.
LEMMA UpdateNonEmpty ==
  ASSUME TypeOK, NEW n \in Peer, NEW m \in Message,
         NEW js \in [1..Len(m.routes) -> Junk], RxUpdate(n, m, js)
  PROVE  NonEmpty(table') \subseteq NonEmpty(table) \cup Touched(m)
<1> DEFINE r0 == [table |-> table, said |-> said[n]]
           r  == RunCalls(r0, Calls(m, js), n)
<1>1. /\ r0 \in Heard /\ r \in Heard
      /\ table' \in Table /\ SameRoutes(r.table, table')
  BY UpdateHeard, Zenon
<1>2. n \in Source
  BY DEF Source
<1>3. NonEmpty(r.table) \subseteq NonEmpty(r0.table) \cup Touched(m)
  <2>1. Calls(m, js) \in Seq(CallSet)
    BY CallsType, Zenon
  <2>2. \A i \in 1..Len(Calls(m, js)) : Calls(m, js)[i].prefix \in Touched(m)
    BY CallsPrefixes, Zenon
  <2> HIDE DEF r0
  <2> QED BY <1>1, <1>2, <2>1, <2>2, RunNonEmpty
<1>4. NonEmpty(r.table) = NonEmpty(table')
  <2> HIDE DEF r
  <2>1. r.table \in Table
    BY <1>1 DEF Heard
  <2> QED BY <1>1, <2>1, SameNonEmpty
<1>5. r0.table = table
  OBVIOUS
<1> HIDE DEF r0, r
<1> QED BY <1>3, <1>4, <1>5

\* A purge makes no prefix appear.
LEMMA PurgeNonEmpty ==
  ASSUME NEW T \in Table, NEW n \in Source
  PROVE  NonEmpty(PurgePeer(T, n)) \subseteq NonEmpty(T)
<1> SUFFICES ASSUME NEW p \in Prefix, T[p] = <<>> PROVE PurgePeer(T, n)[p] = <<>>
  BY DEF NonEmpty
<1>1. PurgePeer(T, n) \in Table
  BY PurgePeerRoutes
<1>2. PICK g : KeptFrom(T[p], PurgePeer(T, n)[p], g, Len(T[p]), n)
  BY PurgePeerRoutes
<1> DEFINE L == Len(PurgePeer(T, n)[p])
<1>3. g \in [1..L -> 1..0] /\ L \in Nat
  BY <1>1, <1>2, TableAt DEF KeptFrom
<1>4. L = 0
  <2> HIDE DEF L
  <2> QED BY <1>3
<1> QED BY <1>1, <1>4, TableAt

\* No handler leaves a prefix with routes unscheduled.
LEMMA NextCovered == Covered /\ [Next]_vars => Covered'
<1> SUFFICES ASSUME Covered, [Next]_vars PROVE Covered'
  OBVIOUS
<1>0. TypeOK /\ TypeOK'
  BY NextTypeOK DEF Covered
<1>a. ASSUME UNCHANGED <<table, scheduled_updates, told>> PROVE Covered'
  BY <1>0, <1>a DEF Covered, NothingForgotten, NonEmpty, ToldScheduled
<1>1. ASSUME NEW n \in Peer, PlaceConnection(n) PROVE Covered'
  <2>1. NothingForgotten'
    BY <1>1 DEF PlaceConnection, Covered, NothingForgotten, NonEmpty
  <2>2. ToldScheduled'
    BY <1>1, <1>0 DEF PlaceConnection, Covered, ToldScheduled, Nothing, TypeOK
  <2> QED BY <1>0, <2>1, <2>2 DEF Covered
<1>2. ASSUME NEW n \in Peer, RxOpen(n) PROVE Covered'
  BY <1>2, <1>a DEF RxOpen
<1>3. ASSUME NEW n \in Peer, RxKeepalive(n) PROVE Covered'
  BY <1>3, <1>a DEF RxKeepalive
<1>4. ASSUME NEW n \in Peer, LoseSocket(n) PROVE Covered'
  BY <1>4, <1>a DEF LoseSocket
<1>5. ASSUME NEW n \in Peer, UpdateFrom(n) PROVE Covered'
  <2>1. PICK m \in Message : \E js \in [1..Len(m.routes) -> Junk] : RxUpdate(n, m, js)
    BY <1>5 DEF UpdateFrom
  <2>2. PICK js \in [1..Len(m.routes) -> Junk] : RxUpdate(n, m, js)
    BY <2>1
  <2>3. NonEmpty(table') \subseteq NonEmpty(table) \cup Touched(m)
    BY <1>0, <2>2, UpdateNonEmpty
  <2>4. /\ scheduled_updates' = scheduled_updates \cup Touched(m)
        /\ told' = told
    BY <2>2 DEF RxUpdate
  <2>5. NothingForgotten'
    BY <2>3, <2>4 DEF Covered, NothingForgotten, NonEmpty
  <2>6. ToldScheduled'
    BY <2>4 DEF Covered, ToldScheduled
  <2> QED BY <1>0, <2>5, <2>6 DEF Covered
<1>6. ASSUME NEW n \in Peer, RxNotification(n) PROVE Covered'
  <2>1. n \in Source /\ table \in Table
    BY <1>0 DEF Source, TypeOK
  <2>2. NonEmpty(PurgePeer(table, n)) \subseteq NonEmpty(table)
    BY <2>1, PurgeNonEmpty
  <2>3. /\ table' = PurgePeer(table, n)
        /\ scheduled_updates \subseteq scheduled_updates'
        /\ told' = told
    BY <1>6 DEF RxNotification
  <2>4. NothingForgotten'
    BY <2>2, <2>3 DEF Covered, NothingForgotten, NonEmpty
  <2>5. ToldScheduled'
    BY <2>3 DEF Covered, ToldScheduled
  <2> QED BY <1>0, <2>4, <2>5 DEF Covered
<1>7. ASSUME NEW k \in {1, 2}, TimerExpires(k) PROVE Covered'
  BY <1>7, <1>a DEF TimerExpires, sessionVars
<1>8. ASSUME OnSendUpdates PROVE Covered'
  <2>1. table' = table /\ scheduled_updates' = scheduled_updates
    BY <1>8 DEF OnSendUpdates
  <2>2. NothingForgotten'
    BY <2>1 DEF Covered, NothingForgotten, NonEmpty
  <2>3. \A n \in Peer, p \in Prefix :
          told'[n][p] = told[n][p] \/ p \in scheduled_updates
    BY <1>8, <1>0 DEF OnSendUpdates, TypeOK
  <2>4. ToldScheduled'
    BY <2>1, <2>3 DEF Covered, ToldScheduled
  <2> QED BY <1>0, <2>2, <2>4 DEF Covered
<1>9. CASE UNCHANGED vars
  BY <1>9, <1>a DEF vars
<1> QED BY <1>1, <1>2, <1>3, <1>4, <1>5, <1>6, <1>7, <1>8, <1>9 DEF Next

\* Every prefix with a route is in scheduled_updates, however the calls of
\* add_path, del_path and purge_peer come: each advertisement covers the
\* whole table.
THEOREM AdvertisementCoversTable == Spec => []NothingForgotten
<1>1. Covered => NothingForgotten
  BY DEF Covered
<1> QED BY <1>1, InitCovered, NextCovered, PTL DEF Spec

-----------------------------------------------------------------------------
\* What the served peers hold.

SyncInv == Covered /\ InSync

\* The entries alone decide what is advertised.
LEMMA SameHead ==
  ASSUME table \in Table, table' \in Table, SameRoutes(table, table'), NEW p \in Prefix
  PROVE  Head1(p)' = Head1(p)
<1>1. SameEntries(table[p], table'[p])
  BY DEF SameRoutes
<1>2. /\ Len(table[p]) \in Nat /\ Len(table'[p]) = Len(table[p])
      /\ table[p] = <<>> <=> Len(table[p]) = 0
      /\ table'[p] = <<>> <=> Len(table'[p]) = 0
  BY <1>1, TableAt DEF SameEntries
<1>3. CASE table[p] = <<>>
  BY <1>2, <1>3 DEF Head1
<1>4. CASE table[p] # <<>>
  <2>1. 1 \in 1..Len(table[p]) /\ table'[p] # <<>>
    BY <1>2, <1>4
  <2>2. table[p][1].attrs = table'[p][1].attrs
    BY <1>1, <2>1 DEF SameEntries
  <2> QED BY <1>4, <2>1, <2>2 DEF Head1
<1> QED BY <1>3, <1>4

\* An UPDATE without prefixes changes marks only.
LEMMA EmptyUpdate ==
  ASSUME TypeOK, NEW n \in Peer, NEW m \in Message,
         NEW js \in [1..Len(m.routes) -> Junk], RxUpdate(n, m, js), Touched(m) = {}
  PROVE  table' \in Table /\ SameRoutes(table, table')
<1> DEFINE r0 == [table |-> table, said |-> said[n]]
           cs == Calls(m, js)
           r  == RunCalls(r0, cs, n)
<1>1. table' \in Table /\ SameRoutes(r.table, table')
  BY UpdateHeard, Zenon
<1>2. /\ cs \in Seq(CallSet)
      /\ \A i \in 1..Len(cs) : cs[i].prefix \in Touched(m)
  BY CallsType, CallsPrefixes, Zenon
<1> HIDE DEF cs
<1>3. Len(cs) = 0
  <2>1. Len(cs) \in Nat
    BY <1>2
  <2> QED BY <1>2, <2>1
<1>4. PICK f : Steps(f, r0, cs, n)
  BY <1>2, RunCallsSteps
<1>5. r = r0
  <2> HIDE DEF r0
  <2> QED BY <1>3, <1>4 DEF Steps
<1>6. r.table = table
  BY <1>5
<1> HIDE DEF r
<1> QED BY <1>1, <1>6

\* No step but the end of an advertisement changes what a peer was sent, and that end makes it what the table advertises.
LEMMA NextInSync == SyncInv /\ [Next]_vars => InSync'
<1> SUFFICES ASSUME SyncInv, [Next]_vars PROVE InSync'
  OBVIOUS
<1>0. TypeOK /\ InSync
  BY DEF SyncInv, Covered
<1>a. ASSUME UNCHANGED <<table, timer, expired, told, served>> PROVE InSync'
  BY <1>0, <1>a DEF InSync, Quiet, Head1
<1>1. ASSUME NEW n \in Peer, PlaceConnection(n) PROVE InSync'
  <2>1. \A x \in served' : x \in served /\ told'[x] = told[x]
    BY <1>0, <1>1 DEF PlaceConnection, TypeOK
  <2>2. UNCHANGED <<table, timer, expired>>
    BY <1>1 DEF PlaceConnection
  <2> QED BY <1>0, <2>1, <2>2 DEF InSync, Quiet, Head1
<1>2. ASSUME NEW n \in Peer, RxOpen(n) PROVE InSync'
  BY <1>2, <1>a DEF RxOpen
<1>3. ASSUME NEW n \in Peer, RxKeepalive(n) PROVE InSync'
  BY <1>3, <1>a DEF RxKeepalive
<1>4. ASSUME NEW n \in Peer, LoseSocket(n) PROVE InSync'
  BY <1>4, <1>a DEF LoseSocket
<1>5. ASSUME NEW n \in Peer, UpdateFrom(n) PROVE InSync'
  <2>1. PICK m \in Message : \E js \in [1..Len(m.routes) -> Junk] : RxUpdate(n, m, js)
    BY <1>5 DEF UpdateFrom
  <2>2. PICK js \in [1..Len(m.routes) -> Junk] : RxUpdate(n, m, js)
    BY <2>1
  <2>3. /\ timer' = IF Touched(m) = {} THEN timer ELSE Armed
        /\ UNCHANGED <<expired, told, served>>
    BY <2>2 DEF RxUpdate
  <2>4. CASE Touched(m) = {}
    <3>1. table \in Table /\ table' \in Table /\ SameRoutes(table, table')
      BY <1>0, <2>2, <2>4, EmptyUpdate DEF TypeOK
    <3>2. \A p \in Prefix : Head1(p)' = Head1(p)
      BY <3>1, SameHead
    <3> QED BY <1>0, <2>3, <2>4, <3>2 DEF InSync, Quiet
  <2>5. CASE Touched(m) # {}
    BY <2>3, <2>5 DEF InSync, Quiet, Armed
  <2> QED BY <2>4, <2>5
<1>6. ASSUME NEW n \in Peer, RxNotification(n) PROVE InSync'
  BY <1>6 DEF RxNotification, InSync, Quiet, Armed
<1>7. ASSUME NEW k \in {1, 2}, TimerExpires(k) PROVE InSync'
  BY <1>7, <1>0, BoundAssumption DEF TimerExpires, InSync, Quiet, TypeOK
<1>8. ASSUME OnSendUpdates PROVE InSync'
  <2>1. Reached \subseteq Peer
    BY ExternalAssumption DEF Reached, Eligible
  <2>2. CASE \E p \in scheduled_updates : table[p] # <<>>
    <3>1. \A n \in Reached, p \in Prefix : told'[n][p] = Head1(p)
      <4> TAKE n \in Reached, p \in Prefix
      <4>1. CASE p \in scheduled_updates
        BY <1>8, <2>1, <2>2, <4>1 DEF OnSendUpdates
      <4>2. CASE p \notin scheduled_updates
        <5>1. told[n][p] = None /\ table[p] = <<>>
          BY <2>1, <4>2
             DEF SyncInv, Covered, ToldScheduled, NothingForgotten, NonEmpty
        <5> QED BY <1>8, <2>1, <2>2, <4>2, <5>1 DEF OnSendUpdates, Head1
      <4> QED BY <4>1, <4>2
    <3>2. served' = Reached /\ table' = table
      BY <1>8, <2>2 DEF OnSendUpdates
    <3> QED BY <3>1, <3>2 DEF InSync, Head1
  <2>3. CASE ~ \E p \in scheduled_updates : table[p] # <<>>
    BY <1>8, <2>3 DEF OnSendUpdates, InSync
  <2> QED BY <2>2, <2>3
<1>9. CASE UNCHANGED vars
  BY <1>9, <1>a DEF vars
<1> QED BY <1>1, <1>2, <1>3, <1>4, <1>5, <1>6, <1>7, <1>8, <1>9 DEF Next

\* When no advertisement is under way, every peer that got the last one
\* holds exactly what the table advertises: no handler changes the table
\* without arming the timer, and no prefix is left out.
THEOREM ServedPeersInSync == Spec => []InSync
<1>1. Init => SyncInv
  BY InitCovered DEF Init, SyncInv, InSync
<1>2. SyncInv /\ [Next]_vars => SyncInv'
  BY NextCovered, NextInSync DEF SyncInv
<1>3. SyncInv => InSync
  BY DEF SyncInv
<1> QED BY <1>1, <1>2, <1>3, PTL DEF Spec

-----------------------------------------------------------------------------
\* What one source's messages leave alone.

\* The entries of source m in s are in t, with their lists.
KeptOf(s, t, m) ==
  \A i \in 1..Len(s) : s[i].source = m =>
    \E j \in 1..Len(t) : t[j].source = m /\ t[j].attrs = s[i].attrs

KeepsOf(T, U, m) == \A p \in Prefix : KeptOf(T[p], U[p], m)

\* A selection keeps the entries of every source.
LEMMA KeptSame ==
  ASSUME NEW s, NEW t, SameEntries(s, t), NEW m
  PROVE  KeptOf(s, t, m)
BY DEF KeptOf, SameEntries

\* What two calls keep, both of them together keep.
LEMMA KeptThrough ==
  ASSUME NEW s, NEW t, NEW u, NEW m, KeptOf(s, t, m), KeptOf(t, u, m)
  PROVE  KeptOf(s, u, m)
BY SMTT(30) DEF KeptOf

\* add_path of source n replaces an entry of n or adds one.
LEMMA AddKeepsOthers ==
  ASSUME NEW T \in Table, NEW p \in Prefix, NEW a \in Attrs, NEW n \in Source,
         NEW m \in Source, m # n
  PROVE  KeepsOf(T, AddPath(T, p, a, n), m)
<1>1. PICK U \in Table :
        /\ SameRoutes(U, AddPath(T, p, a, n))
        /\ \A q \in Prefix \ {p} : U[q] = T[q]
        /\ Replaced(T[p], U[p], a, n) \/ Appended(T, T[p], U[p], a, n)
  BY AddPathRoutes
<1>2. \A q \in Prefix : KeptOf(U[q], AddPath(T, p, a, n)[q], m)
  BY <1>1, KeptSame DEF SameRoutes
<1>3. KeptOf(T[p], U[p], m)
  <2>1. CASE Replaced(T[p], U[p], a, n)
    BY <2>1 DEF Replaced, KeptOf
  <2>2. CASE Appended(T, T[p], U[p], a, n)
    <3>1. /\ Len(T[p]) \in Nat /\ Len(U[p]) = Len(T[p]) + 1
          /\ \A i \in 1..Len(T[p]) : U[p][i] = T[p][i]
      BY <2>2, TableAt DEF Appended
    <3> QED BY <3>1 DEF KeptOf
  <2> QED BY <1>1, <2>1, <2>2
<1>4. \A q \in Prefix : KeptOf(T[q], U[q], m)
  BY <1>1, <1>3 DEF KeptOf
<1> QED BY <1>2, <1>4, KeptThrough DEF KeepsOf

\* del_path of source n erases an entry of n, in whatever prefix it ends.
LEMMA DelKeepsOthers ==
  ASSUME NEW T \in Table, NEW p \in Prefix, NEW n \in Source,
         NEW m \in Source, m # n
  PROVE  KeepsOf(T, DelPath(T, p, n), m)
<1>1. CASE DelPath(T, p, n) = T
  BY <1>1 DEF KeepsOf, KeptOf
<1>2. CASE DelPath(T, p, n) # T
  <2>1. PICK U \in Table : \E q \in Prefix : \E k \in 1..Len(T[q]) :
          /\ SameRoutes(U, DelPath(T, p, n))
          /\ \A r \in Prefix \ {q} : U[r] = T[r]
          /\ T[q][k].source = n
          /\ Erased(T[q], U[q], k)
    BY <1>2, DelPathRoutes
  <2>2. PICK q \in Prefix : \E k \in 1..Len(T[q]) :
          /\ SameRoutes(U, DelPath(T, p, n))
          /\ \A r \in Prefix \ {q} : U[r] = T[r]
          /\ T[q][k].source = n
          /\ Erased(T[q], U[q], k)
    BY <2>1
  <2>3. PICK k \in 1..Len(T[q]) :
          /\ SameRoutes(U, DelPath(T, p, n))
          /\ \A r \in Prefix \ {q} : U[r] = T[r]
          /\ T[q][k].source = n
          /\ Erased(T[q], U[q], k)
    BY <2>2
  <2>4. \A r \in Prefix : KeptOf(U[r], DelPath(T, p, n)[r], m)
    BY <2>3, KeptSame DEF SameRoutes
  <2>5. KeptOf(T[q], U[q], m)
    <3> SUFFICES ASSUME NEW i \in 1..Len(T[q]), T[q][i].source = m
                 PROVE  \E j \in 1..Len(U[q]) : U[q][j] = T[q][i]
      BY DEF KeptOf
    <3>1. /\ Len(T[q]) \in Nat /\ Len(U[q]) = Len(T[q]) - 1
          /\ \A j \in 1..(k-1) : U[q][j] = T[q][j]
          /\ \A j \in k..Len(U[q]) : U[q][j] = T[q][j+1]
      BY <2>3, TableAt DEF Erased
    <3>2. i # k
      BY <2>3
    <3>3. CASE i < k
      BY <3>1, <3>3
    <3>4. CASE i > k
      <4>1. i-1 \in k..Len(U[q]) /\ i-1 \in 1..Len(U[q]) /\ (i-1)+1 = i
        BY <3>1, <3>4
      <4> QED BY <3>1, <4>1
    <3> QED BY <3>2, <3>3, <3>4
  <2>6. \A r \in Prefix : KeptOf(T[r], U[r], m)
    BY <2>3, <2>5 DEF KeptOf
  <2> QED BY <2>4, <2>6, KeptThrough DEF KeepsOf
<1> QED BY <1>1, <1>2

\* purge_peer of source n erases entries of n only.
LEMMA PurgeKeepsOthers ==
  ASSUME NEW T \in Table, NEW n \in Source, NEW m \in Source, m # n
  PROVE  KeepsOf(T, PurgePeer(T, n), m)
<1> SUFFICES ASSUME NEW p \in Prefix PROVE KeptOf(T[p], PurgePeer(T, n)[p], m)
  BY DEF KeepsOf
<1>1. PICK g : KeptFrom(T[p], PurgePeer(T, n)[p], g, Len(T[p]), n)
  BY PurgePeerRoutes
<1> SUFFICES ASSUME NEW i \in 1..Len(T[p]), T[p][i].source = m
             PROVE  \E j \in 1..Len(PurgePeer(T, n)[p]) :
                       /\ PurgePeer(T, n)[p][j].source = m
                       /\ PurgePeer(T, n)[p][j].attrs = T[p][i].attrs
  BY DEF KeptOf
<1>2. PICK j \in 1..Len(PurgePeer(T, n)[p]) : g[j] = i
  BY <1>1 DEF KeptFrom
<1>3. PurgePeer(T, n)[p][j] = T[p][i]
  BY <1>1, <1>2 DEF KeptFrom
<1> QED BY <1>3

\* One call, and with it a handler of any number of calls.
LEMMA CallKeepsOthers ==
  ASSUME NEW r \in Heard, NEW c \in CallSet, NEW n \in Source,
         NEW m \in Source, m # n
  PROVE  KeepsOf(r.table, Call(r, c, n).table, m)
<1>1. r.table \in Table /\ c.prefix \in Prefix
  BY DEF Heard, CallSet
<1>2. CASE c.call = "del_path"
  <2>1. Call(r, c, n).table = DelPath(r.table, c.prefix, n)
    BY <1>2 DEF Call
  <2> QED BY <1>1, <2>1, DelKeepsOthers
<1>3. CASE c.call # "del_path"
  <2>1. Call(r, c, n).table = AddPath(r.table, c.prefix, c.attrs, n)
    BY <1>3 DEF Call
  <2>2. c.attrs \in Attrs
    BY <1>3 DEF CallSet
  <2> QED BY <1>1, <2>1, <2>2, AddKeepsOthers
<1> QED BY <1>2, <1>3

\* All calls of one handler keep the entries of every other source.
LEMMA RunKeepsOthers ==
  ASSUME NEW r \in Heard, NEW cs \in Seq(CallSet), NEW n \in Source,
         NEW m \in Source, m # n
  PROVE  KeepsOf(r.table, RunCalls(r, cs, n).table, m)
<1>0. PICK f : Steps(f, r, cs, n)
  BY RunCallsSteps
<1>1. /\ f[0] = r
      /\ \A i \in 1..Len(cs) : f[i] = Call(f[i-1], cs[i], n)
      /\ RunCalls(r, cs, n) = f[Len(cs)]
  BY <1>0 DEF Steps
<1> DEFINE Good(k) == f[k] \in Heard /\ KeepsOf(r.table, f[k].table, m)
           G == {k \in 0..Len(cs) : Good(k)}
<1>2. 0 \in G
  BY <1>1 DEF KeepsOf, KeptOf
<1>3. ASSUME NEW i \in 1..Len(cs), i-1 \in G PROVE i \in G
  <2>1. f[i-1] \in Heard /\ KeepsOf(r.table, f[i-1].table, m)
    BY <1>3
  <2> HIDE DEF G
  <2>2. cs[i] \in CallSet
    OBVIOUS
  <2>3. f[i] = Call(f[i-1], cs[i], n)
    BY <1>1
  <2>4. f[i] \in Heard
    BY <2>1, <2>2, <2>3, CallType
  <2>5. KeepsOf(f[i-1].table, f[i].table, m)
    BY <2>1, <2>2, <2>3, CallKeepsOthers, Zenon
  <2>6. KeepsOf(r.table, f[i].table, m)
    BY <2>1, <2>5, KeptThrough DEF KeepsOf
  <2> QED BY <2>4, <2>6 DEF G
<1>4. \A i \in 0..Len(cs) : i \in G
  <2>1. Len(cs) \in Nat
    OBVIOUS
  <2> HIDE DEF G
  <2> QED BY <1>2, <1>3, <2>1, UpTo, Zenon
<1>5. Good(Len(cs))
  <2>1. Len(cs) \in 0..Len(cs)
    OBVIOUS
  <2> QED BY <1>4, <2>1
<1> QED BY <1>1, <1>5

\* PeerIsolation is about KeepsOf.
LEMMA EntriesKept ==
  ASSUME NEW m, KeepsOf(table, table', m), NEW p \in Prefix
  PROVE  Entries(m, p) \subseteq Entries(m, p)'
BY DEF KeepsOf, KeptOf, Entries, Mine

\* Whatever source changes what it has said, nobody else loses an entry or
\* has its attributes changed: add_path, del_path and purge_peer of one
\* source keep the entries of the others.
THEOREM SourcesIsolated == Spec => PeerIsolation
<1> DEFINE Isolated == \A n, m \in Source : n # m /\ said'[n] # said[n] =>
                         \A p \in Prefix : Entries(m, p) \subseteq Entries(m, p)'
<1>1. TypeOK /\ [Next]_vars => [Isolated]_vars
  <2> SUFFICES ASSUME TypeOK, Next, NEW x \in Source, NEW m \in Source, x # m,
                      said'[x] # said[x], NEW p \in Prefix
               PROVE  Entries(m, p) \subseteq Entries(m, p)'
    BY Zenon
  <2>1. PICK n \in Peer : UpdateFrom(n) \/ RxNotification(n)
    <3>1. said' # said
      OBVIOUS
    <3> QED BY <3>1 DEF Next, PlaceConnection, RxOpen, RxKeepalive, LoseSocket,
                        TimerExpires, OnSendUpdates
  <2>2. n \in Source /\ table \in Table
    BY DEF Source, TypeOK
  <2>3. CASE UpdateFrom(n)
    <3>1. PICK u \in Message : \E js \in [1..Len(u.routes) -> Junk] : RxUpdate(n, u, js)
      BY <2>3 DEF UpdateFrom
    <3>2. PICK js \in [1..Len(u.routes) -> Junk] : RxUpdate(n, u, js)
      BY <3>1
    <3> DEFINE r0 == [table |-> table, said |-> said[n]]
               cs == Calls(u, js)
               r  == RunCalls(r0, cs, n)
    <3>3. /\ r0 \in Heard
          /\ SameRoutes(r.table, table')
          /\ said' = [said EXCEPT ![n] = r.said]
      BY <3>2, UpdateHeard, Zenon
    <3>4. x = n
      <4> HIDE DEF r
      <4> QED BY <3>3 DEF TypeOK
    <3>5. KeepsOf(r0.table, r.table, m)
      <4>1. cs \in Seq(CallSet)
        BY CallsType, Zenon
      <4> HIDE DEF r0, cs
      <4> QED BY <2>2, <3>3, <3>4, <4>1, RunKeepsOthers
    <3>6. KeepsOf(table, table', m)
      <4>1. r0.table = table
        OBVIOUS
      <4> HIDE DEF r0, r
      <4>2. KeepsOf(r.table, table', m)
        BY <3>3, KeptSame DEF KeepsOf, SameRoutes
      <4> QED BY <3>5, <4>1, <4>2, KeptThrough DEF KeepsOf
    <3> QED BY <3>6, EntriesKept
  <2>4. CASE RxNotification(n)
    <3>1. table' = PurgePeer(table, n) /\ said' = [said EXCEPT ![n] = Nothing]
      BY <2>4 DEF RxNotification
    <3>2. x = n
      BY <3>1 DEF TypeOK
    <3> QED BY <2>2, <3>1, <3>2, PurgeKeepsOthers, EntriesKept
  <2> QED BY <2>1, <2>3, <2>4
<1> QED BY <1>1, TypeCorrect, PTL DEF Spec, PeerIsolation

-----------------------------------------------------------------------------
\* Who takes the best mark away.

\* best_path_selection() marks an entry of every prefix that has any.
LEMMA SelectAllMarks ==
  ASSUME NEW T \in Table, NEW p \in Prefix, SelectAll(T)[p] # <<>>
  PROVE  SelectAll(T)[p][1].isBest /\ 1 \in 1..Len(SelectAll(T)[p])
<1>1. SelectAll(T)[p] = IF T[p] = <<>> THEN <<>>
        ELSE Mark(T[p], IF \E q \in NonEmpty(T) : q > p THEN {1, Winner(T[p])} ELSE {1})
  BY DEF SelectAll
<1>2. PICK B : 1 \in B /\ SelectAll(T)[p] = Mark(T[p], B)
  BY <1>1
<1>3. T[p] \in Seq(Path) /\ 1 \in 1..Len(T[p]) /\ T[p][1] \in Path
  BY <1>1, TableAt
<1>4. Mark(T[p], B)[1] = [T[p][1] EXCEPT !.isBest = (1 \in B)]
  BY <1>3 DEF Mark
<1>5. [T[p][1] EXCEPT !.isBest = (1 \in B)].isBest = (1 \in B)
  BY <1>3 DEF Path
<1>6. SameEntries(T[p], SelectAll(T)[p])
  BY <1>2, <1>3, MarkEntries
<1> QED BY <1>2, <1>3, <1>4, <1>5, <1>6 DEF SameEntries

\* A prefix with routes loses its best one only in purge_peer: the calls an
\* UPDATE makes are followed by the selection over the whole table.
THEOREM OnlyPurgeLosesBest == Spec => BestLostOnlyByPurge
<1> DEFINE Kept == \A p \in Prefix : HasBest(p) =>
                     HasBest(p)' \/ \E n \in Peer : table' = PurgePeer(table, n)
<1>1. TypeOK /\ [Next]_vars => [Kept]_vars
  <2> SUFFICES ASSUME TypeOK, Next, NEW p \in Prefix, HasBest(p)
               PROVE  HasBest(p)' \/ \E n \in Peer : table' = PurgePeer(table, n)
    BY Zenon
  <2>1. CASE table' = table
    BY <2>1 DEF HasBest
  <2>2. CASE table' # table
    <3>1. PICK n \in Peer : UpdateFrom(n) \/ RxNotification(n)
      BY <2>2 DEF Next, PlaceConnection, RxOpen, RxKeepalive, LoseSocket,
                  TimerExpires, OnSendUpdates
    <3>2. CASE UpdateFrom(n)
      <4>1. PICK u \in Message : \E js \in [1..Len(u.routes) -> Junk] : RxUpdate(n, u, js)
        BY <3>2 DEF UpdateFrom
      <4>2. PICK js \in [1..Len(u.routes) -> Junk] : RxUpdate(n, u, js)
        BY <4>1
      <4>3. PICK r \in Heard : table' = SelectAll(r.table)
        BY <4>2, UpdateHeard, Zenon
      <4>4. r.table \in Table
        BY DEF Heard
      <4> QED BY <4>3, <4>4, SelectAllMarks DEF HasBest
    <3>3. CASE RxNotification(n)
      BY <3>3 DEF RxNotification
    <3> QED BY <3>1, <3>2, <3>3
  <2> QED BY <2>1, <2>2
<1> QED BY <1>1, TypeCorrect, PTL DEF Spec, BestLostOnlyByPurge

-----------------------------------------------------------------------------
(***************************************************************************)
(* With tidy peers and attribute lists that tell the sources apart, the    *)
(* table is what the sources have said: RibFaithful and PurgeClears.       *)
(*                                                                         *)
(* The invariant is strengthened by Owned: an entry's list is one that its *)
(* source may send.  It is what makes the copy of add_path harmless: an    *)
(* entry with an equal list has the same source.                           *)
(***************************************************************************)

\* The entries of one prefix, and what one source says of it.

NoneOf(s, n) == \A i \in 1..Len(s) : s[i].source # n

OneOf(s, v, n) ==
  \E i \in 1..Len(s) :
    /\ s[i].source = n /\ s[i].attrs.attr = v
    /\ \A j \in 1..Len(s) : s[j].source = n => j = i

Holds(s, v, n) == IF v = None THEN NoneOf(s, n) ELSE OneOf(s, v, n)

OwnedSeq(s) == \A i \in 1..Len(s) : s[i].attrs.attr \in AttrOf[s[i].source]

\* Holding a route, and owning the lists, is a matter of the entries and not of the marks.
LEMMA HoldsSame ==
  ASSUME NEW s, NEW t, SameEntries(s, t)
  PROVE  /\ \A v, x : Holds(s, v, x) => Holds(t, v, x)
         /\ OwnedSeq(s) => OwnedSeq(t)
<1>1. \A v, x : NoneOf(s, x) => NoneOf(t, x)
  BY DEF NoneOf, SameEntries
<1>2. \A v, x : OneOf(s, v, x) => OneOf(t, v, x)
  BY DEF OneOf, SameEntries
<1>3. OwnedSeq(s) => OwnedSeq(t)
  BY DEF OwnedSeq, SameEntries
<1> QED BY <1>1, <1>2, <1>3 DEF Holds

\* add_path replaces the entry of source n.
LEMMA HoldsReplaced ==
  ASSUME NEW s \in Seq(Path), NEW t \in Seq(Path), NEW a \in Attrs, NEW n,
         Replaced(s, t, a, n), NEW u, Holds(s, u, n)
  PROVE  /\ Holds(t, a.attr, n)
         /\ \A v, x : x # n /\ Holds(s, v, x) => Holds(t, v, x)
         /\ OwnedSeq(s) /\ a.attr \in AttrOf[n] => OwnedSeq(t)
<1>1. PICK k \in 1..Len(s) :
        /\ s[k].source = n
        /\ Len(t) = Len(s)
        /\ t[k].source = n /\ t[k].attrs = a
        /\ \A i \in (1..Len(s)) \ {k} : t[i] = s[i]
  BY DEF Replaced
<1>2. \A j \in 1..Len(s) : s[j].source = n => j = k
  BY <1>1 DEF Holds, NoneOf, OneOf
<1>3. \A j \in 1..Len(t) : t[j].source = s[j].source
  BY <1>1
<1>4. OneOf(t, a.attr, n)
  BY <1>1, <1>2, <1>3 DEF OneOf
<1>5. a.attr # None
  BY DEF Attrs
<1>6. ASSUME NEW v, NEW x, x # n, Holds(s, v, x) PROVE Holds(t, v, x)
  <2>1. CASE v = None
    BY <1>1, <1>3, <1>6, <2>1 DEF Holds, NoneOf
  <2>2. CASE v # None
    <3>1. PICK i \in 1..Len(s) : /\ s[i].source = x /\ s[i].attrs.attr = v
                                 /\ \A j \in 1..Len(s) : s[j].source = x => j = i
      BY <1>6, <2>2 DEF Holds, OneOf
    <3>2. i # k /\ t[i] = s[i]
      BY <1>1, <1>6, <3>1
    <3> QED BY <1>1, <1>3, <2>2, <3>1, <3>2 DEF Holds, OneOf
  <2> QED BY <2>1, <2>2
<1>7. OwnedSeq(s) /\ a.attr \in AttrOf[n] => OwnedSeq(t)
  BY <1>1 DEF OwnedSeq
<1> QED BY <1>4, <1>5, <1>6, <1>7 DEF Holds

\* add_path appends an entry of source n, where there was none.
LEMMA HoldsAppended ==
  ASSUME NEW s \in Seq(Path), NEW t \in Seq(Path), NEW a \in Attrs, NEW n,
         NoneOf(s, n), Len(t) = Len(s) + 1, \A i \in 1..Len(s) : t[i] = s[i],
         t[Len(s) + 1].source = n, t[Len(s) + 1].attrs.attr = a.attr
  PROVE  /\ Holds(t, a.attr, n)
         /\ \A v, x : x # n /\ Holds(s, v, x) => Holds(t, v, x)
         /\ OwnedSeq(s) /\ a.attr \in AttrOf[n] => OwnedSeq(t)
<1> DEFINE L == Len(s) + 1
<1>1. /\ L \in 1..Len(t)
      /\ \A i \in 1..Len(t) : i = L \/ i \in 1..Len(s)
      /\ \A i \in 1..Len(s) : i \in 1..Len(t) /\ i # L
  OBVIOUS
<1>2. OneOf(t, a.attr, n)
  BY <1>1 DEF OneOf, NoneOf
<1>3. a.attr # None
  BY DEF Attrs
<1>4. ASSUME NEW v, NEW x, x # n, Holds(s, v, x) PROVE Holds(t, v, x)
  <2>1. CASE v = None
    BY <1>1, <1>4, <2>1 DEF Holds, NoneOf
  <2>2. CASE v # None
    <3>1. PICK i \in 1..Len(s) : /\ s[i].source = x /\ s[i].attrs.attr = v
                                 /\ \A j \in 1..Len(s) : s[j].source = x => j = i
      BY <1>4, <2>2 DEF Holds, OneOf
    <3>2. i \in 1..Len(t) /\ t[i].source = x /\ t[i].attrs.attr = v
      BY <1>1, <3>1
    <3>3. \A j \in 1..Len(t) : t[j].source = x => j = i
      BY <1>1, <1>4, <3>1
    <3> QED BY <2>2, <3>2, <3>3 DEF Holds, OneOf
  <2> QED BY <2>1, <2>2
<1>5. OwnedSeq(s) /\ a.attr \in AttrOf[n] => OwnedSeq(t)
  BY <1>1 DEF OwnedSeq
<1> QED BY <1>2, <1>3, <1>4, <1>5 DEF Holds

\* del_path erases the entry of source n.
LEMMA HoldsErased ==
  ASSUME NEW s \in Seq(Path), NEW t \in Seq(Path), NEW n, NEW k \in 1..Len(s),
         Erased(s, t, k), s[k].source = n, NEW u, Holds(s, u, n)
  PROVE  /\ Holds(t, None, n)
         /\ \A v, x : x # n /\ Holds(s, v, x) => Holds(t, v, x)
         /\ OwnedSeq(s) => OwnedSeq(t)
<1>1. /\ Len(s) \in Nat /\ Len(t) = Len(s) - 1
      /\ \A i \in 1..(k-1) : t[i] = s[i]
      /\ \A i \in k..Len(t) : t[i] = s[i+1]
  BY DEF Erased
<1> DEFINE from(i) == IF i < k THEN i ELSE i + 1
<1>2. \A i \in 1..Len(t) : from(i) \in 1..Len(s) /\ from(i) # k /\ t[i] = s[from(i)]
  BY <1>1
<1>3. \A i, j \in 1..Len(t) : from(i) = from(j) => i = j
  BY <1>1
<1>4. \A j \in (1..Len(s)) \ {k} : \E i \in 1..Len(t) : from(i) = j
  <2> TAKE j \in (1..Len(s)) \ {k}
  <2>1. CASE j < k
    <3>1. j \in 1..Len(t) /\ from(j) = j
      BY <1>1, <2>1
    <3> QED BY <3>1
  <2>2. CASE ~(j < k)
    <3>1. j - 1 \in 1..Len(t) /\ from(j - 1) = j
      BY <1>1, <2>2
    <3> QED BY <3>1
  <2> QED BY <2>1, <2>2
<1>5. \A j \in 1..Len(s) : s[j].source = n => j = k
  BY DEF Holds, NoneOf, OneOf
<1> HIDE DEF from
<1>6. NoneOf(t, n)
  BY <1>2, <1>5 DEF NoneOf
<1>7. ASSUME NEW v, NEW x, x # n, Holds(s, v, x) PROVE Holds(t, v, x)
  <2>1. CASE v = None
    BY <1>2, <1>7, <2>1 DEF Holds, NoneOf
  <2>2. CASE v # None
    <3>1. PICK j \in 1..Len(s) : /\ s[j].source = x /\ s[j].attrs.attr = v
                                 /\ \A y \in 1..Len(s) : s[y].source = x => y = j
      BY <1>7, <2>2 DEF Holds, OneOf
    <3>2. j # k
      BY <1>7, <3>1
    <3>3. PICK i \in 1..Len(t) : from(i) = j
      BY <1>4, <3>2
    <3>4. t[i].source = x /\ t[i].attrs.attr = v
      BY <1>2, <3>1, <3>3
    <3>5. \A y \in 1..Len(t) : t[y].source = x => y = i
      BY <1>2, <1>3, <3>1, <3>3
    <3> QED BY <2>2, <3>4, <3>5 DEF Holds, OneOf
  <2> QED BY <2>1, <2>2
<1>8. OwnedSeq(s) => OwnedSeq(t)
  BY <1>2 DEF OwnedSeq
<1> QED BY <1>6, <1>7, <1>8 DEF Holds

\* purge_peer keeps the entries of the others.
LEMMA HoldsKept ==
  ASSUME NEW s \in Seq(Path), NEW t, NEW g, NEW n, KeptFrom(s, t, g, Len(s), n)
  PROVE  /\ Holds(t, None, n)
         /\ \A v, x : x # n /\ Holds(s, v, x) => Holds(t, v, x)
         /\ OwnedSeq(s) => OwnedSeq(t)
<1>1. /\ Len(t) \in Nat
      /\ \A i \in 1..Len(t) : g[i] \in 1..Len(s) /\ t[i] = s[g[i]] /\ s[g[i]].source # n
      /\ \A i, j \in 1..Len(t) : i < j => g[i] < g[j]
      /\ \A j \in 1..Len(s) : s[j].source # n => \E i \in 1..Len(t) : g[i] = j
  BY DEF KeptFrom
<1>2. \A i, j \in 1..Len(t) : g[i] = g[j] => i = j
  <2> TAKE i, j \in 1..Len(t)
  <2>1. i < j \/ j < i \/ i = j
    BY <1>1
  <2>2. g[i] \in Nat /\ g[j] \in Nat
    BY <1>1
  <2> QED BY <1>1, <2>1, <2>2
<1>3. NoneOf(t, n)
  BY <1>1 DEF NoneOf
<1>4. ASSUME NEW v, NEW x, x # n, Holds(s, v, x) PROVE Holds(t, v, x)
  <2>1. CASE v = None
    BY <1>1, <1>4, <2>1 DEF Holds, NoneOf
  <2>2. CASE v # None
    <3>1. PICK j \in 1..Len(s) : /\ s[j].source = x /\ s[j].attrs.attr = v
                                 /\ \A y \in 1..Len(s) : s[y].source = x => y = j
      BY <1>4, <2>2 DEF Holds, OneOf
    <3>2. PICK i \in 1..Len(t) : g[i] = j
      BY <1>1, <1>4, <3>1
    <3>3. t[i].source = x /\ t[i].attrs.attr = v
      BY <1>1, <3>1, <3>2
    <3>4. \A y \in 1..Len(t) : t[y].source = x => y = i
      BY <1>1, <1>2, <3>1, <3>2
    <3> QED BY <2>2, <3>3, <3>4 DEF Holds, OneOf
  <2> QED BY <2>1, <2>2
<1>5. OwnedSeq(s) => OwnedSeq(t)
  BY <1>1 DEF OwnedSeq
<1> QED BY <1>3, <1>4, <1>5 DEF Holds

-----------------------------------------------------------------------------
\* The entries of prefix p, when a handler for source n is under way: v is
\* what n says of p, and S what all the sources said before.
AtPrefix(s, v, S, n, p) ==
  /\ OwnedSeq(s)
  /\ Holds(s, v, n)
  /\ \A x \in Source : x # n => Holds(s, S[x][p], x)

GoodFor(r, S, n) == \A p \in Prefix : AtPrefix(r.table[p], r.said[p], S, n, p)

\* So is what a prefix has to hold.
LEMMA AtPrefixSame ==
  ASSUME NEW s, NEW t, SameEntries(s, t), NEW v, NEW S, NEW n, NEW p,
         AtPrefix(s, v, S, n, p)
  PROVE  AtPrefix(t, v, S, n, p)
  BY HoldsSame DEF AtPrefix

\* add_path appends an entry of its caller: the entry it may copy has an
\* equal list, and only one source sends that list.
LEMMA AppendedIsOwn ==
  ASSUME OwnAttrs, NEW T \in Table, \A q \in Prefix : OwnedSeq(T[q]),
         NEW s, NEW t, NEW a \in Attrs, NEW n \in Source,
         a.attr \in AttrOf[n], Appended(T, s, t, a, n)
  PROVE  t[Len(s) + 1].source = n /\ t[Len(s) + 1].attrs.attr = a.attr
<1>1. CASE t[Len(s) + 1] = NewPath(a, n)
  BY <1>1 DEF NewPath
<1>2. CASE \E e \in Positions(T) :
             At(T, e).attrs.attr = a.attr /\ t[Len(s) + 1] = At(T, e)
  <2>1. PICK e \in Positions(T) :
          At(T, e).attrs.attr = a.attr /\ t[Len(s) + 1] = At(T, e)
    BY <1>2
  <2>2. e[1] \in Prefix /\ e[2] \in 1..Len(T[e[1]]) /\ At(T, e) \in Path
    BY PositionsType
  <2>3. At(T, e).attrs.attr \in AttrOf[At(T, e).source]
    BY <2>2 DEF OwnedSeq, At
  <2>4. At(T, e).source \in Source
    BY <2>2 DEF Path
  <2>5. At(T, e).source = n
    BY <2>1, <2>3, <2>4 DEF OwnAttrs
  <2> QED BY <2>1, <2>5
<1> QED BY <1>1, <1>2 DEF Appended

\* add_path makes the table hold the list that was announced, when no two sources send one list.
LEMMA AddGood ==
  ASSUME OwnAttrs, NEW T \in Table, NEW n \in Source, NEW S, NEW said0,
         \A q \in Prefix : AtPrefix(T[q], said0[q], S, n, q),
         NEW p \in Prefix, NEW a \in Attrs, a.attr \in AttrOf[n]
  PROVE  /\ AtPrefix(AddPath(T, p, a, n)[p], a.attr, S, n, p)
         /\ \A q \in Prefix \ {p} : AtPrefix(AddPath(T, p, a, n)[q], said0[q], S, n, q)
<1>1. PICK U \in Table :
        /\ SameRoutes(U, AddPath(T, p, a, n))
        /\ \A q \in Prefix \ {p} : U[q] = T[q]
        /\ Replaced(T[p], U[p], a, n) \/ Appended(T, T[p], U[p], a, n)
  BY AddPathRoutes
<1>2. T[p] \in Seq(Path) /\ U[p] \in Seq(Path)
  BY TableAt
<1>3. OwnedSeq(T[p]) /\ Holds(T[p], said0[p], n)
  BY DEF AtPrefix
<1>4. /\ Holds(U[p], a.attr, n)
      /\ \A v, x : x # n /\ Holds(T[p], v, x) => Holds(U[p], v, x)
      /\ OwnedSeq(U[p])
  <2>1. CASE Replaced(T[p], U[p], a, n)
    BY <1>2, <1>3, <2>1, HoldsReplaced
  <2>2. CASE Appended(T, T[p], U[p], a, n)
    <3>1. U[p][Len(T[p]) + 1].source = n /\ U[p][Len(T[p]) + 1].attrs.attr = a.attr
      <4>1. \A q \in Prefix : OwnedSeq(T[q])
        BY DEF AtPrefix
      <4>2. ASSUME NEW s, NEW t, Appended(T, s, t, a, n)
            PROVE  t[Len(s) + 1].source = n /\ t[Len(s) + 1].attrs.attr = a.attr
        BY <4>1, <4>2, AppendedIsOwn
      <4> QED BY <2>2, <4>2
    <3>2. /\ NoneOf(T[p], n)
          /\ Len(U[p]) = Len(T[p]) + 1
          /\ \A i \in 1..Len(T[p]) : U[p][i] = T[p][i]
      BY <2>2 DEF Appended, NoneOf
    <3> QED BY <1>2, <1>3, <3>1, <3>2, HoldsAppended, SMTT(30)
  <2> QED BY <1>1, <2>1, <2>2
<1>5. AtPrefix(U[p], a.attr, S, n, p)
  BY <1>4 DEF AtPrefix
<1>6. \A q \in Prefix \ {p} : AtPrefix(U[q], said0[q], S, n, q)
  BY <1>1
<1> QED BY <1>1, <1>5, <1>6, AtPrefixSame DEF SameRoutes

\* del_path finds the entry of its caller in the prefix itself.
LEMMA DelGood ==
  ASSUME NEW T \in Table, NEW n \in Source, NEW S, NEW said0,
         \A q \in Prefix : AtPrefix(T[q], said0[q], S, n, q),
         NEW p \in Prefix, said0[p] # None
  PROVE  /\ AtPrefix(DelPath(T, p, n)[p], None, S, n, p)
         /\ \A q \in Prefix \ {p} : AtPrefix(DelPath(T, p, n)[q], said0[q], S, n, q)
<1>1. Holds(T[p], said0[p], n) /\ OwnedSeq(T[p])
  BY DEF AtPrefix
<1>2. \E i \in 1..Len(T[p]) : T[p][i].source = n
  BY <1>1 DEF Holds, OneOf
<1>3. PICK U \in Table : \E q \in Prefix : \E k \in 1..Len(T[q]) :
        /\ SameRoutes(U, DelPath(T, p, n))
        /\ \A r \in Prefix \ {q} : U[r] = T[r]
        /\ T[q][k].source = n
        /\ Erased(T[q], U[q], k)
        /\ (\E i \in 1..Len(T[p]) : T[p][i].source = n) => q = p
  BY <1>2, DelPathRoutes
<1>4. PICK k \in 1..Len(T[p]) :
        /\ SameRoutes(U, DelPath(T, p, n))
        /\ \A r \in Prefix \ {p} : U[r] = T[r]
        /\ T[p][k].source = n
        /\ Erased(T[p], U[p], k)
  BY <1>2, <1>3
<1>5. T[p] \in Seq(Path) /\ U[p] \in Seq(Path)
  BY TableAt
<1>6. /\ Holds(U[p], None, n)
      /\ \A v, x : x # n /\ Holds(T[p], v, x) => Holds(U[p], v, x)
      /\ OwnedSeq(T[p]) => OwnedSeq(U[p])
  <2>1. \A s, t \in Seq(Path) : \A j \in 1..Len(s) :
          Erased(s, t, j) /\ s[j].source = n /\ Holds(s, said0[p], n) =>
            /\ Holds(t, None, n)
            /\ \A v, x : x # n /\ Holds(s, v, x) => Holds(t, v, x)
            /\ OwnedSeq(s) => OwnedSeq(t)
    BY HoldsErased, Zenon
  <2> QED BY <1>1, <1>4, <1>5, <2>1, Zenon
<1>7. AtPrefix(U[p], None, S, n, p)
  BY <1>1, <1>6 DEF AtPrefix
<1>8. \A q \in Prefix \ {p} : AtPrefix(U[q], said0[q], S, n, q)
  BY <1>4
<1> QED BY <1>4, <1>7, <1>8, AtPrefixSame DEF SameRoutes

\* A call its source may make: an announcement of its own, or a withdrawal
\* of what it has announced.
Tidy(r, c, n) == IF c.call = "del_path" THEN r.said[c.prefix] # None
                                        ELSE c.attrs.attr \in AttrOf[n]

\* Every call of a tidy handler makes the table what was said with it.
LEMMA CallGood ==
  ASSUME OwnAttrs, NEW r \in Heard, NEW c \in CallSet, NEW n \in Source, NEW S,
         GoodFor(r, S, n), Tidy(r, c, n)
  PROVE  GoodFor(Call(r, c, n), S, n)
<1> DEFINE T == r.table
           p == c.prefix
           w == r.said
<1>1. T \in Table /\ p \in Prefix /\ w \in Announced
  BY DEF Heard, CallSet
<1>2. \A q \in Prefix : AtPrefix(T[q], w[q], S, n, q)
  BY DEF GoodFor
<1>3. CASE c.call = "del_path"
  <2>1. w[p] # None
    BY <1>3 DEF Tidy
  <2>2. /\ Call(r, c, n).table = DelPath(T, p, n)
        /\ Call(r, c, n).said = [w EXCEPT ![p] = None]
    BY <1>3 DEF Call
  <2> HIDE DEF T, p, w
  <2>3. /\ AtPrefix(DelPath(T, p, n)[p], None, S, n, p)
        /\ \A q \in Prefix \ {p} : AtPrefix(DelPath(T, p, n)[q], w[q], S, n, q)
    BY <1>1, <1>2, <2>1, DelGood
  <2>4. /\ [w EXCEPT ![p] = None][p] = None
        /\ \A q \in Prefix \ {p} : [w EXCEPT ![p] = None][q] = w[q]
    BY <1>1 DEF Announced
  <2> QED BY <2>2, <2>3, <2>4 DEF GoodFor
<1>4. CASE c.call # "del_path"
  <2> DEFINE a == c.attrs
  <2>1. a \in Attrs /\ a.attr \in AttrOf[n]
    BY <1>4 DEF Tidy, CallSet
  <2>2. /\ Call(r, c, n).table = AddPath(T, p, a, n)
        /\ Call(r, c, n).said = [w EXCEPT ![p] = a.attr]
    BY <1>4 DEF Call
  <2> HIDE DEF T, p, w, a
  <2>3. /\ AtPrefix(AddPath(T, p, a, n)[p], a.attr, S, n, p)
        /\ \A q \in Prefix \ {p} : AtPrefix(AddPath(T, p, a, n)[q], w[q], S, n, q)
    BY <1>1, <1>2, <2>1, AddGood
  <2>4. /\ [w EXCEPT ![p] = a.attr][p] = a.attr
        /\ \A q \in Prefix \ {p} : [w EXCEPT ![p] = a.attr][q] = w[q]
    BY <1>1 DEF Announced
  <2> QED BY <2>2, <2>3, <2>4 DEF GoodFor
<1> QED BY <1>3, <1>4

-----------------------------------------------------------------------------
\* The calls of one handler: a withdrawal is of a prefix the source has
\* announced, and no call before it is about that prefix.
TidyCalls(cs, w, n) ==
  \A i \in 1..Len(cs) :
    IF cs[i].call = "del_path"
      THEN w[cs[i].prefix] # None /\ \A j \in 1..(i-1) : cs[j].prefix # cs[i].prefix
      ELSE cs[i].attrs.attr \in AttrOf[n]

\* A call for one prefix says nothing of the others.
LEMMA CallSaid ==
  ASSUME NEW r \in Heard, NEW c \in CallSet, NEW n, NEW p \in Prefix, p # c.prefix
  PROVE  Call(r, c, n).said[p] = r.said[p]
<1>1. r.said \in Announced
  BY DEF Heard
<1> QED BY <1>1 DEF Call, Announced

\* So do all calls of a handler, one after the other.
LEMMA RunGood ==
  ASSUME OwnAttrs, NEW r \in Heard, NEW cs \in Seq(CallSet), NEW n \in Source, NEW S,
         GoodFor(r, S, n), TidyCalls(cs, r.said, n)
  PROVE  GoodFor(RunCalls(r, cs, n), S, n)
<1>0. PICK f : Steps(f, r, cs, n)
  BY RunCallsSteps
<1>1. /\ f[0] = r
      /\ \A i \in 1..Len(cs) : f[i] = Call(f[i-1], cs[i], n)
      /\ RunCalls(r, cs, n) = f[Len(cs)]
  BY <1>0 DEF Steps
<1> DEFINE Untouched(k) == \A p \in Prefix :
             (\A j \in 1..k : cs[j].prefix # p) => f[k].said[p] = r.said[p]
           Good(k) == f[k] \in Heard /\ GoodFor(f[k], S, n) /\ Untouched(k)
           G == {k \in 0..Len(cs) : Good(k)}
<1>2. 0 \in G
  BY <1>1
<1>3. ASSUME NEW i \in 1..Len(cs), i-1 \in G PROVE i \in G
  <2>1. f[i-1] \in Heard /\ GoodFor(f[i-1], S, n) /\ Untouched(i-1)
    BY <1>3
  <2> HIDE DEF G
  <2>2. cs[i] \in CallSet /\ cs[i].prefix \in Prefix
    BY DEF CallSet
  <2>3. f[i] = Call(f[i-1], cs[i], n)
    BY <1>1
  <2>4. Tidy(f[i-1], cs[i], n)
    BY <2>1, <2>2 DEF TidyCalls, Tidy
  <2>5. f[i] \in Heard
    BY <2>1, <2>2, <2>3, CallType
  <2>6. GoodFor(f[i], S, n)
    <3>1. GoodFor(Call(f[i-1], cs[i], n), S, n)
      BY <2>1, <2>2, <2>4, CallGood, Zenon
    <3> QED BY <2>3, <3>1, Zenon
  <2>7. Untouched(i)
    <3> SUFFICES ASSUME NEW p \in Prefix, \A j \in 1..i : cs[j].prefix # p
                 PROVE  f[i].said[p] = r.said[p]
      OBVIOUS
    <3>1. \A j \in 1..(i-1) : cs[j].prefix # p
      OBVIOUS
    <3>2. p # cs[i].prefix
      OBVIOUS
    <3>3. Call(f[i-1], cs[i], n).said[p] = f[i-1].said[p]
      BY <2>1, <2>2, <3>2, CallSaid
    <3> QED BY <2>1, <2>3, <3>1, <3>3
  <2> QED BY <2>5, <2>6, <2>7 DEF G
<1>4. \A i \in 0..Len(cs) : i \in G
  <2>1. Len(cs) \in Nat
    OBVIOUS
  <2> HIDE DEF G
  <2> QED BY <1>2, <1>3, <2>1, UpTo, Zenon
<1>5. Good(Len(cs))
  <2>1. Len(cs) \in 0..Len(cs)
    OBVIOUS
  <2> QED BY <1>4, <2>1
<1> QED BY <1>1, <1>5

\* The calls of an UPDATE of a tidy neighbour.
LEMMA UpdateTidy ==
  ASSUME NEW m \in Message, NEW js \in [1..Len(m.routes) -> Junk], NEW n \in Source,
         TidyFor(m, n), m.attr \in AttrOf[n]
  PROVE  TidyCalls(Calls(m, js), said[n], n)
<1> DEFINE w  == m.withdrawn
           rs == m.routes
           cs == Calls(m, js)
<1>1. /\ w \in Seq(Prefix) /\ rs \in Seq(Prefix) /\ m.attr \in Attr
      /\ Len(cs) = Len(w) + Len(rs)
      /\ \A i \in 1..Len(w) : cs[i] = DelCall(w[i])
      /\ \A i \in 1..Len(rs) : cs[Len(w) + i] = AddCall(rs[i], m.attr, js[i])
  BY CallsType, Zenon
<1>2. js \in [1..Len(rs) -> Junk]
  OBVIOUS
<1>3. /\ \A i, j \in 1..Len(w) : w[i] = w[j] => i = j
      /\ \A i \in 1..Len(w) : said[n][w[i]] # None
  BY <1>1 DEF TidyFor, IsInjective
<1> HIDE DEF w, rs, cs
<1>4. Len(w) \in Nat /\ Len(rs) \in Nat
  BY <1>1
<1>5. SUFFICES ASSUME NEW i \in 1..Len(cs)
               PROVE  IF cs[i].call = "del_path"
                        THEN /\ said[n][cs[i].prefix] # None
                             /\ \A j \in 1..(i-1) : cs[j].prefix # cs[i].prefix
                        ELSE cs[i].attrs.attr \in AttrOf[n]
  BY DEF TidyCalls, cs
<1>6. CASE i \in 1..Len(w)
  <2>1. \A j \in 1..i : j \in 1..Len(w) /\ cs[j] = DelCall(w[j])
    BY <1>1, <1>4, <1>6
  <2>0. \A q : DelCall(q).call = "del_path" /\ DelCall(q).prefix = q
    BY DEF DelCall
  <2>2. \A j \in 1..i : cs[j].call = "del_path" /\ cs[j].prefix = w[j]
    BY <2>0, <2>1
  <2>3. i \in 1..i /\ \A j \in 1..(i-1) : j \in 1..i /\ j # i
    BY <1>6
  <2> QED BY <1>3, <1>6, <2>1, <2>2, <2>3
<1>7. CASE ~(i \in 1..Len(w))
  <2>1. i - Len(w) \in 1..Len(rs) /\ i = Len(w) + (i - Len(w))
    BY <1>1, <1>4, <1>7
  <2>2. cs[i] = AddCall(rs[i - Len(w)], m.attr, js[i - Len(w)])
    BY <1>1, <2>1
  <2>3. cs[i].call = "add_path" /\ cs[i].attrs.attr = m.attr
    BY <2>2 DEF AddCall
  <2> QED BY <2>3
<1> QED BY <1>6, <1>7

-----------------------------------------------------------------------------
\* The inductive invariant.

Says(T, S) == \A p \in Prefix : /\ OwnedSeq(T[p])
                                /\ \A x \in Source : Holds(T[p], S[x][p], x)

Faithful == TypeOK /\ Says(table, said)

\* What one source says and what the others say make up what all say.
LEMMA GoodIsSays ==
  ASSUME NEW T \in Table, NEW S \in [Source -> Announced], NEW n \in Source
  PROVE  /\ Says(T, S) => GoodFor([table |-> T, said |-> S[n]], S, n)
         /\ \A r \in Heard : GoodFor(r, S, n) => Says(r.table, [S EXCEPT ![n] = r.said])
<1>1. Says(T, S) => GoodFor([table |-> T, said |-> S[n]], S, n)
  BY DEF Says, GoodFor, AtPrefix
<1>2. ASSUME NEW r \in Heard, GoodFor(r, S, n)
      PROVE  Says(r.table, [S EXCEPT ![n] = r.said])
  <2>1. /\ [S EXCEPT ![n] = r.said][n] = r.said
        /\ \A x \in Source \ {n} : [S EXCEPT ![n] = r.said][x] = S[x]
    OBVIOUS
  <2> QED BY <1>2, <2>1 DEF Says, GoodFor, AtPrefix
<1> QED BY <1>1, <1>2

\* A selection leaves the table what was said.
LEMMA SaysSame ==
  ASSUME NEW T, NEW U, SameRoutes(T, U), NEW S, Says(T, S)
  PROVE  Says(U, S)
  BY HoldsSame DEF SameRoutes, Says

\* The constructor makes a table that holds what it originates.
LEMMA InitFaithful == OwnAttrs /\ Init => Faithful
<1> SUFFICES ASSUME OwnAttrs, Init PROVE Faithful
  OBVIOUS
<1>1. PICK js \in [1..Len(Originate) -> Junk] :
        LET cs == [i \in 1..Len(Originate) |->
                     AddCall(Originate[i].prefix, Originate[i].attr, js[i])]
            r  == RunCalls(EmptyHeard, cs, Local)
        IN /\ r \in Heard
           /\ table = r.table
           /\ said = [n \in Source |-> IF n = Local THEN r.said ELSE Nothing]
  BY InitCalls, Zenon
<1> DEFINE cs == [i \in 1..Len(Originate) |->
                    AddCall(Originate[i].prefix, Originate[i].attr, js[i])]
           r  == RunCalls(EmptyHeard, cs, Local)
           S  == [n \in Source |-> Nothing]
<1>2. /\ r \in Heard /\ table = r.table
      /\ said = [n \in Source |-> IF n = Local THEN r.said ELSE Nothing]
  BY <1>1, Zenon
<1>3. /\ cs \in Seq(CallSet) /\ Len(cs) = Len(Originate)
      /\ \A i \in 1..Len(Originate) :
           /\ cs[i] = AddCall(Originate[i].prefix, Originate[i].attr, js[i])
           /\ Originate[i].attr \in AttrOf[Local]
  BY OriginateCalls, Zenon
<1> HIDE DEF cs
<1>4. TidyCalls(cs, EmptyHeard.said, Local)
  <2>0. \A q, a, j : AddCall(q, a, j).call = "add_path" /\ AddCall(q, a, j).attrs.attr = a
    BY DEF AddCall
  <2>1. \A i \in 1..Len(cs) : cs[i].call = "add_path" /\ cs[i].attrs.attr \in AttrOf[Local]
    BY <1>3, <2>0
  <2> QED BY <2>1 DEF TidyCalls
<1>5. Local \in Source
  BY DEF Source
<1>6. \A p \in Prefix : AtPrefix(<<>>, None, S, Local, p)
  <2>1. OwnedSeq(<<>>) /\ \A x : Holds(<<>>, None, x)
    BY DEF OwnedSeq, Holds, NoneOf
  <2>2. \A x \in Source, p \in Prefix : S[x][p] = None
    BY DEF Nothing
  <2> HIDE DEF S
  <2> QED BY <2>1, <2>2 DEF AtPrefix
<1>7. GoodFor(EmptyHeard, S, Local)
  <2> HIDE DEF S
  <2> QED BY <1>6 DEF GoodFor, EmptyHeard, Nothing
<1>8. GoodFor(r, S, Local)
  <2> HIDE DEF S
  <2> QED BY <1>3, <1>4, <1>5, <1>7, EmptyHeardType, RunGood
<1> HIDE DEF r
<1>9. S \in [Source -> Announced] /\ said = [S EXCEPT ![Local] = r.said]
  BY <1>2, <1>5 DEF Announced, Nothing
<1>10. Says(table, said)
  <2> HIDE DEF S
  <2>1. EmptyHeard.table \in Table
    BY EmptyHeardType DEF Heard
  <2>2. Says(r.table, [S EXCEPT ![Local] = r.said])
    BY <1>2, <1>5, <1>8, <1>9, <2>1, GoodIsSays
  <2> QED BY <1>2, <1>9, <2>2, Zenon
<1> QED BY <1>10, InitTypeOK DEF Faithful

\* An UPDATE of a tidy neighbour.
LEMMA UpdateFaithful ==
  ASSUME OwnAttrs, TidyPeers, Faithful, NEW n \in Peer, NEW m \in Message,
         NEW js \in [1..Len(m.routes) -> Junk], RxUpdate(n, m, js)
  PROVE  Says(table', said')
<1> DEFINE r0 == [table |-> table, said |-> said[n]]
           r  == RunCalls(r0, Calls(m, js), n)
<1>1. /\ r0 \in Heard /\ r \in Heard
      /\ SameRoutes(r.table, table')
      /\ said' = [said EXCEPT ![n] = r.said]
  BY UpdateHeard, Zenon DEF Faithful
<1>2. n \in Source /\ table \in Table /\ said \in [Source -> Announced]
  BY DEF Faithful, TypeOK, Source, Announced
<1>3. TidyCalls(Calls(m, js), said[n], n)
  <2>1. TidyFor(m, n) /\ m.attr \in AttrOf[n]
    BY DEF RxUpdate
  <2> QED BY <1>2, <2>1, UpdateTidy, Zenon
<1>4. r0.said = said[n]
  OBVIOUS
<1>5. GoodFor(r0, said, n)
  BY <1>2, GoodIsSays DEF Faithful
<1>6. Calls(m, js) \in Seq(CallSet)
  BY CallsType, Zenon
<1>7. GoodFor(r, said, n)
  <2> HIDE DEF r0
  <2> QED BY <1>1, <1>2, <1>3, <1>4, <1>5, <1>6, RunGood
<1> HIDE DEF r, r0
<1>8. Says(r.table, said')
  BY <1>1, <1>2, <1>7, GoodIsSays
<1> QED BY <1>1, <1>8, SaysSame

\* A purge.
LEMMA PurgeFaithful ==
  ASSUME Faithful, NEW n \in Peer
  PROVE  Says(PurgePeer(table, n), [said EXCEPT ![n] = Nothing])
<1> DEFINE U == PurgePeer(table, n)
           S == [said EXCEPT ![n] = Nothing]
<1>1. n \in Source /\ table \in Table /\ said \in [Source -> Announced]
  BY DEF Faithful, TypeOK, Source, Announced
<1>2. /\ S[n] = Nothing
      /\ \A x \in Source : x # n => S[x] = said[x]
  BY <1>1
<1> SUFFICES ASSUME NEW p \in Prefix
             PROVE  OwnedSeq(U[p]) /\ \A x \in Source : Holds(U[p], S[x][p], x)
  BY DEF Says
<1>3. PICK g : KeptFrom(table[p], U[p], g, Len(table[p]), n)
  BY <1>1, PurgePeerRoutes
<1> HIDE DEF U, S
<1>4. OwnedSeq(table[p]) /\ \A x \in Source : Holds(table[p], said[x][p], x)
  BY DEF Faithful, Says
<1>5. table[p] \in Seq(Path)
  BY <1>1, TableAt
<1>6. /\ Holds(U[p], None, n)
      /\ \A v, x : x # n /\ Holds(table[p], v, x) => Holds(U[p], v, x)
      /\ OwnedSeq(U[p])
  BY <1>3, <1>4, <1>5, HoldsKept
<1>7. Nothing[p] = None
  BY DEF Nothing
<1> QED BY <1>2, <1>4, <1>6, <1>7

\* With tidy peers and own lists, every handler leaves the table what was said.
LEMMA NextFaithful == OwnAttrs /\ TidyPeers /\ Faithful /\ [Next]_vars => Faithful'
<1> SUFFICES ASSUME OwnAttrs, TidyPeers, Faithful, [Next]_vars PROVE Faithful'
  OBVIOUS
<1>0. TypeOK'
  BY NextTypeOK DEF Faithful
<1>a. ASSUME UNCHANGED <<table, said>> PROVE Faithful'
  BY <1>0, <1>a DEF Faithful
<1>1. ASSUME NEW n \in Peer, PlaceConnection(n) PROVE Faithful'
  BY <1>1, <1>a DEF PlaceConnection
<1>2. ASSUME NEW n \in Peer, RxOpen(n) PROVE Faithful'
  BY <1>2, <1>a DEF RxOpen
<1>3. ASSUME NEW n \in Peer, RxKeepalive(n) PROVE Faithful'
  BY <1>3, <1>a DEF RxKeepalive
<1>4. ASSUME NEW n \in Peer, LoseSocket(n) PROVE Faithful'
  BY <1>4, <1>a DEF LoseSocket
<1>5. ASSUME NEW n \in Peer, UpdateFrom(n) PROVE Faithful'
  <2>1. PICK m \in Message : \E js \in [1..Len(m.routes) -> Junk] : RxUpdate(n, m, js)
    BY <1>5 DEF UpdateFrom
  <2>2. PICK js \in [1..Len(m.routes) -> Junk] : RxUpdate(n, m, js)
    BY <2>1
  <2>3. Says(table', said')
    BY <2>2, UpdateFaithful
  <2> QED BY <1>0, <2>3 DEF Faithful
<1>6. ASSUME NEW n \in Peer, RxNotification(n) PROVE Faithful'
  <2>1. table' = PurgePeer(table, n) /\ said' = [said EXCEPT ![n] = Nothing]
    BY <1>6 DEF RxNotification
  <2>2. Says(table', said')
    BY <2>1, PurgeFaithful
  <2> QED BY <1>0, <2>2 DEF Faithful
<1>7. ASSUME NEW k \in {1, 2}, TimerExpires(k) PROVE Faithful'
  BY <1>7, <1>a DEF TimerExpires
<1>8. ASSUME OnSendUpdates PROVE Faithful'
  BY <1>8, <1>a DEF OnSendUpdates
<1>9. CASE UNCHANGED vars
  BY <1>9, <1>a DEF vars
<1> QED BY <1>1, <1>2, <1>3, <1>4, <1>5, <1>6, <1>7, <1>8, <1>9 DEF Next

\* The invariant is the property the run checks, and more.
LEMMA FaithfulIsRibFaithful == Faithful => RibFaithful
<1> SUFFICES ASSUME Faithful, NEW n \in Source, NEW p \in Prefix
             PROVE  /\ said[n][p] = None => Mine(n, p) = {}
                    /\ said[n][p] # None => \E i \in 1..Len(table[p]) :
                         Mine(n, p) = {i} /\ table[p][i].attrs.attr = said[n][p]
  BY DEF RibFaithful
<1>1. Holds(table[p], said[n][p], n)
  BY DEF Faithful, Says
<1>2. ASSUME said[n][p] = None PROVE Mine(n, p) = {}
  BY <1>1, <1>2 DEF Holds, NoneOf, Mine
<1>3. ASSUME said[n][p] # None
      PROVE  \E i \in 1..Len(table[p]) :
               Mine(n, p) = {i} /\ table[p][i].attrs.attr = said[n][p]
  <2>1. PICK i \in 1..Len(table[p]) :
          /\ table[p][i].source = n /\ table[p][i].attrs.attr = said[n][p]
          /\ \A j \in 1..Len(table[p]) : table[p][j].source = n => j = i
    BY <1>1, <1>3 DEF Holds, OneOf
  <2>2. Mine(n, p) = {i}
    BY <2>1 DEF Mine
  <2> QED BY <2>1, <2>2
<1> QED BY <1>2, <1>3

\* Where the peers withdraw only what the table has taken from them, and no
\* two of them send one attribute list, the table is at all times exactly
\* what they have said (add_path, del_path and purge_peer together); without
\* either assumption it is not.
THEOREM TableIsWhatWasSaid ==
  ASSUME OwnAttrs, TidyPeers
  PROVE  Spec => []RibFaithful
<1>1. Init => Faithful
  BY InitFaithful
<1>2. Faithful /\ [Next]_vars => Faithful'
  BY NextFaithful
<1>3. Faithful => RibFaithful
  BY FaithfulIsRibFaithful
<1> QED BY <1>1, <1>2, <1>3, PTL DEF Spec

\* Under the same assumptions the NOTIFICATION of a peer does clear what it
\* alone announced: with untidy peers, or two that send one list, it may
\* not, as the run that violates PurgeClears shows.
THEOREM TidyPurgeClears ==
  ASSUME OwnAttrs, TidyPeers
  PROVE  Spec => PurgeClears
<1> DEFINE Cleared == \A n \in Peer : RxNotification(n) =>
                        \A p \in Prefix : (\A m \in Source \ {n} : said[m][p] = None)
                                            => table'[p] = <<>>
<1>1. Faithful /\ [Next]_vars => [Cleared]_vars
  <2> SUFFICES ASSUME Faithful, NEW n \in Peer, RxNotification(n), NEW p \in Prefix,
                      \A m \in Source \ {n} : said[m][p] = None
               PROVE  table'[p] = <<>>
    BY Zenon
  <2> DEFINE U == PurgePeer(table, n)
  <2>1. n \in Source /\ table \in Table /\ said \in [Source -> Announced]
    BY DEF Faithful, TypeOK, Source, Announced
  <2>2. U \in Table /\ Says(U, [said EXCEPT ![n] = Nothing])
    BY <2>1, PurgeFaithful, PurgePeerRoutes
  <2>3. \A x \in Source : [said EXCEPT ![n] = Nothing][x][p] = None
    BY <2>1 DEF Nothing
  <2>4. table' = U
    BY DEF RxNotification
  <2> HIDE DEF U
  <2>5. \A x \in Source : NoneOf(U[p], x)
    BY <2>2, <2>3 DEF Says, Holds
  <2>6. \A i \in 1..Len(U[p]) : U[p][i].source \in Source
    BY <2>2, TableAt DEF Path
  <2>7. Len(U[p]) = 0
    BY <2>2, <2>5, <2>6, TableAt DEF NoneOf
  <2> QED BY <2>2, <2>4, <2>7, TableAt
<1>2. Init => Faithful
  BY InitFaithful
<1>3. Faithful /\ [Next]_vars => Faithful'
  BY NextFaithful
<1> QED BY <1>1, <1>2, <1>3, PTL DEF Spec, PurgeClears
=============================================================================
