------------------------------- MODULE RibMC -------------------------------
(***************************************************************************)
(* Values of the constants of Rib for TLC: two prefixes and the neighbours *)
(* 1 and 2.  The "own" lists are one list per source, or two for neighbour *)
(* 1; the "shared" lists are the same for both neighbours.                 *)
(***************************************************************************)
EXTENDS Rib

CONSTANTS local, one, better, two, ours, none

MCAttr == {local, one, better, two, ours}

MCLocalPref == (better :> 200) @@ [a \in MCAttr |-> none]
MCMed       == (one :> 5) @@ (two :> 7) @@ [a \in MCAttr |-> none]

PlainJunk == {[flags |-> FALSE, origin |-> 0, wide |-> FALSE]}

OwnAttrOf    == (local :> {local}) @@ (1 :> {one, better}) @@ (2 :> {two})
SharedAttrOf == (local :> {local}) @@ (1 :> {one, ours}) @@ (2 :> {one})

Announce(r, as) == {[withdrawn |-> <<>>, routes |-> r, attr |-> a] : a \in as}
Withdraw(w)  == {[withdrawn |-> w, routes |-> <<>>, attr |-> a] : a \in {one, two}}

\* Announcements of one and of both prefixes, withdrawals in either order,
\* one UPDATE that does both, and the empty one.
OwnMessage ==
  Announce(<<1>>, {one, better, two}) \cup Announce(<<2, 1>>, {one, two})
  \cup Withdraw(<<1>>) \cup Withdraw(<<2>>) \cup Withdraw(<<1, 2>>)
  \cup {[withdrawn |-> <<1>>, routes |-> <<2>>, attr |-> a] : a \in {better, two}}
  \cup Withdraw(<<>>)

SharedMessage ==
  Announce(<<1>>, {one, ours}) \cup Announce(<<2>>, {one})
  \cup Withdraw(<<1>>) \cup Withdraw(<<2>>)

\* One list per neighbour; neighbour 2 moves from one prefix to the other.
FewAttrOf  == (local :> {local}) @@ (1 :> {one}) @@ (2 :> {two})
FewMessage ==
  {[withdrawn |-> <<>>,  routes |-> <<1>>, attr |-> one],
   [withdrawn |-> <<1>>, routes |-> <<>>,  attr |-> one],
   [withdrawn |-> <<1>>, routes |-> <<2>>, attr |-> two],
   [withdrawn |-> <<2>>, routes |-> <<>>,  attr |-> two]}

NoRoutes  == <<>>
OneRoute  == <<[prefix |-> 2, attr |-> local]>>
=============================================================================
