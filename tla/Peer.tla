-------------------------------- MODULE Peer --------------------------------
(***************************************************************************)
(* What the table can see of a session: its state, and whether its socket  *)
(* answers remote_endpoint().  Module Rib takes its sessions from these    *)
(* moves (PlaceConnection, RxOpen, RxKeepalive, LoseSocket and             *)
(* RxNotification there), module Session implements them.                  *)
(***************************************************************************)
VARIABLES state, alive

vars == <<state, alive>>

Init == state = "IDLE" /\ alive = FALSE

PlaceConnection == state' = "OPENSENT" /\ alive' = TRUE

\* What the handler of one message, or the loss of the connection, may make
\* of a session: only one that answers gets on.
After(p) ==
  {p, [p EXCEPT !.alive = FALSE]}
  \cup {q \in {[p EXCEPT !.state = "OPENCONFIRM"]} : p.alive}
  \cup {q \in {[p EXCEPT !.state = "ESTABLISHED"]} :
          p.alive /\ p.state \in {"OPENSENT", "OPENCONFIRM"}}

AfterAll(ps) == UNION {After(p) : p \in ps}

\* A receive has any number of messages; after three moves a session is
\* everywhere it can get to.
Move ==
  [state |-> state', alive |-> alive'] \in
    AfterAll(AfterAll(AfterAll({[state |-> state, alive |-> alive]})))

Next == PlaceConnection \/ Move

Spec == Init /\ [][Next]_vars
=============================================================================
