----------------------------- MODULE SessionMC -----------------------------
(***************************************************************************)
(* Values of the constants of Session for TLC: receives that get one or    *)
(* two messages, among them an OPEN and the KEEPALIVE after it at once, a  *)
(* message after a NOTIFICATION, and a wrong marker after a good message.  *)
(***************************************************************************)
EXTENDS Session

MCOpen(hold)  == [type |-> "open", rightAs |-> TRUE, hold |-> hold]
MCWrongAs     == [type |-> "open", rightAs |-> FALSE, hold |-> 9]
MCOther(type) == [type |-> type]

MCChunk == {<<MCOpen(9)>>, <<MCOpen(2), MCOther("keepalive")>>,
            <<MCWrongAs, MCOther("keepalive")>>,
            <<MCOther("keepalive")>>,
            <<MCOther("notification"), MCOther("update")>>,
            <<MCOther("update"), MCOther("garbage")>>}
=============================================================================
