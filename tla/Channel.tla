------------------------------- MODULE Channel -------------------------------
(***************************************************************************)
(* What a session promises about the messages of its peer: they are        *)
(* handled in the order they were sent, each of them once and as it was    *)
(* sent, until the connection is spoilt; of what is handled afterwards     *)
(* nothing is promised.                                                    *)
(***************************************************************************)
EXTENDS Sequences, SequencesExt

CONSTANTS Message

VARIABLES sent, handled, spoilt

vars == <<sent, handled, spoilt>>

Init == sent = <<>> /\ handled = <<>> /\ spoilt = FALSE

Send == /\ \E m \in Message : sent' = Append(sent, m)
        /\ UNCHANGED <<handled, spoilt>>

Handle == /\ ~spoilt
          /\ Len(handled) < Len(sent)
          /\ handled' = Append(handled, sent[Len(handled) + 1])
          /\ UNCHANGED <<sent, spoilt>>

Spoil == spoilt' = TRUE /\ UNCHANGED <<sent, handled>>

HandleAnything == spoilt /\ IsStrictPrefix(handled, handled') /\ UNCHANGED <<sent, spoilt>>

Next == Send \/ Handle \/ Spoil \/ HandleAnything

Spec == Init /\ [][Next]_vars /\ WF_vars(Handle)
=============================================================================
