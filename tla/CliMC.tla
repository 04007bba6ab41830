-------------------------------- MODULE CliMC --------------------------------
(***************************************************************************)
(* Values of the constants of Cli for TLC: every kind of line, and         *)
(* responses that fit, that need two receives and that need more than the  *)
(* socket holds.                                                           *)
(***************************************************************************)
EXTENDS Cli

L(starts, whole) == [starts |-> starts, whole |-> whole]

MCLine == {L({}, FALSE), L(CONTENT, FALSE), L({"SHOW_TABLE"}, FALSE), L({"SHOW_NEI"}, TRUE),
           L({"SHOW_TABLE"}, TRUE), L({"SHOW_VER"}, FALSE)}

MCMaxLines == <<4, 1>>

MCSize == [SHOW_VER |-> {1}, SHOW_NEI |-> {2}, SHOW_TABLE |-> {1, 3, 5}]
=============================================================================
