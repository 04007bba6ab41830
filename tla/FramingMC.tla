----------------------------- MODULE FramingMC -----------------------------
(***************************************************************************)
(* Values of the constants of Framing for TLC: messages without content,   *)
(* with a zero and with a small number where a cut may leave a length.     *)
(***************************************************************************)
EXTENDS Framing

MCContent == {<<>>, <<0>>, <<1, 2>>}
=============================================================================
